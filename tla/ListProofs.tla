------------------------------- MODULE ListProofs -------------------------------
(***************************************************************************)
(* Induction over numbers and lists, and the laws of Vec::retain.          *)
(***************************************************************************)
EXTENDS Lists, SequenceTheorems, WellFoundedInduction, NaturalsInduction, TLAPS

-----------------------------------------------------------------------------
(* Induction, and a loop over a sequence.                                    *)

\* a set of natural numbers that holds 0 and the successor of each of its members
LEMMA Inductive ==
  ASSUME NEW S, 0 \in S, \A n \in Nat : n \in S => n + 1 \in S PROVE Nat \subseteq S
<1>. SUFFICES ASSUME Nat \ S # {} PROVE FALSE
  OBVIOUS
<1>. DEFINE T == Nat \ S
            R == OpToRel(<, Nat)
<1>1. IsWellFoundedOn(R, Nat)
  BY NatLessThanWellFounded
<1>2. \A x, y \in Nat : x < y => <<x, y>> \in R
  BY DEF OpToRel
<1>. HIDE DEF R
<1>3. PICK x \in T : \A y \in T : <<y, x>> \notin R
  <2>1. T \subseteq Nat /\ T # {}
    OBVIOUS
  <2>. HIDE DEF T
  <2>. QED  BY <1>1, <2>1, WFMin
<1>4. x \in Nat /\ x \notin S /\ x # 0
  OBVIOUS
<1>5. x - 1 \in Nat /\ x - 1 < x /\ (x - 1) + 1 = x
  BY <1>4
<1>6. <<x - 1, x>> \in R
  BY <1>2, <1>4, <1>5, Zenon
<1>7. x - 1 \in S
  BY <1>3, <1>5, <1>6, Zenon
<1>. QED  BY <1>4, <1>5, <1>7

\* a loop that takes n steps, the i-th from v to G[i][v]
LEMMA Iterated ==
  ASSUME NEW T, NEW base \in T, NEW n \in Nat, NEW G \in [1 .. n -> [T -> T]]
  PROVE  \E f \in [0 .. n -> T] : f[0] = base /\ \A i \in 1 .. n : f[i] = G[i][f[i - 1]]
<1>. DEFINE Runs(m, f) == f[0] = base /\ \A i \in 1 .. m : f[i] = G[i][f[i - 1]]
            S == {m \in Nat : m <= n => \E f \in [0 .. m -> T] : Runs(m, f)}
<1>1. 0 \in S
  <2>. DEFINE f == [i \in 0 .. 0 |-> base]
  <2>1. f \in [0 .. 0 -> T] /\ Runs(0, f)
    OBVIOUS
  <2>. QED  BY <2>1
<1>2. ASSUME NEW m \in Nat, m \in S PROVE m + 1 \in S
  <2>. SUFFICES ASSUME m + 1 <= n PROVE \E f \in [0 .. m + 1 -> T] : Runs(m + 1, f)
    OBVIOUS
  <2>1. PICK f \in [0 .. m -> T] : Runs(m, f)
    BY <1>2
  <2>. DEFINE v == G[m + 1][f[m]]
              g == [i \in 0 .. m + 1 |-> IF i = m + 1 THEN v ELSE f[i]]
  <2>2. v \in T
    <3>1. G[m + 1] \in [T -> T] /\ f[m] \in T
      OBVIOUS
    <3>. QED  BY <3>1
  <2>. HIDE DEF v
  <2>3. g \in [0 .. m + 1 -> T]
    BY <2>2
  <2>4. g[0] = base /\ g[m + 1] = G[m + 1][g[m]]
    BY <2>1 DEF v
  <2>5. \A i \in 1 .. m : g[i] = G[i][g[i - 1]]
    BY <2>1
  <2>. HIDE DEF g
  <2>6. Runs(m + 1, g)
    BY <2>4, <2>5
  <2>. QED  BY <2>3, <2>6
<1>. HIDE DEF S
<1>3. Nat \subseteq S
  BY <1>1, <1>2, Inductive
<1>4. n \in S
  BY <1>3
<1>. QED  BY <1>4 DEF S

-----------------------------------------------------------------------------
(* Vec::retain.                                                              *)

LEMMA RetainSteps ==
  ASSUME NEW T, NEW s \in Seq(T), NEW kept
  PROVE  \E h : /\ Retain(s, kept) = h[Len(s)] /\ h[0] = << >>
                /\ \A i \in 1 .. Len(s) :
                     h[i] = IF s[i] \in kept THEN Append(h[i - 1], s[i]) ELSE h[i - 1]
<1>. DEFINE n == Len(s)
            G == [i \in 1 .. n |-> [x \in Seq(T) |-> IF s[i] \in kept THEN Append(x, s[i]) ELSE x]]
            Is(f) == f = [i \in 0 .. n |-> IF i = 0 THEN << >>
                                           ELSE IF s[i] \in kept THEN Append(f[i - 1], s[i])
                                           ELSE f[i - 1]]
<1>1. G \in [1 .. n -> [Seq(T) -> Seq(T)]] /\ << >> \in Seq(T) /\ n \in Nat
  OBVIOUS
<1>2. PICK f \in [0 .. n -> Seq(T)] :
        f[0] = << >> /\ \A i \in 1 .. n : f[i] = G[i][f[i - 1]]
  <2>. DEFINE Q == Seq(T)
              base == << >>
  <2>1. G \in [1 .. n -> [Q -> Q]] /\ base \in Q /\ n \in Nat
    BY <1>1
  <2>2. \E f \in [0 .. n -> Q] : f[0] = base /\ \A i \in 1 .. n : f[i] = G[i][f[i - 1]]
    <3>. HIDE DEF G, n, Q, base, Is
    <3>. QED  BY <2>1, Iterated
  <2>. QED  BY <2>2, Zenon
<1>3. ASSUME NEW i \in 1 .. n
      PROVE  f[i] = IF s[i] \in kept THEN Append(f[i - 1], s[i]) ELSE f[i - 1]
  <2>1. i - 1 \in 0 .. n
    OBVIOUS
  <2>2. f[i - 1] \in Seq(T)
    BY <2>1
  <2>3. G[i][f[i - 1]] = IF s[i] \in kept THEN Append(f[i - 1], s[i]) ELSE f[i - 1]
    <3>1. G[i] = [x \in Seq(T) |-> IF s[i] \in kept THEN Append(x, s[i]) ELSE x]
      OBVIOUS
    <3>. HIDE DEF G
    <3>. QED  BY <2>2, <3>1
  <2>. HIDE DEF G
  <2>. QED  BY <1>2, <2>3
<1>. DEFINE Turn(g, i) == IF i = 0 THEN << >>
                          ELSE IF s[i] \in kept THEN Append(g[i - 1], s[i]) ELSE g[i - 1]
<1>4. Is(f)
  <2>1. f = [i \in 0 .. n |-> f[i]]
    OBVIOUS
  <2>2. \A i \in 0 .. n : f[i] = Turn(f, i)
    <3>. TAKE i \in 0 .. n
    <3>1. CASE i = 0
      BY <1>2, <3>1
    <3>2. CASE i # 0
      <4>1. i \in 1 .. n
        BY <3>2
      <4>. QED  BY <1>3, <3>2, <4>1
    <3>. QED  BY <3>1, <3>2
  <2>3. [i \in 0 .. n |-> f[i]] = [i \in 0 .. n |-> Turn(f, i)]
    <3>. HIDE DEF Turn
    <3>. QED  BY <2>2
  <2>. QED  BY <2>1, <2>3, Zenon
<1>. DEFINE h == CHOOSE g : Is(g)
<1>5. Is(h)
  <2>. HIDE DEF Is
  <2>. QED  BY <1>4
<1>6. Retain(s, kept) = h[n]
  BY DEF Retain
<1>7. \A i \in 0 .. n : h[i] = Turn(h, i)
  <2>. HIDE DEF h, Turn
  <2>1. h = [i \in 0 .. n |-> Turn(h, i)]
    BY <1>5, Zenon DEF Turn
  <2>. QED  BY <2>1
<1>. HIDE DEF h
<1>8. h[0] = << >>
  BY <1>1, <1>7
<1>9. \A i \in 1 .. n : h[i] = IF s[i] \in kept THEN Append(h[i - 1], s[i]) ELSE h[i - 1]
  <2>. TAKE i \in 1 .. n
  <2>1. i \in 0 .. n /\ i # 0
    BY <1>1
  <2>. QED  BY <1>7, <2>1
<1>. QED  BY <1>6, <1>8, <1>9

\* what is kept, in its order: members of kept, each from a place of its own in s
LEMMA RetainKeeps ==
  ASSUME NEW T, NEW s \in Seq(T), NEW kept
  PROVE  /\ Retain(s, kept) \in Seq(T)
         /\ Len(Retain(s, kept)) <= Len(s)
         /\ \E w \in [1 .. Len(Retain(s, kept)) -> 1 .. Len(s)] :
              /\ \A j \in DOMAIN w : Retain(s, kept)[j] \in kept /\ Retain(s, kept)[j] = s[w[j]]
              /\ \A j, k \in DOMAIN w : j # k => w[j] # w[k]
<1>. DEFINE Good(r, i) == /\ r \in Seq(T) /\ Len(r) <= i
                          /\ \E w \in [1 .. Len(r) -> 1 .. i] :
                               /\ \A j \in 1 .. Len(r) : r[j] \in kept /\ r[j] = s[w[j]]
                               /\ \A j, k \in 1 .. Len(r) : j # k => w[j] # w[k]
<1>1. PICK h : /\ Retain(s, kept) = h[Len(s)] /\ h[0] = << >>
               /\ \A i \in 1 .. Len(s) :
                    h[i] = IF s[i] \in kept THEN Append(h[i - 1], s[i]) ELSE h[i - 1]
  <2>. HIDE DEF Good
  <2>. QED  BY RetainSteps
<1>. DEFINE S == {i \in Nat : i <= Len(s) => Good(h[i], i)}
<1>2. 0 \in S
  <2>. DEFINE e == << >>
              w == [j \in 1 .. Len(e) |-> 1]
  <2>1. e \in Seq(T) /\ Len(e) <= 0 /\ \A j \in 1 .. Len(e) : FALSE
    OBVIOUS
  <2>2. w \in [1 .. Len(e) -> 1 .. 0]
    BY <2>1
  <2>3. Good(e, 0)
    <3>. HIDE DEF e, w
    <3>. QED  BY <2>1, <2>2
  <2>. HIDE DEF Good
  <2>. QED  BY <1>1, <2>3
<1>3. ASSUME NEW i \in Nat, i \in S PROVE i + 1 \in S
  <2>. SUFFICES ASSUME i + 1 <= Len(s) PROVE Good(h[i + 1], i + 1)
    <3>. HIDE DEF Good
    <3>. QED  OBVIOUS
  <2>. DEFINE r == h[i]
  <2>1. Good(r, i)
    <3>. HIDE DEF Good
    <3>. QED  BY <1>3
  <2>2. h[i + 1] = IF s[i + 1] \in kept THEN Append(r, s[i + 1]) ELSE r
    <3>1. i + 1 \in 1 .. Len(s) /\ (i + 1) - 1 = i
      OBVIOUS
    <3>. QED  BY <1>1, <3>1
  <2>3. PICK w \in [1 .. Len(r) -> 1 .. i] :
          /\ \A j \in 1 .. Len(r) : r[j] \in kept /\ r[j] = s[w[j]]
          /\ \A j, k \in 1 .. Len(r) : j # k => w[j] # w[k]
    BY <2>1
  <2>4. r \in Seq(T) /\ Len(r) <= i /\ Len(r) \in Nat
    BY <2>1
  <2>. HIDE DEF r, S
  <2>5. CASE s[i + 1] \notin kept
    <3>1. h[i + 1] = r
      BY <2>2, <2>5
    <3>2. w \in [1 .. Len(r) -> 1 .. i + 1]
      <4>1. 1 .. i \subseteq 1 .. i + 1
        OBVIOUS
      <4>. QED  BY <2>3, <4>1
    <3>. QED  BY <2>3, <2>4, <3>1, <3>2
  <2>6. CASE s[i + 1] \in kept
    <3>. DEFINE v == s[i + 1]
                q == Append(r, v)
                x == [j \in 1 .. Len(r) + 1 |-> IF j = Len(r) + 1 THEN i + 1 ELSE w[j]]
    <3>1. h[i + 1] = q /\ v \in T /\ v \in kept
      BY <2>2, <2>6
    <3>2. q \in Seq(T) /\ Len(q) = Len(r) + 1 /\ Len(q) <= i + 1
      BY <2>4, <3>1
    <3>3. \A j \in 1 .. Len(r) : q[j] = r[j] /\ x[j] = w[j] /\ w[j] \in 1 .. i
      BY <2>3, <2>4, <3>1
    <3>4. q[Len(r) + 1] = v /\ x[Len(r) + 1] = i + 1
      BY <2>4, <3>1
    <3>5. \A j \in 1 .. Len(r) + 1 : j \in 1 .. Len(r) \/ j = Len(r) + 1
      BY <2>4
    <3>6. x \in [1 .. Len(q) -> 1 .. i + 1]
      <4>1. \A j \in 1 .. Len(r) + 1 : x[j] \in 1 .. i + 1
        <5>. HIDE DEF x, q
        <5>. QED  BY <3>3, <3>4, <3>5
      <4>2. x = [j \in 1 .. Len(r) + 1 |-> x[j]]
        OBVIOUS
      <4>. HIDE DEF x, q
      <4>. QED  BY <3>2, <4>1, <4>2
    <3>. HIDE DEF x, q
    <3>7. \A j \in 1 .. Len(q) : q[j] \in kept /\ q[j] = s[x[j]]
      <4>. TAKE j \in 1 .. Len(q)
      <4>1. CASE j = Len(r) + 1
        BY <3>1, <3>4, <4>1
      <4>2. CASE j \in 1 .. Len(r)
        BY <2>3, <3>3, <4>2
      <4>. QED  BY <3>2, <3>5, <4>1, <4>2
    <3>8. \A j, k \in 1 .. Len(q) : j # k => x[j] # x[k]
      <4>. TAKE j, k \in 1 .. Len(q)
      <4>. SUFFICES ASSUME j # k PROVE x[j] # x[k]
        OBVIOUS
      <4>1. CASE j \in 1 .. Len(r) /\ k \in 1 .. Len(r)
        BY <2>3, <3>3, <4>1
      <4>2. CASE j = Len(r) + 1 /\ k \in 1 .. Len(r)
        <5>1. x[k] \in 1 .. i /\ x[j] = i + 1
          BY <3>3, <3>4, <4>2
        <5>. QED  BY <5>1
      <4>3. CASE k = Len(r) + 1 /\ j \in 1 .. Len(r)
        <5>1. x[j] \in 1 .. i /\ x[k] = i + 1
          BY <3>3, <3>4, <4>3
        <5>. QED  BY <5>1
      <4>. QED  BY <3>2, <3>5, <4>1, <4>2, <4>3
    <3>9. Good(q, i + 1)
      BY <3>2, <3>6, <3>7, <3>8
    <3>. HIDE DEF Good
    <3>. QED  BY <3>1, <3>9
  <2>. QED  BY <2>5, <2>6
<1>. HIDE DEF S
<1>4. Nat \subseteq S
  BY <1>2, <1>3, Inductive
<1>5. Len(s) \in S /\ Len(s) \in Nat
  BY <1>4
<1>6. Good(Retain(s, kept), Len(s))
  <2>. HIDE DEF Good
  <2>. QED  BY <1>1, <1>5 DEF S
<1>. QED  BY <1>6

\* a set of lists that holds the empty one and with each list those longer by one
LEMMA SeqInductive ==
  ASSUME NEW T, NEW S, << >> \in S, \A s \in Seq(T), v \in T : s \in S => Append(s, v) \in S
  PROVE  Seq(T) \subseteq S
<1>. DEFINE N == {n \in Nat : \A s \in Seq(T) : Len(s) = n => s \in S}
<1>1. 0 \in N
  OBVIOUS
<1>2. ASSUME NEW n \in Nat, n \in N PROVE n + 1 \in N
  <2>. SUFFICES ASSUME NEW s \in Seq(T), Len(s) = n + 1 PROVE s \in S
    OBVIOUS
  <2>. DEFINE t == SubSeq(s, 1, n)
  <2>1. t \in Seq(T) /\ Len(t) = n /\ s[n + 1] \in T
    OBVIOUS
  <2>2. s = Append(t, s[n + 1])
    OBVIOUS
  <2>3. t \in S
    BY <1>2, <2>1
  <2>. HIDE DEF t
  <2>. QED  BY <2>1, <2>2, <2>3
<1>. HIDE DEF N
<1>3. Nat \subseteq N
  BY <1>1, <1>2, Inductive
<1>. QED  BY <1>3 DEF N

LEMMA RetainEmpty == ASSUME NEW kept PROVE Retain(<< >>, kept) = << >>
<1>1. ASSUME NEW T, NEW e \in Seq(T), Len(e) = 0 PROVE Retain(e, kept) = << >>
  <2>1. PICK h : Retain(e, kept) = h[Len(e)] /\ h[0] = << >>
    BY RetainSteps
  <2>. QED  BY <1>1, <2>1
<1>2. << >> \in Seq({}) /\ Len(<< >>) = 0
  OBVIOUS
<1>. QED  BY <1>1, <1>2, Zenon

LEMMA RetainAppend ==
  ASSUME NEW T, NEW s \in Seq(T), NEW v \in T, NEW kept
  PROVE  Retain(Append(s, v), kept) =
           IF v \in kept THEN Append(Retain(s, kept), v) ELSE Retain(s, kept)
<1>. DEFINE q == Append(s, v)
            n == Len(s)
<1>1. q \in Seq(T) /\ Len(q) = n + 1 /\ q[n + 1] = v /\ n \in Nat
  OBVIOUS
<1>2. \A i \in 1 .. n : q[i] = s[i]
  OBVIOUS
<1>. HIDE DEF q
<1>3. PICK h : /\ Retain(q, kept) = h[Len(q)] /\ h[0] = << >>
               /\ \A i \in 1 .. Len(q) :
                    h[i] = IF q[i] \in kept THEN Append(h[i - 1], q[i]) ELSE h[i - 1]
  BY <1>1, RetainSteps
<1>4. PICK g : /\ Retain(s, kept) = g[n] /\ g[0] = << >>
               /\ \A i \in 1 .. n :
                    g[i] = IF s[i] \in kept THEN Append(g[i - 1], s[i]) ELSE g[i - 1]
  BY RetainSteps
<1>. DEFINE S == {i \in Nat : i <= n => h[i] = g[i]}
<1>. HIDE DEF n
<1>5. 0 \in S
  BY <1>3, <1>4
<1>6. ASSUME NEW i \in Nat, i \in S PROVE i + 1 \in S
  <2>. SUFFICES ASSUME i + 1 <= n PROVE h[i + 1] = g[i + 1]
    OBVIOUS
  <2>1. h[i] = g[i] /\ i + 1 \in 1 .. n /\ i + 1 \in 1 .. Len(q) /\ (i + 1) - 1 = i
    BY <1>1, <1>6
  <2>. HIDE DEF S
  <2>. QED  BY <1>2, <1>3, <1>4, <2>1
<1>. HIDE DEF S
<1>7. Nat \subseteq S
  BY <1>5, <1>6, Inductive
<1>8. h[n] = g[n]
  BY <1>1, <1>7 DEF S
<1>9. h[n + 1] = IF v \in kept THEN Append(h[n], v) ELSE h[n]
  <2>1. n + 1 \in 1 .. Len(q) /\ (n + 1) - 1 = n
    BY <1>1
  <2>. QED  BY <1>1, <1>3, <2>1
<1>. QED  BY <1>1, <1>3, <1>4, <1>8, <1>9 DEF q

LEMMA RetainType ==
  ASSUME NEW T, NEW s \in Seq(T), NEW kept PROVE Retain(s, kept) \in Seq(T)
BY RetainKeeps

LEMMA RetainOne ==
  ASSUME NEW v, NEW kept
  PROVE  Retain(<<v>>, kept) = IF v \in kept THEN <<v>> ELSE << >>
<1>. DEFINE T == {v}
            e == << >>
<1>1. e \in Seq(T) /\ v \in T /\ Append(e, v) = <<v>>
  OBVIOUS
<1>2. Retain(e, kept) = e
  BY RetainEmpty
<1>3. e = << >>
  OBVIOUS
<1>. HIDE DEF e, T
<1>4. Retain(Append(e, v), kept) = IF v \in kept THEN Append(Retain(e, kept), v) ELSE Retain(e, kept)
  BY <1>1, RetainAppend
<1>. QED  BY <1>1, <1>2, <1>3, <1>4, Zenon

LEMMA CatAppend ==
  ASSUME NEW T, NEW s \in Seq(T), NEW t \in Seq(T), NEW v \in T
  PROVE  s \o Append(t, v) = Append(s \o t, v) /\ s \o t \in Seq(T) /\ Append(t, v) \in Seq(T)
OBVIOUS

LEMMA RetainCat ==
  ASSUME NEW T, NEW s \in Seq(T), NEW t \in Seq(T), NEW kept
  PROVE  Retain(s \o t, kept) = Retain(s, kept) \o Retain(t, kept)
<1>. DEFINE S == {u \in Seq(T) : Retain(s \o u, kept) = Retain(s, kept) \o Retain(u, kept)}
<1>1. << >> \in S
  <2>1. s \o << >> = s /\ << >> \in Seq(T)
    OBVIOUS
  <2>2. Retain(s, kept) \o << >> = Retain(s, kept)
    BY RetainType
  <2>. QED  BY <2>1, <2>2, RetainEmpty
<1>2. ASSUME NEW u \in Seq(T), NEW v \in T, u \in S PROVE Append(u, v) \in S
  <2>. DEFINE w == s \o u
              a == Retain(s, kept)
              b == Retain(u, kept)
  <2>1. s \o Append(u, v) = Append(w, v) /\ w \in Seq(T) /\ Append(u, v) \in Seq(T)
    BY CatAppend
  <2>2. a \in Seq(T) /\ b \in Seq(T)
    BY RetainType
  <2>3. Retain(w, kept) = a \o b
    BY <1>2
  <2>. HIDE DEF w
  <2>4. Retain(Append(w, v), kept) = IF v \in kept THEN Append(Retain(w, kept), v) ELSE Retain(w, kept)
    BY <2>1, RetainAppend
  <2>5. Retain(Append(u, v), kept) = IF v \in kept THEN Append(b, v) ELSE b
    BY RetainAppend
  <2>. HIDE DEF a, b
  <2>6. Append(a \o b, v) = a \o Append(b, v)
    <3>1. \A x, y \in Seq(T) : x \o Append(y, v) = Append(x \o y, v)
      BY CatAppend
    <3>. QED  BY <2>2, <3>1, Zenon
  <2>7. Retain(s \o Append(u, v), kept) = a \o Retain(Append(u, v), kept)
    BY <2>1, <2>3, <2>4, <2>5, <2>6
  <2>. QED  BY <2>1, <2>7 DEF a
<1>. HIDE DEF S
<1>3. Seq(T) \subseteq S
  BY <1>1, <1>2, SeqInductive
<1>. QED  BY <1>3 DEF S

LEMMA RetainElems ==
  ASSUME NEW T, NEW s \in Seq(T), NEW kept
  PROVE  Elems(Retain(s, kept)) = Elems(s) \cap kept
<1>. DEFINE S == {u \in Seq(T) : Elems(Retain(u, kept)) = Elems(u) \cap kept}
<1>1. << >> \in S
  BY RetainEmpty DEF Elems
<1>2. ASSUME NEW u \in Seq(T), NEW v \in T, u \in S PROVE Append(u, v) \in S
  <2>. DEFINE b == Retain(u, kept)
  <2>1. b \in Seq(T) /\ Append(u, v) \in Seq(T)
    BY RetainType
  <2>2. \A w \in Seq(T) : Elems(Append(w, v)) = Elems(w) \cup {v}
    <3>. TAKE w \in Seq(T)
    <3>1. DOMAIN Append(w, v) = DOMAIN w \cup {Len(w) + 1} /\ Append(w, v)[Len(w) + 1] = v
      OBVIOUS
    <3>2. \A i \in DOMAIN w : Append(w, v)[i] = w[i]
      OBVIOUS
    <3>. QED  BY <3>1, <3>2 DEF Elems
  <2>3. Retain(Append(u, v), kept) = IF v \in kept THEN Append(b, v) ELSE b
    BY RetainAppend
  <2>4. Elems(b) = Elems(u) \cap kept
    BY <1>2
  <2>. HIDE DEF b
  <2>. QED  BY <2>1, <2>2, <2>3, <2>4
<1>. HIDE DEF S
<1>3. Seq(T) \subseteq S
  BY <1>1, <1>2, SeqInductive
<1>. QED  BY <1>3 DEF S

LEMMA ElemsCat ==
  ASSUME NEW T, NEW s \in Seq(T), NEW t \in Seq(T) PROVE Elems(s \o t) = Elems(s) \cup Elems(t)
<1>1. \A i \in DOMAIN (s \o t) : (s \o t)[i] = IF i <= Len(s) THEN s[i] ELSE t[i - Len(s)]
  OBVIOUS
<1>2. \A i \in DOMAIN s : i \in DOMAIN (s \o t) /\ (s \o t)[i] = s[i]
  OBVIOUS
<1>3. \A i \in DOMAIN t : Len(s) + i \in DOMAIN (s \o t) /\ (s \o t)[Len(s) + i] = t[i]
  OBVIOUS
<1>4. \A i \in DOMAIN (s \o t) : i \in DOMAIN s \/ i - Len(s) \in DOMAIN t
  OBVIOUS
<1>5. Elems(s) \cup Elems(t) \subseteq Elems(s \o t)
  BY <1>2, <1>3 DEF Elems
<1>6. Elems(s \o t) \subseteq Elems(s) \cup Elems(t)
  <2>. SUFFICES ASSUME NEW i \in DOMAIN (s \o t) PROVE (s \o t)[i] \in Elems(s) \cup Elems(t)
    BY DEF Elems
  <2>1. CASE i <= Len(s)
    <3>1. i \in DOMAIN s /\ (s \o t)[i] = s[i]
      BY <2>1
    <3>. QED  BY <3>1 DEF Elems
  <2>2. CASE ~(i <= Len(s))
    <3>1. i - Len(s) \in DOMAIN t /\ (s \o t)[i] = t[i - Len(s)]
      BY <2>2
    <3>. QED  BY <3>1 DEF Elems
  <2>. QED  BY <2>1, <2>2
<1>. QED  BY <1>5, <1>6
=============================================================================
