----------------------------- MODULE RoutingProofs -----------------------------
(***************************************************************************)
(* What Routing promises, for any profiles, policies, rules and packets.   *)
(*                                                                         *)
(* First the rule lists: what matches, what decides, what each builder     *)
(* puts into the list and what stripping leaves of it. Then the            *)
(* configurations: which of them hold to the policy (Held), keep the split *)
(* (Splits), begin with the statistics interface (ApiLed) and name what is *)
(* there (Reachable). Last the way of a packet through them: Travels is    *)
(* the invariant, SplitTravels and QueryTravels the same for some packets. *)
(***************************************************************************)
EXTENDS Routing, ListProofs, FiniteSetTheorems

-----------------------------------------------------------------------------
(* Lists of rules.                                                           *)

LEMMA RuleCat ==
  ASSUME NEW s \in Seq(Rules), NEW t \in Seq(Rules)
  PROVE  s \o t \in Seq(Rules) /\ Elems(s \o t) = Elems(s) \cup Elems(t)
<1>1. s \o t \in Seq(Rules)
  OBVIOUS
<1>. QED  BY <1>1, ElemsCat

LEMMA RuleAssoc ==
  ASSUME NEW s \in Seq(Rules), NEW t \in Seq(Rules), NEW u \in Seq(Rules)
  PROVE  (s \o t) \o u = s \o (t \o u)
OBVIOUS

LEMMA RuleSplit ==
  ASSUME NEW s \in Seq(Rules), NEW n \in 0 .. Len(s)
  PROVE  /\ SubSeq(s, 1, n) \in Seq(Rules) /\ SubSeq(s, n + 1, Len(s)) \in Seq(Rules)
         /\ s = SubSeq(s, 1, n) \o SubSeq(s, n + 1, Len(s))
         /\ \A r \in Elems(SubSeq(s, n + 1, Len(s))) : \E i \in n + 1 .. Len(s) : r = s[i]
<1>. DEFINE a == SubSeq(s, 1, n)
            b == SubSeq(s, n + 1, Len(s))
<1>1. a \in Seq(Rules) /\ Len(a) = n /\ \A i \in 1 .. n : a[i] = s[i]
  OBVIOUS
<1>2. b \in Seq(Rules) /\ Len(b) = Len(s) - n /\ \A i \in 1 .. Len(s) - n : b[i] = s[i + n]
  <2>1. /\ n + 1 \in Int /\ Len(s) \in Int /\ \A i \in n + 1 .. Len(s) : s[i] \in Rules
        /\ Len(s) - (n + 1) + 1 = Len(s) - n
    OBVIOUS
  <2>2. /\ b \in Seq(Rules) /\ Len(b) = IF n + 1 <= Len(s) THEN Len(s) - (n + 1) + 1 ELSE 0
        /\ \A i \in 1 .. Len(s) - (n + 1) + 1 : b[i] = s[n + 1 + i - 1]
    BY <2>1, SubSeqProperties, SMTT(60)
  <2>. HIDE DEF b
  <2>3. (IF n + 1 <= Len(s) THEN Len(s) - (n + 1) + 1 ELSE 0) = Len(s) - n
    OBVIOUS
  <2>4. \A i \in 1 .. Len(s) - n : n + 1 + i - 1 = i + n
    OBVIOUS
  <2>. QED  BY <2>1, <2>2, <2>3, <2>4, Zenon
<1>. HIDE DEF a, b
<1>3. a \o b \in Seq(Rules) /\ Len(a \o b) = Len(s)
  BY <1>1, <1>2, SMTT(30)
<1>4. ASSUME NEW i \in 1 .. Len(s) PROVE (a \o b)[i] = s[i]
  <2>1. CASE i <= n
    BY <1>1, <1>2, <2>1
  <2>2. CASE ~(i <= n)
    <3>1. (a \o b)[i] = b[i - n] /\ i - n \in 1 .. Len(s) - n
      BY <1>1, <1>2, <2>2
    <3>2. (i - n) + n = i
      OBVIOUS
    <3>. QED  BY <1>2, <3>1, <3>2
  <2>. QED  BY <2>1, <2>2
<1>5. s = a \o b
  <2>. DEFINE w == a \o b
  <2>. HIDE DEF w
  <2>1. w \in Seq(Rules) /\ Len(w) = Len(s) /\ \A i \in 1 .. Len(s) : w[i] = s[i]
    BY <1>3, <1>4 DEF w
  <2>2. w = s
    BY <2>1, SeqEqual
  <2>. QED  BY <2>2 DEF w
<1>6. \A r \in Elems(b) : \E i \in n + 1 .. Len(s) : r = s[i]
  <2>. TAKE r \in Elems(b)
  <2>1. PICK k \in 1 .. Len(s) - n : r = b[k]
    BY <1>2 DEF Elems
  <2>2. k + n \in n + 1 .. Len(s) /\ r = s[k + n]
    BY <1>2, <2>1
  <2>. QED  BY <2>2
<1>. QED  BY <1>1, <1>2, <1>5, <1>6 DEF a, b

LEMMA HeadAndTail ==
  ASSUME NEW r \in Rules, NEW t \in Seq(Rules), NEW s, s = <<r>> \o t
  PROVE  SubSeq(s, 1, 1) = <<r>> /\ SubSeq(s, 2, Len(s)) = t
<1>1. s \in Seq(Rules) /\ Len(s) = Len(t) + 1 /\ s[1] = r /\ \A i \in 1 .. Len(t) : s[i + 1] = t[i]
  OBVIOUS
<1>. DEFINE a == SubSeq(s, 1, 1)
            b == SubSeq(s, 2, Len(s))
<1>2. a \in Seq(Rules) /\ Len(a) = 1 /\ a[1] = r
  BY <1>1
<1>3. b \in Seq(Rules) /\ Len(b) = Len(t) /\ \A i \in 1 .. Len(t) : b[i] = t[i]
  BY <1>1
<1>. HIDE DEF a, b
<1>4. a = <<r>>
  BY <1>2
<1>5. b = t
  BY <1>3, SeqEqual
<1>. QED  BY <1>4, <1>5 DEF a, b

LEMMA RuleList ==
  ASSUME NEW r \in Rules
  PROVE  <<r>> \in Seq(Rules) /\ Elems(<<r>>) = {r}
<1>1. <<r>> \in Seq(Rules) /\ DOMAIN <<r>> = {1} /\ <<r>>[1] = r
  OBVIOUS
<1>. QED  BY <1>1 DEF Elems

LEMMA RulePair ==
  ASSUME NEW r \in Rules, NEW q \in Rules PROVE <<r, q>> = <<r>> \o <<q>>
<1>. DEFINE a == <<r, q>>
            b == <<r>> \o <<q>>
<1>1. a \in Seq(Rules) /\ Len(a) = 2 /\ a[1] = r /\ a[2] = q
  OBVIOUS
<1>2. b \in Seq(Rules) /\ Len(b) = 2 /\ b[1] = r /\ b[2] = q
  OBVIOUS
<1>. HIDE DEF a, b
<1>3. \A i \in 1 .. Len(a) : a[i] = b[i]
  BY <1>1, <1>2
<1>4. a = b
  BY <1>1, <1>2, <1>3, SeqEqual
<1>. QED  BY <1>4 DEF a, b

LEMMA NoRules == << >> \in Seq(Rules) /\ Elems(<< >>) = {}
<1>1. << >> \in Seq(Rules) /\ DOMAIN << >> = {}
  OBVIOUS
<1>. QED  BY <1>1 DEF Elems

LEMMA WhenRules ==
  ASSUME NEW given, NEW r, given => r \in Rules
  PROVE  /\ When(given, r) \in Seq(Rules)
         /\ Elems(When(given, r)) = {x \in {r} : given}
<1>1. CASE given
  BY <1>1, RuleList DEF When
<1>2. CASE ~given
  BY <1>2, NoRules DEF When
<1>. QED  BY <1>1, <1>2

LEMMA RuleElems ==
  ASSUME NEW s \in Seq(Rules) PROVE Elems(s) \subseteq Rules
BY DEF Elems

LEMMA ExistsElems ==
  ASSUME NEW s
  PROVE  /\ Exists(s, IsApi) <=> \E r \in Elems(s) : IsApi(r)
         /\ Exists(s, IsPort53) <=> \E r \in Elems(s) : IsPort53(r)
         /\ Exists(s, HasDefaultDirect) <=> \E r \in Elems(s) : HasDefaultDirect(r)
BY DEF Exists, Elems

LEMMA RuleTypes ==
  /\ \A names \in SUBSET Selectors, out \in Names :
       /\ DomainRule(names, out) \in Rules
       /\ AddressRule(names, out) \in Rules
       /\ ProcessRule(names, out) \in Rules
  /\ \A tags \in SUBSET Names, out \in Names :
       [Rule EXCEPT !.inbound = tags, !.out = out] \in Rules
  /\ \A out \in Names : [Rule EXCEPT !.all = TRUE, !.out = out] \in Rules
  /\ ApiRule \in Rules /\ Port53 \in Rules /\ Hijack \in Rules
<1>1. ASSUME NEW names \in SUBSET Selectors, NEW out \in Names
      PROVE  /\ DomainRule(names, out) \in Rules
             /\ AddressRule(names, out) \in Rules
             /\ ProcessRule(names, out) \in Rules
  BY DEF DomainRule, AddressRule, ProcessRule, Rule, Rules
<1>2. ASSUME NEW tags \in SUBSET Names, NEW out \in Names
      PROVE  [Rule EXCEPT !.inbound = tags, !.out = out] \in Rules
  BY DEF Rule, Rules
<1>3. ASSUME NEW out \in Names PROVE [Rule EXCEPT !.all = TRUE, !.out = out] \in Rules
  BY DEF Rule, Rules
<1>4. ApiRule \in Rules
  BY ConstantsAssumption, <1>2 DEF ApiRule
<1>5. Port53 \in Rules /\ Hijack \in Rules
  BY ConstantsAssumption DEF Rule, Rules, Port53, Hijack
<1>. QED  BY <1>1, <1>2, <1>3, <1>4, <1>5

-----------------------------------------------------------------------------
(* The first rule that matches.                                              *)

\* a finite set of places has a first one
LEMMA FirstPlace ==
  ASSUME NEW found, NEW n \in Nat, found \subseteq 1 .. n, found # {}
  PROVE  \E i \in found : \A j \in found : i <= j
<1>. DEFINE S == {k \in Nat : (\E i \in found : i <= k) => \E i \in found : \A j \in found : i <= j}
<1>1. 0 \in S
  OBVIOUS
<1>2. ASSUME NEW k \in Nat, k \in S PROVE k + 1 \in S
  <2>. SUFFICES ASSUME NEW i \in found, i <= k + 1, ~\E j \in found : j <= k
                PROVE  \E l \in found : \A j \in found : l <= j
    BY <1>2
  <2>1. i = k + 1
    OBVIOUS
  <2>. QED  BY <2>1
<1>. HIDE DEF S
<1>3. Nat \subseteq S
  BY <1>1, <1>2, Inductive
<1>4. PICK i \in found : TRUE
  OBVIOUS
<1>5. i \in Nat /\ i \in S /\ i <= i
  BY <1>3, <1>4
<1>. QED  BY <1>5 DEF S

LEMMA NothingMatches ==
  ASSUME NEW s, NEW p, NEW d, \A r \in Elems(s) : ~Matches(r, p)
  PROVE  FirstMatch(s, p, d) = d
BY DEF FirstMatch, Elems

LEMMA SomethingMatches ==
  ASSUME NEW s \in Seq(Rules), NEW p, NEW d, \E r \in Elems(s) : Matches(r, p)
  PROVE  \E i \in DOMAIN s : /\ Matches(s[i], p) /\ FirstMatch(s, p, d) = s[i].out
                             /\ \A j \in 1 .. i - 1 : ~Matches(s[j], p)
<1>. DEFINE found == {i \in DOMAIN s : Matches(s[i], p)}
            first == CHOOSE i \in found : \A j \in found : i <= j
<1>1. found # {} /\ found \subseteq 1 .. Len(s) /\ Len(s) \in Nat
  BY DEF Elems
<1>2. first \in found /\ \A j \in found : first <= j
  <2>. HIDE DEF found
  <2>. QED  BY <1>1, FirstPlace
<1>3. FirstMatch(s, p, d) = s[first].out
  BY <1>1 DEF FirstMatch
<1>. HIDE DEF first
<1>4. \A j \in 1 .. first - 1 : ~Matches(s[j], p)
  <2>. TAKE j \in 1 .. first - 1
  <2>1. j \in DOMAIN s /\ ~(first <= j)
    BY <1>1, <1>2
  <2>. QED  BY <1>2, <2>1
<1>. QED  BY <1>2, <1>3, <1>4

\* it is a rule of the list, or none matches
LEMMA MatchIsRule ==
  ASSUME NEW s \in Seq(Rules), NEW p, NEW d
  PROVE  \/ \E r \in Elems(s) : Matches(r, p) /\ FirstMatch(s, p, d) = r.out
         \/ FirstMatch(s, p, d) = d /\ \A r \in Elems(s) : ~Matches(r, p)
<1>1. CASE \A r \in Elems(s) : ~Matches(r, p)
  BY <1>1, NothingMatches
<1>2. CASE \E r \in Elems(s) : Matches(r, p)
  BY <1>2, SomethingMatches DEF Elems
<1>. QED  BY <1>1, <1>2

\* the rules that match agree
Decides(s, p, out) ==
  (\E r \in Elems(s) : Matches(r, p)) /\ \A r \in Elems(s) : Matches(r, p) => r.out = out

LEMMA DecidedFirst ==
  ASSUME NEW s \in Seq(Rules), NEW t \in Seq(Rules), NEW p, NEW d, NEW out, Decides(s, p, out)
  PROVE  FirstMatch(s \o t, p, d) = out /\ FirstMatch(s, p, d) = out
<1>. DEFINE w == s \o t
<1>1. FirstMatch(s, p, d) = out
  BY MatchIsRule DEF Decides
<1>2. w \in Seq(Rules) /\ Elems(w) = Elems(s) \cup Elems(t)
  BY RuleCat
<1>3. \A i \in DOMAIN s : i \in DOMAIN w /\ w[i] = s[i]
  OBVIOUS
<1>4. \A i \in DOMAIN w : i \in DOMAIN s \/ i > Len(s)
  OBVIOUS
<1>. HIDE DEF w
<1>5. PICK i \in DOMAIN w : /\ Matches(w[i], p) /\ FirstMatch(w, p, d) = w[i].out
                            /\ \A j \in 1 .. i - 1 : ~Matches(w[j], p)
  BY <1>2, SomethingMatches DEF Decides
<1>6. PICK k \in DOMAIN s : Matches(s[k], p)
  BY DEF Decides, Elems
<1>7. i \in DOMAIN s
  <2>1. k \in 1 .. Len(s) /\ w[k] = s[k] /\ i \in Nat
    BY <1>2, <1>3, <1>6
  <2>2. ~(k \in 1 .. i - 1)
    BY <1>5, <1>6, <2>1
  <2>. QED  BY <1>4, <2>1, <2>2
<1>8. w[i] \in Elems(s)
  BY <1>3, <1>7 DEF Elems
<1>9. FirstMatch(w, p, d) = out
  BY <1>5, <1>8 DEF Decides
<1>. QED  BY <1>1, <1>9 DEF w

\* where none of the first rules matches, the others count
LEMMA UndecidedFirst ==
  ASSUME NEW s \in Seq(Rules), NEW t \in Seq(Rules), NEW p, NEW d, NEW out,
         \A r \in Elems(s) : ~Matches(r, p), Decides(t, p, out)
  PROVE  Decides(s \o t, p, out)
BY RuleCat DEF Decides

-----------------------------------------------------------------------------
(* Rules that lose selectors.                                                *)

Less(r, domains, addresses) == [r EXCEPT !.domain = @ \ domains, !.ip = @ \ addresses]

LEMMA LessType ==
  ASSUME NEW r \in Rules, NEW domains, NEW addresses
  PROVE  /\ Less(r, domains, addresses) \in Rules
         /\ Less(r, domains, addresses).domain = r.domain \ domains
         /\ Less(r, domains, addresses).ip = r.ip \ addresses
         /\ Less(r, domains, addresses).inbound = r.inbound
         /\ Less(r, domains, addresses).process = r.process
         /\ Less(r, domains, addresses).dns = r.dns
         /\ Less(r, domains, addresses).all = r.all
         /\ Less(r, domains, addresses).out = r.out
BY DEF Less, Rules

LEMMA StripElems ==
  ASSUME NEW s \in Seq(Rules), NEW domains, NEW addresses
  PROVE  /\ Strip(s, domains, addresses) \in Seq(Rules)
         /\ \A r : r \in Elems(Strip(s, domains, addresses)) <=>
              Effective(r) /\ \E q \in Elems(s) : r = Less(q, domains, addresses)
<1>. DEFINE m == [i \in DOMAIN s |-> Less(s[i], domains, addresses)]
            kept == {r \in Rules : Effective(r)}
<1>1. m \in Seq(Rules)
  <2>1. \A i \in 1 .. Len(s) : s[i] \in Rules /\ Less(s[i], domains, addresses) \in Rules
    BY LessType
  <2>. QED  BY <2>1
<1>2. Strip(s, domains, addresses) = Retain(m, kept)
  BY DEF Strip, Less
<1>3. \A r : r \in Elems(m) <=> \E q \in Elems(s) : r = Less(q, domains, addresses)
  BY DEF Elems
<1>4. Elems(m) \subseteq Rules
  BY <1>1, RuleElems
<1>. HIDE DEF m
<1>5. Retain(m, kept) \in Seq(Rules)
  BY <1>1, RetainType
<1>6. Elems(Retain(m, kept)) = Elems(m) \cap kept
  BY <1>1, RetainElems
<1>. QED  BY <1>2, <1>3, <1>4, <1>5, <1>6

LEMMA StripCat ==
  ASSUME NEW s \in Seq(Rules), NEW t \in Seq(Rules), NEW domains, NEW addresses
  PROVE  Strip(s \o t, domains, addresses) =
           Strip(s, domains, addresses) \o Strip(t, domains, addresses)
<1>. DEFINE M(u) == [i \in DOMAIN u |-> Less(u[i], domains, addresses)]
            kept == {r \in Rules : Effective(r)}
<1>1. \A u \in Seq(Rules) : M(u) \in Seq(Rules) /\ Len(M(u)) = Len(u)
  <2>. TAKE u \in Seq(Rules)
  <2>1. \A i \in 1 .. Len(u) : u[i] \in Rules /\ Less(u[i], domains, addresses) \in Rules
    BY LessType
  <2>. QED  BY <2>1
<1>2. \A u : Strip(u, domains, addresses) = Retain(M(u), kept)
  BY DEF Strip, Less
<1>. DEFINE ms == M(s)
            mt == M(t)
            mw == M(s \o t)
<1>. HIDE DEF M
<1>3. mw = ms \o mt
  <2>1. s \o t \in Seq(Rules) /\ Len(s \o t) = Len(s) + Len(t)
    OBVIOUS
  <2>2. mw \in Seq(Rules) /\ ms \in Seq(Rules) /\ mt \in Seq(Rules)
        /\ Len(mw) = Len(s) + Len(t) /\ Len(ms) = Len(s) /\ Len(mt) = Len(t)
    BY <1>1, <2>1
  <2>3. \A i \in 1 .. Len(s) + Len(t) : mw[i] = Less((s \o t)[i], domains, addresses)
    BY <2>1 DEF M
  <2>4. \A i \in 1 .. Len(s) : ms[i] = Less(s[i], domains, addresses)
    BY DEF M
  <2>5. \A i \in 1 .. Len(t) : mt[i] = Less(t[i], domains, addresses)
    BY DEF M
  <2>. HIDE DEF ms, mt, mw
  <2>6. ASSUME NEW i \in 1 .. Len(s) + Len(t) PROVE mw[i] = (ms \o mt)[i]
    <3>1. CASE i <= Len(s)
      <4>1. (s \o t)[i] = s[i] /\ i \in 1 .. Len(s)
        BY <3>1
      <4>2. (ms \o mt)[i] = ms[i]
        BY <2>2, <3>1
      <4>. QED  BY <2>3, <2>4, <4>1, <4>2
    <3>2. CASE ~(i <= Len(s))
      <4>1. (s \o t)[i] = t[i - Len(s)] /\ i - Len(s) \in 1 .. Len(t)
        BY <3>2
      <4>2. (ms \o mt)[i] = mt[i - Len(s)]
        BY <2>2, <3>2
      <4>. QED  BY <2>3, <2>5, <4>1, <4>2
    <3>. QED  BY <3>1, <3>2
  <2>7. ms \o mt \in Seq(Rules) /\ Len(ms \o mt) = Len(s) + Len(t)
    BY <2>2
  <2>. QED  BY <2>2, <2>6, <2>7
<1>4. ms \in Seq(Rules) /\ mt \in Seq(Rules)
  BY <1>1
<1>5. Retain(ms \o mt, kept) = Retain(ms, kept) \o Retain(mt, kept)
  <2>. HIDE DEF ms, mt, kept
  <2>. QED  BY <1>4, RetainCat, SMTT(30)
<1>6. /\ Strip(s, domains, addresses) = Retain(ms, kept)
      /\ Strip(t, domains, addresses) = Retain(mt, kept)
      /\ Strip(s \o t, domains, addresses) = Retain(mw, kept)
  <2>. HIDE DEF kept
  <2>. QED  BY <1>2
<1>. HIDE DEF ms, mt, mw, kept
<1>. QED  BY <1>3, <1>5, <1>6

LEMMA RuleRetain ==
  ASSUME NEW s \in Seq(Rules), NEW kept
  PROVE  Retain(s, kept) \in Seq(Rules) /\ Elems(Retain(s, kept)) = Elems(s) \cap kept
BY RetainType, RetainElems

LEMMA OutboundRetain ==
  ASSUME NEW s \in Seq(Outbounds), NEW kept
  PROVE  Retain(s, kept) \in Seq(Outbounds) /\ Elems(Retain(s, kept)) = Elems(s) \cap kept
BY RetainType, RetainElems

LEMMA RuleMatches ==
  ASSUME NEW p, NEW names, NEW out
  PROVE  /\ Matches(DomainRule(names, out), p) <=> (names # {} => p.domain \in names /\ ~p.dns)
         /\ Matches(AddressRule(names, out), p) <=> (names # {} => p.ip \in names)
         /\ Matches(ProcessRule(names, out), p) <=> (names # {} => p.process \in names)
         /\ Matches([Rule EXCEPT !.inbound = names, !.out = out], p)
              <=> (names # {} => p.inbound \in names)
         /\ Matches([Rule EXCEPT !.all = TRUE, !.out = out], p)
         /\ DomainRule(names, out).out = out /\ AddressRule(names, out).out = out
         /\ ProcessRule(names, out).out = out
         /\ [Rule EXCEPT !.inbound = names, !.out = out].out = out
         /\ [Rule EXCEPT !.all = TRUE, !.out = out].out = out
BY DEF Matches, DomainRule, AddressRule, ProcessRule, Rule

LEMMA RuleOuts ==
  ASSUME NEW names, NEW out
  PROVE  /\ DomainRule(names, out).out = out /\ AddressRule(names, out).out = out
         /\ ProcessRule(names, out).out = out
BY DEF DomainRule, AddressRule, ProcessRule, Rule

LEMMA DomainMatches ==
  ASSUME NEW p, NEW names, NEW out
  PROVE  /\ Matches(DomainRule(names, out), p) <=> (names # {} => p.domain \in names /\ ~p.dns)
         /\ DomainRule(names, out).out = out
BY DEF Matches, DomainRule, Rule

LEMMA AddressMatches ==
  ASSUME NEW p, NEW names, NEW out
  PROVE  /\ Matches(AddressRule(names, out), p) <=> (names # {} => p.ip \in names)
         /\ AddressRule(names, out).out = out
BY DEF Matches, AddressRule, Rule

LEMMA ProcessMatches ==
  ASSUME NEW p, NEW names, NEW out
  PROVE  /\ Matches(ProcessRule(names, out), p) <=> (names # {} => p.process \in names)
         /\ ProcessRule(names, out).out = out
BY DEF Matches, ProcessRule, Rule

LEMMA OneMatches ==
  ASSUME NEW p, NEW x, NEW out
  PROVE  /\ Matches(AddressRule({x}, out), p) <=> p.ip = x
         /\ Matches(ProcessRule({x}, out), p) <=> p.process = x
         /\ Matches([Rule EXCEPT !.inbound = {x}, !.out = out], p) <=> p.inbound = x
         /\ AddressRule({x}, out).out = out /\ ProcessRule({x}, out).out = out
         /\ [Rule EXCEPT !.inbound = {x}, !.out = out].out = out
<1>1. {x} # {}
  OBVIOUS
<1>. DEFINE names == {x}
<1>2. \A y : y \in names <=> y = x
  OBVIOUS
<1>. HIDE DEF names
<1>3. names # {}
  BY <1>1 DEF names
<1>4. /\ Matches(AddressRule(names, out), p) <=> p.ip \in names
      /\ Matches(ProcessRule(names, out), p) <=> p.process \in names
      /\ Matches([Rule EXCEPT !.inbound = names, !.out = out], p) <=> p.inbound \in names
      /\ AddressRule(names, out).out = out /\ ProcessRule(names, out).out = out
      /\ [Rule EXCEPT !.inbound = names, !.out = out].out = out
  BY <1>3 DEF Matches, AddressRule, ProcessRule, Rule
<1>. QED  BY <1>2, <1>4 DEF names

LEMMA OwnMatches ==
  ASSUME NEW p
  PROVE  /\ Matches(ApiRule, p) <=> p.inbound = "api"
         /\ Matches(Port53, p) <=> p.dns
         /\ Matches(Hijack, p) <=> p.dns
         /\ ApiRule.out = "api" /\ Port53.out = "dns-out" /\ Hijack.out = "hijack"
BY DEF Matches, ApiRule, Port53, Hijack, Rule

-----------------------------------------------------------------------------
(* Requests.                                                                 *)

Requests ==
  [mode : {"tun", "system-proxy"}, app_store : BOOLEAN, ping : BOOLEAN,
   protocol : {"vless", "hysteria2", "unknown"}, transport : {"tcp", "ws"},
   profile : Profiles \cup Subscriptions \cup {None},
   policy : Policies \cup {None}, rules : SUBSET RoutingRules, dns_mode : {"fakeip", "realip"}]

LEMMA PolicyType ==
  ASSUME NEW req \in Requests
  PROVE  /\ req.policy # None => req.policy \in RoutingPolicies
         /\ Split(req) => /\ req.policy # None /\ req.policy.direct \subseteq Selectors
                          /\ req.policy.dns \subseteq Selectors
                          /\ req.policy.ranges \subseteq Selectors
BY ConstantsAssumption DEF Requests, Split, RoutingPolicies

LEMMA Selections ==
  ASSUME NEW req \in Requests
  PROVE  /\ TrafficDomains(req) \in SUBSET Selectors /\ TrafficDomains(req) # {}
         /\ DnsDomains(req) \in SUBSET Selectors /\ DnsDomains(req) # {}
         /\ ToSingbox(TrafficDomains(req)) \in SUBSET Selectors
         /\ ToSingbox(DnsDomains(req)) \in SUBSET Selectors
         /\ Split(req) => req.policy.ranges \in SUBSET Selectors
         /\ \A action : /\ UserDomains(req, action) \in SUBSET Selectors
                        /\ UserProcs(req, action) \in SUBSET Selectors
<1>1. TrafficDomains(req) \in SUBSET Selectors /\ TrafficDomains(req) # {}
  BY PolicyType, ConstantsAssumption DEF TrafficDomains
<1>2. DnsDomains(req) \in SUBSET Selectors /\ DnsDomains(req) # {}
  BY PolicyType, ConstantsAssumption DEF DnsDomains
<1>3. ASSUME NEW action
      PROVE  /\ UserDomains(req, action) \in SUBSET Selectors
             /\ UserProcs(req, action) \in SUBSET Selectors
  <2>1. \A r \in req.rules : r.value \in Selectors
    BY DEF Requests, RoutingRules
  <2>. QED  BY <2>1, ConstantsAssumption DEF UserDomains, UserProcs
<1>. QED  BY <1>1, <1>2, <1>3, PolicyType DEF ToSingbox

Values(req) == {r.value : r \in req.rules}

LEMMA UserValues ==
  ASSUME NEW req \in Requests, NEW action
  PROVE  /\ UserDomains(req, action) \subseteq Values(req)
         /\ UserProcs(req, action) \subseteq Values(req) \cup SteamProcs
BY DEF UserDomains, UserProcs, Values

\* what may leave past the tunnel
Allowed(req, p) ==
  \/ p.domain \in TrafficDomains(req)
  \/ p.dns /\ UsesXray(req) /\ p.domain \in DnsDomains(req)
  \/ Split(req) /\ p.ip \in req.policy.ranges
  \/ p.process \in UserProcs(req, "direct")
  \/ (~UsesXray(req) \/ req.policy = None) /\ p.domain \in UserDomains(req, "direct")
  \/ req.policy = None /\ (UsesXray(req) \/ Tun(req)) /\ p.ip = "private"

\* the packets SplitIsSymmetric is about
Ordinary(req, p) ==
  /\ p.inbound = "app" /\ p.ip = "public"
  /\ p.domain \notin Geodata \cup Values(req)
  /\ p.process \notin SteamProcs \cup Values(req)
  /\ req.policy = None => req.profile = None /\ Marker \notin UserDomains(req, "direct")
  /\ req.policy # None => req.policy.dns \in {{}, req.policy.direct}

-----------------------------------------------------------------------------
(* sing-box.                                                                 *)

LEMMA PolicyRulesAre ==
  ASSUME NEW req \in Requests
  PROVE  /\ PolicyRules(req) \in Seq(Rules)
         /\ Elems(PolicyRules(req)) =
              {r \in {DomainRule(ToSingbox(TrafficDomains(req)), "direct")} :
                 ToSingbox(TrafficDomains(req)) # {}}
              \cup {r \in {AddressRule(req.policy.ranges, "direct")} :
                      Split(req) /\ req.policy.ranges # {}}
<1>. DEFINE names == ToSingbox(TrafficDomains(req))
            s == When(names # {}, DomainRule(names, "direct"))
            given == Split(req) /\ req.policy.ranges # {}
            t == When(given, AddressRule(req.policy.ranges, "direct"))
<1>1. "direct" \in Names
  BY ConstantsAssumption
<1>2. names # {} => DomainRule(names, "direct") \in Rules
  BY <1>1, Selections, RuleTypes
<1>3. given => AddressRule(req.policy.ranges, "direct") \in Rules
  BY <1>1, Selections, RuleTypes
<1>4. s \in Seq(Rules) /\ Elems(s) = {r \in {DomainRule(names, "direct")} : names # {}}
  <2>. HIDE DEF names
  <2>. QED  BY <1>2, WhenRules
<1>5. t \in Seq(Rules) /\ Elems(t) = {r \in {AddressRule(req.policy.ranges, "direct")} : given}
  <2>. HIDE DEF given
  <2>. QED  BY <1>3, WhenRules
<1>6. PolicyRules(req) = s \o t
  BY DEF PolicyRules
<1>. HIDE DEF s, t, names, given
<1>7. s \o t \in Seq(Rules) /\ Elems(s \o t) = Elems(s) \cup Elems(t)
  BY <1>4, <1>5, RuleCat
<1>. QED  BY <1>4, <1>5, <1>6, <1>7 DEF names, given

LEMMA ProcessesAre ==
  ASSUME NEW req \in Requests, NEW action \in {"proxy", "direct", "block"}
  PROVE  /\ Processes(req, action) \in Seq(Rules)
         /\ Elems(Processes(req, action)) =
              {r \in {ProcessRule(UserProcs(req, action), action)} : UserProcs(req, action) # {}}
<1>1. action \in Names
  BY ConstantsAssumption
<1>2. ProcessRule(UserProcs(req, action), action) \in Rules
  BY <1>1, Selections, RuleTypes
<1>. QED  BY <1>2, WhenRules DEF Processes

\* the rules of the user about a kind of action
UserPart(req, action) ==
  When(UserDomains(req, action) # {}, DomainRule(UserDomains(req, action), action))
    \o Processes(req, action)

LEMMA UserPartIs ==
  ASSUME NEW req \in Requests, NEW action \in {"proxy", "direct", "block"}
  PROVE  /\ UserPart(req, action) \in Seq(Rules)
         /\ Elems(UserPart(req, action)) =
              {r \in {DomainRule(UserDomains(req, action), action)} : UserDomains(req, action) # {}}
              \cup {r \in {ProcessRule(UserProcs(req, action), action)} :
                      UserProcs(req, action) # {}}
<1>. DEFINE r == DomainRule(UserDomains(req, action), action)
            given == UserDomains(req, action) # {}
            s == When(given, r)
            t == Processes(req, action)
<1>1. action \in Names
  BY ConstantsAssumption
<1>2. r \in Rules
  BY <1>1, Selections, RuleTypes
<1>. HIDE DEF r, given
<1>3. s \in Seq(Rules) /\ Elems(s) = {x \in {r} : given}
  BY <1>2, WhenRules
<1>4. t \in Seq(Rules)
  BY ProcessesAre
<1>. HIDE DEF s
<1>5. s \o t \in Seq(Rules) /\ Elems(s \o t) = Elems(s) \cup Elems(t)
  BY <1>3, <1>4, RuleCat
<1>6. UserPart(req, action) = s \o t
  BY DEF UserPart, s, r, given
<1>. HIDE DEF t
<1>7. Elems(t) = {x \in {ProcessRule(UserProcs(req, action), action)} : UserProcs(req, action) # {}}
  BY ProcessesAre DEF t
<1>. QED  BY <1>3, <1>5, <1>6, <1>7 DEF r, given

LEMMA BoxRulesAre ==
  ASSUME NEW req \in Requests
  PROVE  /\ BoxRules(req) \in Seq(Rules)
         /\ Elems(BoxRules(req)) =
              {Hijack} \cup {r \in {AddressRule({"private"}, "direct")} : Tun(req) /\ req.policy = None}
              \cup Elems(UserPart(req, "proxy")) \cup Elems(UserPart(req, "direct"))
              \cup Elems(UserPart(req, "block")) \cup Elems(PolicyRules(req))
<1>. DEFINE given == Tun(req) /\ req.policy = None
            r == AddressRule({"private"}, "direct")
            a == <<Hijack>>
            b == When(given, r)
            c == UserPart(req, "proxy")
            d == UserPart(req, "direct")
            e == UserPart(req, "block")
            f == PolicyRules(req)
<1>1. a \in Seq(Rules) /\ Elems(a) = {Hijack}
  BY RuleTypes, RuleList
<1>2. r \in Rules
  BY ConstantsAssumption, RuleTypes
<1>3. b \in Seq(Rules) /\ Elems(b) = {x \in {r} : given}
  <2>. HIDE DEF r, given
  <2>. QED  BY <1>2, WhenRules
<1>4. c \in Seq(Rules) /\ d \in Seq(Rules) /\ e \in Seq(Rules) /\ f \in Seq(Rules)
  BY UserPartIs, PolicyRulesAre
<1>5. BoxRules(req) = a \o b \o c \o d \o e \o f
  BY DEF BoxRules, UserPart
<1>. HIDE DEF a, b, c, d, e, f
<1>6. a \o b \in Seq(Rules) /\ Elems(a \o b) = Elems(a) \cup Elems(b)
  BY <1>1, <1>3, RuleCat
<1>7. a \o b \o c \in Seq(Rules) /\ Elems(a \o b \o c) = Elems(a \o b) \cup Elems(c)
  BY <1>6, <1>4, RuleCat
<1>8. a \o b \o c \o d \in Seq(Rules) /\ Elems(a \o b \o c \o d) = Elems(a \o b \o c) \cup Elems(d)
  BY <1>7, <1>4, RuleCat
<1>9. /\ a \o b \o c \o d \o e \in Seq(Rules)
      /\ Elems(a \o b \o c \o d \o e) = Elems(a \o b \o c \o d) \cup Elems(e)
  BY <1>8, <1>4, RuleCat
<1>10. /\ a \o b \o c \o d \o e \o f \in Seq(Rules)
       /\ Elems(a \o b \o c \o d \o e \o f) = Elems(a \o b \o c \o d \o e) \cup Elems(f)
  BY <1>9, <1>4, RuleCat
<1>. QED  BY <1>1, <1>3, <1>5, <1>6, <1>7, <1>8, <1>9, <1>10 DEF c, d, e, f, r, given

LEMMA SortedAre ==
  ASSUME NEW req \in Requests
  PROVE  /\ Sorted(req) \in Seq(Rules)
         /\ Elems(Sorted(req)) =
              Elems(Processes(req, "block")) \cup Elems(Processes(req, "direct"))
              \cup Elems(Processes(req, "proxy")) \cup Elems(PolicyRules(req))
              \cup {r \in {AddressRule({"private"}, "direct")} : req.policy = None}
<1>. DEFINE given == req.policy = None
            r == AddressRule({"private"}, "direct")
            b == Processes(req, "block")
            c == Processes(req, "direct")
            d == Processes(req, "proxy")
            e == PolicyRules(req)
            f == When(given, r)
<1>1. r \in Rules
  BY ConstantsAssumption, RuleTypes
<1>2. f \in Seq(Rules) /\ Elems(f) = {y \in {r} : given}
  <2>. HIDE DEF r, given
  <2>. QED  BY <1>1, WhenRules
<1>3. b \in Seq(Rules) /\ c \in Seq(Rules) /\ d \in Seq(Rules) /\ e \in Seq(Rules)
  BY ProcessesAre, PolicyRulesAre
<1>4. Sorted(req) = b \o c \o d \o e \o f
  BY DEF Sorted
<1>. HIDE DEF b, c, d, e, f
<1>5. b \o c \in Seq(Rules) /\ Elems(b \o c) = Elems(b) \cup Elems(c)
  BY <1>3, RuleCat
<1>6. b \o c \o d \in Seq(Rules) /\ Elems(b \o c \o d) = Elems(b \o c) \cup Elems(d)
  BY <1>3, <1>5, RuleCat
<1>7. b \o c \o d \o e \in Seq(Rules) /\ Elems(b \o c \o d \o e) = Elems(b \o c \o d) \cup Elems(e)
  BY <1>3, <1>6, RuleCat
<1>8. /\ b \o c \o d \o e \o f \in Seq(Rules)
      /\ Elems(b \o c \o d \o e \o f) = Elems(b \o c \o d \o e) \cup Elems(f)
  BY <1>2, <1>7, RuleCat
<1>. QED  BY <1>2, <1>4, <1>5, <1>6, <1>7, <1>8 DEF b, c, d, e, r, given

LEMMA BypassType == Bypass \in Rules
BY ConstantsAssumption, RuleTypes DEF Bypass

LEMMA BridgeRulesAre ==
  ASSUME NEW req \in Requests
  PROVE  /\ BridgeRules(req) \in Seq(Rules)
         /\ Elems(BridgeRules(req)) = {Hijack, Bypass} \cup Elems(Sorted(req))
         /\ BridgeRules(req) = <<Hijack, Bypass>> \o Sorted(req)
<1>. DEFINE a == <<Hijack, Bypass>>
            b == Sorted(req)
<1>1. a \in Seq(Rules) /\ Elems(a) = {Hijack, Bypass}
  <2>1. DOMAIN a = {1, 2} /\ a[1] = Hijack /\ a[2] = Bypass
    OBVIOUS
  <2>2. Elems(a) = {Hijack, Bypass}
    BY <2>1 DEF Elems
  <2>3. Hijack \in Rules
    BY RuleTypes
  <2>. QED  BY <2>2, <2>3, BypassType
<1>2. b \in Seq(Rules)
  BY SortedAre
<1>3. BridgeRules(req) = a \o b
  BY DEF BridgeRules
<1>. HIDE DEF a, b
<1>. QED  BY <1>1, <1>2, <1>3, RuleCat DEF a, b

LEMMA AppRulesAre ==
  ASSUME NEW req \in Requests
  PROVE  /\ AppRules(req) \in Seq(Rules) /\ (AppRules(req) # << >> <=> PerApp(req))
         /\ PerApp(req) => /\ Elems(AppRules(req)) = {Bypass} \cup Elems(Sorted(req))
                           /\ AppRules(req) = <<Bypass>> \o Sorted(req)
<1>. DEFINE b == Sorted(req)
<1>1. <<Bypass>> \in Seq(Rules) /\ Elems(<<Bypass>>) = {Bypass}
  BY BypassType, RuleList
<1>2. b \in Seq(Rules)
  BY SortedAre
<1>3. AppRules(req) = IF PerApp(req) THEN <<Bypass>> \o b ELSE << >>
  BY DEF AppRules
<1>. HIDE DEF b
<1>4. <<Bypass>> \o b \in Seq(Rules) /\ Elems(<<Bypass>> \o b) = {Bypass} \cup Elems(b)
  BY <1>1, <1>2, RuleCat
<1>5. <<Bypass>> \o b # << >>
  BY <1>1, <1>2
<1>. QED  BY <1>3, <1>4, <1>5, NoRules DEF b

DnsParts(req, names, mode, s, t) ==
  /\ DnsRules(req, names, mode) = s \o t
  /\ Elems(s) = {r \in {ProcessRule(UserProcs(req, "direct"), "dns-direct")} :
                   UserProcs(req, "direct") # {}}
                \cup {r \in {DomainRule(names, "dns-direct")} : names # {}}
  /\ Elems(t) = {r \in {[Rule EXCEPT !.all = TRUE, !.out = "dns-fakeip"]} : mode = "fakeip"}

LEMMA DnsRulesAre ==
  ASSUME NEW req \in Requests, NEW names \in SUBSET Selectors, NEW mode
  PROVE  \E s, t \in Seq(Rules) : DnsParts(req, names, mode, s, t)
<1>. DEFINE x == ProcessRule(UserProcs(req, "direct"), "dns-direct")
            y == DomainRule(names, "dns-direct")
            z == [Rule EXCEPT !.all = TRUE, !.out = "dns-fakeip"]
            gx == UserProcs(req, "direct") # {}
            gy == names # {}
            gz == mode = "fakeip"
            a == When(gx, x)
            b == When(gy, y)
            c == When(gz, z)
<1>1. x \in Rules /\ y \in Rules /\ z \in Rules
  BY ConstantsAssumption, RuleTypes, Selections
<1>2. DnsRules(req, names, mode) = (a \o b) \o c
  BY DEF DnsRules
<1>. HIDE DEF x, y, z, gx, gy, gz
<1>3. /\ a \in Seq(Rules) /\ Elems(a) = {r \in {x} : gx}
      /\ b \in Seq(Rules) /\ Elems(b) = {r \in {y} : gy}
      /\ c \in Seq(Rules) /\ Elems(c) = {r \in {z} : gz}
  BY <1>1, WhenRules
<1>. HIDE DEF a, b, c
<1>4. a \o b \in Seq(Rules) /\ Elems(a \o b) = Elems(a) \cup Elems(b)
  BY <1>3, RuleCat
<1>5. /\ Elems(a \o b) = {r \in {x} : gx} \cup {r \in {y} : gy}
      /\ Elems(c) = {r \in {z} : gz}
  BY <1>3, <1>4
<1>6. DnsParts(req, names, mode, a \o b, c)
  BY <1>2, <1>5 DEF DnsParts, x, y, z, gx, gy, gz
<1>. QED  BY <1>3, <1>4, <1>6

LEMMA BoxSends ==
  ASSUME NEW req \in Requests, ~UsesXray(req), NEW p
  PROVE  /\ FirstMatch(BoxRules(req), p, "proxy") = "direct" => Allowed(req, p)
         /\ FirstMatch(BoxRules(req), p, "proxy") = "hijack" => p.dns
<1>. DEFINE out == FirstMatch(BoxRules(req), p, "proxy")
<1>1. CASE out = "proxy"
  BY <1>1
<1>2. CASE \E r \in Elems(BoxRules(req)) : Matches(r, p) /\ out = r.out
  <2>1. PICK r \in Elems(BoxRules(req)) : Matches(r, p) /\ out = r.out
    BY <1>2
  <2>. SUFFICES (out = "direct" => Allowed(req, p)) /\ (out = "hijack" => p.dns)
    OBVIOUS
  <2>. HIDE DEF out
  <2>2. CASE r = Hijack
    BY <2>1, <2>2, OwnMatches
  <2>3. CASE r = AddressRule({"private"}, "direct") /\ Tun(req) /\ req.policy = None
    <3>1. p.ip = "private" /\ r.out = "direct"
      BY <2>1, <2>3, OneMatches
    <3>. QED  BY <2>1, <2>3, <3>1 DEF Allowed
  <2>4. ASSUME NEW action \in {"proxy", "direct", "block"}, r \in Elems(UserPart(req, action))
        PROVE  (out = "direct" => Allowed(req, p)) /\ out # "hijack"
    <3>1. CASE r = DomainRule(UserDomains(req, action), action) /\ UserDomains(req, action) # {}
      BY <2>1, <3>1, RuleMatches DEF Allowed
    <3>2. CASE r = ProcessRule(UserProcs(req, action), action) /\ UserProcs(req, action) # {}
      BY <2>1, <3>2, RuleMatches DEF Allowed
    <3>. QED  BY <2>4, <3>1, <3>2, UserPartIs
  <2>5. CASE r \in Elems(PolicyRules(req))
    <3>1. CASE /\ r = DomainRule(ToSingbox(TrafficDomains(req)), "direct")
               /\ ToSingbox(TrafficDomains(req)) # {}
      <4>1. p.domain \in ToSingbox(TrafficDomains(req)) /\ r.out = "direct"
        BY <2>1, <3>1, DomainMatches
      <4>. QED  BY <2>1, <4>1 DEF Allowed, ToSingbox
    <3>2. CASE /\ r = AddressRule(req.policy.ranges, "direct")
               /\ Split(req) /\ req.policy.ranges # {}
      <4>. DEFINE ranges == req.policy.ranges
      <4>1. p.ip \in ranges /\ r.out = "direct"
        <5>1. r = AddressRule(ranges, "direct") /\ ranges # {}
          BY <3>2
        <5>. HIDE DEF ranges
        <5>. QED  BY <2>1, <5>1, AddressMatches
      <4>. QED  BY <2>1, <3>2, <4>1 DEF Allowed
    <3>. QED  BY <2>5, <3>1, <3>2, PolicyRulesAre
  <2>6. \/ r = Hijack
        \/ r = AddressRule({"private"}, "direct") /\ Tun(req) /\ req.policy = None
        \/ \E action \in {"proxy", "direct", "block"} : r \in Elems(UserPart(req, action))
        \/ r \in Elems(PolicyRules(req))
    BY <2>1, BoxRulesAre
  <2>. QED  BY <2>2, <2>3, <2>4, <2>5, <2>6
<1>. QED  BY <1>1, <1>2, BoxRulesAre, MatchIsRule

\* what both bridges do with an application's packet
LEMMA SortedSends ==
  ASSUME NEW req \in Requests, NEW p, NEW r \in Elems(Sorted(req)), Matches(r, p)
  PROVE  /\ r.out \in {"block", "direct", "proxy"}
         /\ r.out = "direct" =>
              \/ p.domain \in ToSingbox(TrafficDomains(req))
              \/ Split(req) /\ p.ip \in req.policy.ranges
              \/ p.process \in UserProcs(req, "direct")
              \/ req.policy = None /\ p.ip = "private"
         /\ r.out = "block" => p.process \in UserProcs(req, "block")
<1>1. CASE r = AddressRule({"private"}, "direct") /\ req.policy = None
  <2>1. r.out = "direct" /\ p.ip = "private"
    BY <1>1, OneMatches
  <2>. QED  BY <1>1, <2>1
<1>2. ASSUME NEW action \in {"proxy", "direct", "block"}, r \in Elems(Processes(req, action))
      PROVE  r.out = action /\ p.process \in UserProcs(req, action)
  <2>1. r = ProcessRule(UserProcs(req, action), action) /\ UserProcs(req, action) # {}
    BY <1>2, ProcessesAre
  <2>. QED  BY <2>1, ProcessMatches
<1>3. CASE r \in Elems(PolicyRules(req))
  <2>1. CASE /\ r = DomainRule(ToSingbox(TrafficDomains(req)), "direct")
             /\ ToSingbox(TrafficDomains(req)) # {}
    BY <2>1, DomainMatches
  <2>2. CASE /\ r = AddressRule(req.policy.ranges, "direct")
             /\ Split(req) /\ req.policy.ranges # {}
    <3>. DEFINE ranges == req.policy.ranges
    <3>1. p.ip \in ranges /\ r.out = "direct"
      <4>1. r = AddressRule(ranges, "direct") /\ ranges # {}
        BY <2>2
      <4>. HIDE DEF ranges
      <4>. QED  BY <4>1, AddressMatches
    <3>. QED  BY <2>2, <3>1
  <2>. QED  BY <1>3, <2>1, <2>2, PolicyRulesAre
<1>. QED  BY <1>1, <1>2, <1>3, SortedAre

LEMMA BridgeSends ==
  ASSUME NEW req \in Requests, UsesXray(req), NEW p, p.process # "xray"
  PROVE  /\ FirstMatch(BridgeRules(req), p, "proxy") = "direct" => Allowed(req, p)
         /\ FirstMatch(BridgeRules(req), p, "proxy") = "hijack" => p.dns
<1>. DEFINE out == FirstMatch(BridgeRules(req), p, "proxy")
<1>1. CASE out = "proxy"
  BY <1>1
<1>2. CASE \E r \in Elems(BridgeRules(req)) : Matches(r, p) /\ out = r.out
  <2>1. PICK r \in Elems(BridgeRules(req)) : Matches(r, p) /\ out = r.out
    BY <1>2
  <2>. HIDE DEF out
  <2>2. CASE r = Hijack
    BY <2>1, <2>2, OwnMatches DEF out
  <2>3. CASE r = Bypass
    BY <2>1, <2>3, OneMatches DEF Bypass
  <2>4. CASE r \in Elems(Sorted(req))
    <3>1. /\ out \in {"block", "direct", "proxy"}
          /\ out = "direct" =>
               \/ p.domain \in ToSingbox(TrafficDomains(req))
               \/ Split(req) /\ p.ip \in req.policy.ranges
               \/ p.process \in UserProcs(req, "direct")
               \/ req.policy = None /\ p.ip = "private"
      BY <2>1, <2>4, SortedSends
    <3>. QED  BY <3>1 DEF Allowed, ToSingbox, out
  <2>. QED  BY <2>1, <2>2, <2>3, <2>4, BridgeRulesAre
<1>. QED  BY <1>1, <1>2, BridgeRulesAre, MatchIsRule

LEMMA BypassMatches ==
  ASSUME NEW p
  PROVE  Bypass.out = "direct" /\ (Matches(Bypass, p) <=> p.process = "xray")
BY OneMatches, ProcessMatches DEF Bypass

\* what xray sends passes the bridge
LEMMA BridgeLetsXrayOut ==
  ASSUME NEW req \in Requests, NEW p, p.process = "xray", ~p.dns
  PROVE  FirstMatch(BridgeRules(req), p, "proxy") = "direct"
<1>. DEFINE s == <<Hijack, Bypass>>
            t == Sorted(req)
<1>1. s \in Seq(Rules) /\ Elems(s) = {Hijack, Bypass}
  <2>1. DOMAIN s = {1, 2} /\ s[1] = Hijack /\ s[2] = Bypass
    OBVIOUS
  <2>2. Elems(s) = {Hijack, Bypass}
    BY <2>1 DEF Elems
  <2>3. Hijack \in Rules
    BY RuleTypes
  <2>. QED  BY <2>2, <2>3, BypassType
<1>2. Decides(s, p, "direct")
  <2>1. ~Matches(Hijack, p)
    BY OwnMatches
  <2>. HIDE DEF s
  <2>. QED  BY <1>1, <2>1, BypassMatches DEF Decides
<1>3. BridgeRules(req) = s \o t /\ t \in Seq(Rules)
  BY BridgeRulesAre, SortedAre
<1>. HIDE DEF s, t
<1>. QED  BY <1>1, <1>2, <1>3, DecidedFirst

\* the bridge of system-proxy mode, which does not learn the name
Unnamed(p) == [p EXCEPT !.domain = "unseen"]
AppOut(req, p) == FirstMatch(AppRules(req), Unnamed(p), "final")

LEMMA UnnamedIs ==
  ASSUME NEW p \in PacketForms
  PROVE  /\ Unnamed(p).domain = "unseen" /\ Unnamed(p).ip = p.ip /\ Unnamed(p).dns = p.dns
         /\ Unnamed(p).process = p.process
BY DEF Unnamed, PacketForms

LEMMA AppsLetXrayOut ==
  ASSUME NEW req \in Requests, PerApp(req), NEW p \in PacketForms, p.process = "xray"
  PROVE  AppOut(req, p) = "direct"
<1>. DEFINE s == <<Bypass>>
            t == Sorted(req)
            q == Unnamed(p)
<1>1. s \in Seq(Rules) /\ Elems(s) = {Bypass}
  BY BypassType, RuleList
<1>2. q.process = "xray"
  BY UnnamedIs
<1>3. AppRules(req) = s \o t /\ t \in Seq(Rules)
  BY AppRulesAre, SortedAre
<1>. HIDE DEF s, t, q
<1>4. Decides(s, q, "direct")
  BY <1>1, <1>2, BypassMatches DEF Decides
<1>5. FirstMatch(AppRules(req), q, "final") = "direct"
  BY <1>1, <1>3, <1>4, DecidedFirst
<1>. QED  BY <1>5 DEF AppOut, q

\* Only what a rule about programs or addresses lets out leaves directly, or what no rule
\* is about; a program the user sends through the tunnel, and no other rule is about, is
\* handed to it.
LEMMA AppSends ==
  ASSUME NEW req \in Requests, PerApp(req), NEW p \in PacketForms, p.process # "xray"
  PROVE  /\ AppOut(req, p) \in {"block", "direct", "proxy", "final"}
         /\ AppOut(req, p) = "direct" =>
              \/ Split(req) /\ p.ip \in req.policy.ranges
              \/ p.process \in UserProcs(req, "direct")
              \/ req.policy = None /\ p.ip = "private"
         /\ AppOut(req, p) = "block" => p.process \in UserProcs(req, "block")
         /\ AppOut(req, p) = "final" => p.process \notin UserProcs(req, "proxy")
<1>. DEFINE w == AppRules(req)
            q == Unnamed(p)
            out == AppOut(req, p)
<1>1. w \in Seq(Rules) /\ Elems(w) = {Bypass} \cup Elems(Sorted(req))
  BY AppRulesAre
<1>2. q.domain = "unseen" /\ q.ip = p.ip /\ q.process = p.process
  BY UnnamedIs
<1>3. "unseen" \notin ToSingbox(TrafficDomains(req))
  BY Selections, ConstantsAssumption
<1>4. out = FirstMatch(w, q, "final")
  BY DEF AppOut
<1>. HIDE DEF w, q, out
<1>5. CASE \A r \in Elems(w) : ~Matches(r, q)
  <2>1. out = "final"
    BY <1>1, <1>4, <1>5, NothingMatches
  <2>2. p.process \notin UserProcs(req, "proxy")
    <3>. SUFFICES ASSUME p.process \in UserProcs(req, "proxy") PROVE FALSE
      OBVIOUS
    <3>1. ProcessRule(UserProcs(req, "proxy"), "proxy") \in Elems(w)
      BY <1>1, SortedAre, ProcessesAre
    <3>2. Matches(ProcessRule(UserProcs(req, "proxy"), "proxy"), q)
      BY <1>2, ProcessMatches
    <3>. QED  BY <1>5, <3>1, <3>2
  <2>. QED  BY <2>1, <2>2 DEF out
<1>6. CASE \E r \in Elems(w) : Matches(r, q)
  <2>1. PICK r \in Elems(w) : Matches(r, q) /\ out = r.out
    BY <1>1, <1>4, <1>6, MatchIsRule
  <2>2. r # Bypass
    BY <1>2, <2>1, BypassMatches
  <2>3. r \in Elems(Sorted(req))
    BY <1>1, <2>2
  <2>4. /\ out \in {"block", "direct", "proxy"}
        /\ out = "direct" =>
             \/ q.domain \in ToSingbox(TrafficDomains(req))
             \/ Split(req) /\ q.ip \in req.policy.ranges
             \/ q.process \in UserProcs(req, "direct")
             \/ req.policy = None /\ q.ip = "private"
        /\ out = "block" => q.process \in UserProcs(req, "block")
    BY <2>1, <2>3, SortedSends
  <2>. QED  BY <1>2, <1>3, <2>4 DEF out
<1>. QED  BY <1>5, <1>6

\* the resolvers of sing-box
LEMMA DnsSends ==
  ASSUME NEW req \in Requests, NEW names \in SUBSET Selectors, NEW mode, NEW p,
         FirstMatch(DnsRules(req, names, mode), p, "dns-remote") = "dns-direct"
  PROVE  p.process \in UserProcs(req, "direct") \/ p.domain \in names
<1>1. PICK s, t \in Seq(Rules) : DnsParts(req, names, mode, s, t)
  BY DnsRulesAre
<1>2. s \o t \in Seq(Rules) /\ Elems(s \o t) = Elems(s) \cup Elems(t)
  BY RuleCat
<1>. DEFINE w == DnsRules(req, names, mode)
<1>3. w \in Seq(Rules) /\ Elems(w) = Elems(s) \cup Elems(t)
  BY <1>1, <1>2 DEF DnsParts
<1>. HIDE DEF w
<1>4. PICK r \in Elems(w) : Matches(r, p) /\ r.out = "dns-direct"
  <2>1. FirstMatch(w, p, "dns-remote") = "dns-direct"
    BY DEF w
  <2>. QED  BY <1>3, <2>1, MatchIsRule
<1>5. CASE r = ProcessRule(UserProcs(req, "direct"), "dns-direct") /\ UserProcs(req, "direct") # {}
  BY <1>4, <1>5, ProcessMatches
<1>6. CASE r = DomainRule(names, "dns-direct") /\ names # {}
  BY <1>4, <1>6, DomainMatches
<1>7. CASE r = [Rule EXCEPT !.all = TRUE, !.out = "dns-fakeip"]
  <2>1. r.out = "dns-fakeip"
    BY <1>7, RuleMatches
  <2>. QED  BY <1>4, <2>1
<1>. QED  BY <1>1, <1>3, <1>4, <1>5, <1>6, <1>7 DEF DnsParts

LEMMA DnsDecides ==
  ASSUME NEW req \in Requests, NEW names \in SUBSET Selectors, NEW mode, NEW p,
         p.domain \in names, ~p.dns
  PROVE  FirstMatch(DnsRules(req, names, mode), p, "dns-remote") = "dns-direct"
<1>1. PICK s, t \in Seq(Rules) : DnsParts(req, names, mode, s, t)
  BY DnsRulesAre
<1>2. Matches(DomainRule(names, "dns-direct"), p)
  BY DomainMatches
<1>3. Decides(s, p, "dns-direct")
  <2>1. DomainRule(names, "dns-direct") \in Elems(s)
    BY <1>1 DEF DnsParts
  <2>2. ASSUME NEW r \in Elems(s) PROVE r.out = "dns-direct"
    <3>1. \/ r = ProcessRule(UserProcs(req, "direct"), "dns-direct")
          \/ r = DomainRule(names, "dns-direct")
      BY <1>1 DEF DnsParts
    <3>. QED  BY <3>1 DEF ProcessRule, DomainRule, Rule
  <2>. QED  BY <1>2, <2>1, <2>2 DEF Decides
<1>. QED  BY <1>1, <1>3, DecidedFirst DEF DnsParts

LEMMA BoxKeepsSplit ==
  ASSUME NEW req \in Requests, NEW p, Ordinary(req, p), p.domain \in TrafficDomains(req),
         p.dns \in BOOLEAN
  PROVE  FirstMatch(BoxRules(req), p, "proxy") = IF p.dns THEN "hijack" ELSE "direct"
<1>. DEFINE names == ToSingbox(TrafficDomains(req))
            out == IF p.dns THEN "hijack" ELSE "direct"
<1>1. p.domain \in names
  BY DEF Ordinary, ToSingbox
<1>2. ASSUME NEW r \in Elems(BoxRules(req)), Matches(r, p) PROVE r.out = out
  <2>1. CASE r = Hijack
    BY <1>2, <2>1, OwnMatches
  <2>2. CASE r = AddressRule({"private"}, "direct")
    <3>1. p.ip = "private" /\ p.ip = "public"
      BY <1>2, <2>2, OneMatches DEF Ordinary
    <3>. QED  BY <3>1
  <2>3. ASSUME NEW action \in {"proxy", "direct", "block"}, r \in Elems(UserPart(req, action))
        PROVE  FALSE
    <3>1. p.domain \notin UserDomains(req, action) /\ p.process \notin UserProcs(req, action)
      BY UserValues DEF Ordinary
    <3>2. CASE r = DomainRule(UserDomains(req, action), action) /\ UserDomains(req, action) # {}
      BY <1>2, <3>1, <3>2, DomainMatches
    <3>3. CASE r = ProcessRule(UserProcs(req, action), action) /\ UserProcs(req, action) # {}
      BY <1>2, <3>1, <3>3, ProcessMatches
    <3>. QED  BY <2>3, <3>2, <3>3, UserPartIs
  <2>4. CASE r \in Elems(PolicyRules(req))
    <3>1. CASE r = DomainRule(names, "direct") /\ names # {}
      BY <1>2, <3>1, DomainMatches
    <3>2. CASE /\ r = AddressRule(req.policy.ranges, "direct")
               /\ Split(req) /\ req.policy.ranges # {}
      <4>1. p.ip \notin req.policy.ranges
        BY <3>2, PolicyType, ConstantsAssumption DEF Ordinary
      <4>. QED  BY <1>2, <3>2, <4>1, AddressMatches
    <3>. QED  BY <2>4, <3>1, <3>2, PolicyRulesAre
  <2>. QED  BY <2>1, <2>2, <2>3, <2>4, BoxRulesAre
<1>3. \E r \in Elems(BoxRules(req)) : Matches(r, p)
  <2>1. CASE p.dns
    BY <2>1, BoxRulesAre, OwnMatches
  <2>2. CASE ~p.dns
    <3>1. DomainRule(names, "direct") \in Elems(BoxRules(req))
      BY <1>1, BoxRulesAre, PolicyRulesAre
    <3>2. Matches(DomainRule(names, "direct"), p)
      BY <1>1, <2>2, DomainMatches
    <3>. QED  BY <3>1, <3>2
  <2>. QED  BY <2>1, <2>2
<1>. HIDE DEF out
<1>4. FirstMatch(BoxRules(req), p, "proxy") = out
  BY <1>2, <1>3, BoxRulesAre, MatchIsRule
<1>. QED  BY <1>4 DEF out

LEMMA BridgeKeepsSplit ==
  ASSUME NEW req \in Requests, NEW p, Ordinary(req, p), p.domain \in TrafficDomains(req),
         p.dns \in BOOLEAN, p.process # "xray"
  PROVE  FirstMatch(BridgeRules(req), p, "proxy") = IF p.dns THEN "hijack" ELSE "direct"
<1>. DEFINE names == ToSingbox(TrafficDomains(req))
            out == IF p.dns THEN "hijack" ELSE "direct"
<1>1. p.domain \in names
  BY DEF Ordinary, ToSingbox
<1>2. ASSUME NEW r \in Elems(BridgeRules(req)), Matches(r, p) PROVE r.out = out
  <2>1. CASE r = Hijack
    BY <1>2, <2>1, OwnMatches
  <2>2. CASE r = AddressRule({"private"}, "direct")
    <3>1. p.ip = "private" /\ p.ip = "public"
      BY <1>2, <2>2, OneMatches DEF Ordinary
    <3>. QED  BY <3>1
  <2>3. CASE r = Bypass
    BY <1>2, <2>3, BypassMatches
  <2>4. ASSUME NEW action \in {"proxy", "direct", "block"}, r \in Elems(Processes(req, action))
        PROVE  FALSE
    <3>1. p.process \notin UserProcs(req, action)
      BY UserValues DEF Ordinary
    <3>2. r = ProcessRule(UserProcs(req, action), action) /\ UserProcs(req, action) # {}
      BY <2>4, ProcessesAre
    <3>. QED  BY <1>2, <3>1, <3>2, ProcessMatches
  <2>5. CASE r \in Elems(PolicyRules(req))
    <3>1. CASE r = DomainRule(names, "direct") /\ names # {}
      BY <1>2, <3>1, DomainMatches
    <3>2. CASE /\ r = AddressRule(req.policy.ranges, "direct")
               /\ Split(req) /\ req.policy.ranges # {}
      <4>1. p.ip \notin req.policy.ranges
        BY <3>2, PolicyType, ConstantsAssumption DEF Ordinary
      <4>. QED  BY <1>2, <3>2, <4>1, AddressMatches
    <3>. QED  BY <2>5, <3>1, <3>2, PolicyRulesAre
  <2>. QED  BY <2>1, <2>2, <2>3, <2>4, <2>5, BridgeRulesAre, SortedAre
<1>3. \E r \in Elems(BridgeRules(req)) : Matches(r, p)
  <2>1. CASE p.dns
    BY <2>1, BridgeRulesAre, OwnMatches
  <2>2. CASE ~p.dns
    <3>1. DomainRule(names, "direct") \in Elems(BridgeRules(req))
      BY <1>1, BridgeRulesAre, SortedAre, PolicyRulesAre
    <3>2. Matches(DomainRule(names, "direct"), p)
      BY <1>1, <2>2, DomainMatches
    <3>. QED  BY <3>1, <3>2
  <2>. QED  BY <2>1, <2>2
<1>. HIDE DEF out
<1>4. FirstMatch(BridgeRules(req), p, "proxy") = out
  BY <1>2, <1>3, BridgeRulesAre, MatchIsRule
<1>. QED  BY <1>4 DEF out

-----------------------------------------------------------------------------
(* The rules apply_xray_routing_policy adds.                                 *)

DnsDirect == [Rule EXCEPT !.inbound = {"dns-direct"}, !.out = "direct"]
DnsRemote(target) == [Rule EXCEPT !.inbound = {"dns-remote"}, !.out = target]
AllTo(target) == [Rule EXCEPT !.all = TRUE, !.out = target]
Ranges(req) == AddressRule(req.policy.ranges, "direct")
Private == AddressRule({"private"}, "direct")
Governed(req, legacy) == req.policy # None \/ legacy

LEMMA AddedTypes ==
  ASSUME NEW req \in Requests, NEW target \in Names
  PROVE  /\ DnsDirect \in Rules /\ DnsRemote(target) \in Rules /\ AllTo(target) \in Rules
         /\ DomainRule(TrafficDomains(req), "direct") \in Rules /\ Private \in Rules
         /\ Split(req) => Ranges(req) \in Rules
<1>1. {"dns-direct"} \in SUBSET Names /\ {"dns-remote"} \in SUBSET Names /\ "direct" \in Names
  BY ConstantsAssumption
<1>2. {"private"} \in SUBSET Selectors
  BY ConstantsAssumption
<1>3. DnsDirect \in Rules /\ DnsRemote(target) \in Rules
  BY <1>1, RuleTypes DEF DnsDirect, DnsRemote
<1>4. AllTo(target) \in Rules
  BY RuleTypes DEF AllTo
<1>. QED  BY <1>1, <1>2, <1>3, <1>4, Selections, RuleTypes DEF Private, Ranges

LEMMA AddedMatches ==
  ASSUME NEW p, NEW target
  PROVE  /\ Matches(DnsDirect, p) <=> p.inbound = "dns-direct"
         /\ Matches(DnsRemote(target), p) <=> p.inbound = "dns-remote"
         /\ Matches(Private, p) <=> p.ip = "private"
         /\ Matches(AllTo(target), p)
         /\ DnsDirect.out = "direct" /\ DnsRemote(target).out = target /\ Private.out = "direct"
         /\ AllTo(target).out = target
<1>1. (Matches(DnsDirect, p) <=> p.inbound = "dns-direct") /\ DnsDirect.out = "direct"
  BY OneMatches DEF DnsDirect
<1>2. (Matches(DnsRemote(target), p) <=> p.inbound = "dns-remote") /\ DnsRemote(target).out = target
  BY OneMatches DEF DnsRemote
<1>3. (Matches(Private, p) <=> p.ip = "private") /\ Private.out = "direct"
  BY OneMatches DEF Private
<1>4. Matches(AllTo(target), p) /\ AllTo(target).out = target
  BY RuleMatches DEF AllTo
<1>. QED  BY <1>1, <1>2, <1>3, <1>4

LEMMA ResolverRulesAre ==
  ASSUME NEW req \in Requests, NEW legacy, NEW target \in Names
  PROVE  /\ ResolverRules(req, legacy, target) \in Seq(Rules)
         /\ Elems(ResolverRules(req, legacy, target)) =
              {r \in {DnsDirect, DnsRemote(target)} : Governed(req, legacy)}
<1>. DEFINE g == Governed(req, legacy)
            ga == g /\ DnsDomains(req) # {}
            a == When(ga, DnsDirect)
            b == When(g, DnsRemote(target))
<1>1. ResolverRules(req, legacy, target) = a \o b
  BY DEF ResolverRules, Governed, DnsDirect, DnsRemote
<1>2. ga = g \/ ~g
  BY Selections
<1>3. DnsDirect \in Rules /\ DnsRemote(target) \in Rules
  BY AddedTypes
<1>. HIDE DEF g, ga
<1>4. /\ a \in Seq(Rules) /\ Elems(a) = {x \in {DnsDirect} : ga}
      /\ b \in Seq(Rules) /\ Elems(b) = {x \in {DnsRemote(target)} : g}
  BY <1>3, WhenRules
<1>5. ga <=> g
  BY Selections DEF ga, g
<1>. HIDE DEF a, b
<1>6. a \o b \in Seq(Rules) /\ Elems(a \o b) = Elems(a) \cup Elems(b)
  BY <1>4, RuleCat
<1>. QED  BY <1>1, <1>4, <1>5, <1>6 DEF g

LEMMA DirectRulesAre ==
  ASSUME NEW req \in Requests, NEW legacy, NEW rules
  PROVE  /\ DirectRules(rules, req, legacy) \in Seq(Rules)
         /\ \A r \in Elems(DirectRules(rules, req, legacy)) :
              \/ r = DomainRule(TrafficDomains(req), "direct") /\ Governed(req, legacy)
              \/ r = Private /\ legacy /\ req.policy = None
              \/ r = Ranges(req) /\ Split(req) /\ req.policy.ranges # {}
         /\ Governed(req, legacy) /\ ~(req.policy = None /\ Exists(rules, HasDefaultDirect)) =>
              DomainRule(TrafficDomains(req), "direct") \in Elems(DirectRules(rules, req, legacy))
<1>. DEFINE g == Governed(req, legacy)
            names == IF g THEN TrafficDomains(req) ELSE {}
            private(r) == r.out = "direct" /\ "private" \in r.ip
            ga == names # {} /\ ~(req.policy = None /\ Exists(rules, HasDefaultDirect))
            gb == legacy /\ req.policy = None /\ ~Exists(rules, private)
            gc == Split(req) /\ req.policy.ranges # {}
            x == DomainRule(names, "direct")
            y == Private
            z == Ranges(req)
            a == When(ga, x)
            b == When(gb, y)
            c == When(gc, z)
<1>1. DirectRules(rules, req, legacy) = a \o b \o c
  BY DEF DirectRules, Governed, Private, Ranges
<1>2. ga => g /\ x = DomainRule(TrafficDomains(req), "direct")
  OBVIOUS
<1>3. (ga => x \in Rules) /\ y \in Rules /\ (gc => z \in Rules)
  BY <1>2, AddedTypes, ConstantsAssumption
<1>4. g /\ ~(req.policy = None /\ Exists(rules, HasDefaultDirect)) => ga
  BY Selections
<1>5. (gb => legacy /\ req.policy = None) /\ (gc => Split(req) /\ req.policy.ranges # {})
  OBVIOUS
<1>. HIDE DEF g, names, ga, gb, gc, x, y, z
<1>6. /\ a \in Seq(Rules) /\ Elems(a) = {r \in {x} : ga}
      /\ b \in Seq(Rules) /\ Elems(b) = {r \in {y} : gb}
      /\ c \in Seq(Rules) /\ Elems(c) = {r \in {z} : gc}
  BY <1>3, WhenRules
<1>. HIDE DEF a, b, c
<1>7. a \o b \in Seq(Rules) /\ Elems(a \o b) = Elems(a) \cup Elems(b)
  BY <1>6, RuleCat
<1>8. a \o b \o c \in Seq(Rules) /\ Elems(a \o b \o c) = Elems(a \o b) \cup Elems(c)
  BY <1>6, <1>7, RuleCat
<1>9. \A r \in Elems(a \o b \o c) : (r = x /\ ga) \/ (r = y /\ gb) \/ (r = z /\ gc)
  BY <1>6, <1>7, <1>8
<1>10. ga => x \in Elems(a \o b \o c)
  BY <1>6, <1>7, <1>8
<1>. QED  BY <1>1, <1>2, <1>4, <1>5, <1>8, <1>9, <1>10 DEF g, y, z

Target(c) == IF IsManaged(c) THEN "balancer" ELSE "proxy"

LEMMA AdditionsAre ==
  ASSUME NEW req \in Requests, NEW legacy, NEW rules \in Seq(Rules), NEW target \in Names
  PROVE  /\ Additions(rules, req, legacy, target) \in Seq(Rules)
         /\ Additions(rules, req, legacy, target) =
              ResolverRules(req, legacy, target)
                \o (When(~Exists(rules, IsPort53), Port53) \o DirectRules(rules, req, legacy))
         /\ When(~Exists(rules, IsPort53), Port53) \in Seq(Rules)
         /\ Elems(Additions(rules, req, legacy, target)) =
              Elems(ResolverRules(req, legacy, target))
              \cup {r \in {Port53} : ~Exists(rules, IsPort53)}
              \cup Elems(DirectRules(rules, req, legacy))
<1>. DEFINE a == ResolverRules(req, legacy, target)
            g == ~Exists(rules, IsPort53)
            b == When(g, Port53)
            c == DirectRules(rules, req, legacy)
<1>1. Additions(rules, req, legacy, target) = (a \o b) \o c
  BY DEF Additions
<1>2. a \in Seq(Rules) /\ c \in Seq(Rules)
  BY ResolverRulesAre, DirectRulesAre
<1>. HIDE DEF a, g, c
<1>3. b \in Seq(Rules) /\ Elems(b) = {r \in {Port53} : g}
  <2>1. Port53 \in Rules
    BY RuleTypes
  <2>. QED  BY <2>1, WhenRules
<1>. HIDE DEF b
<1>4. b \o c \in Seq(Rules) /\ Elems(b \o c) = Elems(b) \cup Elems(c)
  BY <1>2, <1>3, RuleCat
<1>5. a \o (b \o c) \in Seq(Rules) /\ Elems(a \o (b \o c)) = Elems(a) \cup Elems(b \o c)
  BY <1>2, <1>4, RuleCat
<1>6. (a \o b) \o c = a \o (b \o c)
  BY <1>2, <1>3, RuleAssoc
<1>. QED  BY <1>1, <1>2, <1>3, <1>4, <1>5, <1>6 DEF a, b, c, g

\* behind the first rule of the statistics interface, and what stands before it, come the
\* additions, and then the other rules
Before(c, req) == WithApi(Retained(c.rules, req))
Applied(c, req, legacy, front, rest) ==
  /\ Before(c, req) = front \o rest
  /\ ApplyPolicy(c, req, legacy) =
       [c EXCEPT !.rules = ((front \o Additions(Before(c, req), req, legacy, Target(c))) \o rest)
                             \o When(req.policy # None, AllTo(Target(c)))]
  /\ \A t \in Seq(Rules) : Before(c, req) = <<ApiRule>> \o t => front = <<ApiRule>> /\ rest = t

LEMMA WithApiIs ==
  ASSUME NEW s \in Seq(Rules)
  PROVE  /\ WithApi(s) \in Seq(Rules)
         /\ Elems(WithApi(s)) = Elems(s) \cup {r \in {ApiRule} : ~Exists(s, IsApi)}
         /\ \E r \in Elems(WithApi(s)) : IsApi(r)
<1>1. IsApi(ApiRule)
  BY DEF IsApi, ApiRule, Rule
<1>2. CASE Exists(s, IsApi)
  BY <1>2, ExistsElems DEF WithApi
<1>3. CASE ~Exists(s, IsApi)
  <2>1. <<ApiRule>> \in Seq(Rules) /\ Elems(<<ApiRule>>) = {ApiRule}
    BY RuleTypes, RuleList
  <2>. DEFINE a == <<ApiRule>>
  <2>. HIDE DEF a
  <2>2. a \o s \in Seq(Rules) /\ Elems(a \o s) = Elems(a) \cup Elems(s)
    BY <2>1, RuleCat DEF a
  <2>3. WithApi(s) = a \o s
    BY <1>3 DEF WithApi, a
  <2>. QED  BY <1>1, <1>3, <2>1, <2>2, <2>3 DEF a
<1>. QED  BY <1>2, <1>3

LEMMA RetainedIs ==
  ASSUME NEW s \in Seq(Rules), NEW req \in Requests
  PROVE  /\ Retained(s, req) \in Seq(Rules)
         /\ Elems(Retained(s, req)) =
              {r \in Elems(s) : /\ r.inbound \cap {"dns-direct", "dns-remote"} = {}
                                /\ req.policy # None => r.out # "direct"}
<1>. DEFINE P(r) == /\ r.inbound \cap {"dns-direct", "dns-remote"} = {}
                    /\ req.policy # None => r.out # "direct"
            kept == {r \in Rules : P(r)}
<1>1. Retained(s, req) = Retain(s, kept)
  BY DEF Retained
<1>. SUFFICES Retained(s, req) \in Seq(Rules) /\ Elems(Retained(s, req)) = {r \in Elems(s) : P(r)}
  OBVIOUS
<1>. HIDE DEF P
<1>2. Elems(s) \cap kept = {r \in Elems(s) : P(r)}
  BY RuleElems
<1>. HIDE DEF kept
<1>3. Retain(s, kept) \in Seq(Rules) /\ Elems(Retain(s, kept)) = Elems(s) \cap kept
  BY RuleRetain
<1>. QED  BY <1>1, <1>2, <1>3

LEMMA ApplyIs ==
  ASSUME NEW c \in Configs, NEW req \in Requests, NEW legacy
  PROVE  \E front, rest \in Seq(Rules) : Applied(c, req, legacy, front, rest)
<1>. DEFINE rules == Before(c, req)
            api == CHOOSE i \in DOMAIN rules : IsApi(rules[i]) /\ \A j \in 1 .. i - 1 : ~IsApi(rules[j])
            front == SubSeq(rules, 1, api)
            rest == SubSeq(rules, api + 1, Len(rules))
            added == Additions(rules, req, legacy, Target(c))
            last == When(req.policy # None, AllTo(Target(c)))
<1>1. ApplyPolicy(c, req, legacy) = [c EXCEPT !.rules = front \o added \o rest \o last]
  BY DEF ApplyPolicy, Before, Target, AllTo
<1>2. c.rules \in Seq(Rules)
  BY DEF Configs
<1>3. rules \in Seq(Rules) /\ \E r \in Elems(rules) : IsApi(r)
  BY <1>2, RetainedIs, WithApiIs DEF Before
<1>. HIDE DEF rules
<1>4. \E i \in DOMAIN rules : IsApi(rules[i]) /\ \A j \in 1 .. i - 1 : ~IsApi(rules[j])
  <2>. DEFINE found == {i \in DOMAIN rules : IsApi(rules[i])}
  <2>1. found \subseteq 1 .. Len(rules) /\ found # {} /\ Len(rules) \in Nat
    BY <1>3 DEF Elems
  <2>2. PICK i \in found : \A j \in found : i <= j
    <3>. HIDE DEF found
    <3>. QED  BY <2>1, FirstPlace
  <2>3. \A j \in 1 .. i - 1 : ~IsApi(rules[j])
    <3>. TAKE j \in 1 .. i - 1
    <3>1. j \in DOMAIN rules /\ ~(i <= j)
      BY <2>1, <2>2
    <3>. QED  BY <2>2, <3>1
  <2>. QED  BY <2>2, <2>3
<1>5. api \in DOMAIN rules /\ IsApi(rules[api]) /\ \A j \in 1 .. api - 1 : ~IsApi(rules[j])
  BY <1>4
<1>. HIDE DEF api
<1>6. front \in Seq(Rules) /\ rest \in Seq(Rules) /\ rules = front \o rest
  <2>1. api \in 0 .. Len(rules)
    BY <1>3, <1>5
  <2>. QED  BY <1>3, <2>1, RuleSplit
<1>7. ASSUME NEW t \in Seq(Rules), rules = <<ApiRule>> \o t
      PROVE  front = <<ApiRule>> /\ rest = t
  <2>1. ApiRule \in Rules /\ IsApi(ApiRule)
    BY RuleTypes DEF IsApi, ApiRule, Rule
  <2>2. rules[1] = ApiRule /\ Len(rules) = Len(t) + 1
    BY <1>7, <2>1
  <2>3. api = 1
    <3>1. api \in Nat /\ api >= 1
      BY <1>3, <1>5
    <3>2. ~(1 \in 1 .. api - 1)
      BY <1>5, <2>1, <2>2
    <3>. QED  BY <3>1, <3>2
  <2>4. SubSeq(rules, 1, 1) = <<ApiRule>> /\ SubSeq(rules, 2, Len(rules)) = t
    BY <1>7, <2>1, HeadAndTail
  <2>. QED  BY <2>3, <2>4
<1>. HIDE DEF front, rest, added, last
<1>8. Applied(c, req, legacy, front, rest)
  BY <1>1, <1>6, <1>7 DEF Applied, rules, added, last
<1>. QED  BY <1>6, <1>8

-----------------------------------------------------------------------------
(* From a profile to the configuration of xray.                              *)

LEMMA ConfigFields ==
  ASSUME NEW c \in Configs
  PROVE  /\ c.outbounds \in Seq(Outbounds) /\ c.rules \in Seq(Rules)
         /\ c.balancers \subseteq Balancers /\ c.dns \subseteq Selectors
         /\ Elems(c.outbounds) \subseteq Outbounds
         /\ \A s \in Seq(Rules) : /\ [c EXCEPT !.rules = s] \in Configs
                                  /\ [c EXCEPT !.rules = s].rules = s
                                  /\ [c EXCEPT !.rules = s].outbounds = c.outbounds
                                  /\ [c EXCEPT !.rules = s].balancers = c.balancers
                                  /\ [c EXCEPT !.rules = s].observatory = c.observatory
                                  /\ [c EXCEPT !.rules = s].dns = c.dns
<1>1. c.outbounds \in Seq(Outbounds) /\ c.rules \in Seq(Rules)
      /\ c.balancers \subseteq Balancers /\ c.dns \subseteq Selectors
  BY DEF Configs
<1>2. Elems(c.outbounds) \subseteq Outbounds
  BY <1>1 DEF Elems
<1>. HIDE DEF Outbounds, Rules, Balancers
<1>3. ASSUME NEW s \in Seq(Rules)
      PROVE  /\ [c EXCEPT !.rules = s] \in Configs
             /\ [c EXCEPT !.rules = s].rules = s
             /\ [c EXCEPT !.rules = s].outbounds = c.outbounds
             /\ [c EXCEPT !.rules = s].balancers = c.balancers
             /\ [c EXCEPT !.rules = s].observatory = c.observatory
             /\ [c EXCEPT !.rules = s].dns = c.dns
  BY DEF Configs
<1>. QED  BY <1>1, <1>2, <1>3

\* whether a profile is balanced depends on its candidates, balancers and observatory
LEMMA ManagedAlike ==
  ASSUME NEW c, NEW d, Candidates(c) = Candidates(d), c.observatory = d.observatory,
         {b \in c.balancers : b.tag = "balancer"} = {b \in d.balancers : b.tag = "balancer"}
  PROVE  IsManaged(c) <=> IsManaged(d)
<1>. DEFINE balances(x) == \E b \in x.balancers : b.tag = "balancer" /\ b.selects = Entries
<1>1. balances(c) <=> balances(d)
  OBVIOUS
<1>. HIDE DEF balances
<1>2. \A x : IsManaged(x) <=> Cardinality(Candidates(x)) >= 2 /\ x.observatory /\ balances(x)
  BY DEF IsManaged, balances
<1>. QED  BY <1>1, <1>2

LEMMA SanitizeIs ==
  ASSUME NEW c \in Configs
  PROVE  /\ Sanitize(c) \in Configs
         /\ Sanitize(c).outbounds = c.outbounds /\ Sanitize(c).balancers = c.balancers
         /\ Sanitize(c).dns = c.dns
         /\ Sanitize(c).rules = Strip(c.rules, Unsupported, Unsupported)
         /\ IsManaged(Sanitize(c)) <=> IsManaged(c)
<1>. DEFINE s == Strip(c.rules, Unsupported, Unsupported)
            d == [c EXCEPT !.rules = s]
<1>1. s \in Seq(Rules)
  BY ConfigFields, StripElems
<1>2. Sanitize(c) = d
  BY DEF Sanitize
<1>. HIDE DEF s
<1>3. /\ d \in Configs /\ d.rules = s /\ d.outbounds = c.outbounds
      /\ d.balancers = c.balancers /\ d.observatory = c.observatory /\ d.dns = c.dns
  BY <1>1, ConfigFields
<1>. HIDE DEF d
<1>4. IsManaged(d) <=> IsManaged(c)
  BY <1>3, ManagedAlike DEF Candidates
<1>. QED  BY <1>2, <1>3, <1>4 DEF s

LEMMA ConstrainManagedIs ==
  ASSUME NEW c \in Configs, IsManaged(c)
  PROVE  /\ ConstrainManaged(c) \in Configs
         /\ Elems(ConstrainManaged(c).outbounds) = {o \in Elems(c.outbounds) : KeepsManaged(o)}
         /\ ConstrainManaged(c).balancers = {b \in c.balancers : b.tag = "balancer"}
         /\ ConstrainManaged(c).rules = << >>
         /\ IsManaged(ConstrainManaged(c))
<1>. DEFINE os == Retain(c.outbounds, {o \in Outbounds : KeepsManaged(o)})
            bs == {b \in c.balancers : b.tag = "balancer"}
            d == ConstrainManaged(c)
<1>1. d = [c EXCEPT !.outbounds = os, !.balancers = bs, !.rules = << >>]
  BY DEF ConstrainManaged
<1>2. os \in Seq(Outbounds)
  BY ConfigFields, OutboundRetain
<1>3. Elems(os) = {o \in Elems(c.outbounds) : KeepsManaged(o)}
  <2>. DEFINE kept == {o \in Outbounds : KeepsManaged(o)}
  <2>1. Elems(c.outbounds) \cap kept = {o \in Elems(c.outbounds) : KeepsManaged(o)}
    BY ConfigFields
  <2>. HIDE DEF kept
  <2>2. Elems(Retain(c.outbounds, kept)) = Elems(c.outbounds) \cap kept
    BY ConfigFields, OutboundRetain
  <2>. QED  BY <2>1, <2>2 DEF kept
<1>. HIDE DEF os
<1>4. bs \subseteq Balancers
  BY ConfigFields
<1>. HIDE DEF bs, d
<1>5. d \in Configs /\ d.outbounds = os /\ d.balancers = bs /\ d.rules = << >>
      /\ d.observatory = c.observatory
  BY <1>1, <1>2, <1>4, NoRules DEF Configs
<1>6. Candidates(d) = Candidates(c)
  BY <1>3, <1>5 DEF Candidates, KeepsManaged
<1>7. {b \in d.balancers : b.tag = "balancer"} = {b \in c.balancers : b.tag = "balancer"}
  BY <1>5 DEF bs
<1>8. IsManaged(d)
  BY <1>5, <1>6, <1>7, ManagedAlike
<1>. QED  BY <1>3, <1>5, <1>8 DEF d, bs

LEMMA ConstrainPlainIs ==
  ASSUME NEW c \in Configs
  PROVE  /\ ConstrainPlain(c) \in Configs
         /\ Elems(ConstrainPlain(c).outbounds) = {o \in Elems(c.outbounds) : KeepsPlain(o)}
         /\ ConstrainPlain(c).balancers = {}
         /\ \E tags : /\ ConstrainPlain(c).rules = Retain(c.rules, {r \in Rules : r.out \in tags})
                      /\ tags = {o.tag : o \in {q \in Elems(c.outbounds) : KeepsPlain(q)}}
         /\ ~IsManaged(ConstrainPlain(c))
<1>. DEFINE kept == Retain(c.outbounds, {o \in Outbounds : KeepsPlain(o)})
            a == Retain(kept, {o \in Outbounds : o.tag = "proxy"})
            b == Retain(kept, {o \in Outbounds : o.tag # "proxy"})
            rs == Retain(c.rules, {r \in Rules : r.out \in Tags(kept)})
            d == ConstrainPlain(c)
<1>1. d = [c EXCEPT !.outbounds = a \o b, !.balancers = {}, !.rules = rs]
  BY DEF ConstrainPlain, ProxyFirst
<1>2. kept \in Seq(Outbounds)
  BY ConfigFields, OutboundRetain
<1>3. Elems(kept) = {o \in Elems(c.outbounds) : KeepsPlain(o)}
  <2>. DEFINE all == {o \in Outbounds : KeepsPlain(o)}
  <2>1. Elems(c.outbounds) \cap all = {o \in Elems(c.outbounds) : KeepsPlain(o)}
    BY ConfigFields
  <2>. HIDE DEF all
  <2>2. Elems(Retain(c.outbounds, all)) = Elems(c.outbounds) \cap all
    BY ConfigFields, OutboundRetain
  <2>. QED  BY <2>1, <2>2 DEF all
<1>4. Tags(kept) = {o.tag : o \in {q \in Elems(c.outbounds) : KeepsPlain(q)}}
  <2>. HIDE DEF kept
  <2>1. Tags(kept) = {o.tag : o \in Elems(kept)}
    BY DEF Tags, Elems
  <2>. QED  BY <1>3, <2>1
<1>5. rs \in Seq(Rules)
  BY ConfigFields, RuleRetain
<1>6. a \in Seq(Outbounds) /\ Elems(a) = Elems(kept) \cap {o \in Outbounds : o.tag = "proxy"}
  <2>. HIDE DEF kept
  <2>. QED  BY <1>2, OutboundRetain
<1>7. b \in Seq(Outbounds) /\ Elems(b) = Elems(kept) \cap {o \in Outbounds : o.tag # "proxy"}
  <2>. HIDE DEF kept
  <2>. QED  BY <1>2, OutboundRetain
<1>8. Elems(kept) \subseteq Outbounds
  BY <1>2 DEF Elems
<1>9. d.rules = rs /\ \E tags : /\ rs = Retain(c.rules, {r \in Rules : r.out \in tags})
                                /\ tags = {o.tag : o \in {q \in Elems(c.outbounds) : KeepsPlain(q)}}
  <2>1. d.rules = rs
    BY <1>1 DEF Configs
  <2>. DEFINE tags == Tags(kept)
  <2>2. rs = Retain(c.rules, {r \in Rules : r.out \in tags})
    OBVIOUS
  <2>. HIDE DEF rs, kept, tags
  <2>3. tags = {o.tag : o \in {q \in Elems(c.outbounds) : KeepsPlain(q)}}
    BY <1>4 DEF tags
  <2>. QED  BY <2>1, <2>2, <2>3
<1>. HIDE DEF kept, a, b, rs, d
<1>10. a \o b \in Seq(Outbounds) /\ Elems(a \o b) = Elems(kept)
  <2>1. a \o b \in Seq(Outbounds)
    BY <1>6, <1>7
  <2>2. Elems(a \o b) = Elems(a) \cup Elems(b)
    BY <1>6, <1>7, ElemsCat
  <2>. QED  BY <1>6, <1>7, <1>8, <2>1, <2>2
<1>11. d \in Configs /\ d.outbounds = a \o b /\ d.balancers = {}
  BY <1>1, <1>5, <1>10 DEF Configs
<1>12. ~IsManaged(d)
  BY <1>11 DEF IsManaged
<1>. QED  BY <1>3, <1>9, <1>10, <1>11, <1>12 DEF d

AddedOutbounds ==
  {[tag |-> "direct", protocol |-> "freedom"], [tag |-> "dns-out", protocol |-> "dns"],
   [tag |-> "api", protocol |-> "blackhole"]}
Add(os, o) == IF o.tag \in Tags(os) THEN os ELSE Append(os, o)

LEMMA AddIs ==
  ASSUME NEW os \in Seq(Outbounds), NEW o \in Outbounds
  PROVE  /\ Add(os, o) \in Seq(Outbounds)
         /\ Elems(os) \subseteq Elems(Add(os, o))
         /\ \A q \in Elems(Add(os, o)) : q \in Elems(os) \/ (q = o /\ o.tag \notin Tags(os))
         /\ o.tag \in Tags(Add(os, o)) /\ Tags(os) \subseteq Tags(Add(os, o))
<1>1. CASE o.tag \in Tags(os)
  BY <1>1 DEF Add
<1>2. CASE o.tag \notin Tags(os)
  <2>. DEFINE w == Append(os, o)
  <2>1. w \in Seq(Outbounds) /\ DOMAIN w = DOMAIN os \cup {Len(os) + 1} /\ w[Len(os) + 1] = o
        /\ \A i \in DOMAIN os : w[i] = os[i]
    OBVIOUS
  <2>2. Add(os, o) = w
    BY <1>2 DEF Add
  <2>. HIDE DEF w
  <2>3. Elems(w) = Elems(os) \cup {o}
    BY <2>1 DEF Elems
  <2>4. Tags(w) = Tags(os) \cup {o.tag}
    BY <2>1 DEF Tags
  <2>. QED  BY <1>2, <2>1, <2>2, <2>3, <2>4
<1>. QED  BY <1>1, <1>2

LEMMA TagsOfElems == ASSUME NEW os PROVE Tags(os) = {o.tag : o \in Elems(os)}
BY DEF Tags, Elems

LEMMA EnsureIs ==
  ASSUME NEW os \in Seq(Outbounds)
  PROVE  /\ EnsureOutbounds(os) \in Seq(Outbounds)
         /\ Elems(os) \subseteq Elems(EnsureOutbounds(os))
         /\ \A o \in Elems(EnsureOutbounds(os)) :
              o \in Elems(os) \/ (o \in AddedOutbounds /\ o.tag \notin Tags(os))
         /\ {"direct", "dns-out", "api"} \subseteq Tags(EnsureOutbounds(os))
<1>. DEFINE x == [tag |-> "direct", protocol |-> "freedom"]
            y == [tag |-> "dns-out", protocol |-> "dns"]
            z == [tag |-> "api", protocol |-> "blackhole"]
            a == Add(os, x)
            b == Add(a, y)
            c == Add(b, z)
<1>1. x \in Outbounds /\ y \in Outbounds /\ z \in Outbounds
  BY ConstantsAssumption DEF Outbounds
<1>2. {x, y, z} = AddedOutbounds /\ x.tag = "direct" /\ y.tag = "dns-out" /\ z.tag = "api"
  BY DEF AddedOutbounds
<1>3. EnsureOutbounds(os) = c
  BY DEF EnsureOutbounds, Add
<1>. HIDE DEF x, y, z
<1>4. /\ a \in Seq(Outbounds) /\ Elems(os) \subseteq Elems(a)
      /\ \A q \in Elems(a) : q \in Elems(os) \/ (q = x /\ x.tag \notin Tags(os))
      /\ x.tag \in Tags(a) /\ Tags(os) \subseteq Tags(a)
  BY <1>1, AddIs
<1>. HIDE DEF a
<1>5. /\ b \in Seq(Outbounds) /\ Elems(a) \subseteq Elems(b)
      /\ \A q \in Elems(b) : q \in Elems(a) \/ (q = y /\ y.tag \notin Tags(a))
      /\ y.tag \in Tags(b) /\ Tags(a) \subseteq Tags(b)
  BY <1>1, <1>4, AddIs
<1>. HIDE DEF b
<1>6. /\ c \in Seq(Outbounds) /\ Elems(b) \subseteq Elems(c)
      /\ \A q \in Elems(c) : q \in Elems(b) \/ (q = z /\ z.tag \notin Tags(b))
      /\ z.tag \in Tags(c) /\ Tags(b) \subseteq Tags(c)
  BY <1>1, <1>5, AddIs
<1>. HIDE DEF c
<1>7. \A q \in Elems(c) : q \in Elems(os) \/ (q \in {x, y, z} /\ q.tag \notin Tags(os))
  BY <1>4, <1>5, <1>6
<1>. QED  BY <1>2, <1>3, <1>4, <1>5, <1>6, <1>7

Ensured(c, req) ==
  [c EXCEPT !.outbounds = EnsureOutbounds(@), !.rules = WithApi(@),
            !.dns = IF req.policy # None THEN DnsDomains(req) ELSE @]

LEMMA EnsuredIs ==
  ASSUME NEW c \in Configs, NEW req \in Requests
  PROVE  /\ Ensured(c, req) \in Configs
         /\ Ensured(c, req).outbounds = EnsureOutbounds(c.outbounds)
         /\ Ensured(c, req).rules = WithApi(c.rules)
         /\ Ensured(c, req).balancers = c.balancers
         /\ req.policy # None => Ensured(c, req).dns = DnsDomains(req)
         /\ IsManaged(Ensured(c, req)) <=> IsManaged(c)
<1>. DEFINE os == EnsureOutbounds(c.outbounds)
            rs == WithApi(c.rules)
            ds == IF req.policy # None THEN DnsDomains(req) ELSE c.dns
            d == [c EXCEPT !.outbounds = os, !.rules = rs, !.dns = ds]
<1>1. Ensured(c, req) = d
  BY DEF Ensured
<1>2. os \in Seq(Outbounds) /\ rs \in Seq(Rules)
  BY ConfigFields, EnsureIs, WithApiIs
<1>3. ds \in SUBSET Selectors /\ (req.policy # None => ds = DnsDomains(req))
  BY ConfigFields, Selections
<1>4. Elems(c.outbounds) \subseteq Elems(os) /\ \A o \in Elems(os) : o \in Elems(c.outbounds) \/ o \in AddedOutbounds
  BY ConfigFields, EnsureIs
<1>. HIDE DEF os, rs, ds
<1>5. /\ d \in Configs /\ d.outbounds = os /\ d.rules = rs /\ d.balancers = c.balancers
      /\ d.observatory = c.observatory /\ d.dns = ds
  BY <1>2, <1>3 DEF Configs
<1>. HIDE DEF d
<1>6. Candidates(d) = Candidates(c)
  <2>1. \A o \in AddedOutbounds : ~IsCandidate(o)
    BY ConstantsAssumption DEF AddedOutbounds, IsCandidate
  <2>. QED  BY <1>4, <1>5, <2>1 DEF Candidates
<1>7. IsManaged(d) <=> IsManaged(c)
  BY <1>5, <1>6, ManagedAlike
<1>. QED  BY <1>1, <1>3, <1>5, <1>7 DEF os, rs

\* what a request leaves of a profile
Chosen(c, req) == Constrain(Sanitize(c), req)

LEMMA InjectIs ==
  ASSUME NEW c, NEW req
  PROVE  Inject(c, req) = ApplyPolicy(Ensured(Chosen(c, req), req), req, FALSE)
BY DEF Inject, Ensured, Chosen

LEMMA ChosenIs ==
  ASSUME NEW c \in Configs, NEW req \in Requests
  PROVE  /\ Chosen(c, req) \in Configs
         /\ IsManaged(Chosen(c, req)) => IsManaged(c)
         /\ req.policy # None /\ IsManaged(c) => IsManaged(Chosen(c, req))
<1>1. CASE req.policy = None
  BY <1>1, SanitizeIs DEF Chosen, Constrain
<1>2. CASE req.policy # None /\ IsManaged(c)
  BY <1>2, SanitizeIs, ConstrainManagedIs DEF Chosen, Constrain
<1>3. CASE req.policy # None /\ ~IsManaged(c)
  BY <1>3, SanitizeIs, ConstrainPlainIs DEF Chosen, Constrain
<1>. QED  BY <1>1, <1>2, <1>3

LEMMA AppliedIs ==
  ASSUME NEW c \in Configs, NEW req \in Requests, NEW legacy
  PROVE  /\ ApplyPolicy(c, req, legacy) \in Configs
         /\ ApplyPolicy(c, req, legacy).outbounds = c.outbounds
         /\ ApplyPolicy(c, req, legacy).balancers = c.balancers
         /\ ApplyPolicy(c, req, legacy).dns = c.dns
         /\ Elems(ApplyPolicy(c, req, legacy).rules) =
              Elems(Before(c, req)) \cup Elems(Additions(Before(c, req), req, legacy, Target(c)))
              \cup {r \in {AllTo(Target(c))} : req.policy # None}
<1>1. PICK front, rest \in Seq(Rules) : Applied(c, req, legacy, front, rest)
  BY ApplyIs
<1>. DEFINE added == Additions(Before(c, req), req, legacy, Target(c))
            g == req.policy # None
            all == AllTo(Target(c))
            last == When(g, all)
            rs == ((front \o added) \o rest) \o last
<1>2. Target(c) \in Names
  BY ConstantsAssumption DEF Target
<1>3. Before(c, req) \in Seq(Rules)
  BY ConfigFields, RetainedIs, WithApiIs DEF Before
<1>4. added \in Seq(Rules)
  BY <1>2, <1>3, AdditionsAre
<1>5. last \in Seq(Rules) /\ Elems(last) = {r \in {all} : g}
  <2>1. all \in Rules
    BY <1>2, AddedTypes
  <2>. HIDE DEF g, all
  <2>. QED  BY <2>1, WhenRules
<1>6. ApplyPolicy(c, req, legacy) = [c EXCEPT !.rules = rs]
  BY <1>1 DEF Applied
<1>7. Elems(Before(c, req)) = Elems(front) \cup Elems(rest)
  BY <1>1, RuleCat DEF Applied
<1>. HIDE DEF added, last
<1>8. front \o added \in Seq(Rules) /\ Elems(front \o added) = Elems(front) \cup Elems(added)
  BY <1>4, RuleCat
<1>9. /\ (front \o added) \o rest \in Seq(Rules)
      /\ Elems((front \o added) \o rest) = Elems(front \o added) \cup Elems(rest)
  BY <1>8, RuleCat
<1>10. /\ rs \in Seq(Rules)
       /\ Elems(rs) = Elems((front \o added) \o rest) \cup Elems(last)
  BY <1>5, <1>9, RuleCat
<1>11. Elems(rs) = Elems(Before(c, req)) \cup Elems(added) \cup {r \in {all} : g}
  BY <1>5, <1>7, <1>8, <1>9, <1>10
<1>. HIDE DEF rs
<1>. QED  BY <1>6, <1>10, <1>11, ConfigFields DEF added

LEMMA InjectConfig ==
  ASSUME NEW c \in Configs, NEW req \in Requests
  PROVE  Inject(c, req) \in Configs
BY InjectIs, ChosenIs, EnsuredIs, AppliedIs

-----------------------------------------------------------------------------
(* The configuration build_xray_config makes without a profile.              *)

UserList(req, action) ==
  When(UserDomains(req, action) # {}, DomainRule(UserDomains(req, action), action))

LEMMA UserRulesAre ==
  ASSUME NEW req \in Requests
  PROVE  /\ UserRules(req) \in Seq(Rules)
         /\ \A r \in Elems(UserRules(req)) : \E action \in {"proxy", "direct", "block"} :
              r = DomainRule(UserDomains(req, action), action) /\ UserDomains(req, action) # {}
<1>1. ASSUME NEW action \in {"proxy", "direct", "block"}
      PROVE  /\ UserList(req, action) \in Seq(Rules)
             /\ \A r \in Elems(UserList(req, action)) :
                  r = DomainRule(UserDomains(req, action), action) /\ UserDomains(req, action) # {}
  <2>. DEFINE r == DomainRule(UserDomains(req, action), action)
              g == UserDomains(req, action) # {}
  <2>1. r \in Rules
    BY Selections, RuleTypes, ConstantsAssumption
  <2>. HIDE DEF r, g
  <2>2. When(g, r) \in Seq(Rules) /\ Elems(When(g, r)) = {x \in {r} : g}
    BY <2>1, WhenRules
  <2>3. \A x \in Elems(When(g, r)) : x = r /\ g
    BY <2>2
  <2>. QED  BY <2>2, <2>3 DEF r, g, UserList
<1>2. UserRules(req) = UserList(req, "proxy") \o UserList(req, "direct") \o UserList(req, "block")
  BY DEF UserRules, UserList
<1>. DEFINE a == UserList(req, "proxy")
            b == UserList(req, "direct")
            c == UserList(req, "block")
<1>3. a \in Seq(Rules) /\ b \in Seq(Rules) /\ c \in Seq(Rules)
  BY <1>1
<1>. HIDE DEF a, b, c
<1>4. a \o b \in Seq(Rules) /\ Elems(a \o b) = Elems(a) \cup Elems(b)
  BY <1>3, RuleCat
<1>5. a \o b \o c \in Seq(Rules) /\ Elems(a \o b \o c) = Elems(a \o b) \cup Elems(c)
  BY <1>3, <1>4, RuleCat
<1>6. \A r \in Elems(a \o b \o c) : \E action \in {"proxy", "direct", "block"} : r \in Elems(UserList(req, action))
  BY <1>4, <1>5 DEF a, b, c
<1>7. UserRules(req) = a \o b \o c
  BY <1>2 DEF a, b, c
<1>8. ASSUME NEW r \in Elems(UserRules(req))
      PROVE  \E action \in {"proxy", "direct", "block"} :
               r = DomainRule(UserDomains(req, action), action) /\ UserDomains(req, action) # {}
  <2>1. PICK action \in {"proxy", "direct", "block"} : r \in Elems(UserList(req, action))
    BY <1>6, <1>7
  <2>2. r = DomainRule(UserDomains(req, action), action) /\ UserDomains(req, action) # {}
    BY <1>1, <2>1
  <2>. QED  BY <2>2
<1>9. UserRules(req) \in Seq(Rules)
  BY <1>5, <1>7
<1>. QED  BY <1>8, <1>9

Base(req) ==
  [outbounds |-> BuildOutbounds(req), balancers |-> {}, observatory |-> FALSE,
   rules |-> <<ApiRule, Port53>> \o UserRules(req), dns |-> DnsDomains(req)]

LEMMA BuildIs == ASSUME NEW req PROVE Build(req) = ApplyPolicy(Base(req), req, TRUE)
BY DEF Build, Base

LEMMA BuildOutboundsAre ==
  ASSUME NEW req \in Requests
  PROVE  /\ BuildOutbounds(req) \in Seq(Outbounds) /\ BuildOutbounds(req)[1].tag = "proxy"
         /\ Elems(BuildOutbounds(req)) =
              {[tag |-> "proxy", protocol |-> req.protocol], [tag |-> "direct", protocol |-> "freedom"],
               [tag |-> "block", protocol |-> "blackhole"], [tag |-> "dns-out", protocol |-> "dns"],
               [tag |-> "api", protocol |-> "blackhole"]}
<1>. DEFINE a == [tag |-> "proxy", protocol |-> req.protocol]
            b == [tag |-> "direct", protocol |-> "freedom"]
            c == [tag |-> "block", protocol |-> "blackhole"]
            d == [tag |-> "dns-out", protocol |-> "dns"]
            e == [tag |-> "api", protocol |-> "blackhole"]
            w == <<a, b, c, d, e>>
<1>1. a \in Outbounds /\ b \in Outbounds /\ c \in Outbounds /\ d \in Outbounds /\ e \in Outbounds
  BY ConstantsAssumption DEF Outbounds, Requests
<1>2. BuildOutbounds(req) = w /\ a.tag = "proxy"
  BY DEF BuildOutbounds
<1>. HIDE DEF a, b, c, d, e
<1>3. /\ w \in Seq(Outbounds) /\ DOMAIN w = {1, 2, 3, 4, 5}
      /\ w[1] = a /\ w[2] = b /\ w[3] = c /\ w[4] = d /\ w[5] = e
  BY <1>1
<1>. HIDE DEF w
<1>4. Elems(w) = {a, b, c, d, e}
  BY <1>3 DEF Elems
<1>. QED  BY <1>2, <1>3, <1>4 DEF a, b, c, d, e

LEMMA BaseIs ==
  ASSUME NEW req \in Requests
  PROVE  /\ Base(req) \in Configs
         /\ Base(req).outbounds = BuildOutbounds(req) /\ Base(req).balancers = {}
         /\ Base(req).dns = DnsDomains(req)
         /\ Base(req).rules = <<ApiRule>> \o (<<Port53>> \o UserRules(req))
         /\ Elems(Base(req).rules) = {ApiRule, Port53} \cup Elems(UserRules(req))
         /\ ~IsManaged(Base(req))
<1>. DEFINE u == UserRules(req)
            os == BuildOutbounds(req)
            ds == DnsDomains(req)
            rs == <<ApiRule, Port53>> \o u
            b == [outbounds |-> os, balancers |-> {}, observatory |-> FALSE, rules |-> rs, dns |-> ds]
<1>1. Base(req) = b
  BY DEF Base
<1>2. os \in Seq(Outbounds) /\ ds \in SUBSET Selectors /\ u \in Seq(Rules)
  BY BuildOutboundsAre, Selections, UserRulesAre
<1>3. ApiRule \in Rules /\ Port53 \in Rules
  BY RuleTypes
<1>. HIDE DEF os, ds, u
<1>4. rs = <<ApiRule>> \o (<<Port53>> \o u) /\ rs \in Seq(Rules)
  <2>1. <<ApiRule, Port53>> = <<ApiRule>> \o <<Port53>>
    BY <1>3, RulePair
  <2>2. <<ApiRule>> \in Seq(Rules) /\ <<Port53>> \in Seq(Rules)
    BY <1>3, RuleList
  <2>. QED  BY <1>2, <2>1, <2>2, RuleAssoc, RuleCat
<1>5. Elems(rs) = {ApiRule, Port53} \cup Elems(u)
  <2>. DEFINE x == <<ApiRule>>
              y == <<Port53>>
  <2>1. x \in Seq(Rules) /\ y \in Seq(Rules) /\ Elems(x) = {ApiRule} /\ Elems(y) = {Port53}
    BY <1>3, RuleList
  <2>. HIDE DEF x, y
  <2>2. y \o u \in Seq(Rules) /\ Elems(y \o u) = Elems(y) \cup Elems(u)
    BY <1>2, <2>1, RuleCat
  <2>3. Elems(x \o (y \o u)) = Elems(x) \cup Elems(y \o u)
    BY <2>1, <2>2, RuleCat
  <2>4. rs = x \o (y \o u)
    BY <1>4 DEF x, y
  <2>. HIDE DEF rs
  <2>. QED  BY <2>1, <2>2, <2>3, <2>4
<1>. HIDE DEF rs
<1>6. b \in Configs
  BY <1>2, <1>4 DEF Configs
<1>7. ~IsManaged(b)
  BY DEF IsManaged
<1>8. b.outbounds = os /\ b.balancers = {} /\ b.dns = ds /\ b.rules = rs
  OBVIOUS
<1>. HIDE DEF b
<1>9. /\ Base(req).outbounds = os /\ Base(req).balancers = {} /\ Base(req).dns = ds
      /\ Base(req).rules = <<ApiRule>> \o (<<Port53>> \o u)
      /\ Elems(Base(req).rules) = {ApiRule, Port53} \cup Elems(u)
  BY <1>1, <1>4, <1>5, <1>8
<1>. QED  BY <1>1, <1>6, <1>7, <1>9 DEF os, ds, u

LEMMA BuildConfig == ASSUME NEW req \in Requests PROVE Build(req) \in Configs
BY BuildIs, BaseIs, AppliedIs

LEMMA XrayConfig ==
  ASSUME NEW req \in Requests PROVE Xray(req) \in Configs
BY BuildConfig, InjectConfig, ProfilesAssumption DEF Xray, Requests

-----------------------------------------------------------------------------
(* What the extension makes of it.                                           *)

Dropped(keep) == IF keep THEN {} ELSE Geodata
DroppedIps == Geoip \cup Unsupported

LEMMA PrepareIs ==
  ASSUME NEW c \in Configs, NEW keep
  PROVE  /\ Prepare(c, keep) \in Configs
         /\ Elems(Prepare(c, keep).outbounds) = {o \in Elems(c.outbounds) : o.tag # "api"}
         /\ Prepare(c, keep).outbounds = Retain(c.outbounds, {o \in Outbounds : o.tag # "api"})
         /\ Prepare(c, keep).balancers = c.balancers /\ Prepare(c, keep).dns = c.dns
         /\ \A r : r \in Elems(Prepare(c, keep).rules) <=>
              Effective(r) /\ \E q \in Elems(c.rules) :
                /\ q.out # "api" /\ ~IsApi(q)
                /\ r = Less(q, Dropped(keep), DroppedIps)
<1>. DEFINE ks == {o \in Outbounds : o.tag # "api"}
            kr == {r \in Rules : r.out # "api" /\ ~IsApi(r)}
            os == Retain(c.outbounds, ks)
            left == Retain(c.rules, kr)
            ds == Dropped(keep)
            rs == Strip(left, ds, DroppedIps)
            d == [c EXCEPT !.outbounds = os, !.rules = rs]
<1>1. Prepare(c, keep) = d
  BY DEF Prepare, RewriteGeodata, Dropped, DroppedIps
<1>2. Elems(c.outbounds) \cap ks = {o \in Elems(c.outbounds) : o.tag # "api"}
  BY ConfigFields
<1>3. \A q : q \in Elems(c.rules) \cap kr <=> q \in Elems(c.rules) /\ q.out # "api" /\ ~IsApi(q)
  BY ConfigFields, RuleElems
<1>. HIDE DEF ks, kr, ds
<1>4. os \in Seq(Outbounds) /\ Elems(os) = Elems(c.outbounds) \cap ks
  BY ConfigFields, OutboundRetain
<1>5. left \in Seq(Rules) /\ Elems(left) = Elems(c.rules) \cap kr
  BY ConfigFields, RuleRetain
<1>. HIDE DEF os, left
<1>6. /\ rs \in Seq(Rules)
      /\ \A r : r \in Elems(rs) <=> Effective(r) /\ \E q \in Elems(left) : r = Less(q, ds, DroppedIps)
  BY <1>5, StripElems
<1>. HIDE DEF rs
<1>7. /\ d \in Configs /\ d.outbounds = os /\ d.rules = rs /\ d.balancers = c.balancers
      /\ d.dns = c.dns
  BY <1>4, <1>6 DEF Configs
<1>. HIDE DEF d
<1>8. \A r : r \in Elems(rs) <=>
              Effective(r) /\ \E q \in Elems(c.rules) :
                /\ q.out # "api" /\ ~IsApi(q)
                /\ r = Less(q, ds, DroppedIps)
  BY <1>3, <1>5, <1>6
<1>. QED  BY <1>1, <1>2, <1>4, <1>7, <1>8 DEF os, ds, ks

-----------------------------------------------------------------------------
(* Type correctness.                                                         *)

LEMMA DnsRulesType ==
  ASSUME NEW req \in Requests, NEW names \in SUBSET Selectors, NEW mode
  PROVE  DnsRules(req, names, mode) \in Seq(Rules)
<1>1. PICK s, t \in Seq(Rules) : DnsParts(req, names, mode, s, t)
  BY DnsRulesAre
<1>. QED  BY <1>1, RuleCat DEF DnsParts

LEMMA BoxesTyped ==
  ASSUME NEW req \in Requests
  PROVE  /\ Box(req) \in Boxes /\ Box(req).rules = BoxRules(req)
         /\ Box(req).dns = BoxDns(req) /\ Box(req).proxy = BoxProxy(req)
         /\ Bridge(req) \in Boxes /\ Bridge(req).rules = BridgeRules(req)
         /\ Bridge(req).dns = BridgeDns(req) /\ Bridge(req).proxy = "proxy"
<1>. DEFINE a == BoxRules(req)
            b == BridgeRules(req)
            da == BoxDns(req)
            db == BridgeDns(req)
            pa == BoxProxy(req)
<1>1. a \in Seq(Rules) /\ b \in Seq(Rules)
  BY BoxRulesAre, BridgeRulesAre
<1>2. da \in Seq(Rules) /\ db \in Seq(Rules)
  BY DnsRulesType, Selections DEF BoxDns, BridgeDns
<1>3. pa \in {"proxy", "block"}
  BY DEF BoxProxy
<1>. HIDE DEF a, b, da, db, pa
<1>4. Box(req) = [rules |-> a, dns |-> da, proxy |-> pa]
  BY DEF Box, a, da, pa
<1>5. Bridge(req) = [rules |-> b, dns |-> db, proxy |-> "proxy"]
  BY DEF Bridge, b, db
<1>. QED  BY <1>1, <1>2, <1>3, <1>4, <1>5 DEF Boxes, a, b, da, db, pa

InExtension(req) == UsesXray(req) /\ req.app_store /\ ~req.ping

LEMMA GraphIs ==
  ASSUME NEW req \in Requests
  PROVE  /\ Graph(req) \in Configurations /\ Graph(req) # None
         /\ Graph(req).xray # None \/ Graph(req).box # None
         /\ Graph(req).xray # None => Graph(req).xray \in Configs /\ UsesXray(req)
         /\ Graph(req).box # None => Graph(req).box \in Boxes
         /\ ~UsesXray(req) => Graph(req).xray = None /\ Graph(req).box = Box(req)
         /\ UsesXray(req) => Graph(req).xray # None
         /\ InExtension(req) =>
              Graph(req).xray = Prepare(Xray(req), HasAsset(req)) /\ Graph(req).box = None
         /\ UsesXray(req) /\ ~InExtension(req) =>
              Graph(req).xray = Xray(req) /\ Graph(req).box = IF Tun(req) THEN Bridge(req) ELSE None
         /\ Graph(req).apps = IF InExtension(req) THEN << >> ELSE AppRules(req)
         /\ Graph(req).apps # << >> => PerApp(req) /\ Graph(req).apps = AppRules(req)
<1>. DEFINE x == Xray(req)
            keep == HasAsset(req)
            q == Prepare(x, keep)
            a == Box(req)
            b == Bridge(req)
            r == AppRules(req)
<1>1. x \in Configs /\ x # None
  BY XrayConfig, ConstantsAssumption
<1>2. q \in Configs /\ q # None
  <2>. HIDE DEF x, keep
  <2>1. q \in Configs
    BY <1>1, PrepareIs
  <2>. QED  BY <2>1, ConstantsAssumption
<1>3. a \in Boxes /\ b \in Boxes /\ a # None /\ b # None
  BY BoxesTyped, ConstantsAssumption
<1>4. None \notin Configurations
  BY ConstantsAssumption
<1>5. Graph(req) = IF ~UsesXray(req) THEN [xray |-> None, box |-> a, apps |-> r]
                   ELSE IF req.app_store /\ ~req.ping THEN [xray |-> q, box |-> None, apps |-> << >>]
                   ELSE [xray |-> x, box |-> IF Tun(req) THEN b ELSE None, apps |-> r]
  BY DEF Graph
<1>6. r \in Seq(Rules) /\ (r # << >> => PerApp(req)) /\ << >> \in Seq(Rules)
  BY AppRulesAre, NoRules
<1>. HIDE DEF x, q, a, b, r
<1>7. CASE ~UsesXray(req)
  BY <1>3, <1>4, <1>5, <1>6, <1>7 DEF Configurations, InExtension, a, r
<1>8. CASE InExtension(req)
  <2>1. Graph(req) = [xray |-> q, box |-> None, apps |-> << >>]
    BY <1>5, <1>8 DEF InExtension
  <2>2. UsesXray(req)
    BY <1>8 DEF InExtension
  <2>3. << >> \in Seq(Rules)
    BY <1>6
  <2>4. Graph(req).apps = << >> /\ Graph(req).box = None /\ Graph(req).xray = q
    BY <2>1
  <2>5. Graph(req) \in Configurations
    BY <1>2, <2>1, <2>3 DEF Configurations
  <2>6. Graph(req) # None
    BY <1>4, <2>5
  <2>7. Graph(req).xray = Prepare(Xray(req), HasAsset(req))
    BY <2>4 DEF q, x
  <2>. QED  BY <1>2, <1>8, <2>2, <2>4, <2>5, <2>6, <2>7
<1>9. CASE UsesXray(req) /\ ~InExtension(req)
  <2>1. Graph(req) = [xray |-> x, box |-> IF Tun(req) THEN b ELSE None, apps |-> r]
    BY <1>5, <1>9 DEF InExtension
  <2>. QED  BY <1>1, <1>3, <1>4, <1>6, <1>9, <2>1 DEF Configurations, x, b, r
<1>. QED  BY <1>7, <1>8, <1>9

Early == {"request", "refused"}

TypeInv ==
  /\ request \in Requests
  /\ request.profile # None =>
       /\ request.protocol = "vless"
       /\ request.profile \in IF request.policy # None THEN Profiles ELSE Subscriptions
  /\ request.app_store => request.protocol = "vless" /\ ~request.ping
  /\ request.ping /\ at # "request" => request.rules = {} /\ ~Tun(request)
  /\ at \notin Early => request.ping \/ ~Refused(request)
  /\ graph = IF at \in Early THEN None ELSE Graph(request)
  /\ at \in Exits \cup {"request", "ready", "apps", "box", "box_dns", "xray", "xray_dns"}
  /\ via \in {None, "direct", "proxy"}
  /\ (packet = None) <=> (at \in Early \cup {"ready"})
  /\ packet \in {None, StatsQuery} \cup Packets \cup Captured
  /\ packet # None /\ packet.inbound = "tun" => graph.apps # << >>
  /\ packet # None => leg \in PacketForms
  /\ at \in {"xray", "xray_dns"} => graph.xray # None
  /\ at \in {"box", "box_dns"} => graph.box # None
  /\ at = "apps" => graph.apps # << >>

\* a packet as the engine behind the bridge of system-proxy mode sees it
Handed(p) == [p EXCEPT !.inbound = "app", !.process = "xray"]
Seen(p) == IF p.inbound = "tun" THEN Handed(p) ELSE p

LEMMA CapturedIs ==
  ASSUME NEW p \in Captured
  PROVE  /\ p \in PacketForms /\ p.inbound = "tun" /\ p.process \in Procs /\ p.domain \in Domains
         /\ p.dns \in BOOLEAN
<1>1. PICK q \in Packets : p = [q EXCEPT !.inbound = "tun"]
  BY DEF Captured
<1>2. q \in PacketForms /\ q.process \in Procs /\ q.domain \in Domains /\ q.dns \in BOOLEAN
  BY DEF Packets, PacketForms
<1>. QED  BY <1>1, <1>2 DEF PacketForms

LEMMA PacketTypes ==
  /\ StatsQuery \in PacketForms /\ StatsQuery # None
  /\ Packets \subseteq PacketForms /\ None \notin Packets
  /\ Captured \subseteq PacketForms /\ None \notin Captured
  /\ Doh("app") \in PacketForms /\ Doh("dns-remote") \in PacketForms
  /\ StatsQuery \notin Packets /\ StatsQuery \notin Captured /\ Packets \cap Captured = {}
  /\ StatsQuery.inbound = "api" /\ \A p \in Packets : p.inbound = "app"
<1>1. StatsQuery \in PacketForms /\ StatsQuery.inbound = "api"
  BY DEF StatsQuery, PacketForms
<1>2. Packets \subseteq PacketForms /\ \A p \in Packets : p.inbound = "app"
  BY DEF Packets, PacketForms
<1>3. Doh("app") \in PacketForms /\ Doh("dns-remote") \in PacketForms
  BY DEF Doh, PacketForms
<1>. QED  BY <1>1, <1>2, <1>3, CapturedIs, ConstantsAssumption

LEMMA HandedIs ==
  ASSUME NEW p \in PacketForms
  PROVE  /\ Handed(p) \in PacketForms
         /\ Handed(p).inbound = "app" /\ Handed(p).process = "xray" /\ Handed(p).ip = p.ip
         /\ Handed(p).domain = p.domain /\ Handed(p).dns = p.dns
BY DEF Handed, PacketForms

\* the kinds of packets depend on the request alone
LEMMA SameKinds == ASSUME request' = request PROVE Packets' = Packets /\ Captured' = Captured
BY DEF Captured, Packets

LEMMA ModeTypes ==
  ASSUME NEW m \in Modes
  PROVE  /\ m.mode \in {"tun", "system-proxy"} /\ m.app_store \in BOOLEAN /\ m.ping \in BOOLEAN
         /\ m.app_store => ~m.ping
<1>1. CASE m = [mode |-> "tun", app_store |-> FALSE, ping |-> FALSE]
  BY <1>1
<1>2. CASE m = [mode |-> "system-proxy", app_store |-> FALSE, ping |-> FALSE]
  BY <1>2
<1>3. CASE m = [mode |-> "tun", app_store |-> TRUE, ping |-> FALSE]
  BY <1>3
<1>4. CASE m = [mode |-> "tun", app_store |-> FALSE, ping |-> TRUE]
  BY <1>4
<1>. QED  BY <1>1, <1>2, <1>3, <1>4 DEF Modes

LEMMA InitTypes == Init => TypeInv
<1>. SUFFICES ASSUME Init PROVE TypeInv
  OBVIOUS
<1>1. PICK m \in Modes, s \in Servers, p \in Policies \cup {None}, u \in RuleSets,
           d \in {"fakeip", "realip"} :
       /\ m.app_store => s.protocol = "vless"
       /\ s.profile # None => s.profile \in IF p # None THEN Profiles ELSE Subscriptions
       /\ request = [mode |-> m.mode, app_store |-> m.app_store, ping |-> m.ping,
                     protocol |-> s.protocol, transport |-> s.transport, profile |-> s.profile,
                     policy |-> p, rules |-> u, dns_mode |-> d]
  BY DEF Init
<1>2. m.mode \in {"tun", "system-proxy"} /\ m.app_store \in BOOLEAN /\ m.ping \in BOOLEAN
      /\ (m.app_store => ~m.ping)
  BY <1>1, ModeTypes
<1>3. /\ s.protocol \in {"vless", "hysteria2", "unknown"} /\ s.transport \in {"tcp", "ws"}
      /\ s.profile \in Profiles \cup Subscriptions \cup {None}
      /\ s.profile # None => s.protocol = "vless"
  BY DEF Servers
<1>4. u \in SUBSET RoutingRules
  BY ConstantsAssumption
<1>5. request \in Requests
  BY <1>1, <1>2, <1>3, <1>4 DEF Requests
<1>6. /\ request.profile = s.profile /\ request.protocol = s.protocol /\ request.policy = p
      /\ request.app_store = m.app_store /\ request.ping = m.ping
  BY <1>1
<1>7. graph = None /\ packet = None /\ via = None /\ at = "request"
  BY DEF Init
<1>. QED  BY <1>1, <1>2, <1>3, <1>5, <1>6, <1>7 DEF TypeInv, Early, Exits

LEMMA StepTypes == TypeInv /\ [Next]_vars => TypeInv'
<1>. SUFFICES ASSUME TypeInv, [Next]_vars PROVE TypeInv'
  OBVIOUS
<1>. USE DEF Early, Exits
<1>1. CASE Refuse
  BY <1>1, SameKinds DEF Refuse, TypeInv
<1>2. CASE BuildGraph
  <2>. DEFINE req == IF request.ping THEN PingRequest(request) ELSE request
  <2>1. /\ at = "request" /\ (req.ping \/ ~Refused(req))
        /\ at' = "ready" /\ request' = req /\ graph' = Graph(req)
        /\ UNCHANGED <<packet, leg, via>>
    BY <1>2 DEF BuildGraph
  <2>2. request \in Requests /\ packet = None /\ via \in {None, "direct", "proxy"}
    BY <2>1 DEF TypeInv
  <2>3. /\ req \in Requests /\ req.profile = request.profile /\ req.protocol = request.protocol
        /\ req.policy = request.policy /\ req.app_store = request.app_store
        /\ req.ping = request.ping
        /\ req.ping => req.rules = {} /\ req.mode = "system-proxy"
    BY <2>2 DEF Requests, PingRequest
  <2>. HIDE DEF req
  <2>. QED  BY <2>1, <2>2, <2>3 DEF TypeInv, Tun
<1>3. CASE Send
  <2>1. /\ at = "ready" /\ request' = request /\ graph' = graph /\ via' = via /\ leg' = packet'
        /\ \/ packet' \in Packets /\ at' = IF graph.box # None THEN "box" ELSE "xray"
           \/ graph.apps # << >> /\ packet' \in Captured /\ at' = "apps"
           \/ graph.xray # None /\ packet' = StatsQuery /\ at' = "xray"
    BY <1>3 DEF Send
  <2>2. graph = Graph(request) /\ request \in Requests
    BY <2>1 DEF TypeInv
  <2>3. graph.xray # None \/ graph.box # None
    BY <2>2, GraphIs
  <2>4. /\ packet' \in {None, StatsQuery} \cup Packets \cup Captured /\ packet' \in PacketForms
        /\ packet' # None /\ (packet'.inbound = "tun" => graph.apps # << >>)
    BY <2>1, PacketTypes
  <2>. QED  BY <2>1, <2>2, <2>3, <2>4, SameKinds DEF TypeInv
<1>4. CASE AppRoute
  <2>1. /\ at = "apps" /\ UNCHANGED <<request, graph, packet, via>>
        /\ \/ at' = (IF graph.xray # None THEN "xray" ELSE "box") /\ leg' = Handed(leg)
           \/ (at' \in {"block", "direct"} \/ (at' = via /\ via # None)) /\ leg' = leg
    BY <1>4 DEF AppRoute, Handed
  <2>2. graph = Graph(request) /\ request \in Requests /\ packet # None /\ leg \in PacketForms
    BY <2>1 DEF TypeInv
  <2>3. graph.xray # None \/ graph.box # None
    BY <2>2, GraphIs
  <2>4. leg' \in PacketForms
    BY <2>1, <2>2, HandedIs
  <2>. QED  BY <2>1, <2>2, <2>3, <2>4, SameKinds DEF TypeInv
<1>5. CASE BoxRoute
  <2>1. /\ at = "box" /\ UNCHANGED <<request, graph, packet, leg, via>>
        /\ \/ at' \in {"box_dns", "direct", "block"}
           \/ at' = via /\ via # None
           \/ at' = "xray" /\ graph.xray # None
           \/ at' = graph.box.proxy
    BY <1>5 DEF BoxRoute
  <2>2. graph = Graph(request) /\ request \in Requests /\ graph.box # None
    BY <2>1 DEF TypeInv
  <2>3. graph.box.proxy \in {"proxy", "block"}
    BY <2>2, GraphIs DEF Boxes
  <2>4. Packets' = Packets /\ Captured' = Captured
    BY <2>1, SameKinds
  <2>. QED  BY <2>1, <2>2, <2>3, <2>4 DEF TypeInv
<1>6. CASE BoxResolve
  <2>1. /\ at = "box_dns" /\ UNCHANGED <<request, graph, packet, via>> /\ leg' = Doh("app")
        /\ \/ at' \in {"direct", "answered"}
           \/ at' = "xray" /\ graph.xray # None
           \/ at' = graph.box.proxy
    BY <1>6 DEF BoxResolve
  <2>2. graph = Graph(request) /\ request \in Requests /\ graph.box # None
    BY <2>1 DEF TypeInv
  <2>3. graph.box.proxy \in {"proxy", "block"}
    BY <2>2, GraphIs DEF Boxes
  <2>4. Packets' = Packets /\ Captured' = Captured
    BY <2>1, SameKinds
  <2>. QED  BY <2>1, <2>2, <2>3, <2>4, PacketTypes DEF TypeInv
<1>7. CASE XrayRoute
  <2>1. PICK o : /\ at = "xray" /\ UNCHANGED <<request, graph, packet>>
                 /\ IF Route(o) \in {"direct", "proxy"} /\ (graph.box # None \/ graph.apps # << >>)
                    THEN /\ at' = (IF graph.box # None THEN "box" ELSE "apps") /\ via' = Route(o)
                         /\ leg' = [leg EXCEPT !.process = "xray", !.inbound = "app"]
                    ELSE at' = Route(o) /\ UNCHANGED <<via, leg>>
    BY <1>7 DEF XrayRoute
  <2>2. Route(o) \in {"api", "direct", "block", "xray_dns", "proxy"}
    BY DEF Route
  <2>3. packet # None /\ leg \in PacketForms /\ graph.xray # None
    BY <2>1 DEF TypeInv
  <2>4. [leg EXCEPT !.process = "xray", !.inbound = "app"] \in PacketForms
    BY <2>3 DEF PacketForms
  <2>5. Packets' = Packets /\ Captured' = Captured
    BY <2>1, SameKinds
  <2>. HIDE DEF Route
  <2>6. CASE Route(o) \in {"direct", "proxy"} /\ (graph.box # None \/ graph.apps # << >>)
    BY <2>1, <2>3, <2>4, <2>5, <2>6 DEF TypeInv
  <2>7. CASE ~(Route(o) \in {"direct", "proxy"} /\ (graph.box # None \/ graph.apps # << >>))
    BY <2>1, <2>2, <2>3, <2>5, <2>7 DEF TypeInv
  <2>. QED  BY <2>6, <2>7
<1>8. CASE XrayResolve
  <2>1. /\ at = "xray_dns" /\ at' = "xray" /\ UNCHANGED <<request, graph, packet, via>>
        /\ leg' \in {[leg EXCEPT !.inbound = "dns-direct", !.ip = "unknown"], Doh("dns-remote")}
    BY <1>8 DEF XrayResolve
  <2>2. leg \in PacketForms
    BY <2>1 DEF TypeInv
  <2>3. leg' \in PacketForms
    BY <2>1, <2>2, PacketTypes, ZenonT(60) DEF PacketForms
  <2>4. Packets' = Packets /\ Captured' = Captured
    BY <2>1, SameKinds
  <2>. QED  BY <2>1, <2>3, <2>4 DEF TypeInv
<1>9. CASE UNCHANGED vars
  <2>1. Packets' = Packets /\ Captured' = Captured
    BY <1>9, SameKinds DEF vars
  <2>. QED  BY <1>9, <2>1 DEF vars, TypeInv
<1>. QED  BY <1>1, <1>2, <1>3, <1>4, <1>5, <1>6, <1>7, <1>8, <1>9 DEF Next

\* Every variable keeps its type, and the configurations are those of the request.
THEOREM TypeInvariance == Spec => []TypeInv
BY InitTypes, StepTypes, PTL DEF Spec

\* TypeOK of Routing: no packet is in an engine that is not there.
THEOREM RoutingTypeCorrect == Spec => []TypeOK
<1>1. TypeInv => TypeOK
  <2>. SUFFICES ASSUME TypeInv PROVE TypeOK
    OBVIOUS
  <2>1. CASE at \in Early
    BY <2>1 DEF TypeInv, TypeOK, Early, Exits
  <2>2. CASE at \notin Early
    <3>1. graph = Graph(request) /\ request \in Requests
      BY <2>2 DEF TypeInv
    <3>2. graph # None /\ (graph.xray # None \/ graph.box # None)
      BY <3>1, GraphIs
    <3>. QED  BY <2>2, <3>2 DEF TypeInv, TypeOK, Early, Exits
  <2>. QED  BY <2>1, <2>2
<1>. QED  BY <1>1, TypeInvariance, PTL

-----------------------------------------------------------------------------
(* What xray sends directly, and what it hands to its DNS module.            *)

LEMMA RuleExt ==
  ASSUME NEW r \in Rules, NEW q \in Rules,
         r.inbound = q.inbound, r.process = q.process, r.domain = q.domain, r.ip = q.ip,
         r.dns = q.dns, r.all = q.all, r.out = q.out
  PROVE  r = q
BY DEF Rules

LEMMA LessDomainRule ==
  ASSUME NEW names \in SUBSET Selectors, NEW out \in Names, NEW domains, NEW addresses
  PROVE  /\ Less(DomainRule(names, out), domains, addresses) = DomainRule(names \ domains, out)
         /\ Effective(DomainRule(names, out)) <=> names # {}
<1>1. Effective(DomainRule(names, out)) <=> names # {}
  BY DEF Effective, DomainRule, Rule
<1>. DEFINE left == names \ domains
            r == DomainRule(names, out)
            q == DomainRule(left, out)
            l == Less(r, domains, addresses)
<1>2. r \in Rules /\ q \in Rules
  BY RuleTypes
<1>3. /\ r.inbound = {} /\ r.process = {} /\ r.domain = names /\ r.ip = {} /\ r.dns = FALSE
      /\ r.all = FALSE /\ r.out = out
  BY DEF DomainRule, Rule
<1>4. /\ q.inbound = {} /\ q.process = {} /\ q.domain = left /\ q.ip = {} /\ q.dns = FALSE
      /\ q.all = FALSE /\ q.out = out
  BY DEF DomainRule, Rule
<1>. HIDE DEF r, q
<1>5. /\ l \in Rules /\ l.domain = r.domain \ domains /\ l.ip = r.ip \ addresses
      /\ l.inbound = r.inbound /\ l.process = r.process /\ l.dns = r.dns /\ l.all = r.all
      /\ l.out = r.out
  BY <1>2, LessType
<1>6. l.ip = q.ip
  BY <1>3, <1>4, <1>5
<1>. HIDE DEF l
<1>7. l = q
  BY <1>2, <1>3, <1>4, <1>5, <1>6, RuleExt
<1>. QED  BY <1>1, <1>7 DEF l, q, r

LEMMA LessAddressRule ==
  ASSUME NEW names \in SUBSET Selectors, NEW out \in Names, NEW domains, NEW addresses
  PROVE  /\ Less(AddressRule(names, out), domains, addresses) = AddressRule(names \ addresses, out)
         /\ Effective(AddressRule(names, out)) <=> names # {}
<1>1. Effective(AddressRule(names, out)) <=> names # {}
  BY DEF Effective, AddressRule, Rule
<1>. DEFINE left == names \ addresses
            r == AddressRule(names, out)
            q == AddressRule(left, out)
            l == Less(r, domains, addresses)
<1>2. r \in Rules /\ q \in Rules
  BY RuleTypes
<1>3. /\ r.inbound = {} /\ r.process = {} /\ r.domain = {} /\ r.ip = names /\ r.dns = FALSE
      /\ r.all = FALSE /\ r.out = out
  BY DEF AddressRule, Rule
<1>4. /\ q.inbound = {} /\ q.process = {} /\ q.domain = {} /\ q.ip = left /\ q.dns = FALSE
      /\ q.all = FALSE /\ q.out = out
  BY DEF AddressRule, Rule
<1>. HIDE DEF r, q
<1>5. /\ l \in Rules /\ l.domain = r.domain \ domains /\ l.ip = r.ip \ addresses
      /\ l.inbound = r.inbound /\ l.process = r.process /\ l.dns = r.dns /\ l.all = r.all
      /\ l.out = r.out
  BY <1>2, LessType
<1>6. l.domain = q.domain
  BY <1>3, <1>4, <1>5
<1>. HIDE DEF l
<1>7. l = q
  BY <1>2, <1>3, <1>4, <1>5, <1>6, RuleExt
<1>. QED  BY <1>1, <1>7 DEF l, q, r

\* a rule that names neither domains nor addresses loses nothing
LEMMA LessNothing ==
  ASSUME NEW r \in Rules, r.domain = {}, r.ip = {}, NEW domains, NEW addresses
  PROVE  Less(r, domains, addresses) = r
<1>. DEFINE l == Less(r, domains, addresses)
<1>1. /\ l \in Rules /\ l.domain = r.domain \ domains /\ l.ip = r.ip \ addresses
      /\ l.inbound = r.inbound /\ l.process = r.process /\ l.dns = r.dns /\ l.all = r.all
      /\ l.out = r.out
  BY LessType
<1>2. l.domain = r.domain /\ l.ip = r.ip
  BY <1>1
<1>. HIDE DEF l
<1>3. l = r
  BY <1>1, <1>2, RuleExt
<1>. QED  BY <1>3 DEF l

LEMMA LessOthers ==
  ASSUME NEW out \in Names, NEW domains, NEW addresses
  PROVE  /\ Less(DnsDirect, domains, addresses) = DnsDirect
         /\ Less(DnsRemote(out), domains, addresses) = DnsRemote(out)
         /\ Less(AllTo(out), domains, addresses) = AllTo(out)
         /\ Less(Port53, domains, addresses) = Port53
         /\ Less(ApiRule, domains, addresses) = ApiRule
         /\ Effective(DnsDirect) /\ Effective(DnsRemote(out)) /\ Effective(AllTo(out))
         /\ Effective(Port53) /\ Effective(ApiRule)
<1>1. /\ DnsDirect \in Rules /\ DnsRemote(out) \in Rules /\ AllTo(out) \in Rules
      /\ Port53 \in Rules /\ ApiRule \in Rules
  <2>1. {"dns-direct"} \in SUBSET Names /\ {"dns-remote"} \in SUBSET Names /\ "direct" \in Names
    BY ConstantsAssumption
  <2>2. DnsDirect \in Rules
    BY <2>1, RuleTypes DEF DnsDirect
  <2>3. DnsRemote(out) \in Rules
    BY <2>1, RuleTypes DEF DnsRemote
  <2>4. AllTo(out) \in Rules
    BY RuleTypes DEF AllTo
  <2>. QED  BY <2>2, <2>3, <2>4, RuleTypes
<1>2. /\ DnsDirect.domain = {} /\ DnsDirect.ip = {} /\ Effective(DnsDirect)
      /\ DnsRemote(out).domain = {} /\ DnsRemote(out).ip = {} /\ Effective(DnsRemote(out))
      /\ AllTo(out).domain = {} /\ AllTo(out).ip = {} /\ Effective(AllTo(out))
  BY DEF Effective, DnsDirect, DnsRemote, AllTo, Rule
<1>3. /\ Port53.domain = {} /\ Port53.ip = {} /\ Effective(Port53)
      /\ ApiRule.domain = {} /\ ApiRule.ip = {} /\ Effective(ApiRule)
  BY DEF Effective, Port53, ApiRule, Rule
<1>. QED  BY <1>1, <1>2, <1>3, LessNothing

\* the forms of the direct rules
DirectForm(req, r) ==
  \/ r = DnsDirect
  \/ \E names \in (SUBSET TrafficDomains(req)) \ {{}} : r = DomainRule(names, "direct")
  \/ Split(req) /\ \E names \in (SUBSET req.policy.ranges) \ {{}} : r = AddressRule(names, "direct")
  \/ req.policy = None /\ r = Private
  \/ req.policy = None /\ \E names \in (SUBSET UserDomains(req, "direct")) \ {{}} :
                            r = DomainRule(names, "direct")

LEMMA DirectFormLess ==
  ASSUME NEW req \in Requests, NEW r, NEW domains, NEW addresses, DirectForm(req, r),
         Effective(Less(r, domains, addresses))
  PROVE  DirectForm(req, Less(r, domains, addresses))
<1>. DEFINE q == Less(r, domains, addresses)
<1>0. "direct" \in Names /\ "private" \in Selectors
  BY ConstantsAssumption
<1>1. CASE r = DnsDirect
  BY <1>0, <1>1, LessOthers DEF DirectForm
<1>2. CASE \E names \in (SUBSET TrafficDomains(req)) \ {{}} : r = DomainRule(names, "direct")
  <2>1. PICK names \in (SUBSET TrafficDomains(req)) \ {{}} : r = DomainRule(names, "direct")
    BY <1>2
  <2>. DEFINE left == names \ domains
  <2>2. names \in SUBSET Selectors /\ left \in SUBSET Selectors
    BY <2>1, Selections
  <2>3. q = DomainRule(left, "direct") /\ left # {}
    <3>1. q = DomainRule(left, "direct")
      BY <1>0, <2>1, <2>2, LessDomainRule
    <3>2. Effective(DomainRule(left, "direct"))
      BY <3>1
    <3>. HIDE DEF left
    <3>. QED  BY <1>0, <2>2, <3>1, <3>2, LessDomainRule
  <2>4. left \in (SUBSET TrafficDomains(req)) \ {{}}
    BY <2>1, <2>3
  <2>. QED  BY <1>2, <2>3, <2>4 DEF DirectForm
<1>3. CASE Split(req) /\ \E names \in (SUBSET req.policy.ranges) \ {{}} : r = AddressRule(names, "direct")
  <2>1. PICK names \in (SUBSET req.policy.ranges) \ {{}} : r = AddressRule(names, "direct")
    BY <1>3
  <2>. DEFINE left == names \ addresses
  <2>2. names \in SUBSET Selectors /\ left \in SUBSET Selectors
    BY <1>3, <2>1, Selections
  <2>3. q = AddressRule(left, "direct") /\ left # {}
    <3>1. q = AddressRule(left, "direct")
      BY <1>0, <2>1, <2>2, LessAddressRule
    <3>2. Effective(AddressRule(left, "direct"))
      BY <3>1
    <3>. HIDE DEF left
    <3>. QED  BY <1>0, <2>2, <3>1, <3>2, LessAddressRule
  <2>4. left \in (SUBSET req.policy.ranges) \ {{}}
    BY <2>1, <2>3
  <2>. QED  BY <1>3, <2>3, <2>4 DEF DirectForm
<1>4. CASE req.policy = None /\ r = Private
  <2>. DEFINE left == {"private"} \ addresses
  <2>1. {"private"} \in SUBSET Selectors /\ left \in SUBSET Selectors
    BY <1>0
  <2>2. q = AddressRule(left, "direct") /\ left # {}
    <3>1. q = AddressRule(left, "direct")
      BY <1>0, <1>4, <2>1, LessAddressRule DEF Private
    <3>2. Effective(AddressRule(left, "direct"))
      BY <3>1
    <3>. HIDE DEF left
    <3>. QED  BY <1>0, <2>1, <3>1, <3>2, LessAddressRule
  <2>3. left = {"private"}
    BY <2>2
  <2>. QED  BY <1>4, <2>2, <2>3 DEF DirectForm, Private
<1>5. CASE req.policy = None /\ \E names \in (SUBSET UserDomains(req, "direct")) \ {{}} :
                                  r = DomainRule(names, "direct")
  <2>1. PICK names \in (SUBSET UserDomains(req, "direct")) \ {{}} : r = DomainRule(names, "direct")
    BY <1>5
  <2>. DEFINE left == names \ domains
  <2>2. names \in SUBSET Selectors /\ left \in SUBSET Selectors
    BY <2>1, Selections
  <2>3. q = DomainRule(left, "direct") /\ left # {}
    <3>1. q = DomainRule(left, "direct")
      BY <1>0, <2>1, <2>2, LessDomainRule
    <3>2. Effective(DomainRule(left, "direct"))
      BY <3>1
    <3>. HIDE DEF left
    <3>. QED  BY <1>0, <2>2, <3>1, <3>2, LessDomainRule
  <2>4. left \in (SUBSET UserDomains(req, "direct")) \ {{}}
    BY <2>1, <2>3
  <2>. QED  BY <1>5, <2>3, <2>4 DEF DirectForm
<1>. QED  BY <1>1, <1>2, <1>3, <1>4, <1>5 DEF DirectForm

LEMMA DirectFormMatches ==
  ASSUME NEW req, NEW r, NEW p, DirectForm(req, r), Matches(r, p)
  PROVE  \/ p.inbound = "dns-direct"
         \/ p.domain \in TrafficDomains(req) /\ ~p.dns
         \/ Split(req) /\ p.ip \in req.policy.ranges
         \/ req.policy = None /\ (p.ip = "private" \/ p.domain \in UserDomains(req, "direct"))
<1>1. CASE r = DnsDirect
  BY <1>1, AddedMatches
<1>2. CASE \E names \in (SUBSET TrafficDomains(req)) \ {{}} : r = DomainRule(names, "direct")
  <2>1. PICK names \in (SUBSET TrafficDomains(req)) \ {{}} : r = DomainRule(names, "direct")
    BY <1>2
  <2>2. p.domain \in names /\ ~p.dns
    BY <2>1, DomainMatches
  <2>. QED  BY <2>1, <2>2
<1>3. CASE Split(req) /\ \E names \in (SUBSET req.policy.ranges) \ {{}} : r = AddressRule(names, "direct")
  <2>1. PICK names \in (SUBSET req.policy.ranges) \ {{}} : r = AddressRule(names, "direct")
    BY <1>3
  <2>2. p.ip \in names
    BY <2>1, AddressMatches
  <2>. QED  BY <1>3, <2>1, <2>2
<1>4. CASE req.policy = None /\ r = Private
  BY <1>4, AddedMatches
<1>5. CASE req.policy = None /\ \E names \in (SUBSET UserDomains(req, "direct")) \ {{}} :
                                  r = DomainRule(names, "direct")
  <2>1. PICK names \in (SUBSET UserDomains(req, "direct")) \ {{}} : r = DomainRule(names, "direct")
    BY <1>5
  <2>2. p.domain \in names
    BY <2>1, DomainMatches
  <2>. QED  BY <1>5, <2>1, <2>2
<1>. QED  BY <1>1, <1>2, <1>3, <1>4, <1>5 DEF DirectForm

\* a configuration in which nothing but those rules leads out directly, and DNS alone to
\* the DNS module
Held(c, req) ==
  /\ \A o \in Elems(c.outbounds) : /\ Route(o) = "direct" => o.tag = "direct"
                                   /\ Route(o) = "xray_dns" => o.tag = "dns-out"
  /\ \A b \in c.balancers : b.tag = "balancer" /\ b.selects = Entries
  /\ \A r \in Elems(c.rules) : /\ r.out = "direct" => DirectForm(req, r)
                               /\ r.out = "dns-out" => r.dns
  /\ \/ \E target \in {"balancer", "proxy"} : AllTo(target) \in Elems(c.rules)
     \/ c.outbounds # << >> /\ c.outbounds[1].tag = "proxy"
  /\ c.dns = DnsDomains(req)

LEMMA StandsIs ==
  ASSUME NEW c, NEW tag, NEW o \in Stands(c, tag)
  PROVE  /\ o \in Elems(c.outbounds)
         /\ (\A b \in c.balancers : b.tag # tag) => o.tag = tag
         /\ (\E b \in c.balancers : b.tag = tag) =>
              \E b \in c.balancers : b.tag = tag /\ o.tag \in b.selects
<1>1. CASE \E b \in c.balancers : b.tag = tag
  <2>. DEFINE tags == UNION {b.selects : b \in {d \in c.balancers : d.tag = tag}}
  <2>1. Stands(c, tag) = {c.outbounds[i] : i \in {j \in DOMAIN c.outbounds : c.outbounds[j].tag \in tags}}
    BY <1>1 DEF Stands
  <2>2. o \in Elems(c.outbounds) /\ o.tag \in tags
    <3>. HIDE DEF tags
    <3>. QED  BY <2>1 DEF Elems
  <2>. QED  BY <1>1, <2>2
<1>2. CASE ~\E b \in c.balancers : b.tag = tag
  <2>1. Stands(c, tag) = {c.outbounds[i] : i \in {j \in DOMAIN c.outbounds : c.outbounds[j].tag \in {tag}}}
    BY <1>2 DEF Stands
  <2>2. o \in Elems(c.outbounds) /\ o.tag = tag
    BY <2>1 DEF Elems
  <2>. QED  BY <1>2, <2>2
<1>. QED  BY <1>1, <1>2

LEMMA HeldRoutes ==
  ASSUME NEW c \in Configs, NEW req, Held(c, req), NEW p,
         NEW o \in Stands(c, FirstMatch(c.rules, p, c.outbounds[1].tag))
  PROVE  /\ Route(o) = "direct" =>
              \/ p.inbound = "dns-direct"
              \/ p.domain \in TrafficDomains(req) /\ ~p.dns
              \/ Split(req) /\ p.ip \in req.policy.ranges
              \/ req.policy = None /\ (p.ip = "private" \/ p.domain \in UserDomains(req, "direct"))
         /\ Route(o) = "xray_dns" => p.dns
<1>. DEFINE tag == FirstMatch(c.rules, p, c.outbounds[1].tag)
<1>1. o \in Elems(c.outbounds) /\ (o.tag \in {"direct", "dns-out"} => o.tag = tag)
  <2>1. "direct" \notin Entries /\ "dns-out" \notin Entries
    BY ConstantsAssumption
  <2>2. o \in Stands(c, tag)
    OBVIOUS
  <2>. HIDE DEF tag
  <2>3. CASE \A b \in c.balancers : b.tag # tag
    BY <2>2, <2>3, StandsIs
  <2>4. CASE \E b \in c.balancers : b.tag = tag
    <3>1. PICK b \in c.balancers : b.tag = tag /\ o.tag \in b.selects
      BY <2>2, <2>4, StandsIs
    <3>2. b.selects = Entries
      BY DEF Held
    <3>3. o \in Elems(c.outbounds)
      BY <2>2, StandsIs
    <3>. QED  BY <2>1, <3>1, <3>2, <3>3
  <2>. QED  BY <2>3, <2>4
<1>2. \/ \E r \in Elems(c.rules) : Matches(r, p) /\ tag = r.out
      \/ tag = c.outbounds[1].tag /\ \A r \in Elems(c.rules) : ~Matches(r, p)
  BY ConfigFields, MatchIsRule
<1>. HIDE DEF tag
<1>3. tag \in {"direct", "dns-out"} => \E r \in Elems(c.rules) : Matches(r, p) /\ tag = r.out
  BY <1>2, AddedMatches DEF Held
<1>4. CASE Route(o) = "direct"
  <2>1. tag = "direct"
    BY <1>1, <1>4 DEF Held
  <2>2. PICK r \in Elems(c.rules) : Matches(r, p) /\ r.out = "direct"
    BY <1>3, <2>1
  <2>3. DirectForm(req, r)
    BY <2>2 DEF Held
  <2>. QED  BY <1>4, <2>2, <2>3, DirectFormMatches
<1>5. CASE Route(o) = "xray_dns"
  <2>1. tag = "dns-out"
    BY <1>1, <1>5 DEF Held
  <2>2. PICK r \in Elems(c.rules) : Matches(r, p) /\ r.out = "dns-out"
    BY <1>3, <2>1
  <2>3. r.dns
    BY <2>2 DEF Held
  <2>. QED  BY <1>5, <2>2, <2>3 DEF Matches
<1>. QED  BY <1>4, <1>5

-----------------------------------------------------------------------------
(* The configurations that hold to the policy.                               *)

HeldRule(req, r) == (r.out = "direct" => DirectForm(req, r)) /\ (r.out = "dns-out" => r.dns)
HeldOutbound(o) ==
  (Route(o) = "direct" => o.tag = "direct") /\ (Route(o) = "xray_dns" => o.tag = "dns-out")

LEMMA HeldParts ==
  ASSUME NEW c, NEW req
  PROVE  Held(c, req) <=>
           /\ \A o \in Elems(c.outbounds) : HeldOutbound(o)
           /\ \A b \in c.balancers : b.tag = "balancer" /\ b.selects = Entries
           /\ \A r \in Elems(c.rules) : HeldRule(req, r)
           /\ \/ \E target \in {"balancer", "proxy"} : AllTo(target) \in Elems(c.rules)
              \/ c.outbounds # << >> /\ c.outbounds[1].tag = "proxy"
           /\ c.dns = DnsDomains(req)
BY DEF Held, HeldRule, HeldOutbound

LEMMA AdditionsHeld ==
  ASSUME NEW req \in Requests, NEW legacy, NEW rules \in Seq(Rules),
         NEW target \in {"balancer", "proxy"}, NEW r \in Elems(Additions(rules, req, legacy, target))
  PROVE  HeldRule(req, r)
<1>1. target \in Names
  BY ConstantsAssumption
<1>2. \/ r \in {DnsDirect, DnsRemote(target)} \/ r = Port53
      \/ r \in Elems(DirectRules(rules, req, legacy))
  BY <1>1, AdditionsAre, ResolverRulesAre
<1>3. CASE r = DnsDirect
  BY <1>3, AddedMatches DEF HeldRule, DirectForm
<1>4. CASE r = DnsRemote(target)
  BY <1>4, AddedMatches DEF HeldRule
<1>5. CASE r = Port53
  BY <1>5 DEF HeldRule, Port53, Rule
<1>6. CASE r = DomainRule(TrafficDomains(req), "direct")
  <2>1. TrafficDomains(req) \in (SUBSET TrafficDomains(req)) \ {{}}
    BY Selections
  <2>2. r.out = "direct"
    BY <1>6, RuleOuts
  <2>3. DirectForm(req, r)
    BY <1>6, <2>1 DEF DirectForm
  <2>. QED  BY <2>2, <2>3 DEF HeldRule
<1>7. CASE r = Private /\ req.policy = None
  BY <1>7, AddedMatches DEF HeldRule, DirectForm
<1>8. CASE r = Ranges(req) /\ Split(req) /\ req.policy.ranges # {}
  <2>1. r = AddressRule(req.policy.ranges, "direct")
    BY <1>8 DEF Ranges
  <2>2. r.out = "direct"
    BY <2>1, RuleOuts
  <2>3. req.policy.ranges \in (SUBSET req.policy.ranges) \ {{}}
    BY <1>8
  <2>4. DirectForm(req, r)
    BY <1>8, <2>1, <2>3 DEF DirectForm
  <2>. QED  BY <2>2, <2>4 DEF HeldRule
<1>. QED  BY <1>2, <1>3, <1>4, <1>5, <1>6, <1>7, <1>8, DirectRulesAre

LEMMA AppliedHeld ==
  ASSUME NEW c \in Configs, NEW req \in Requests, NEW legacy,
         \A r \in Elems(c.rules) : /\ req.policy = None => HeldRule(req, r)
                                   /\ r.out = "dns-out" => r.dns
  PROVE  \A r \in Elems(ApplyPolicy(c, req, legacy).rules) : HeldRule(req, r)
<1>. DEFINE before == Before(c, req)
            added == Additions(before, req, legacy, Target(c))
<1>1. Target(c) \in {"balancer", "proxy"}
  BY DEF Target
<1>2. before \in Seq(Rules)
  BY ConfigFields, RetainedIs, WithApiIs DEF Before
<1>3. \A r \in Elems(before) : r = ApiRule \/ (r \in Elems(c.rules) /\ (req.policy # None => r.out # "direct"))
  <2>. DEFINE kept == Retained(c.rules, req)
  <2>1. kept \in Seq(Rules) /\ \A r \in Elems(kept) : r \in Elems(c.rules) /\ (req.policy # None => r.out # "direct")
    BY ConfigFields, RetainedIs
  <2>. HIDE DEF kept
  <2>2. \A r \in Elems(WithApi(kept)) : r \in Elems(kept) \/ r = ApiRule
    <3>. DEFINE g == ~Exists(kept, IsApi)
    <3>1. Elems(WithApi(kept)) = Elems(kept) \cup {r \in {ApiRule} : g}
      BY <2>1, WithApiIs
    <3>. HIDE DEF g
    <3>. QED  BY <3>1
  <2>. QED  BY <2>1, <2>2 DEF Before, kept
<1>4. ASSUME NEW r \in Elems(before) PROVE HeldRule(req, r)
  <2>1. CASE r = ApiRule
    BY <2>1, OwnMatches DEF HeldRule
  <2>2. CASE r \in Elems(c.rules) /\ (req.policy # None => r.out # "direct")
    <3>. HIDE DEF before
    <3>. QED  BY <2>2 DEF HeldRule
  <2>. QED  BY <1>3, <2>1, <2>2
<1>. HIDE DEF before
<1>5. ASSUME NEW r \in Elems(added) PROVE HeldRule(req, r)
  BY <1>1, <1>2, <1>5, AdditionsHeld
<1>6. HeldRule(req, AllTo(Target(c)))
  BY <1>1, AddedMatches DEF HeldRule
<1>7. Elems(ApplyPolicy(c, req, legacy).rules) =
        Elems(before) \cup Elems(added) \cup {r \in {AllTo(Target(c))} : req.policy # None}
  BY AppliedIs DEF before
<1>. HIDE DEF added
<1>. QED  BY <1>4, <1>5, <1>6, <1>7

LEMMA AppliedTail ==
  ASSUME NEW c \in Configs, NEW req \in Requests, NEW legacy, req.policy # None
  PROVE  \E target \in {"balancer", "proxy"} :
           AllTo(target) \in Elems(ApplyPolicy(c, req, legacy).rules)
<1>1. Target(c) \in {"balancer", "proxy"}
  BY DEF Target
<1>2. AllTo(Target(c)) \in Elems(ApplyPolicy(c, req, legacy).rules)
  BY AppliedIs
<1>. QED  BY <1>1, <1>2

LEMMA BuildHeld == ASSUME NEW req \in Requests PROVE Held(Build(req), req)
<1>. DEFINE c == Base(req)
            d == ApplyPolicy(c, req, TRUE)
<1>1. /\ c \in Configs /\ c.outbounds = BuildOutbounds(req) /\ c.balancers = {}
      /\ c.dns = DnsDomains(req)
      /\ Elems(c.rules) = {ApiRule, Port53} \cup Elems(UserRules(req))
  BY BaseIs
<1>. HIDE DEF c
<1>2. /\ d.outbounds = BuildOutbounds(req) /\ d.balancers = {} /\ d.dns = DnsDomains(req)
  BY <1>1, AppliedIs
<1>3. ASSUME NEW r \in Elems(c.rules)
      PROVE  (req.policy = None => HeldRule(req, r)) /\ (r.out = "dns-out" => r.dns)
  <2>1. CASE r = ApiRule
    BY <2>1, OwnMatches DEF HeldRule
  <2>2. CASE r = Port53
    BY <2>2, OwnMatches DEF HeldRule, Port53, Rule
  <2>3. CASE r \in Elems(UserRules(req))
    <3>1. PICK action \in {"proxy", "direct", "block"} :
            r = DomainRule(UserDomains(req, action), action) /\ UserDomains(req, action) # {}
      BY <2>3, UserRulesAre
    <3>2. r.out = action
      BY <3>1, RuleOuts
    <3>3. action = "direct" /\ req.policy = None => DirectForm(req, r)
      BY <3>1 DEF DirectForm
    <3>. QED  BY <3>2, <3>3 DEF HeldRule
  <2>. QED  BY <1>1, <2>1, <2>2, <2>3
<1>4. \A r \in Elems(d.rules) : HeldRule(req, r)
  BY <1>1, <1>3, AppliedHeld
<1>5. ASSUME NEW o \in Elems(BuildOutbounds(req)) PROVE HeldOutbound(o)
  <2>1. req.protocol \in {"vless", "hysteria2", "unknown"}
    BY DEF Requests
  <2>2. CASE o = [tag |-> "proxy", protocol |-> req.protocol]
    BY <2>1, <2>2 DEF HeldOutbound, Route
  <2>3. CASE o # [tag |-> "proxy", protocol |-> req.protocol]
    BY <1>5, <2>3, BuildOutboundsAre DEF HeldOutbound, Route
  <2>. QED  BY <2>2, <2>3
<1>6. d.outbounds # << >> /\ d.outbounds[1].tag = "proxy"
  <2>1. BuildOutbounds(req) # << >>
    BY DEF BuildOutbounds
  <2>. QED  BY <1>2, <2>1, BuildOutboundsAre
<1>7. Build(req) = d
  BY BuildIs DEF c
<1>. HIDE DEF d
<1>8. Held(d, req)
  BY <1>2, <1>4, <1>5, <1>6, HeldParts
<1>. QED  BY <1>7, <1>8

\* what a policy leaves of a profile
LEMMA ManagedChosen ==
  ASSUME NEW c \in Profiles, NEW req \in Requests, req.policy # None, IsManaged(c)
  PROVE  /\ Elems(Chosen(c, req).outbounds) = {o \in Elems(c.outbounds) : KeepsManaged(o)}
         /\ Chosen(c, req).balancers = {b \in c.balancers : b.tag = "balancer"}
         /\ Chosen(c, req).rules = << >>
<1>1. c \in Configs
  BY ProfilesAssumption
<1>2. Sanitize(c) \in Configs /\ IsManaged(Sanitize(c)) /\ Sanitize(c).outbounds = c.outbounds
      /\ Sanitize(c).balancers = c.balancers
  BY <1>1, SanitizeIs
<1>3. Chosen(c, req) = ConstrainManaged(Sanitize(c))
  BY <1>2 DEF Chosen, Constrain
<1>. DEFINE d == Sanitize(c)
<1>. HIDE DEF d
<1>4. d \in Configs /\ IsManaged(d) /\ d.outbounds = c.outbounds /\ d.balancers = c.balancers
  BY <1>2 DEF d
<1>5. Chosen(c, req) = ConstrainManaged(d)
  BY <1>3 DEF d
<1>. QED  BY <1>4, <1>5, ConstrainManagedIs

LEMMA PlainChosen ==
  ASSUME NEW c \in Profiles, NEW req \in Requests, req.policy # None, ~IsManaged(c)
  PROVE  /\ Elems(Chosen(c, req).outbounds) = {o \in Elems(c.outbounds) : KeepsPlain(o)}
         /\ Chosen(c, req).balancers = {}
         /\ \E tags : /\ tags = {o.tag : o \in {q \in Elems(c.outbounds) : KeepsPlain(q)}}
                      /\ Chosen(c, req).rules =
                           Retain(Strip(c.rules, Unsupported, Unsupported), {r \in Rules : r.out \in tags})
<1>1. c \in Configs
  BY ProfilesAssumption
<1>2. Sanitize(c) \in Configs /\ ~IsManaged(Sanitize(c)) /\ Sanitize(c).outbounds = c.outbounds
      /\ Sanitize(c).rules = Strip(c.rules, Unsupported, Unsupported)
  BY <1>1, SanitizeIs
<1>3. Chosen(c, req) = ConstrainPlain(Sanitize(c))
  BY <1>2 DEF Chosen, Constrain
<1>. DEFINE d == Sanitize(c)
<1>. HIDE DEF d
<1>4. d \in Configs /\ ~IsManaged(d) /\ d.outbounds = c.outbounds
      /\ d.rules = Strip(c.rules, Unsupported, Unsupported)
  BY <1>2 DEF d
<1>5. Chosen(c, req) = ConstrainPlain(d)
  BY <1>3 DEF d
<1>6. PICK tags : /\ ConstrainPlain(d).rules = Retain(d.rules, {r \in Rules : r.out \in tags})
                  /\ tags = {o.tag : o \in {q \in Elems(d.outbounds) : KeepsPlain(q)}}
  BY <1>4, ConstrainPlainIs
<1>7. /\ Elems(Chosen(c, req).outbounds) = {o \in Elems(c.outbounds) : KeepsPlain(o)}
      /\ Chosen(c, req).balancers = {}
  BY <1>4, <1>5, ConstrainPlainIs
<1>8. /\ tags = {o.tag : o \in {q \in Elems(c.outbounds) : KeepsPlain(q)}}
      /\ Chosen(c, req).rules =
           Retain(Strip(c.rules, Unsupported, Unsupported), {r \in Rules : r.out \in tags})
  BY <1>4, <1>5, <1>6
<1>. QED  BY <1>7, <1>8

\* what stays of the outbounds is of one kind with its tag
LEMMA KeptOutbounds ==
  ASSUME NEW c \in Profiles, TagsMeanIt(c), NEW req \in Requests, req.policy # None,
         NEW o \in Elems(Chosen(c, req).outbounds)
  PROVE  o \in Elems(c.outbounds) /\ HeldOutbound(o)
<1>0. /\ c \in Configs /\ TagsAreUnique(c) /\ (IsManaged(c) \/ HasProxy(c))
      /\ {"proxy", "direct", "block", "dns-out", "api"} \cap Entries = {}
  BY ProfilesAssumption, ConstantsAssumption
<1>1. CASE IsManaged(c)
  <2>1. o \in Elems(c.outbounds) /\ KeepsManaged(o)
    BY <1>1, ManagedChosen
  <2>2. CASE IsCandidate(o)
    BY <2>1, <2>2 DEF IsCandidate, HeldOutbound, Route
  <2>3. CASE o.tag = "dns-out"
    <3>1. o.protocol = "dns"
      BY <2>1, <2>3 DEF TagsMeanIt
    <3>. QED  BY <2>1, <2>3, <3>1 DEF HeldOutbound, Route
  <2>4. CASE o.tag = "api"
    BY <2>1, <2>4 DEF HeldOutbound, Route
  <2>5. CASE o.protocol = "blackhole"
    BY <2>1, <2>5 DEF HeldOutbound, Route
  <2>6. CASE o.tag = "direct" /\ o.protocol = "freedom"
    BY <2>1, <2>6 DEF HeldOutbound, Route
  <2>. QED  BY <2>1, <2>2, <2>3, <2>4, <2>5, <2>6 DEF KeepsManaged
<1>2. CASE ~IsManaged(c)
  <2>1. o \in Elems(c.outbounds) /\ KeepsPlain(o)
    BY <1>2, PlainChosen
  <2>2. CASE o.tag = "proxy"
    <3>1. PICK q \in Elems(c.outbounds) : q.tag = "proxy" /\ q.protocol = "vless"
      BY <1>0, <1>2 DEF HasProxy
    <3>2. o.protocol = "vless"
      BY <1>0, <2>1, <2>2, <3>1 DEF TagsAreUnique
    <3>. QED  BY <2>1, <2>2, <3>2 DEF HeldOutbound, Route
  <2>3. CASE o.tag = "dns-out"
    <3>1. o.protocol = "dns"
      BY <2>1, <2>3 DEF TagsMeanIt
    <3>. QED  BY <2>1, <2>3, <3>1 DEF HeldOutbound, Route
  <2>4. CASE o.tag = "api"
    BY <2>1, <2>4 DEF HeldOutbound, Route
  <2>5. CASE o.protocol = "blackhole"
    BY <2>1, <2>5 DEF HeldOutbound, Route
  <2>6. CASE o.tag = "direct" /\ o.protocol = "freedom"
    BY <2>1, <2>6 DEF HeldOutbound, Route
  <2>. QED  BY <2>1, <2>2, <2>3, <2>4, <2>5, <2>6 DEF KeepsPlain
<1>. QED  BY <1>1, <1>2

LEMMA KeptBalancers ==
  ASSUME NEW c \in Profiles, NEW req \in Requests, req.policy # None,
         NEW b \in Chosen(c, req).balancers
  PROVE  b.tag = "balancer" /\ b.selects = Entries
<1>1. CASE IsManaged(c)
  <2>1. b \in c.balancers /\ b.tag = "balancer"
    BY <1>1, ManagedChosen
  <2>2. PICK d \in c.balancers : d.tag = "balancer" /\ d.selects = Entries
    BY <1>1 DEF IsManaged
  <2>3. TagsAreUnique(c)
    BY ProfilesAssumption
  <2>4. b = d
    BY <2>1, <2>2, <2>3 DEF TagsAreUnique
  <2>. QED  BY <2>1, <2>2, <2>4
<1>2. CASE ~IsManaged(c)
  BY <1>2, PlainChosen
<1>. QED  BY <1>1, <1>2

LEMMA KeptRules ==
  ASSUME NEW c \in Profiles, OnlyDnsToDns(c), NEW req \in Requests, req.policy # None,
         NEW r \in Elems(Chosen(c, req).rules), r.out = "dns-out"
  PROVE  r.dns
<1>1. CASE IsManaged(c)
  <2>1. Chosen(c, req).rules = << >>
    BY <1>1, ManagedChosen
  <2>. QED  BY <2>1, NoRules
<1>2. CASE ~IsManaged(c)
  <2>. DEFINE stripped == Strip(c.rules, Unsupported, Unsupported)
  <2>1. PICK tags : Chosen(c, req).rules = Retain(stripped, {q \in Rules : q.out \in tags})
    BY <1>2, PlainChosen
  <2>2. c.rules \in Seq(Rules)
    BY ProfilesAssumption, ConfigFields
  <2>3. stripped \in Seq(Rules)
    BY <2>2, StripElems
  <2>4. r \in Elems(stripped)
    <3>. DEFINE kept == {q \in Rules : q.out \in tags}
    <3>. HIDE DEF stripped, kept
    <3>1. Elems(Retain(stripped, kept)) = Elems(stripped) \cap kept
      BY <2>3, RuleRetain
    <3>2. r \in Elems(Retain(stripped, kept))
      BY <2>1 DEF kept
    <3>. QED  BY <3>1, <3>2
  <2>5. PICK q \in Elems(c.rules) : r = Less(q, Unsupported, Unsupported)
    BY <2>2, <2>4, StripElems
  <2>6. q \in Rules
    BY <2>2, RuleElems
  <2>7. q.out = "dns-out" /\ q.dns = r.dns
    BY <2>5, <2>6, LessType
  <2>. QED  BY <2>7 DEF OnlyDnsToDns
<1>. QED  BY <1>1, <1>2

LEMMA InjectHeld ==
  ASSUME NEW c \in Profiles, TagsMeanIt(c), OnlyDnsToDns(c), NEW req \in Requests,
         req.policy # None
  PROVE  Held(Inject(c, req), req)
<1>. DEFINE k == Chosen(c, req)
            e == Ensured(k, req)
            d == ApplyPolicy(e, req, FALSE)
<1>1. k \in Configs
  BY ProfilesAssumption, ChosenIs
<1>2. /\ \A o \in Elems(k.outbounds) : HeldOutbound(o)
      /\ \A b \in k.balancers : b.tag = "balancer" /\ b.selects = Entries
      /\ \A r \in Elems(k.rules) : r.out = "dns-out" => r.dns
  BY KeptOutbounds, KeptBalancers, KeptRules
<1>. HIDE DEF k
<1>3. /\ e \in Configs /\ e.outbounds = EnsureOutbounds(k.outbounds) /\ e.rules = WithApi(k.rules)
      /\ e.balancers = k.balancers /\ e.dns = DnsDomains(req)
  BY <1>1, EnsuredIs
<1>4. ASSUME NEW o \in Elems(e.outbounds) PROVE HeldOutbound(o)
  <2>1. o \in Elems(k.outbounds) \/ o \in AddedOutbounds
    BY <1>1, <1>3, ConfigFields, EnsureIs
  <2>2. CASE o \in AddedOutbounds
    BY <2>2 DEF AddedOutbounds, HeldOutbound, Route
  <2>. QED  BY <1>2, <2>1, <2>2
<1>5. \A r \in Elems(e.rules) : r.out = "dns-out" => r.dns
  <2>. DEFINE g == ~Exists(k.rules, IsApi)
  <2>1. k.rules \in Seq(Rules)
    BY <1>1, ConfigFields
  <2>2. Elems(WithApi(k.rules)) = Elems(k.rules) \cup {r \in {ApiRule} : g}
    BY <2>1, WithApiIs
  <2>. HIDE DEF g
  <2>. QED  BY <1>2, <1>3, <2>2, OwnMatches
<1>. HIDE DEF e
<1>6. /\ d.outbounds = e.outbounds /\ d.balancers = k.balancers /\ d.dns = DnsDomains(req)
  BY <1>3, AppliedIs
<1>7. \A r \in Elems(d.rules) : HeldRule(req, r)
  BY <1>3, <1>5, AppliedHeld
<1>8. \E target \in {"balancer", "proxy"} : AllTo(target) \in Elems(d.rules)
  BY <1>3, AppliedTail
<1>9. Inject(c, req) = d
  BY InjectIs DEF e, k
<1>. HIDE DEF d
<1>10. Held(d, req)
  BY <1>2, <1>4, <1>6, <1>7, <1>8, HeldParts
<1>. QED  BY <1>9, <1>10

LEMMA OutboundCat ==
  ASSUME NEW s \in Seq(Outbounds), NEW t \in Seq(Outbounds), NEW kept
  PROVE  Retain(s \o t, kept) = Retain(s, kept) \o Retain(t, kept)
BY RetainCat

\* what the list begins with stays there
LEMMA FirstStays ==
  ASSUME NEW s \in Seq(Outbounds), s # << >>, NEW kept, s[1] \in kept
  PROVE  Retain(s, kept) # << >> /\ Retain(s, kept)[1] = s[1]
<1>. DEFINE o == s[1]
            t == Tail(s)
            u == Retain(t, kept)
<1>1. o \in Outbounds /\ t \in Seq(Outbounds) /\ <<o>> \in Seq(Outbounds)
  OBVIOUS
<1>2. s = <<o>> \o t
  <2>1. Len(<<o>> \o t) = Len(s) /\ <<o>> \o t \in Seq(Outbounds)
    OBVIOUS
  <2>2. \A i \in 1 .. Len(s) : (<<o>> \o t)[i] = s[i]
    OBVIOUS
  <2>. QED  BY <2>1, <2>2, SeqEqual
<1>3. Retain(<<o>>, kept) = <<o>>
  BY <1>1, RetainOne
<1>4. Retain(s, kept) = <<o>> \o u
  <2>. DEFINE h == <<o>>
  <2>1. h \in Seq(Outbounds) /\ s = h \o t /\ Retain(h, kept) = h
    BY <1>1, <1>2, <1>3
  <2>. HIDE DEF h, t
  <2>2. t \in Seq(Outbounds) /\ h \in Seq(Outbounds)
    BY <1>1, <2>1
  <2>3. Retain(h \o t, kept) = Retain(h, kept) \o Retain(t, kept)
    BY <2>2, OutboundCat
  <2>. QED  BY <2>1, <2>3 DEF h
<1>5. u \in Seq(Outbounds)
  <2>. HIDE DEF t
  <2>. QED  BY <1>1, OutboundRetain
<1>. HIDE DEF u, t, o
<1>6. <<o>> \o u # << >> /\ (<<o>> \o u)[1] = o
  BY <1>1, <1>5
<1>. QED  BY <1>4, <1>6 DEF o

LEMMA PrepareHeld ==
  ASSUME NEW c \in Configs, NEW req \in Requests, Held(c, req), NEW keep
  PROVE  Held(Prepare(c, keep), req)
<1>. DEFINE d == Prepare(c, keep)
            domains == Dropped(keep)
            others == {o \in Outbounds : o.tag # "api"}
<1>1. /\ Elems(d.outbounds) = {o \in Elems(c.outbounds) : o.tag # "api"}
      /\ d.outbounds = Retain(c.outbounds, others)
      /\ d.balancers = c.balancers /\ d.dns = c.dns
      /\ \A r : r \in Elems(d.rules) <=>
           Effective(r) /\ \E q \in Elems(c.rules) :
             q.out # "api" /\ ~IsApi(q) /\ r = Less(q, domains, DroppedIps)
  <2>1. /\ Elems(d.outbounds) = {o \in Elems(c.outbounds) : o.tag # "api"}
        /\ d.outbounds = Retain(c.outbounds, others)
        /\ d.balancers = c.balancers /\ d.dns = c.dns
    BY PrepareIs
  <2>2. \A r : r \in Elems(d.rules) <=>
          Effective(r) /\ \E q \in Elems(c.rules) :
            /\ q.out # "api" /\ ~IsApi(q)
            /\ r = Less(q, domains, DroppedIps)
    <3>. HIDE DEF domains
    <3>. QED  BY PrepareIs DEF domains
  <2>. HIDE DEF d
  <2>. QED  BY <2>1, <2>2
<1>2. Elems(c.rules) \subseteq Rules /\ c.outbounds \in Seq(Outbounds)
  BY ConfigFields, RuleElems
<1>. HIDE DEF d, domains
<1>3. ASSUME NEW r \in Elems(d.rules) PROVE HeldRule(req, r)
  <2>1. PICK q \in Elems(c.rules) : r = Less(q, domains, DroppedIps)
    BY <1>1
  <2>2. Effective(r)
    BY <1>1
  <2>3. HeldRule(req, q)
    BY HeldParts
  <2>4. r.out = q.out /\ r.dns = q.dns
    BY <1>2, <2>1, LessType
  <2>5. r.out = "direct" => DirectForm(req, r)
    BY <2>1, <2>2, <2>3, <2>4, DirectFormLess DEF HeldRule
  <2>. QED  BY <2>3, <2>4, <2>5 DEF HeldRule
<1>6. /\ \A o \in Elems(d.outbounds) : HeldOutbound(o)
      /\ \A b \in d.balancers : b.tag = "balancer" /\ b.selects = Entries
      /\ \A r \in Elems(d.rules) : HeldRule(req, r)
      /\ d.dns = DnsDomains(req)
  BY <1>1, <1>3, HeldParts
<1>4. CASE \E target \in {"balancer", "proxy"} : AllTo(target) \in Elems(c.rules)
  <2>1. PICK target \in {"balancer", "proxy"} : AllTo(target) \in Elems(c.rules)
    BY <1>4
  <2>2. target \in Names
    BY ConstantsAssumption
  <2>. DEFINE all == AllTo(target)
  <2>3. Less(all, domains, DroppedIps) = all /\ Effective(all)
    BY <2>2, LessOthers
  <2>4. all.out # "api" /\ ~IsApi(all)
    BY DEF AllTo, Rule, IsApi
  <2>5. all \in Elems(c.rules)
    BY <2>1
  <2>. HIDE DEF all
  <2>6. all \in Elems(d.rules)
    BY <1>1, <2>3, <2>4, <2>5
  <2>7. \E t \in {"balancer", "proxy"} : AllTo(t) \in Elems(d.rules)
    BY <2>6 DEF all
  <2>. QED  BY <1>6, <2>7, HeldParts DEF d
<1>5. CASE c.outbounds # << >> /\ c.outbounds[1].tag = "proxy"
  <2>1. c.outbounds[1] \in others
    BY <1>2, <1>5
  <2>. HIDE DEF others
  <2>2. d.outbounds # << >> /\ d.outbounds[1].tag = "proxy"
    BY <1>1, <1>2, <1>5, <2>1, FirstStays
  <2>. QED  BY <1>6, <2>2, HeldParts DEF d
<1>. QED  BY <1>4, <1>5, HeldParts

\* what the promises about the policy ask of the profiles
ProfilesMeanIt == \A c \in Profiles : TagsMeanIt(c) /\ OnlyDnsToDns(c)
\* with a policy, or with rules of the client's own making
Kept(req) == req.profile = None \/ (req.policy # None /\ req.profile \in Profiles /\ ProfilesMeanIt)

LEMMA GraphHeld ==
  ASSUME NEW req \in Requests, Kept(req), Graph(req).xray # None
  PROVE  Held(Graph(req).xray, req)
<1>1. Held(Xray(req), req)
  <2>1. CASE req.profile = None
    BY <2>1, BuildHeld DEF Xray
  <2>2. CASE req.profile # None
    <3>1. req.policy # None /\ req.profile \in Profiles /\ ProfilesMeanIt
      BY <2>2 DEF Kept
    <3>. QED  BY <2>2, <3>1, InjectHeld DEF Xray, ProfilesMeanIt
  <2>. QED  BY <2>1, <2>2
<1>2. Xray(req) \in Configs
  BY XrayConfig
<1>3. UsesXray(req)
  BY GraphIs
<1>4. CASE InExtension(req)
  <2>. DEFINE keep == HasAsset(req)
  <2>1. Graph(req).xray = Prepare(Xray(req), keep)
    BY <1>4, GraphIs
  <2>. HIDE DEF keep
  <2>. QED  BY <1>1, <1>2, <2>1, PrepareHeld
<1>5. CASE ~InExtension(req)
  BY <1>1, <1>3, <1>5, GraphIs
<1>. QED  BY <1>4, <1>5

-----------------------------------------------------------------------------
(* The way of a packet.                                                      *)

Redirected(p) == [p EXCEPT !.inbound = "dns-direct", !.ip = "unknown"]

LEMMA RedirectedIs ==
  ASSUME NEW p \in PacketForms
  PROVE  /\ Redirected(p).inbound = "dns-direct" /\ Redirected(p).ip = "unknown"
         /\ Redirected(p).process = p.process /\ Redirected(p).domain = p.domain
         /\ Redirected(p).dns = p.dns
         /\ Redirected(Redirected(p)) = Redirected(p)
BY DEF Redirected, PacketForms

LEMMA BridgeHijacks ==
  ASSUME NEW req \in Requests, NEW p, p.dns
  PROVE  FirstMatch(BridgeRules(req), p, "proxy") = "hijack"
<1>. DEFINE h == <<Hijack>>
            t == Sorted(req)
            rest == <<Bypass>> \o t
<1>1. Hijack \in Rules /\ <<Bypass>> \in Seq(Rules)
  BY BypassType, RuleTypes, RuleList
<1>2. h \in Seq(Rules) /\ Elems(h) = {Hijack}
  BY <1>1, RuleList
<1>3. BridgeRules(req) = <<Hijack, Bypass>> \o t /\ t \in Seq(Rules)
  BY BridgeRulesAre, SortedAre
<1>4. Decides(h, p, "hijack")
  BY <1>2, OwnMatches DEF Decides
<1>5. <<Hijack, Bypass>> = h \o <<Bypass>>
  BY <1>1, BypassType, RulePair
<1>. HIDE DEF h, t
<1>6. BridgeRules(req) = h \o rest /\ rest \in Seq(Rules)
  BY <1>1, <1>2, <1>3, <1>5, RuleAssoc, RuleCat
<1>7. h \in Seq(Rules)
  BY <1>2
<1>. HIDE DEF rest
<1>8. FirstMatch(h \o rest, p, "proxy") = "hijack"
  BY <1>4, <1>6, <1>7, DecidedFirst
<1>. QED  BY <1>6, <1>8

LEMMA BoxIs ==
  ASSUME NEW req \in Requests, Graph(req).box # None
  PROVE  /\ UsesXray(req) => /\ Graph(req).box = Bridge(req) /\ Graph(req).xray # None
         /\ ~UsesXray(req) => /\ Graph(req).box = Box(req) /\ Graph(req).xray = None
BY GraphIs

LEMMA FewSelectors ==
  ASSUME NEW req \in Requests, NEW x \in {"doh", "unseen", "unknown", "public"}
  PROVE  /\ x \notin TrafficDomains(req) /\ x \notin UserDomains(req, "direct")
         /\ Split(req) => x \notin req.policy.ranges
<1>1. x \notin Selectors
  BY ConstantsAssumption
<1>. QED  BY <1>1, Selections

\* what xray sends directly is allowed to go
LEMMA XrayDirect ==
  ASSUME NEW req \in Requests, UsesXray(req), NEW c \in Configs, Held(c, req),
         NEW p \in PacketForms, p.inbound # "dns-direct",
         NEW l, \/ l = p
                \/ l = Redirected(p) /\ p.dns /\ p.domain \in DnsDomains(req)
                \/ l \in {Doh("app"), Doh("dns-remote")},
         NEW o \in Stands(c, FirstMatch(c.rules, l, c.outbounds[1].tag)), Route(o) = "direct"
  PROVE  Allowed(req, p)
<1>1. \/ l.inbound = "dns-direct"
      \/ l.domain \in TrafficDomains(req) /\ ~l.dns
      \/ Split(req) /\ l.ip \in req.policy.ranges
      \/ req.policy = None /\ (l.ip = "private" \/ l.domain \in UserDomains(req, "direct"))
  BY HeldRoutes
<1>2. CASE l = p
  BY <1>1, <1>2 DEF Allowed
<1>3. CASE l = Redirected(p) /\ p.dns /\ p.domain \in DnsDomains(req)
  BY <1>3 DEF Allowed
<1>4. CASE l \in {Doh("app"), Doh("dns-remote")}
  <2>1. l.inbound # "dns-direct" /\ l.domain = "doh" /\ l.ip = "public"
    BY <1>4 DEF Doh
  <2>. QED  BY <1>1, <2>1, FewSelectors
<1>. QED  BY <1>2, <1>3, <1>4

LEMMA BoxDirect ==
  ASSUME NEW req \in Requests, Graph(req).box # None, NEW p, UsesXray(req) => p.process # "xray",
         FirstMatch(Graph(req).box.rules, p, "proxy") = "direct"
  PROVE  Allowed(req, p)
<1>1. CASE UsesXray(req)
  BY <1>1, BoxIs, BoxesTyped, BridgeSends
<1>2. CASE ~UsesXray(req)
  BY <1>2, BoxIs, BoxesTyped, BoxSends
<1>. QED  BY <1>1, <1>2

LEMMA BoxHijacks ==
  ASSUME NEW req \in Requests, Graph(req).box # None, NEW p, UsesXray(req) => p.process # "xray",
         FirstMatch(Graph(req).box.rules, p, "proxy") = "hijack"
  PROVE  p.dns
<1>1. CASE UsesXray(req)
  BY <1>1, BoxIs, BoxesTyped, BridgeSends
<1>2. CASE ~UsesXray(req)
  BY <1>2, BoxIs, BoxesTyped, BoxSends
<1>. QED  BY <1>1, <1>2

LEMMA BoxDnsDirect ==
  ASSUME NEW req \in Requests, Graph(req).box # None, NEW p \in PacketForms, p.dns,
         FirstMatch(Graph(req).box.dns, [p EXCEPT !.dns = FALSE], "dns-remote") = "dns-direct"
  PROVE  Allowed(req, p)
<1>. DEFINE q == [p EXCEPT !.dns = FALSE]
<1>1. q.process = p.process /\ q.domain = p.domain
  BY DEF PacketForms
<1>. HIDE DEF q
<1>2. FirstMatch(Graph(req).box.dns, q, "dns-remote") = "dns-direct"
  BY DEF q
<1>3. CASE UsesXray(req)
  <2>. DEFINE names == ToSingbox(DnsDomains(req))
  <2>1. Graph(req).box.dns = DnsRules(req, names, "realip") /\ names \in SUBSET Selectors
    BY <1>3, BoxIs, BoxesTyped, Selections DEF BridgeDns
  <2>2. names \subseteq DnsDomains(req)
    BY DEF ToSingbox
  <2>. HIDE DEF names
  <2>3. q.process \in UserProcs(req, "direct") \/ q.domain \in names
    BY <1>2, <2>1, DnsSends
  <2>. QED  BY <1>1, <1>3, <2>2, <2>3 DEF Allowed
<1>4. CASE ~UsesXray(req)
  <2>. DEFINE names == UserDomains(req, "direct") \cup ToSingbox(TrafficDomains(req))
  <2>1. Graph(req).box.dns = DnsRules(req, names, req.dns_mode) /\ names \in SUBSET Selectors
    BY <1>4, BoxIs, BoxesTyped, Selections DEF BoxDns
  <2>2. names \subseteq UserDomains(req, "direct") \cup TrafficDomains(req)
    BY DEF ToSingbox
  <2>. HIDE DEF names
  <2>3. q.process \in UserProcs(req, "direct") \/ q.domain \in names
    BY <1>2, <2>1, DnsSends
  <2>. QED  BY <1>1, <1>4, <2>2, <2>3 DEF Allowed
<1>. QED  BY <1>3, <1>4

\* A packet of the bridge of system-proxy mode is allowed if what the engine sees of it is,
\* and may leave there by a rule about it or if no rule hands it on.
Free(req, p) ==
  \/ Allowed(req, Seen(p))
  \/ p.inbound = "tun" /\ \/ Allowed(req, p)
                          \/ p.process \notin UserProcs(req, "proxy")
                          \/ req.policy = None /\ p.ip = "private"

LEMMA FreeStays ==
  ASSUME request' = request, packet' = packet, Free(request, packet)
  PROVE  Free(request, packet)'
<1>1. Allowed(request, packet)' <=> Allowed(request, packet)
  BY DEF Allowed, UsesXray, Split, Tun, TrafficDomains, DnsDomains, UserDomains, UserProcs
<1>2. Allowed(request, Seen(packet))' <=> Allowed(request, Seen(packet))
  BY DEF Allowed, UsesXray, Split, Tun, TrafficDomains, DnsDomains, UserDomains, UserProcs, Seen,
         Handed
<1>. QED  BY <1>1, <1>2 DEF Free, UserProcs, Tun

LEMMA PacketIs ==
  ASSUME NEW p \in {StatsQuery} \cup Packets \cup Captured
  PROVE  /\ p \in PacketForms /\ p.inbound \in {"app", "api", "tun"} /\ p.dns \in BOOLEAN
         /\ Seen(p) \in PacketForms /\ Seen(p).inbound \in {"app", "api"}
         /\ Seen(p).domain = p.domain /\ Seen(p).dns = p.dns /\ Seen(p).ip = p.ip
         /\ p \in Packets => p.process # "xray" /\ p.inbound = "app" /\ Seen(p) = p
         /\ p \in Captured => p.process # "xray" /\ p.inbound = "tun" /\ Seen(p) = Handed(p)
         /\ p = StatsQuery => ~p.dns /\ p.inbound = "api" /\ Seen(p) = p
<1>1. p \in PacketForms
  BY PacketTypes
<1>2. CASE p = StatsQuery
  BY <1>1, <1>2, PacketTypes DEF StatsQuery, Seen
<1>3. CASE p \in Packets
  <2>1. p.process # "xray" /\ p.inbound = "app" /\ p.dns \in BOOLEAN /\ p # StatsQuery
    BY <1>3, PacketTypes, ConstantsAssumption DEF Packets
  <2>. QED  BY <1>1, <1>3, <2>1, PacketTypes DEF Seen
<1>4. CASE p \in Captured
  <2>1. p.inbound = "tun" /\ p.process # "xray" /\ p.dns \in BOOLEAN
    BY <1>4, CapturedIs, ConstantsAssumption
  <2>2. Seen(p) = Handed(p)
    BY <2>1 DEF Seen
  <2>. QED  BY <1>1, <1>4, <2>1, <2>2, PacketTypes, HandedIs
<1>. QED  BY <1>2, <1>3, <1>4

XrayLeg ==
  \/ leg = Seen(packet) /\ (packet.dns => graph.box = None) /\ (at = "xray_dns" => packet.dns)
  \/ /\ leg = Redirected(Seen(packet)) /\ graph.box = None
     /\ packet.dns /\ packet.domain \in DnsDomains(request)
  \/ at = "xray" /\ leg \in {Doh("app"), Doh("dns-remote")}

\* What the engines know of a packet on its way: the bridge of system-proxy mode sees it as
\* it was sent, sing-box as the bridge handed it on, both until xray sends it on; xray sees
\* it likewise, or as its resolver or sing-box's sent the query.
Travels ==
  /\ packet = None => via = None
  /\ packet # None /\ Kept(request) =>
       /\ at = "apps" /\ via = None => leg = packet /\ packet \in Captured
       /\ at = "apps" /\ via # None => leg.process = "xray" /\ graph.xray # None
       /\ at = "box" /\ via = None => leg = Seen(packet) /\ packet # StatsQuery
       /\ at = "box_dns" => leg = Seen(packet) /\ packet # StatsQuery /\ packet.dns /\ via = None
       /\ via # None => at \in {"apps", "box", "direct", "proxy"}
       /\ at = "box" /\ via # None => leg.process = "xray" /\ ~leg.dns /\ graph.xray # None
       /\ at \in {"xray", "xray_dns"} => XrayLeg
       /\ at = "direct" \/ via = "direct" => Free(request, packet)

LEMMA InitTravels == Init => Travels
BY DEF Init, Travels

\* in front of sing-box there is no bridge of xray, and the other way round
LEMMA AppsOrBridge ==
  ASSUME NEW req \in Requests, Graph(req).apps # << >>
  PROVE  /\ PerApp(req) /\ Graph(req).apps = AppRules(req)
         /\ UsesXray(req) => Graph(req).box = None
<1>1. PerApp(req) /\ Graph(req).apps = AppRules(req) /\ ~Tun(req)
  BY GraphIs DEF PerApp
<1>. QED  BY <1>1, GraphIs

LEMMA AppRouteIs ==
  ASSUME TypeInv, AppRoute
  PROVE  /\ at = "apps" /\ UNCHANGED <<request, graph, packet, via>>
         /\ \/ /\ AppOut(request, leg) \in {"proxy", "final"}
               /\ at' = IF graph.xray # None THEN "xray" ELSE "box"
               /\ leg' = Handed(leg)
            \/ /\ AppOut(request, leg) \in {"direct", "block", "final"}
               /\ at' = CASE AppOut(request, leg) = "block" -> "block"
                          [] via # None -> via
                          [] OTHER -> "direct"
               /\ leg' = leg
<1>1. at = "apps" /\ graph = Graph(request) /\ request \in Requests /\ graph.apps # << >>
  BY DEF AppRoute, TypeInv, Early
<1>2. graph.apps = AppRules(request)
  BY <1>1, AppsOrBridge
<1>. QED  BY <1>2 DEF AppRoute, AppOut, Unnamed, Handed

LEMMA AppRouteTravels == TypeInv /\ Travels /\ AppRoute => Travels'
<1>. SUFFICES ASSUME TypeInv, Travels, AppRoute, Kept(request) PROVE Travels'
  <2>1. AppRoute => request' = request /\ packet' = packet /\ via' = via
    BY DEF AppRoute
  <2>. QED  BY <2>1 DEF Travels, Kept
<1>. DEFINE out == AppOut(request, leg)
<1>1. /\ at = "apps" /\ UNCHANGED <<request, graph, packet, via>>
      /\ \/ /\ out \in {"proxy", "final"}
            /\ at' = IF graph.xray # None THEN "xray" ELSE "box"
            /\ leg' = Handed(leg)
         \/ /\ out \in {"direct", "block", "final"}
            /\ at' = CASE out = "block" -> "block"
                       [] via # None -> via
                       [] OTHER -> "direct"
            /\ leg' = leg
  BY AppRouteIs
<1>2. /\ request \in Requests /\ graph = Graph(request) /\ graph.apps # << >> /\ packet # None
      /\ packet \in {StatsQuery} \cup Packets \cup Captured /\ via \in {None, "direct", "proxy"}
      /\ leg \in PacketForms
  BY <1>1 DEF TypeInv, Early
<1>3. PerApp(request) /\ (UsesXray(request) => graph.box = None)
  BY <1>2, AppsOrBridge
<1>4. via = "direct" => Free(request, packet)
  BY <1>2 DEF Travels
<1>5. CASE via = None
  <2>1. leg = packet /\ packet \in Captured /\ packet.process # "xray" /\ packet.inbound = "tun"
    BY <1>1, <1>2, <1>5, PacketIs DEF Travels
  <2>2. Seen(packet) = Handed(leg) /\ packet # StatsQuery
    BY <2>1, PacketIs, PacketTypes
  <2>3. CASE out \in {"proxy", "final"} /\ leg' = Handed(leg) /\ at' = IF graph.xray # None THEN "xray" ELSE "box"
    <3>1. Seen(packet)' = Seen(packet)
      BY <1>1 DEF Seen, Handed
    <3>2. CASE graph.xray # None
      <4>1. graph.box = None
        BY <1>2, <1>3, <3>2, GraphIs
      <4>2. XrayLeg'
        <5>. HIDE DEF out
        <5>. QED  BY <1>1, <2>2, <2>3, <3>1, <3>2, <4>1 DEF XrayLeg
      <4>. HIDE DEF out
      <4>. QED  BY <1>1, <1>5, <2>3, <3>2, <4>2 DEF Travels
    <3>3. CASE graph.xray = None
      <4>. HIDE DEF out
      <4>. QED  BY <1>1, <1>5, <2>2, <2>3, <3>1, <3>3 DEF Travels, StatsQuery
    <3>. QED  BY <3>2, <3>3
  <2>4. CASE out = "block" /\ at' = "block"
    BY <1>1, <1>5, <2>4 DEF Travels
  <2>5. CASE out \in {"direct", "final"} /\ at' = "direct"
    <3>1. \/ Split(request) /\ packet.ip \in request.policy.ranges
          \/ packet.process \in UserProcs(request, "direct")
          \/ request.policy = None /\ packet.ip = "private"
          \/ packet.process \notin UserProcs(request, "proxy")
      BY <1>2, <1>3, <2>1, <2>5, AppSends
    <3>2. Free(request, packet)
      BY <2>1, <3>1 DEF Free, Allowed
    <3>3. Free(request, packet)'
      BY <1>1, <3>2, FreeStays
    <3>. HIDE DEF out
    <3>. QED  BY <1>1, <1>5, <2>5, <3>3 DEF Travels
  <2>. HIDE DEF out
  <2>. QED  BY <1>1, <1>5, <2>3, <2>4, <2>5
<1>6. CASE via # None
  <2>1. out = "direct"
    BY <1>1, <1>2, <1>3, <1>6, AppsLetXrayOut DEF Travels
  <2>2. at' = via
    BY <1>1, <1>6, <2>1
  <2>3. via = "direct" => Free(request, packet)'
    BY <1>1, <1>4, FreeStays
  <2>. HIDE DEF out
  <2>. QED  BY <1>1, <1>2, <1>6, <2>2, <2>3 DEF Travels
<1>. QED  BY <1>5, <1>6

\* the bridge in front of xray sees packets as they were sent
LEMMA BridgeSeesApps ==
  ASSUME TypeInv, packet # None, UsesXray(request), graph.box # None
  PROVE  Seen(packet).process # "xray"
<1>1. /\ graph = Graph(request) /\ request \in Requests
      /\ packet \in {StatsQuery} \cup Packets \cup Captured
  BY DEF TypeInv, Early
<1>2. graph.apps = << >>
  BY <1>1, AppsOrBridge
<1>3. packet.inbound # "tun"
  BY <1>2 DEF TypeInv
<1>. QED  BY <1>1, <1>3, PacketIs DEF StatsQuery

LEMMA BoxRouteTravels == TypeInv /\ Travels /\ BoxRoute => Travels'
<1>. SUFFICES ASSUME TypeInv, Travels, BoxRoute, Kept(request) PROVE Travels'
  <2>1. BoxRoute => request' = request /\ packet' = packet /\ via' = via
    BY DEF BoxRoute
  <2>. QED  BY <2>1 DEF Travels, Kept
<1>. DEFINE out == FirstMatch(graph.box.rules, leg, "proxy")
<1>1. /\ at = "box"
      /\ at' = CASE out = "hijack" -> "box_dns"
                 [] out = "direct" -> IF via # None THEN via ELSE "direct"
                 [] out = "block" -> "block"
                 [] OTHER -> IF graph.xray # None THEN "xray" ELSE graph.box.proxy
      /\ UNCHANGED <<request, graph, packet, leg, via>>
  BY DEF BoxRoute
<1>2. /\ request \in Requests /\ graph = Graph(request) /\ graph.box # None /\ packet # None
      /\ packet \in {StatsQuery} \cup Packets \cup Captured /\ via \in {None, "direct", "proxy"}
  BY <1>1 DEF TypeInv, Early
<1>3. graph.box.proxy \in {"proxy", "block"}
  BY <1>2, GraphIs DEF Boxes
<1>4. packet.dns \in BOOLEAN
  BY <1>2, PacketIs
<1>5. Seen(packet)' = Seen(packet)
  BY <1>1 DEF Seen, Handed
<1>6. CASE via = None
  <2>1. leg = Seen(packet) /\ packet # StatsQuery /\ leg.dns = packet.dns
    BY <1>1, <1>2, <1>6, PacketIs DEF Travels
  <2>6. UsesXray(request) => leg.process # "xray"
    BY <1>2, <2>1, BridgeSeesApps
  <2>2. CASE out = "hijack"
    <3>1. packet.dns
      BY <1>2, <2>1, <2>2, <2>6, BoxHijacks
    <3>2. at' = "box_dns"
      BY <1>1, <2>2
    <3>. HIDE DEF out
    <3>. QED  BY <1>1, <1>5, <1>6, <2>1, <3>1, <3>2 DEF Travels, StatsQuery
  <2>3. CASE out = "direct"
    <3>1. Free(request, packet)
      BY <1>2, <2>1, <2>3, <2>6, BoxDirect DEF Free
    <3>2. at' = "direct"
      BY <1>1, <1>6, <2>3
    <3>3. Free(request, packet)'
      BY <1>1, <3>1, FreeStays
    <3>. HIDE DEF out
    <3>. QED  BY <1>1, <1>6, <3>2, <3>3 DEF Travels
  <2>4. CASE out = "block"
    BY <1>1, <1>6, <2>4 DEF Travels
  <2>5. CASE out \notin {"hijack", "direct", "block"}
    <3>1. CASE graph.xray # None
      <4>1. UsesXray(request)
        BY <1>2, <3>1, GraphIs
      <4>2. ~packet.dns
        <5>1. graph.box.rules = BridgeRules(request)
          BY <1>2, <4>1, BoxIs, BoxesTyped
        <5>. QED  BY <1>2, <2>1, <2>5, <5>1, BridgeHijacks
      <4>3. at' = "xray"
        BY <1>1, <2>5, <3>1
      <4>4. XrayLeg'
        <5>. HIDE DEF out
        <5>. QED  BY <1>1, <1>5, <2>1, <4>2, <4>3 DEF XrayLeg
      <4>. HIDE DEF out
      <4>. QED  BY <1>1, <1>6, <4>3, <4>4 DEF Travels
    <3>2. CASE graph.xray = None
      <4>1. at' \in {"proxy", "block"}
        BY <1>1, <1>3, <2>5, <3>2
      <4>. HIDE DEF out
      <4>. QED  BY <1>1, <1>6, <4>1 DEF Travels
    <3>. QED  BY <3>1, <3>2
  <2>. QED  BY <2>2, <2>3, <2>4, <2>5
<1>7. CASE via # None
  <2>1. leg.process = "xray" /\ ~leg.dns /\ graph.xray # None
    BY <1>1, <1>2, <1>7 DEF Travels
  <2>2. UsesXray(request)
    BY <1>2, <2>1, GraphIs
  <2>3. graph.box.rules = BridgeRules(request)
    BY <1>2, <2>2, BoxIs, BoxesTyped
  <2>4. out = "direct"
    BY <1>2, <2>1, <2>3, BridgeLetsXrayOut
  <2>5. at' = via
    BY <1>1, <1>7, <2>4
  <2>6. via = "direct" => Free(request, packet)
    BY <1>2 DEF Travels
  <2>7. via = "direct" => Free(request, packet)'
    BY <1>1, <2>6, FreeStays
  <2>. HIDE DEF out
  <2>. QED  BY <1>1, <1>2, <1>7, <2>5, <2>7 DEF Travels
<1>. QED  BY <1>6, <1>7

LEMMA BoxResolveTravels == TypeInv /\ Travels /\ BoxResolve => Travels'
<1>. SUFFICES ASSUME TypeInv, Travels, BoxResolve, Kept(request) PROVE Travels'
  <2>1. BoxResolve => request' = request /\ packet' = packet /\ via' = via
    BY DEF BoxResolve
  <2>. QED  BY <2>1 DEF Travels, Kept
<1>. DEFINE server == FirstMatch(graph.box.dns, [leg EXCEPT !.dns = FALSE], "dns-remote")
<1>1. /\ at = "box_dns"
      /\ at' = CASE server = "dns-direct" -> "direct"
                 [] server = "dns-fakeip" -> "answered"
                 [] OTHER -> IF graph.xray # None THEN "xray" ELSE graph.box.proxy
      /\ leg' = Doh("app")
      /\ UNCHANGED <<request, graph, packet, via>>
  BY DEF BoxResolve
<1>2. /\ request \in Requests /\ graph = Graph(request) /\ graph.box # None /\ packet # None
      /\ packet \in {StatsQuery} \cup Packets \cup Captured
  BY <1>1 DEF TypeInv, Early
<1>3. leg = Seen(packet) /\ leg \in PacketForms /\ leg.dns /\ via = None
  BY <1>1, <1>2, PacketIs DEF Travels
<1>4. graph.box.proxy \in {"proxy", "block"}
  BY <1>2, GraphIs DEF Boxes
<1>5. CASE server = "dns-direct"
  <2>1. Free(request, packet)
    BY <1>2, <1>3, <1>5, BoxDnsDirect DEF Free
  <2>2. Free(request, packet)'
    BY <1>1, <2>1, FreeStays
  <2>3. at' = "direct"
    BY <1>1, <1>5
  <2>. HIDE DEF server
  <2>. QED  BY <1>1, <1>3, <2>2, <2>3 DEF Travels
<1>6. CASE server # "dns-direct"
  <2>1. at' \in {"answered", "xray", "proxy", "block"}
    BY <1>1, <1>4, <1>6
  <2>2. XrayLeg' \/ at' # "xray"
    BY <1>1 DEF XrayLeg, Doh
  <2>. HIDE DEF server
  <2>. QED  BY <1>1, <1>3, <2>1, <2>2 DEF Travels
<1>. QED  BY <1>5, <1>6

LEMMA XrayRouteTravels == TypeInv /\ Travels /\ XrayRoute => Travels'
<1>. SUFFICES ASSUME TypeInv, Travels, XrayRoute, Kept(request) PROVE Travels'
  <2>1. XrayRoute /\ TypeInv => request' = request /\ packet' = packet /\ packet # None
    BY DEF XrayRoute, TypeInv, Early
  <2>. QED  BY <2>1 DEF Travels, Kept
<1>1. PICK o \in Stands(graph.xray, FirstMatch(graph.xray.rules, leg, graph.xray.outbounds[1].tag)) :
        /\ at = "xray" /\ UNCHANGED <<request, graph, packet>>
        /\ IF Route(o) \in {"direct", "proxy"} /\ (graph.box # None \/ graph.apps # << >>)
           THEN /\ at' = (IF graph.box # None THEN "box" ELSE "apps") /\ via' = Route(o)
                /\ leg' = [leg EXCEPT !.process = "xray", !.inbound = "app"]
           ELSE at' = Route(o) /\ UNCHANGED <<via, leg>>
  BY DEF XrayRoute
<1>2. /\ request \in Requests /\ graph = Graph(request) /\ graph.xray # None /\ packet # None
      /\ packet \in {StatsQuery} \cup Packets \cup Captured /\ leg \in PacketForms
  BY <1>1 DEF TypeInv, Early
<1>3. XrayLeg /\ via = None
  BY <1>1, <1>2 DEF Travels
<1>. DEFINE p == Seen(packet)
<1>4. /\ p \in PacketForms /\ p.inbound # "dns-direct" /\ p.dns = packet.dns
      /\ packet.dns \in BOOLEAN /\ p.domain = packet.domain
  BY <1>2, PacketIs
<1>. HIDE DEF p
<1>5. UsesXray(request) /\ graph.xray \in Configs /\ Held(graph.xray, request)
  BY <1>2, GraphIs, GraphHeld
<1>6. Route(o) = "direct" => Allowed(request, p)
  <2>1. \/ leg = p
        \/ leg = Redirected(p) /\ p.dns /\ p.domain \in DnsDomains(request)
        \/ leg \in {Doh("app"), Doh("dns-remote")}
    BY <1>3, <1>4 DEF XrayLeg, p
  <2>. DEFINE c == graph.xray
  <2>2. o \in Stands(c, FirstMatch(c.rules, leg, c.outbounds[1].tag)) /\ c \in Configs /\ Held(c, request)
    BY <1>5
  <2>. HIDE DEF c
  <2>. QED  BY <1>2, <1>4, <1>5, <2>1, <2>2, XrayDirect
<1>7. Route(o) = "direct" => Free(request, packet)'
  BY <1>1, <1>6, FreeStays DEF Free, p
<1>8. Route(o) = "xray_dns" => leg.dns
  <2>. DEFINE c == graph.xray
  <2>1. o \in Stands(c, FirstMatch(c.rules, leg, c.outbounds[1].tag)) /\ c \in Configs /\ Held(c, request)
    BY <1>5
  <2>. HIDE DEF c
  <2>. QED  BY <2>1, HeldRoutes
<1>9. Route(o) \in {"api", "direct", "block", "xray_dns", "proxy"}
  BY DEF Route
<1>. DEFINE r == Route(o)
<1>. HIDE DEF r
<1>10. CASE r \in {"direct", "proxy"} /\ (graph.box # None \/ graph.apps # << >>)
  <2>1. /\ at' = (IF graph.box # None THEN "box" ELSE "apps") /\ via' = r
        /\ leg' = [leg EXCEPT !.process = "xray", !.inbound = "app"]
    BY <1>1, <1>10 DEF r
  <2>2. graph.box # None => ~leg.dns
    BY <1>3, <1>4 DEF XrayLeg, Doh, p
  <2>3. leg'.process = "xray" /\ leg'.dns = leg.dns
    BY <1>2, <2>1 DEF PacketForms
  <2>4. via' = "direct" => Free(request, packet)'
    BY <1>7, <2>1 DEF r
  <2>. QED  BY <1>1, <1>2, <1>10, <2>1, <2>2, <2>3, <2>4, ConstantsAssumption DEF Travels
<1>11. CASE ~(r \in {"direct", "proxy"} /\ (graph.box # None \/ graph.apps # << >>))
  <2>1. at' = r /\ via' = None /\ leg' = leg /\ packet' = packet /\ graph' = graph /\ request' = request
    BY <1>1, <1>3, <1>11 DEF r
  <2>2. CASE r = "xray_dns"
    <3>1. leg.dns
      BY <1>8, <2>2 DEF r
    <3>2. leg \notin {Doh("app"), Doh("dns-remote")}
      BY <3>1 DEF Doh
    <3>3. XrayLeg'
      BY <1>3, <1>4, <2>1, <3>1, <3>2 DEF XrayLeg, DnsDomains, Split, Seen, Handed, p
    <3>. QED  BY <2>1, <2>2, <3>3, ConstantsAssumption DEF Travels
  <2>3. CASE r = "direct"
    <3>1. Free(request, packet)'
      BY <1>7, <2>3 DEF r
    <3>. QED  BY <2>1, <2>3, <3>1 DEF Travels
  <2>4. CASE r \in {"api", "block", "proxy"}
    BY <2>1, <2>4, ConstantsAssumption DEF Travels
  <2>. QED  BY <1>9, <2>2, <2>3, <2>4 DEF r
<1>. QED  BY <1>10, <1>11

LEMMA XrayResolveTravels == TypeInv /\ Travels /\ XrayResolve => Travels'
<1>. SUFFICES ASSUME TypeInv, Travels, XrayResolve, Kept(request) PROVE Travels'
  <2>1. XrayResolve => request' = request /\ packet' = packet /\ via' = via
    BY DEF XrayResolve
  <2>. QED  BY <2>1 DEF Travels, Kept
<1>1. /\ at = "xray_dns" /\ at' = "xray" /\ UNCHANGED <<request, graph, packet, via>>
      /\ leg' = IF leg.domain \in graph.xray.dns THEN Redirected(leg) ELSE Doh("dns-remote")
  BY DEF XrayResolve, Redirected
<1>2. /\ request \in Requests /\ graph = Graph(request) /\ graph.xray # None /\ packet # None
      /\ packet \in {StatsQuery} \cup Packets \cup Captured
  BY <1>1 DEF TypeInv, Early
<1>3. XrayLeg /\ via = None
  BY <1>1, <1>2 DEF Travels
<1>. DEFINE p == Seen(packet)
<1>4. p \in PacketForms /\ p.domain = packet.domain
  BY <1>2, PacketIs
<1>7. p' = p
  BY <1>1 DEF Seen, Handed
<1>5. graph.xray.dns = DnsDomains(request)
  BY <1>2, GraphHeld DEF Held
<1>6. XrayLeg'
  <2>1. CASE leg.domain \in graph.xray.dns
    <3>1. leg \in {p, Redirected(p)}
      BY <1>1, <1>3 DEF XrayLeg
    <3>2. leg.domain = packet.domain /\ leg' = Redirected(p)
      <4>. HIDE DEF p
      <4>. QED  BY <1>1, <1>4, <2>1, <3>1, RedirectedIs
    <3>3. packet.dns /\ graph.box = None
      BY <1>1, <1>3 DEF XrayLeg
    <3>. QED  BY <1>1, <1>5, <1>7, <2>1, <3>2, <3>3 DEF XrayLeg, DnsDomains, Split
  <2>2. CASE leg.domain \notin graph.xray.dns
    BY <1>1, <2>2 DEF XrayLeg
  <2>. QED  BY <2>1, <2>2
<1>. QED  BY <1>1, <1>3, <1>6, FreeStays DEF Travels

LEMMA StepTravels == TypeInv /\ Travels /\ [Next]_vars => Travels'
<1>. SUFFICES ASSUME TypeInv, Travels, [Next]_vars PROVE Travels'
  OBVIOUS
<1>1. CASE Refuse
  BY <1>1 DEF Refuse, Travels, TypeInv, Early
<1>2. CASE BuildGraph
  BY <1>2 DEF BuildGraph, Travels, TypeInv, Early
<1>3. CASE Send
  <2>1. /\ at = "ready" /\ request' = request /\ graph' = graph /\ via' = via /\ leg' = packet'
        /\ \/ packet' \in Packets /\ at' = IF graph.box # None THEN "box" ELSE "xray"
           \/ graph.apps # << >> /\ packet' \in Captured /\ at' = "apps"
           \/ graph.xray # None /\ packet' = StatsQuery /\ at' = "xray"
    BY <1>3 DEF Send
  <2>2. via = None
    BY <2>1 DEF TypeInv, Travels, Early
  <2>3. Captured' = Captured
    BY <2>1, SameKinds
  <2>4. packet' # None
    BY <2>1, PacketTypes
  <2>5. CASE packet' \in Captured /\ at' = "apps"
    BY <2>1, <2>2, <2>3, <2>4, <2>5, ConstantsAssumption DEF Travels
  <2>6. CASE packet' \in {StatsQuery} \cup Packets /\ at' # "apps"
    <3>1. leg' = Seen(packet')
      BY <2>1, <2>6, PacketIs
    <3>2. packet' \in Packets => packet' # StatsQuery
      BY PacketTypes
    <3>3. ~StatsQuery.dns
      BY DEF StatsQuery
    <3>4. ASSUME at' = "xray" PROVE XrayLeg'
      <4>1. packet'.dns => graph'.box = None
        BY <2>1, <3>3, <3>4, PacketTypes
      <4>. QED  BY <2>1, <3>1, <3>4, <4>1 DEF XrayLeg, Seen, Handed
    <3>. QED  BY <2>1, <2>2, <2>4, <2>6, <3>1, <3>2, <3>4, PacketTypes, ConstantsAssumption
              DEF Travels, StatsQuery, Seen, Handed
  <2>. QED  BY <2>1, <2>5, <2>6
<1>4. CASE AppRoute
  BY <1>4, AppRouteTravels
<1>5. CASE BoxRoute
  BY <1>5, BoxRouteTravels
<1>6. CASE BoxResolve
  BY <1>6, BoxResolveTravels
<1>7. CASE XrayRoute
  BY <1>7, XrayRouteTravels
<1>8. CASE XrayResolve
  BY <1>8, XrayResolveTravels
<1>9. CASE UNCHANGED vars
  BY <1>9, FreeStays, SameKinds DEF vars, Travels, XrayLeg, Kept, Split, DnsDomains, Seen, Handed,
                                    StatsQuery
<1>. QED  BY <1>1, <1>2, <1>3, <1>4, <1>5, <1>6, <1>7, <1>8, <1>9 DEF Next

\* Whatever way a packet takes, the engines know of it what Travels says: nothing leaves
\* directly that the request does not let go.
THEOREM TravelInvariance == Spec => [](TypeInv /\ Travels)
<1>1. Init => TypeInv /\ Travels
  BY InitTypes, InitTravels
<1>2. TypeInv /\ Travels /\ [Next]_vars => (TypeInv /\ Travels)'
  BY StepTypes, StepTravels
<1>. QED  BY <1>1, <1>2, PTL DEF Spec

\* PolicyHolds of Routing, for profiles whose outbounds "direct" and "dns-out" are what
\* their tags say and whose rules hand nothing but DNS to the latter.
THEOREM RoutingPolicyHolds ==
  ASSUME \A c \in Profiles : TagsMeanIt(c) /\ OnlyDnsToDns(c)
  PROVE  Spec => []PolicyHolds
<1>1. TypeInv /\ Travels => PolicyHolds
  <2>. SUFFICES ASSUME TypeInv, Travels, packet # None, at = "direct", request.policy # None
                PROVE  \/ packet.domain \in Steam \cup (IF Split(request) THEN request.policy.direct ELSE {})
                       \/ packet.dns /\ Split(request) /\ packet.domain \in request.policy.dns
                       \/ Split(request) /\ packet.ip \in request.policy.ranges
                       \/ packet.process \in UserProcs(request, "direct")
                       \/ ~UsesXray(request) /\ packet.domain \in UserDomains(request, "direct")
                       \/ packet.inbound = "tun" /\ (\/ packet.process \notin UserProcs(request, "proxy")
                                                    \/ "xray" \in UserProcs(request, "direct"))
    BY DEF PolicyHolds
  <2>1. Kept(request)
    BY DEF Kept, ProfilesMeanIt, TypeInv
  <2>2. Free(request, packet)
    BY <2>1 DEF Travels
  <2>3. packet \in {StatsQuery} \cup Packets \cup Captured
    BY DEF TypeInv
  <2>4. CASE Allowed(request, Seen(packet))
    <3>1. /\ Seen(packet).domain = packet.domain /\ Seen(packet).dns = packet.dns
          /\ Seen(packet).ip = packet.ip
          /\ Seen(packet) = packet \/ (packet.inbound = "tun" /\ Seen(packet).process = "xray")
      BY <2>3, PacketIs, HandedIs
    <3>. QED  BY <2>4, <3>1 DEF Allowed, TrafficDomains, DnsDomains
  <2>5. CASE Allowed(request, packet)
    BY <2>5 DEF Allowed, TrafficDomains, DnsDomains
  <2>. QED  BY <2>2, <2>4, <2>5 DEF Free
<1>. QED  BY <1>1, TravelInvariance, PTL

\* what neither engine knows
Closed == packet # None /\ ~UsesXray(request) /\ ~Supported(request) => at # "proxy" /\ via = None

LEMMA StepClosed == TypeInv /\ Travels /\ Closed /\ [Next]_vars => Closed'
<1>. SUFFICES ASSUME TypeInv, Travels, Closed, [Next]_vars,
                     packet' # None, ~UsesXray(request'), ~Supported(request')
              PROVE  at' # "proxy" /\ via' = None
  BY DEF Closed, UsesXray, Supported
<1>. USE DEF Early, Exits
<1>1. CASE Refuse
  BY <1>1 DEF Refuse, TypeInv
<1>2. CASE BuildGraph
  BY <1>2 DEF BuildGraph, TypeInv
<1>3. CASE Send
  BY <1>3 DEF Send, TypeInv, Travels
<1>4. CASE AppRoute
  <2>1. at = "apps" /\ UNCHANGED <<request, graph, packet, via>>
        /\ at' \in {"xray", "box", "block", "direct"} \cup ({via} \ {None})
    BY <1>4 DEF AppRoute
  <2>. QED  BY <2>1 DEF TypeInv, Closed
<1>5. CASE BoxRoute
  <2>1. at = "box" /\ UNCHANGED <<request, graph, packet, leg, via>>
    BY <1>5 DEF BoxRoute
  <2>2. request \in Requests /\ graph = Graph(request) /\ via = None
    BY <2>1 DEF TypeInv, Closed
  <2>3. graph.xray = None /\ graph.box.proxy = "block"
    BY <2>1, <2>2, GraphIs, BoxesTyped DEF BoxProxy
  <2>4. \/ at' \in {"box_dns", "direct", "block"}
        \/ at' = graph.box.proxy
    BY <1>5, <2>2, <2>3 DEF BoxRoute
  <2>. QED  BY <2>1, <2>2, <2>3, <2>4
<1>6. CASE BoxResolve
  <2>1. at = "box_dns" /\ UNCHANGED <<request, graph, packet, via>>
    BY <1>6 DEF BoxResolve
  <2>2. request \in Requests /\ graph = Graph(request) /\ via = None
    BY <2>1 DEF TypeInv, Closed
  <2>3. graph.xray = None /\ graph.box.proxy = "block"
    BY <2>1, <2>2, GraphIs, BoxesTyped DEF BoxProxy
  <2>4. at' \in {"direct", "answered"} \/ at' = graph.box.proxy
    BY <1>6, <2>2, <2>3 DEF BoxResolve
  <2>. QED  BY <2>1, <2>2, <2>3, <2>4
<1>7. CASE XrayRoute
  <2>1. at = "xray" /\ request' = request
    BY <1>7 DEF XrayRoute
  <2>. QED  BY <2>1, GraphIs DEF TypeInv
<1>8. CASE XrayResolve
  <2>1. at = "xray_dns" /\ request' = request
    BY <1>8 DEF XrayResolve
  <2>. QED  BY <2>1, GraphIs DEF TypeInv
<1>9. CASE UNCHANGED vars
  BY <1>9 DEF vars, Closed
<1>. QED  BY <1>1, <1>2, <1>3, <1>4, <1>5, <1>6, <1>7, <1>8, <1>9 DEF Next

\* FailsClosed of Routing, for every profile and policy.
THEOREM RoutingFailsClosed == Spec => []FailsClosed
<1>1. Init => Closed
  BY DEF Init, Closed
<1>2. TypeInv /\ Travels /\ Closed => FailsClosed
  <2>. SUFFICES ASSUME TypeInv, Travels, Closed, packet # None, request.profile = None, ~Supported(request)
                PROVE  /\ request.ping
                       /\ ~UsesXray(request) =>
                            /\ at # "proxy"
                            /\ at = "direct" => \/ packet.domain \in TrafficDomains(request)
                                                \/ Split(request) /\ packet.ip \in request.policy.ranges
    BY DEF FailsClosed
  <2>1. at \notin Early \cup {"ready"}
    BY DEF TypeInv
  <2>2. request.ping
    BY <2>1 DEF TypeInv, Refused, Supported
  <2>3. request.rules = {} /\ ~Tun(request)
    BY <2>1, <2>2 DEF TypeInv, Early
  <2>4. \A action : UserProcs(request, action) = {} /\ UserDomains(request, action) = {}
    BY <2>3 DEF UserProcs, UserDomains
  <2>5. packet.inbound # "tun"
    <3>1. graph = Graph(request) /\ request \in Requests
      BY <2>1 DEF TypeInv
    <3>2. graph.apps = << >>
      BY <2>4, <3>1, GraphIs DEF PerApp
    <3>. QED  BY <3>2 DEF TypeInv
  <2>6. at = "direct" => Allowed(request, packet)
    BY <2>5 DEF Travels, Kept, Free, Seen
  <2>. QED  BY <2>2, <2>3, <2>4, <2>6 DEF Allowed, Closed
<1>3. TypeInv /\ Travels /\ Closed /\ [Next]_vars => Closed'
  BY StepClosed
<1>. QED  BY <1>1, <1>2, <1>3, TravelInvariance, PTL DEF Spec

-----------------------------------------------------------------------------
(* The service's own rules stay at the head of the list.                     *)

MayBe(r) == {<< >>, <<r>>}

ApiLed(s) ==
  \E a \in MayBe(ApiRule), t \in Seq(Rules) : s = a \o t /\ \A r \in Elems(t) : ~IsApi(r)
OwnLed(s) ==
  \E a \in MayBe(ApiRule), m \in MayBe(Port53), t \in Seq(Rules) :
    s = a \o (m \o t) /\ \A r \in Elems(t) : ~IsApi(r) /\ ~IsPort53(r)

LEMMA MayBeType ==
  ASSUME NEW r \in Rules, NEW a \in MayBe(r)
  PROVE  a \in Seq(Rules) /\ Elems(a) \subseteq {r}
BY RuleList, NoRules DEF MayBe

LEMMA NothingBefore == ASSUME NEW s \in Seq(Rules) PROVE << >> \o s = s
OBVIOUS

LEMMA ProfileApiLed ==
  ASSUME NEW c \in Configs, ApiLeads(c) PROVE ApiLed(c.rules)
<1>. DEFINE s == c.rules
<1>1. s \in Seq(Rules)
  BY ConfigFields
<1>2. PICK n \in 0 .. Len(s) :
        /\ SubSeq(s, 1, n) \in {<< >>, <<ApiRule>>}
        /\ \A i \in n + 1 .. Len(s) : ~IsApi(s[i])
  BY DEF ApiLeads, Leads
<1>. HIDE DEF s
<1>3. /\ SubSeq(s, n + 1, Len(s)) \in Seq(Rules)
      /\ s = SubSeq(s, 1, n) \o SubSeq(s, n + 1, Len(s))
      /\ \A r \in Elems(SubSeq(s, n + 1, Len(s))) : \E i \in n + 1 .. Len(s) : r = s[i]
  BY <1>1, RuleSplit
<1>. DEFINE a == SubSeq(s, 1, n)
            t == SubSeq(s, n + 1, Len(s))
<1>4. a \in MayBe(ApiRule) /\ t \in Seq(Rules) /\ s = a \o t
  BY <1>2, <1>3 DEF MayBe
<1>5. \A r \in Elems(t) : ~IsApi(r)
  BY <1>2, <1>3
<1>. HIDE DEF a, t
<1>. QED  BY <1>4, <1>5 DEF ApiLed, s

LEMMA ProfileOwnLed ==
  ASSUME NEW c \in Configs, OwnRulesLead(c) PROVE OwnLed(c.rules)
<1>. DEFINE s == c.rules
<1>1. s \in Seq(Rules)
  BY ConfigFields
<1>2. PICK n \in 0 .. Len(s) :
        /\ SubSeq(s, 1, n) \in {<< >>, <<ApiRule>>, <<Port53>>, <<ApiRule, Port53>>}
        /\ \A i \in n + 1 .. Len(s) : ~(IsApi(s[i]) \/ IsPort53(s[i]))
  BY DEF OwnRulesLead, Leads
<1>. HIDE DEF s
<1>3. /\ SubSeq(s, n + 1, Len(s)) \in Seq(Rules)
      /\ s = SubSeq(s, 1, n) \o SubSeq(s, n + 1, Len(s))
      /\ \A r \in Elems(SubSeq(s, n + 1, Len(s))) : \E i \in n + 1 .. Len(s) : r = s[i]
  BY <1>1, RuleSplit
<1>. DEFINE h == SubSeq(s, 1, n)
            t == SubSeq(s, n + 1, Len(s))
<1>4. h \in {<< >>, <<ApiRule>>, <<Port53>>, <<ApiRule, Port53>>} /\ t \in Seq(Rules) /\ s = h \o t
  BY <1>2, <1>3
<1>5. \A r \in Elems(t) : ~IsApi(r) /\ ~IsPort53(r)
  BY <1>2, <1>3
<1>. HIDE DEF h, t
<1>. DEFINE none == << >>
            api == <<ApiRule>>
            dns == <<Port53>>
<1>6. /\ none \in Seq(Rules) /\ api \in Seq(Rules) /\ dns \in Seq(Rules)
      /\ <<ApiRule, Port53>> = api \o dns
      /\ none \in MayBe(ApiRule) /\ api \in MayBe(ApiRule)
      /\ none \in MayBe(Port53) /\ dns \in MayBe(Port53)
  <2>1. none \in Seq(Rules) /\ api \in Seq(Rules) /\ dns \in Seq(Rules)
    BY NoRules, RuleTypes, RuleList
  <2>2. <<ApiRule, Port53>> = api \o dns
    BY RuleTypes, RulePair
  <2>3. /\ none \in MayBe(ApiRule) /\ api \in MayBe(ApiRule)
        /\ none \in MayBe(Port53) /\ dns \in MayBe(Port53)
    BY DEF MayBe
  <2>. QED  BY <2>1, <2>2, <2>3
<1>7. none \o t = t /\ none \o (dns \o t) = dns \o t
  BY <1>4, <1>6, RuleCat, NothingBefore
<1>8. (api \o dns) \o t = api \o (dns \o t)
  BY <1>4, <1>6, RuleAssoc
<1>9. \E a \in MayBe(ApiRule), m \in MayBe(Port53) : s = a \o (m \o t)
  <2>1. CASE h = << >>
    BY <1>4, <1>6, <1>7, <2>1
  <2>2. CASE h = <<ApiRule>>
    BY <1>4, <1>6, <1>7, <2>2
  <2>3. CASE h = <<Port53>>
    BY <1>4, <1>6, <1>7, <2>3
  <2>4. CASE h = <<ApiRule, Port53>>
    BY <1>4, <1>6, <1>8, <2>4
  <2>. QED  BY <1>4, <2>1, <2>2, <2>3, <2>4
<1>. QED  BY <1>4, <1>5, <1>9 DEF OwnLed, s

LEMMA OwnIsApiLed == ASSUME NEW s, OwnLed(s) PROVE ApiLed(s)
<1>1. PICK a \in MayBe(ApiRule), m \in MayBe(Port53), t \in Seq(Rules) :
        s = a \o (m \o t) /\ \A r \in Elems(t) : ~IsApi(r) /\ ~IsPort53(r)
  BY DEF OwnLed
<1>2. m \in Seq(Rules) /\ Elems(m) \subseteq {Port53}
  BY RuleTypes, MayBeType
<1>3. ~IsApi(Port53)
  BY DEF IsApi, Port53, Rule
<1>4. m \o t \in Seq(Rules) /\ Elems(m \o t) = Elems(m) \cup Elems(t)
  BY <1>2, RuleCat
<1>5. \A r \in Elems(m \o t) : ~IsApi(r)
  BY <1>1, <1>2, <1>3, <1>4
<1>. DEFINE u == m \o t
<1>. HIDE DEF u
<1>6. s = a \o u /\ u \in Seq(Rules) /\ \A r \in Elems(u) : ~IsApi(r)
  BY <1>1, <1>4, <1>5 DEF u
<1>. QED  BY <1>6 DEF ApiLed

LEMMA RetainMayBe ==
  ASSUME NEW r \in Rules, NEW a \in MayBe(r), NEW kept PROVE Retain(a, kept) \in MayBe(r)
BY RetainOne, RetainEmpty DEF MayBe

LEMMA RuleRetainCat ==
  ASSUME NEW s \in Seq(Rules), NEW t \in Seq(Rules), NEW kept
  PROVE  Retain(s \o t, kept) = Retain(s, kept) \o Retain(t, kept)
BY RetainCat

LEMMA RetainLed ==
  ASSUME NEW s, NEW kept
  PROVE  /\ ApiLed(s) => ApiLed(Retain(s, kept))
         /\ OwnLed(s) => OwnLed(Retain(s, kept))
<1>1. ASSUME ApiLed(s) PROVE ApiLed(Retain(s, kept))
  <2>1. PICK a \in MayBe(ApiRule), t \in Seq(Rules) : s = a \o t /\ \A r \in Elems(t) : ~IsApi(r)
    BY <1>1 DEF ApiLed
  <2>. DEFINE b == Retain(a, kept)
              u == Retain(t, kept)
  <2>2. a \in Seq(Rules) /\ b \in MayBe(ApiRule)
    BY RuleTypes, MayBeType, RetainMayBe
  <2>3. u \in Seq(Rules) /\ \A r \in Elems(u) : ~IsApi(r)
    BY <2>1, RuleRetain
  <2>4. Retain(s, kept) = b \o u
    BY <2>1, <2>2, RuleRetainCat
  <2>. HIDE DEF b, u
  <2>. QED  BY <2>2, <2>3, <2>4 DEF ApiLed
<1>2. ASSUME OwnLed(s) PROVE OwnLed(Retain(s, kept))
  <2>1. PICK a \in MayBe(ApiRule), m \in MayBe(Port53), t \in Seq(Rules) :
          s = a \o (m \o t) /\ \A r \in Elems(t) : ~IsApi(r) /\ ~IsPort53(r)
    BY <1>2 DEF OwnLed
  <2>. DEFINE b == Retain(a, kept)
              n == Retain(m, kept)
              u == Retain(t, kept)
  <2>2. a \in Seq(Rules) /\ b \in MayBe(ApiRule) /\ m \in Seq(Rules) /\ n \in MayBe(Port53)
    BY RuleTypes, MayBeType, RetainMayBe
  <2>3. u \in Seq(Rules) /\ \A r \in Elems(u) : ~IsApi(r) /\ ~IsPort53(r)
    BY <2>1, RuleRetain
  <2>4. m \o t \in Seq(Rules)
    BY <2>2, RuleCat
  <2>5. Retain(m \o t, kept) = n \o u
    BY <2>2, RuleRetainCat
  <2>6. Retain(s, kept) = b \o (n \o u)
    <3>. DEFINE w == m \o t
    <3>0. w \in Seq(Rules)
      BY <2>4
    <3>. HIDE DEF w
    <3>1. Retain(a \o w, kept) = b \o Retain(w, kept)
      BY <2>2, <3>0, RuleRetainCat, SMTT(60)
    <3>. QED  BY <2>1, <2>5, <3>1 DEF w
  <2>. HIDE DEF b, n, u
  <2>. QED  BY <2>2, <2>3, <2>6 DEF OwnLed
<1>. QED  BY <1>1, <1>2

LEMMA StripOne ==
  ASSUME NEW r \in Rules, NEW domains, NEW addresses, Less(r, domains, addresses) = r
  PROVE  Strip(<<r>>, domains, addresses) \in MayBe(r) /\ Strip(<< >>, domains, addresses) = << >>
<1>. DEFINE M(s) == [i \in DOMAIN s |-> Less(s[i], domains, addresses)]
            kept == {q \in Rules : Effective(q)}
<1>1. \A s : Strip(s, domains, addresses) = Retain(M(s), kept)
  BY DEF Strip, Less
<1>2. M(<< >>) = << >>
  OBVIOUS
<1>3. M(<<r>>) = <<r>>
  <2>1. <<r>> = [i \in 1 .. 1 |-> r] /\ DOMAIN <<r>> = 1 .. 1
    OBVIOUS
  <2>2. \A i \in DOMAIN <<r>> : Less(<<r>>[i], domains, addresses) = r
    OBVIOUS
  <2>3. M(<<r>>) = [i \in DOMAIN <<r>> |-> r]
    BY <2>2
  <2>. QED  BY <2>1, <2>3
<1>. HIDE DEF M, kept
<1>. QED  BY <1>1, <1>2, <1>3, RetainOne, RetainEmpty DEF MayBe

LEMMA StripLed ==
  ASSUME NEW s, NEW domains, NEW addresses
  PROVE  /\ ApiLed(s) => ApiLed(Strip(s, domains, addresses))
         /\ OwnLed(s) => OwnLed(Strip(s, domains, addresses))
<1>. DEFINE S(x) == Strip(x, domains, addresses)
<1>0. /\ \A a \in MayBe(ApiRule) : a \in Seq(Rules) /\ S(a) \in MayBe(ApiRule)
      /\ \A m \in MayBe(Port53) : m \in Seq(Rules) /\ S(m) \in MayBe(Port53)
  <2>1. /\ Less(ApiRule, domains, addresses) = ApiRule
        /\ Less(Port53, domains, addresses) = Port53
    BY ConstantsAssumption, LessOthers
  <2>2. /\ S(<<ApiRule>>) \in MayBe(ApiRule) /\ S(<<Port53>>) \in MayBe(Port53)
        /\ S(<< >>) = << >>
    BY <2>1, RuleTypes, StripOne
  <2>3. << >> \in MayBe(ApiRule) /\ << >> \in MayBe(Port53)
    BY DEF MayBe
  <2>. HIDE DEF S
  <2>4. ASSUME NEW a \in MayBe(ApiRule) PROVE a \in Seq(Rules) /\ S(a) \in MayBe(ApiRule)
    <3>1. a \in Seq(Rules)
      BY RuleTypes, MayBeType
    <3>2. a = << >> \/ a = <<ApiRule>>
      BY DEF MayBe
    <3>. QED  BY <2>2, <2>3, <3>1, <3>2
  <2>5. ASSUME NEW m \in MayBe(Port53) PROVE m \in Seq(Rules) /\ S(m) \in MayBe(Port53)
    <3>1. m \in Seq(Rules)
      BY RuleTypes, MayBeType
    <3>2. m = << >> \/ m = <<Port53>>
      BY DEF MayBe
    <3>. QED  BY <2>2, <2>3, <3>1, <3>2
  <2>. QED  BY <2>4, <2>5
<1>1. ASSUME NEW t \in Seq(Rules)
      PROVE  /\ S(t) \in Seq(Rules)
             /\ (\A r \in Elems(t) : ~IsApi(r)) => \A r \in Elems(S(t)) : ~IsApi(r)
             /\ (\A r \in Elems(t) : ~IsPort53(r)) => \A r \in Elems(S(t)) : ~IsPort53(r)
  <2>1. S(t) \in Seq(Rules)
    BY StripElems
  <2>2. ASSUME NEW r \in Elems(S(t))
        PROVE  \E q \in Elems(t) : r.inbound = q.inbound /\ r.dns = q.dns /\ r.out = q.out
    <3>1. PICK q \in Elems(t) : r = Less(q, domains, addresses)
      BY StripElems
    <3>2. q \in Rules
      BY RuleElems
    <3>. QED  BY <3>1, <3>2, LessType
  <2>. HIDE DEF S
  <2>. QED  BY <2>1, <2>2 DEF IsApi, IsPort53
<1>2. ASSUME NEW x \in Seq(Rules), NEW y \in Seq(Rules) PROVE S(x \o y) = S(x) \o S(y)
  BY StripCat
<1>. HIDE DEF S
<1>3. ASSUME ApiLed(s) PROVE ApiLed(S(s))
  <2>1. PICK a \in MayBe(ApiRule), t \in Seq(Rules) : s = a \o t /\ \A r \in Elems(t) : ~IsApi(r)
    BY <1>3 DEF ApiLed
  <2>2. S(s) = S(a) \o S(t)
    BY <1>0, <1>2, <2>1
  <2>. QED  BY <1>0, <1>1, <2>1, <2>2 DEF ApiLed
<1>4. ASSUME OwnLed(s) PROVE OwnLed(S(s))
  <2>1. PICK a \in MayBe(ApiRule), m \in MayBe(Port53), t \in Seq(Rules) :
          s = a \o (m \o t) /\ \A r \in Elems(t) : ~IsApi(r) /\ ~IsPort53(r)
    BY <1>4 DEF OwnLed
  <2>. DEFINE w == m \o t
  <2>2. w \in Seq(Rules) /\ S(w) = S(m) \o S(t)
    BY <1>0, <1>2, RuleCat
  <2>. HIDE DEF w
  <2>3. S(s) = S(a) \o S(w)
    BY <1>0, <1>2, <2>1, <2>2 DEF w
  <2>4. S(s) = S(a) \o (S(m) \o S(t))
    BY <2>2, <2>3
  <2>. QED  BY <1>0, <1>1, <2>1, <2>4 DEF OwnLed
<1>. QED  BY <1>3, <1>4 DEF S

\* the rule of the statistics interface is put first
LEMMA WithApiLed ==
  ASSUME NEW s, ApiLed(s)
  PROVE  \E t \in Seq(Rules) : WithApi(s) = <<ApiRule>> \o t /\ \A r \in Elems(t) : ~IsApi(r)
<1>1. PICK a \in MayBe(ApiRule), t \in Seq(Rules) : s = a \o t /\ \A r \in Elems(t) : ~IsApi(r)
  BY DEF ApiLed
<1>2. /\ <<ApiRule>> \in Seq(Rules) /\ Elems(<<ApiRule>>) = {ApiRule} /\ IsApi(ApiRule)
  BY RuleTypes, RuleList DEF ApiRule, Rule, IsApi
<1>3. CASE a = << >>
  <2>1. s = t
    BY <1>1, <1>3, NothingBefore
  <2>2. ~Exists(s, IsApi)
    BY <1>1, <2>1, ExistsElems
  <2>. QED  BY <1>1, <2>1, <2>2 DEF WithApi
<1>4. CASE a = <<ApiRule>>
  <2>. DEFINE api == <<ApiRule>>
  <2>1. Elems(api \o t) = Elems(api) \cup Elems(t)
    BY <1>2, RuleCat
  <2>2. s = api \o t /\ ApiRule \in Elems(s)
    BY <1>1, <1>2, <1>4, <2>1
  <2>3. Exists(s, IsApi)
    BY <1>2, <2>2, ExistsElems
  <2>. HIDE DEF api
  <2>. QED  BY <1>1, <2>2, <2>3 DEF WithApi, api
<1>. QED  BY <1>1, <1>3, <1>4 DEF MayBe

LEMMA WithApiOwn ==
  ASSUME NEW s, OwnLed(s)
  PROVE  \E m \in MayBe(Port53), t \in Seq(Rules) :
           WithApi(s) = <<ApiRule>> \o (m \o t) /\ \A r \in Elems(t) : ~IsApi(r) /\ ~IsPort53(r)
<1>1. PICK a \in MayBe(ApiRule), m \in MayBe(Port53), t \in Seq(Rules) :
        s = a \o (m \o t) /\ \A r \in Elems(t) : ~IsApi(r) /\ ~IsPort53(r)
  BY DEF OwnLed
<1>2. /\ <<ApiRule>> \in Seq(Rules) /\ Elems(<<ApiRule>>) = {ApiRule} /\ IsApi(ApiRule)
  BY RuleTypes, RuleList DEF ApiRule, Rule, IsApi
<1>. DEFINE u == m \o t
<1>3. u \in Seq(Rules) /\ \A r \in Elems(u) : ~IsApi(r)
  <2>1. m \in Seq(Rules) /\ Elems(m) \subseteq {Port53}
    BY RuleTypes, MayBeType
  <2>2. ~IsApi(Port53)
    BY DEF IsApi, Port53, Rule
  <2>3. m \o t \in Seq(Rules) /\ Elems(m \o t) = Elems(m) \cup Elems(t)
    BY <2>1, RuleCat
  <2>. QED  BY <1>1, <2>1, <2>2, <2>3
<1>4. s = a \o u
  BY <1>1
<1>. HIDE DEF u
<1>5. WithApi(s) = <<ApiRule>> \o u
  <2>1. CASE a = << >>
    <3>1. s = u
      BY <1>3, <1>4, <2>1, NothingBefore
    <3>2. ~Exists(s, IsApi)
      BY <1>3, <3>1, ExistsElems
    <3>. QED  BY <3>1, <3>2 DEF WithApi
  <2>2. CASE a = <<ApiRule>>
    <3>. DEFINE api == <<ApiRule>>
    <3>1. Elems(api \o u) = Elems(api) \cup Elems(u)
      BY <1>2, <1>3, RuleCat
    <3>2. s = api \o u /\ ApiRule \in Elems(s)
      BY <1>2, <1>4, <2>2, <3>1
    <3>3. Exists(s, IsApi)
      BY <1>2, <3>2, ExistsElems
    <3>. HIDE DEF api
    <3>. QED  BY <3>2, <3>3 DEF WithApi, api
  <2>. QED  BY <2>1, <2>2 DEF MayBe
<1>. QED  BY <1>1, <1>5 DEF u

\* it stays first as the policy is applied
LEMMA AppliedApi ==
  ASSUME NEW c \in Configs, NEW req \in Requests, NEW legacy, ApiLed(c.rules)
  PROVE  \E t \in Seq(Rules) : ApplyPolicy(c, req, legacy).rules = <<ApiRule>> \o t
<1>1. PICK front, rest \in Seq(Rules) : Applied(c, req, legacy, front, rest)
  BY ApplyIs
<1>2. ApiLed(Retained(c.rules, req))
  BY RetainLed DEF Retained
<1>3. PICK t \in Seq(Rules) : Before(c, req) = <<ApiRule>> \o t
  BY <1>2, WithApiLed DEF Before
<1>4. front = <<ApiRule>>
  BY <1>1, <1>3 DEF Applied
<1>. DEFINE added == Additions(Before(c, req), req, legacy, Target(c))
            last == When(req.policy # None, AllTo(Target(c)))
            api == <<ApiRule>>
<1>5. ApplyPolicy(c, req, legacy).rules = ((api \o added) \o rest) \o last
  <2>1. ApplyPolicy(c, req, legacy) = [c EXCEPT !.rules = ((api \o added) \o rest) \o last]
    BY <1>1, <1>4 DEF Applied
  <2>. HIDE DEF added, last, api
  <2>. QED  BY <2>1 DEF Configs
<1>6. Target(c) \in Names /\ Before(c, req) \in Seq(Rules)
  BY ConstantsAssumption, ConfigFields, RetainedIs, WithApiIs DEF Target, Before
<1>7. added \in Seq(Rules) /\ api \in Seq(Rules)
  BY <1>6, AdditionsAre, RuleTypes, RuleList
<1>8. last \in Seq(Rules)
  BY <1>6, AddedTypes, WhenRules
<1>. HIDE DEF added, last, api
<1>9. ((api \o added) \o rest) \o last = api \o ((added \o rest) \o last)
  <2>1. (api \o added) \o rest = api \o (added \o rest) /\ added \o rest \in Seq(Rules)
    BY <1>7, RuleAssoc, RuleCat, SMTT(60)
  <2>. DEFINE u == added \o rest
  <2>0. u \in Seq(Rules)
    BY <2>1
  <2>. HIDE DEF u
  <2>2. (api \o u) \o last = api \o (u \o last)
    BY <1>7, <1>8, <2>0, RuleAssoc, SMTT(60)
  <2>. QED  BY <2>1, <2>2 DEF u
<1>10. (added \o rest) \o last \in Seq(Rules)
  BY <1>7, <1>8, RuleCat
<1>. QED  BY <1>5, <1>9, <1>10 DEF api

LEMMA ChosenLed ==
  ASSUME NEW c \in Configs, NEW req \in Requests
  PROVE  /\ ApiLed(c.rules) => ApiLed(Chosen(c, req).rules)
         /\ OwnLed(c.rules) => OwnLed(Chosen(c, req).rules)
<1>. DEFINE stripped == Strip(c.rules, Unsupported, Unsupported)
            d == Sanitize(c)
<1>1. d \in Configs /\ d.rules = stripped
  BY SanitizeIs
<1>2. /\ ApiLed(c.rules) => ApiLed(stripped)
      /\ OwnLed(c.rules) => OwnLed(stripped)
  BY StripLed
<1>3. ApiLed(<< >>) /\ OwnLed(<< >>)
  <2>1. << >> \in MayBe(ApiRule) /\ << >> \in MayBe(Port53)
    BY DEF MayBe
  <2>2. << >> = << >> \o << >> /\ << >> = << >> \o (<< >> \o << >>)
    BY NoRules, NothingBefore
  <2>. QED  BY <2>1, <2>2, NoRules DEF ApiLed, OwnLed
<1>4. Chosen(c, req) = IF req.policy = None THEN d
                       ELSE IF IsManaged(d) THEN ConstrainManaged(d) ELSE ConstrainPlain(d)
  BY DEF Chosen, Constrain
<1>. HIDE DEF d, stripped
<1>5. CASE req.policy = None
  BY <1>1, <1>2, <1>4, <1>5
<1>6. CASE req.policy # None /\ IsManaged(d)
  <2>1. Chosen(c, req).rules = << >>
    BY <1>1, <1>4, <1>6, ConstrainManagedIs
  <2>. QED  BY <1>3, <2>1
<1>7. CASE req.policy # None /\ ~IsManaged(d)
  <2>1. PICK tags : ConstrainPlain(d).rules = Retain(d.rules, {r \in Rules : r.out \in tags})
    BY <1>1, ConstrainPlainIs
  <2>2. Chosen(c, req).rules = Retain(stripped, {r \in Rules : r.out \in tags})
    BY <1>1, <1>4, <1>7, <2>1
  <2>. QED  BY <1>2, <2>2, RetainLed
<1>. QED  BY <1>5, <1>6, <1>7

LEMMA EnsuredLed ==
  ASSUME NEW c \in Configs, NEW req \in Requests
  PROVE  /\ ApiLed(c.rules) => ApiLed(Ensured(Chosen(c, req), req).rules)
         /\ OwnLed(c.rules) => OwnLed(Ensured(Chosen(c, req), req).rules)
<1>. DEFINE k == Chosen(c, req)
<1>1. k \in Configs /\ (ApiLed(c.rules) => ApiLed(k.rules)) /\ (OwnLed(c.rules) => OwnLed(k.rules))
  BY ChosenIs, ChosenLed
<1>. HIDE DEF k
<1>2. Ensured(k, req).rules = WithApi(k.rules)
  BY <1>1, EnsuredIs
<1>3. <<ApiRule>> \in MayBe(ApiRule)
  BY DEF MayBe
<1>4. ASSUME ApiLed(k.rules) PROVE ApiLed(WithApi(k.rules))
  BY <1>3, <1>4, WithApiLed DEF ApiLed
<1>5. ASSUME OwnLed(k.rules) PROVE OwnLed(WithApi(k.rules))
  BY <1>3, <1>5, WithApiOwn DEF OwnLed
<1>. QED  BY <1>1, <1>2, <1>4, <1>5 DEF k

LEMMA BaseLed == ASSUME NEW req \in Requests PROVE OwnLed(Base(req).rules)
<1>. DEFINE u == UserRules(req)
<1>1. Base(req).rules = <<ApiRule>> \o (<<Port53>> \o u)
  BY BaseIs
<1>2. u \in Seq(Rules) /\ \A r \in Elems(u) : ~IsApi(r) /\ ~IsPort53(r)
  <2>1. u \in Seq(Rules)
    BY UserRulesAre
  <2>2. ASSUME NEW r \in Elems(u) PROVE ~IsApi(r) /\ ~IsPort53(r)
    <3>1. PICK action \in {"proxy", "direct", "block"} : r = DomainRule(UserDomains(req, action), action)
      BY <2>2, UserRulesAre
    <3>. QED  BY <3>1 DEF DomainRule, Rule, IsApi, IsPort53
  <2>. QED  BY <2>1, <2>2
<1>3. <<ApiRule>> \in MayBe(ApiRule) /\ <<Port53>> \in MayBe(Port53)
  BY DEF MayBe
<1>. HIDE DEF u
<1>. QED  BY <1>1, <1>2, <1>3 DEF OwnLed

-----------------------------------------------------------------------------
(* The statistics interface.                                                 *)

\* what the promise about statistics asks of the profiles
ProfilesServeApi == \A c \in Profiles \cup Subscriptions : ApiLeads(c)

LEMMA XrayApi ==
  ASSUME NEW req \in Requests, ProfilesServeApi
  PROVE  /\ \E t \in Seq(Rules) : Xray(req).rules = <<ApiRule>> \o t
         /\ \A b \in Xray(req).balancers : b.tag # "api"
<1>1. CASE req.profile = None
  <2>. DEFINE c == Base(req)
  <2>1. c \in Configs /\ ApiLed(c.rules) /\ c.balancers = {}
    BY BaseIs, BaseLed, OwnIsApiLed
  <2>2. Xray(req) = ApplyPolicy(c, req, TRUE)
    BY <1>1, BuildIs DEF Xray
  <2>. HIDE DEF c
  <2>3. \E t \in Seq(Rules) : ApplyPolicy(c, req, TRUE).rules = <<ApiRule>> \o t
    BY <2>1, AppliedApi
  <2>4. ApplyPolicy(c, req, TRUE).balancers = {}
    BY <2>1, AppliedIs
  <2>. QED  BY <2>2, <2>3, <2>4
<1>2. CASE req.profile # None
  <2>. DEFINE p == req.profile
              k == Chosen(p, req)
              e == Ensured(k, req)
  <2>1. p \in Profiles \cup Subscriptions
    BY <1>2 DEF Requests
  <2>2. p \in Configs /\ ApiLeads(p)
    BY <2>1, ProfilesAssumption DEF ProfilesServeApi
  <2>. HIDE DEF p
  <2>3. k \in Configs
    BY <2>2, ChosenIs
  <2>4. \A b \in k.balancers : b.tag # "api"
    <3>1. \A b \in p.balancers : b.tag # "api"
      BY <2>2 DEF ApiLeads
    <3>. DEFINE d == Sanitize(p)
    <3>2. d \in Configs /\ d.balancers = p.balancers
      BY <2>2, SanitizeIs
    <3>3. k = IF req.policy = None THEN d
              ELSE IF IsManaged(d) THEN ConstrainManaged(d) ELSE ConstrainPlain(d)
      BY DEF Chosen, Constrain
    <3>. HIDE DEF d, k
    <3>4. CASE req.policy = None
      BY <3>1, <3>2, <3>3, <3>4
    <3>5. CASE req.policy # None /\ IsManaged(d)
      BY <3>1, <3>2, <3>3, <3>5, ConstrainManagedIs
    <3>6. CASE req.policy # None /\ ~IsManaged(d)
      BY <3>1, <3>2, <3>3, <3>6, ConstrainPlainIs
    <3>. QED  BY <3>4, <3>5, <3>6
  <2>5. e \in Configs /\ e.balancers = k.balancers /\ ApiLed(e.rules)
    BY <2>2, <2>3, EnsuredIs, EnsuredLed, ProfileApiLed
  <2>6. Xray(req) = ApplyPolicy(e, req, FALSE)
    BY <1>2, InjectIs DEF Xray, p
  <2>. HIDE DEF e, k
  <2>7. \E t \in Seq(Rules) : ApplyPolicy(e, req, FALSE).rules = <<ApiRule>> \o t
    BY <2>5, AppliedApi
  <2>8. ApplyPolicy(e, req, FALSE).balancers = k.balancers
    BY <2>5, AppliedIs
  <2>. QED  BY <2>4, <2>6, <2>7, <2>8
<1>. QED  BY <1>1, <1>2

\* a query for statistics passes no engine but xray, which answers it
QueryTravels ==
  packet = StatsQuery =>
    /\ at \in {"xray", "api"} /\ leg = packet
    /\ ~InExtension(request)

LEMMA QueryRoute ==
  ASSUME NEW req \in Requests, ProfilesServeApi, UsesXray(req), ~InExtension(req),
         NEW o \in Stands(Graph(req).xray,
                          FirstMatch(Graph(req).xray.rules, StatsQuery, Graph(req).xray.outbounds[1].tag))
  PROVE  Route(o) = "api"
<1>. DEFINE c == Xray(req)
            default == c.outbounds[1].tag
            tag == FirstMatch(c.rules, StatsQuery, default)
            api == <<ApiRule>>
<1>1. Graph(req).xray = c
  BY GraphIs
<1>2. o \in Stands(c, tag)
  BY <1>1
<1>3. PICK t \in Seq(Rules) : c.rules = api \o t
  BY XrayApi
<1>4. api \in Seq(Rules) /\ Elems(api) = {ApiRule}
  BY RuleTypes, RuleList
<1>5. Matches(ApiRule, StatsQuery) /\ ApiRule.out = "api"
  BY OwnMatches DEF StatsQuery
<1>. HIDE DEF api, default
<1>6. Decides(api, StatsQuery, "api")
  BY <1>4, <1>5 DEF Decides
<1>7. FirstMatch(api \o t, StatsQuery, default) = "api"
  BY <1>4, <1>6, DecidedFirst
<1>8. tag = "api"
  BY <1>3, <1>7
<1>9. \A b \in c.balancers : b.tag # "api"
  BY XrayApi
<1>. HIDE DEF c, tag
<1>10. o.tag = "api"
  BY <1>2, <1>8, <1>9, StandsIs
<1>. QED  BY <1>10 DEF Route

LEMMA StepQuery ==
  ProfilesServeApi /\ TypeInv /\ QueryTravels /\ [Next]_vars => QueryTravels'
<1>. SUFFICES ASSUME ProfilesServeApi, TypeInv, QueryTravels, [Next]_vars, packet' = StatsQuery
              PROVE  at' \in {"xray", "api"} /\ leg' = packet' /\ ~InExtension(request')
  BY DEF QueryTravels, InExtension, UsesXray
<1>. USE DEF Early, Exits
<1>0. StatsQuery # None
  BY PacketTypes
<1>1. CASE Refuse
  BY <1>0, <1>1 DEF Refuse, TypeInv
<1>2. CASE BuildGraph
  BY <1>0, <1>2 DEF BuildGraph, TypeInv
<1>3. CASE Send
  <2>1. /\ at = "ready" /\ request' = request /\ leg' = packet'
        /\ \/ packet' \in Packets \cup Captured
           \/ (request.ping \/ ~request.app_store) /\ at' = "xray"
    BY <1>3 DEF Send
  <2>. QED  BY <2>1, PacketTypes DEF InExtension
<1>4. CASE AppRoute
  BY <1>4 DEF AppRoute, QueryTravels
<1>5. CASE BoxRoute
  BY <1>5 DEF BoxRoute, QueryTravels
<1>6. CASE BoxResolve
  BY <1>6 DEF BoxResolve, QueryTravels
<1>7. CASE XrayRoute
  <2>1. PICK o \in Stands(graph.xray, FirstMatch(graph.xray.rules, leg, graph.xray.outbounds[1].tag)) :
          /\ at = "xray" /\ UNCHANGED <<request, graph, packet>>
          /\ IF Route(o) \in {"direct", "proxy"} /\ (graph.box # None \/ graph.apps # << >>)
             THEN /\ at' = (IF graph.box # None THEN "box" ELSE "apps") /\ via' = Route(o)
                  /\ leg' = [leg EXCEPT !.process = "xray", !.inbound = "app"]
             ELSE at' = Route(o) /\ UNCHANGED <<via, leg>>
    BY <1>7 DEF XrayRoute
  <2>2. packet = StatsQuery /\ leg = StatsQuery /\ ~InExtension(request)
    BY <2>1 DEF QueryTravels
  <2>3. request \in Requests /\ graph = Graph(request) /\ graph.xray # None
    BY <2>1 DEF TypeInv
  <2>4. UsesXray(request)
    BY <2>3, GraphIs
  <2>5. Route(o) = "api"
    BY <2>1, <2>2, <2>3, <2>4, QueryRoute
  <2>. DEFINE r == Route(o)
  <2>. HIDE DEF r
  <2>6. at' = "api" /\ leg' = leg /\ request' = request
    BY <2>1, <2>5 DEF r
  <2>. QED  BY <2>2, <2>6 DEF InExtension, UsesXray
<1>8. CASE XrayResolve
  BY <1>8 DEF XrayResolve, QueryTravels
<1>9. CASE UNCHANGED vars
  BY <1>9 DEF vars, QueryTravels
<1>. QED  BY <1>1, <1>2, <1>3, <1>4, <1>5, <1>6, <1>7, <1>8, <1>9 DEF Next

\* StatsReachApi of Routing, for profiles in which no rule but the service's first one is
\* about the statistics interface, nor a balancer.
THEOREM RoutingStatsReachApi ==
  ASSUME \A c \in Profiles \cup Subscriptions : ApiLeads(c)
  PROVE  Spec => []StatsReachApi
<1>0. ProfilesServeApi
  BY DEF ProfilesServeApi
<1>1. Init => QueryTravels
  BY PacketTypes DEF Init, QueryTravels
<1>2. TypeInv /\ QueryTravels /\ [Next]_vars => QueryTravels'
  BY <1>0, StepQuery
<1>3. QueryTravels => StatsReachApi
  BY DEF QueryTravels, StatsReachApi, Exits
<1>. QED  BY <1>1, <1>2, <1>3, TypeInvariance, PTL DEF Spec

-----------------------------------------------------------------------------
(* The split, in xray.                                                       *)

\* rules for the resolvers and the statistics interface, which tell packets by where they
\* come from
Sorts(s) ==
  /\ DnsDirect \in Elems(s)
  /\ \A r \in Elems(s) :
       /\ r.inbound # {} /\ r.inbound \subseteq {"api", "dns-direct", "dns-remote"}
       /\ "dns-direct" \in r.inbound => r.out = "direct"
\* rules that send DNS to the DNS module and the rest of the split out directly
Parts(s, req) ==
  /\ Port53 \in Elems(s)
  /\ TrafficDomains(req) \ Geodata # {} =>
       \E names \in SUBSET Selectors : /\ TrafficDomains(req) \ Geodata \subseteq names
                                      /\ DomainRule(names, "direct") \in Elems(s)
  /\ \A r \in Elems(s) : r = Port53 \/ (r.out = "direct" /\ DirectForm(req, r))
Splits(rules, req) ==
  \E s, t, u \in Seq(Rules) : rules = s \o (t \o u) /\ Sorts(s) /\ Parts(t, req)

\* a packet the split is about
Named(req, p) == Ordinary(req, p) /\ p.domain \in TrafficDomains(req)

LEMMA SplitsPacket ==
  ASSUME NEW req \in Requests, NEW rules, Splits(rules, req), NEW p \in PacketForms, Named(req, p),
         NEW d
  PROVE  FirstMatch(rules, p, d) = IF p.dns THEN "dns-out" ELSE "direct"
<1>1. PICK s, t, u \in Seq(Rules) : rules = s \o (t \o u) /\ Sorts(s) /\ Parts(t, req)
  BY DEF Splits
<1>2. /\ p.inbound = "app" /\ p.ip = "public" /\ p.domain \notin Geodata \cup Values(req)
      /\ p.domain \in TrafficDomains(req) /\ p.dns \in BOOLEAN
  BY DEF Named, Ordinary, PacketForms
<1>3. ASSUME NEW r \in Elems(s) PROVE ~Matches(r, p)
  BY <1>1, <1>2, <1>3 DEF Sorts, Matches
<1>4. ASSUME NEW r \in Elems(t), r # Port53, Matches(r, p) PROVE ~p.dns /\ r.out = "direct"
  <2>1. r.out = "direct" /\ DirectForm(req, r)
    BY <1>1, <1>4 DEF Parts
  <2>2. \/ p.inbound = "dns-direct"
        \/ p.domain \in TrafficDomains(req) /\ ~p.dns
        \/ Split(req) /\ p.ip \in req.policy.ranges
        \/ req.policy = None /\ (p.ip = "private" \/ p.domain \in UserDomains(req, "direct"))
    BY <1>4, <2>1, DirectFormMatches
  <2>3. ~(Split(req) /\ p.ip \in req.policy.ranges)
    BY <1>2, FewSelectors
  <2>4. p.domain \notin UserDomains(req, "direct")
    BY <1>2, UserValues
  <2>. QED  BY <1>2, <2>1, <2>2, <2>3, <2>4
<1>5. PICK names \in SUBSET Selectors :
        TrafficDomains(req) \ Geodata \subseteq names /\ DomainRule(names, "direct") \in Elems(t)
  <2>1. TrafficDomains(req) \ Geodata # {}
    BY <1>2
  <2>. QED  BY <1>1, <2>1 DEF Parts
<1>6. CASE p.dns
  <2>1. Decides(t, p, "dns-out")
    <3>1. Port53 \in Elems(t) /\ Matches(Port53, p) /\ Port53.out = "dns-out"
      BY <1>1, <1>6, OwnMatches DEF Parts
    <3>2. \A r \in Elems(t) : Matches(r, p) => r = Port53
      BY <1>4, <1>6
    <3>. QED  BY <3>1, <3>2 DEF Decides
  <2>2. Decides(s \o t, p, "dns-out")
    BY <1>3, <2>1, UndecidedFirst
  <2>3. s \o (t \o u) = (s \o t) \o u /\ s \o t \in Seq(Rules)
    BY RuleAssoc, RuleCat
  <2>. DEFINE w == s \o t
  <2>. HIDE DEF w
  <2>4. rules = w \o u
    BY <1>1, <2>3 DEF w
  <2>5. w \in Seq(Rules) /\ Decides(w, p, "dns-out")
    BY <2>2, <2>3 DEF w
  <2>6. u \in Seq(Rules)
    OBVIOUS
  <2>7. FirstMatch(w \o u, p, d) = "dns-out"
    BY <2>5, <2>6, DecidedFirst, SMTT(30)
  <2>. QED  BY <1>6, <2>4, <2>7
<1>7. CASE ~p.dns
  <2>1. Decides(t, p, "direct")
    <3>1. p.domain \in names
      BY <1>2, <1>5
    <3>2. Matches(DomainRule(names, "direct"), p) /\ DomainRule(names, "direct").out = "direct"
      BY <1>7, <3>1, DomainMatches
    <3>3. ~Matches(Port53, p)
      BY <1>7, OwnMatches
    <3>4. \A r \in Elems(t) : Matches(r, p) => r.out = "direct"
      BY <1>4, <3>3
    <3>. QED  BY <1>5, <3>2, <3>4 DEF Decides
  <2>2. Decides(s \o t, p, "direct")
    BY <1>3, <2>1, UndecidedFirst
  <2>3. s \o (t \o u) = (s \o t) \o u /\ s \o t \in Seq(Rules)
    BY RuleAssoc, RuleCat
  <2>. DEFINE w == s \o t
  <2>. HIDE DEF w
  <2>4. rules = w \o u
    BY <1>1, <2>3 DEF w
  <2>5. w \in Seq(Rules) /\ Decides(w, p, "direct")
    BY <2>2, <2>3 DEF w
  <2>6. u \in Seq(Rules)
    OBVIOUS
  <2>7. FirstMatch(w \o u, p, d) = "direct"
    BY <2>5, <2>6, DecidedFirst, SMTT(30)
  <2>. QED  BY <1>7, <2>4, <2>7
<1>. QED  BY <1>2, <1>6, <1>7

\* the query of the direct resolver goes out directly
LEMMA SplitsQuery ==
  ASSUME NEW req, NEW rules, Splits(rules, req), NEW p, p.inbound = "dns-direct", NEW d
  PROVE  FirstMatch(rules, p, d) = "direct"
<1>1. PICK s, t, u \in Seq(Rules) : rules = s \o (t \o u) /\ Sorts(s) /\ Parts(t, req)
  BY DEF Splits
<1>2. Decides(s, p, "direct")
  <2>1. DnsDirect \in Elems(s) /\ Matches(DnsDirect, p)
    BY <1>1, AddedMatches DEF Sorts
  <2>2. ASSUME NEW r \in Elems(s), Matches(r, p) PROVE r.out = "direct"
    BY <1>1, <2>2 DEF Sorts, Matches
  <2>. QED  BY <2>1, <2>2 DEF Decides
<1>. DEFINE w == t \o u
<1>3. w \in Seq(Rules) /\ rules = s \o w
  BY <1>1, RuleCat
<1>. HIDE DEF w
<1>. QED  BY <1>2, <1>3, DecidedFirst

\* rules whose heads are the service's own, after the policy
LEMMA AppliedSplits ==
  ASSUME NEW c \in Configs, NEW req \in Requests, NEW legacy, Governed(req, legacy),
         OwnLed(c.rules),
         req.policy = None => ~\E r \in Elems(c.rules) : HasDefaultDirect(r)
  PROVE  Splits(ApplyPolicy(c, req, legacy).rules, req)
<1>. DEFINE kept == Retained(c.rules, req)
            before == Before(c, req)
            target == Target(c)
            api == <<ApiRule>>
            resolvers == ResolverRules(req, legacy, target)
            port == When(~Exists(before, IsPort53), Port53)
            direct == DirectRules(before, req, legacy)
            last == When(req.policy # None, AllTo(target))
<1>1. PICK front, rest \in Seq(Rules) : Applied(c, req, legacy, front, rest)
  BY ApplyIs
<1>2. kept \in Seq(Rules) /\ Elems(kept) \subseteq Elems(c.rules) /\ OwnLed(kept)
  <2>1. kept \in Seq(Rules) /\ Elems(kept) \subseteq Elems(c.rules)
    BY ConfigFields, RetainedIs
  <2>2. OwnLed(kept)
    BY RetainLed DEF Retained
  <2>. QED  BY <2>1, <2>2
<1>3. before = WithApi(kept)
  BY DEF Before
<1>4. target \in Names /\ target \in {"balancer", "proxy"}
  BY ConstantsAssumption DEF Target
<1>. HIDE DEF kept, before, target
<1>5. PICK m \in MayBe(Port53), t \in Seq(Rules) :
        before = <<ApiRule>> \o (m \o t) /\ \A r \in Elems(t) : ~IsApi(r) /\ ~IsPort53(r)
  BY <1>2, <1>3, WithApiOwn
<1>6. m \in Seq(Rules) /\ Elems(m) \subseteq {Port53} /\ m \o t \in Seq(Rules)
      /\ Elems(m \o t) = Elems(m) \cup Elems(t)
  BY RuleTypes, MayBeType, RuleCat
<1>7. api \in Seq(Rules) /\ Elems(api) = {ApiRule}
  BY RuleTypes, RuleList
<1>8. before \in Seq(Rules) /\ Elems(before) = {ApiRule} \cup Elems(m) \cup Elems(t)
  <2>. DEFINE y == m \o t
  <2>1. y \in Seq(Rules) /\ Elems(y) = Elems(m) \cup Elems(t) /\ before = api \o y
    BY <1>5, <1>6
  <2>. HIDE DEF y, api
  <2>. QED  BY <1>7, <2>1, RuleCat
<1>9. front = api /\ rest = m \o t
  BY <1>1, <1>5, <1>6 DEF Applied, before
<1>10. Exists(before, IsPort53) <=> Port53 \in Elems(m)
  <2>1. ~IsPort53(ApiRule) /\ IsPort53(Port53)
    BY DEF IsPort53, ApiRule, Port53, Rule
  <2>. QED  BY <1>5, <1>6, <1>8, <2>1, ExistsElems
<1>11. req.policy = None => ~Exists(before, HasDefaultDirect)
  <2>1. ~HasDefaultDirect(ApiRule)
    BY DEF HasDefaultDirect, ApiRule, Rule
  <2>2. Elems(before) \subseteq Elems(kept) \cup {ApiRule}
    <3>. DEFINE g == ~Exists(kept, IsApi)
    <3>1. Elems(before) = Elems(kept) \cup {r \in {ApiRule} : g}
      BY <1>2, <1>3, WithApiIs
    <3>. HIDE DEF g
    <3>. QED  BY <3>1
  <2>. QED  BY <1>2, <2>1, <2>2, ExistsElems
<1>12. /\ resolvers \in Seq(Rules) /\ port \in Seq(Rules) /\ direct \in Seq(Rules)
       /\ Elems(resolvers) = {DnsDirect, DnsRemote(target)}
  <2>1. resolvers \in Seq(Rules) /\ Elems(resolvers) = {r \in {DnsDirect, DnsRemote(target)} : Governed(req, legacy)}
    BY <1>4, ResolverRulesAre
  <2>2. port \in Seq(Rules)
    BY <1>4, <1>8, AdditionsAre
  <2>3. direct \in Seq(Rules)
    BY DirectRulesAre
  <2>. HIDE DEF resolvers, port, direct
  <2>. QED  BY <2>1, <2>2, <2>3
<1>13. Elems(port) = {r \in {Port53} : Port53 \notin Elems(m)}
  <2>. DEFINE g == ~Exists(before, IsPort53)
  <2>1. g <=> Port53 \notin Elems(m)
    BY <1>10
  <2>. HIDE DEF g
  <2>2. Elems(When(g, Port53)) = {r \in {Port53} : g}
    <3>. DEFINE q == Port53
    <3>1. q \in Rules
      BY RuleTypes
    <3>. HIDE DEF q
    <3>2. Elems(When(g, q)) = {r \in {q} : g}
      BY <3>1, WhenRules
    <3>. QED  BY <3>2 DEF q
  <2>. QED  BY <2>1, <2>2 DEF g
<1>14. /\ \A r \in Elems(direct) : r.out = "direct" /\ DirectForm(req, r)
       /\ DomainRule(TrafficDomains(req), "direct") \in Elems(direct)
  <2>1. ASSUME NEW r \in Elems(direct) PROVE r.out = "direct" /\ DirectForm(req, r)
    <3>1. r \in Elems(Additions(before, req, legacy, target))
      BY <1>4, <1>8, <2>1, AdditionsAre
    <3>2. HeldRule(req, r)
      BY <1>4, <1>8, <3>1, AdditionsHeld
    <3>3. r.out = "direct"
      <4>1. \/ r = DomainRule(TrafficDomains(req), "direct") \/ r = Private
            \/ r = AddressRule(req.policy.ranges, "direct")
        BY <2>1, DirectRulesAre DEF Ranges
      <4>2. DomainRule(TrafficDomains(req), "direct").out = "direct"
        BY RuleOuts
      <4>3. AddressRule(req.policy.ranges, "direct").out = "direct"
        BY RuleOuts
      <4>4. Private.out = "direct"
        BY AddedMatches
      <4>. QED  BY <4>1, <4>2, <4>3, <4>4
    <3>. QED  BY <3>2, <3>3 DEF HeldRule
  <2>2. DomainRule(TrafficDomains(req), "direct") \in Elems(direct)
    BY <1>11, DirectRulesAre
  <2>. QED  BY <2>1, <2>2
<1>15. last \in Seq(Rules)
  BY <1>4, AddedTypes, WhenRules
<1>16. ApplyPolicy(c, req, legacy).rules = ((api \o (resolvers \o (port \o direct))) \o (m \o t)) \o last
  <2>1. Additions(before, req, legacy, target) = resolvers \o (port \o direct)
    BY <1>4, <1>8, AdditionsAre, ZenonT(60)
  <2>. DEFINE rs == ((front \o Additions(before, req, legacy, target)) \o rest) \o last
  <2>2. ApplyPolicy(c, req, legacy) = [c EXCEPT !.rules = rs]
    BY <1>1 DEF Applied, before, target
  <2>3. ApplyPolicy(c, req, legacy).rules = rs
    <3>. HIDE DEF rs
    <3>. QED  BY <2>2 DEF Configs
  <2>. HIDE DEF resolvers, port, direct, last, api
  <2>. QED  BY <1>9, <2>1, <2>3
<1>. HIDE DEF resolvers, port, direct, last, api
<1>. DEFINE s == api \o resolvers
            x == (port \o direct) \o m
            u == t \o last
<1>17. /\ s \in Seq(Rules) /\ x \in Seq(Rules) /\ u \in Seq(Rules)
       /\ Elems(s) = {ApiRule, DnsDirect, DnsRemote(target)}
       /\ Elems(x) = Elems(port) \cup Elems(direct) \cup Elems(m)
  <2>1. s \in Seq(Rules) /\ Elems(s) = {ApiRule, DnsDirect, DnsRemote(target)}
    BY <1>7, <1>12, RuleCat
  <2>2. u \in Seq(Rules)
    BY <1>15, RuleCat
  <2>. DEFINE y == port \o direct
  <2>3. y \in Seq(Rules) /\ Elems(y) = Elems(port) \cup Elems(direct)
    BY <1>12, RuleCat
  <2>. HIDE DEF y
  <2>4. y \o m \in Seq(Rules) /\ Elems(y \o m) = Elems(y) \cup Elems(m)
    BY <1>6, <2>3, RuleCat
  <2>5. x \in Seq(Rules) /\ Elems(x) = Elems(port) \cup Elems(direct) \cup Elems(m)
    BY <2>3, <2>4 DEF y
  <2>. QED  BY <2>1, <2>2, <2>5
<1>18. ((api \o (resolvers \o (port \o direct))) \o (m \o t)) \o last = s \o (x \o u)
  <2>. DEFINE y == port \o direct
  <2>1. y \in Seq(Rules)
    BY <1>12, RuleCat
  <2>. HIDE DEF y
  <2>2. api \o (resolvers \o y) = s \o y
    BY <1>7, <1>12, <2>1, RuleAssoc, ZenonT(60)
  <2>. HIDE DEF s
  <2>3. (s \o y) \o (m \o t) = s \o (y \o (m \o t)) /\ y \o (m \o t) = (y \o m) \o t
    <3>1. y \o (m \o t) = (y \o m) \o t
      BY <1>6, <2>1, RuleAssoc
    <3>. DEFINE w == m \o t
    <3>2. w \in Seq(Rules)
      BY <1>6
    <3>. HIDE DEF w
    <3>3. s \in Seq(Rules)
      BY <1>17
    <3>4. (s \o y) \o w = s \o (y \o w)
      BY <2>1, <3>2, <3>3, RuleAssoc
    <3>. QED  BY <3>1, <3>4 DEF w
  <2>. DEFINE z == y \o m
  <2>4. z \in Seq(Rules) /\ z \o t \in Seq(Rules)
    BY <1>6, <2>1, RuleCat
  <2>. HIDE DEF z
  <2>5. (s \o (z \o t)) \o last = s \o ((z \o t) \o last) /\ (z \o t) \o last = z \o (t \o last)
    <3>1. (z \o t) \o last = z \o (t \o last)
      BY <1>15, <2>4, RuleAssoc, SMTT(30)
    <3>. DEFINE w == z \o t
    <3>. HIDE DEF w
    <3>2. s \in Seq(Rules) /\ w \in Seq(Rules)
      BY <1>17, <2>4 DEF w
    <3>3. (s \o w) \o last = s \o (w \o last)
      BY <1>15, <3>2, RuleAssoc, SMTT(30)
    <3>. QED  BY <3>1, <3>3 DEF w
  <2>. QED  BY <2>2, <2>3, <2>5 DEF y, z
<1>19. Sorts(s)
  <2>1. /\ ApiRule.inbound = {"api"} /\ DnsDirect.inbound = {"dns-direct"}
        /\ DnsRemote(target).inbound = {"dns-remote"} /\ DnsDirect.out = "direct"
    BY DEF ApiRule, DnsDirect, DnsRemote, Rule
  <2>2. \A r \in Elems(s) : r = ApiRule \/ r = DnsDirect \/ r = DnsRemote(target)
    BY <1>17
  <2>. QED  BY <1>17, <2>1, <2>2 DEF Sorts
<1>20. Parts(x, req)
  <2>1. Port53 \in Elems(x) /\ \A r \in Elems(x) : r = Port53 \/ r \in Elems(direct)
    BY <1>6, <1>13, <1>17
  <2>. DEFINE names == TrafficDomains(req)
  <2>2. names \in SUBSET Selectors /\ names \ Geodata \subseteq names
    BY Selections
  <2>3. DomainRule(names, "direct") \in Elems(x)
    BY <1>14, <1>17
  <2>. QED  BY <1>14, <2>1, <2>2, <2>3 DEF Parts
<1>. HIDE DEF s, x, u
<1>. QED  BY <1>16, <1>17, <1>18, <1>19, <1>20 DEF Splits

LEMMA BuildSplits ==
  ASSUME NEW req \in Requests, req.policy = None => Marker \notin UserDomains(req, "direct")
  PROVE  Splits(Build(req).rules, req)
<1>. DEFINE c == Base(req)
<1>1. /\ c \in Configs /\ OwnLed(c.rules)
      /\ Elems(c.rules) = {ApiRule, Port53} \cup Elems(UserRules(req))
  BY BaseIs, BaseLed
<1>2. ASSUME req.policy = None, NEW r \in Elems(c.rules) PROVE ~HasDefaultDirect(r)
  <2>1. CASE r \in {ApiRule, Port53}
    BY <2>1, OwnMatches DEF HasDefaultDirect
  <2>2. CASE r \in Elems(UserRules(req))
    <3>1. PICK action \in {"proxy", "direct", "block"} : r = DomainRule(UserDomains(req, action), action)
      BY <2>2, UserRulesAre
    <3>2. r.out = action /\ r.domain = UserDomains(req, action)
      BY <3>1 DEF DomainRule, Rule
    <3>. QED  BY <1>2, <3>2 DEF HasDefaultDirect
  <2>. QED  BY <1>1, <1>2, <2>1, <2>2
<1>3. Build(req) = ApplyPolicy(c, req, TRUE)
  BY BuildIs
<1>4. Governed(req, TRUE)
  BY DEF Governed
<1>. HIDE DEF c
<1>5. req.policy = None => ~\E r \in Elems(c.rules) : HasDefaultDirect(r)
  BY <1>2
<1>6. Splits(ApplyPolicy(c, req, TRUE).rules, req)
  BY <1>1, <1>4, <1>5, AppliedSplits
<1>. QED  BY <1>3, <1>6

LEMMA InjectSplits ==
  ASSUME NEW c \in Profiles, OwnRulesLead(c), NEW req \in Requests, req.policy # None
  PROVE  Splits(Inject(c, req).rules, req)
<1>. DEFINE e == Ensured(Chosen(c, req), req)
<1>1. c \in Configs
  BY ProfilesAssumption
<1>2. OwnLed(c.rules)
  BY <1>1, ProfileOwnLed
<1>3. e \in Configs /\ OwnLed(e.rules)
  BY <1>1, <1>2, ChosenIs, EnsuredIs, EnsuredLed
<1>4. Inject(c, req) = ApplyPolicy(e, req, FALSE) /\ Governed(req, FALSE)
  BY InjectIs DEF Governed
<1>. HIDE DEF e
<1>5. Splits(ApplyPolicy(e, req, FALSE).rules, req)
  BY <1>3, <1>4, AppliedSplits
<1>. QED  BY <1>4, <1>5

\* what the extension leaves of the rules
Prepared(rules, keep) ==
  Strip(Retain(rules, {r \in Rules : r.out # "api" /\ ~IsApi(r)}), Dropped(keep), DroppedIps)

LEMMA PreparedCat ==
  ASSUME NEW s \in Seq(Rules), NEW t \in Seq(Rules), NEW keep
  PROVE  Prepared(s \o t, keep) = Prepared(s, keep) \o Prepared(t, keep)
<1>. DEFINE kr == {r \in Rules : r.out # "api" /\ ~IsApi(r)}
            ds == Dropped(keep)
            a == Retain(s, kr)
            b == Retain(t, kr)
<1>. HIDE DEF kr, ds
<1>1. Retain(s \o t, kr) = a \o b
  BY RuleRetainCat
<1>2. a \in Seq(Rules) /\ b \in Seq(Rules)
  BY RuleRetain
<1>. HIDE DEF a, b
<1>3. Strip(a \o b, ds, DroppedIps) = Strip(a, ds, DroppedIps) \o Strip(b, ds, DroppedIps)
  BY <1>2, StripCat, SMTT(30)
<1>. QED  BY <1>1, <1>3 DEF Prepared, kr, ds, a, b

LEMMA PreparedElems ==
  ASSUME NEW s \in Seq(Rules), NEW keep
  PROVE  /\ Prepared(s, keep) \in Seq(Rules)
         /\ \A r : r \in Elems(Prepared(s, keep)) <=>
              Effective(r) /\ \E q \in Elems(s) :
                /\ q.out # "api" /\ ~IsApi(q)
                /\ r = Less(q, Dropped(keep), DroppedIps)
<1>. DEFINE kr == {r \in Rules : r.out # "api" /\ ~IsApi(r)}
            ds == Dropped(keep)
            left == Retain(s, kr)
<1>1. \A q : q \in Elems(s) \cap kr <=> q \in Elems(s) /\ q.out # "api" /\ ~IsApi(q)
  BY RuleElems
<1>. HIDE DEF kr, ds
<1>2. left \in Seq(Rules) /\ Elems(left) = Elems(s) \cap kr
  BY RuleRetain
<1>. HIDE DEF left
<1>3. /\ Strip(left, ds, DroppedIps) \in Seq(Rules)
      /\ \A r : r \in Elems(Strip(left, ds, DroppedIps)) <=>
           Effective(r) /\ \E q \in Elems(left) : r = Less(q, ds, DroppedIps)
  BY <1>2, StripElems
<1>4. \A q : q \in Elems(left) <=> q \in Elems(s) /\ q.out # "api" /\ ~IsApi(q)
  BY <1>1, <1>2
<1>5. Prepared(s, keep) = Strip(left, ds, DroppedIps)
  BY DEF Prepared, left, kr, ds
<1>. DEFINE w == Strip(left, ds, DroppedIps)
<1>. HIDE DEF w
<1>6. /\ w \in Seq(Rules)
      /\ \A r : r \in Elems(w) <=> Effective(r) /\ \E q \in Elems(s) :
            q.out # "api" /\ ~IsApi(q) /\ r = Less(q, ds, DroppedIps)
  BY <1>3, <1>4 DEF w
<1>7. Prepared(s, keep) = w
  BY <1>5 DEF w
<1>. QED  BY <1>6, <1>7 DEF ds

LEMMA PreparedSorts ==
  ASSUME NEW s \in Seq(Rules), Sorts(s), NEW keep
  PROVE  Sorts(Prepared(s, keep))
<1>. DEFINE ds == Dropped(keep)
            w == Prepared(s, keep)
<1>1. \A r : r \in Elems(w) <=> Effective(r) /\ \E q \in Elems(s) :
            q.out # "api" /\ ~IsApi(q) /\ r = Less(q, ds, DroppedIps)
  BY PreparedElems
<1>. HIDE DEF w, ds
<1>2. DnsDirect \in Elems(w)
  <2>1. Less(DnsDirect, ds, DroppedIps) = DnsDirect /\ Effective(DnsDirect)
    BY ConstantsAssumption, LessOthers
  <2>2. DnsDirect.out # "api" /\ ~IsApi(DnsDirect)
    BY DEF DnsDirect, Rule, IsApi
  <2>3. DnsDirect \in Elems(s)
    BY DEF Sorts
  <2>. QED  BY <1>1, <2>1, <2>2, <2>3
<1>3. ASSUME NEW r \in Elems(w)
      PROVE  /\ r.inbound # {} /\ r.inbound \subseteq {"api", "dns-direct", "dns-remote"}
             /\ "dns-direct" \in r.inbound => r.out = "direct"
  <2>1. PICK q \in Elems(s) : r = Less(q, ds, DroppedIps)
    BY <1>1, <1>3
  <2>2. q \in Rules
    BY RuleElems
  <2>3. r.inbound = q.inbound /\ r.out = q.out
    BY <2>1, <2>2, LessType
  <2>. QED  BY <2>3 DEF Sorts
<1>4. Sorts(w)
  BY <1>2, <1>3 DEF Sorts
<1>. QED  BY <1>4 DEF w

LEMMA PreparedParts ==
  ASSUME NEW s \in Seq(Rules), NEW req \in Requests, Parts(s, req), NEW keep
  PROVE  Parts(Prepared(s, keep), req)
<1>. DEFINE ds == Dropped(keep)
            w == Prepared(s, keep)
<1>1. \A r : r \in Elems(w) <=> Effective(r) /\ \E q \in Elems(s) :
            q.out # "api" /\ ~IsApi(q) /\ r = Less(q, ds, DroppedIps)
  BY PreparedElems
<1>2. ds \subseteq Geodata
  BY DEF Dropped
<1>. HIDE DEF w, ds
<1>3. Port53 \in Elems(w)
  <2>1. Less(Port53, ds, DroppedIps) = Port53 /\ Effective(Port53)
    BY ConstantsAssumption, LessOthers
  <2>2. Port53.out # "api" /\ ~IsApi(Port53)
    BY DEF Port53, Rule, IsApi
  <2>3. Port53 \in Elems(s)
    BY DEF Parts
  <2>. QED  BY <1>1, <2>1, <2>2, <2>3
<1>4. ASSUME TrafficDomains(req) \ Geodata # {}
      PROVE  \E names \in SUBSET Selectors : /\ TrafficDomains(req) \ Geodata \subseteq names
                                             /\ DomainRule(names, "direct") \in Elems(w)
  <2>1. PICK names \in SUBSET Selectors : /\ TrafficDomains(req) \ Geodata \subseteq names
                                          /\ DomainRule(names, "direct") \in Elems(s)
    BY <1>4 DEF Parts
  <2>. DEFINE left == names \ ds
  <2>2. left \in SUBSET Selectors /\ TrafficDomains(req) \ Geodata \subseteq left /\ left # {}
    BY <1>2, <1>4, <2>1
  <2>3. "direct" \in Names
    BY ConstantsAssumption
  <2>4. Less(DomainRule(names, "direct"), ds, DroppedIps) = DomainRule(left, "direct")
    BY <2>3, LessDomainRule
  <2>5. Effective(DomainRule(left, "direct"))
    <3>. HIDE DEF left
    <3>. QED  BY <2>2, <2>3, LessDomainRule
  <2>6. DomainRule(names, "direct").out # "api" /\ ~IsApi(DomainRule(names, "direct"))
    BY DEF DomainRule, Rule, IsApi
  <2>. HIDE DEF left
  <2>7. DomainRule(left, "direct") \in Elems(w)
    BY <1>1, <2>1, <2>4, <2>5, <2>6
  <2>. QED  BY <2>2, <2>7
<1>5. ASSUME NEW r \in Elems(w) PROVE r = Port53 \/ (r.out = "direct" /\ DirectForm(req, r))
  <2>1. PICK q \in Elems(s) : r = Less(q, ds, DroppedIps) /\ Effective(r)
    BY <1>1, <1>5
  <2>2. q \in Rules
    BY RuleElems
  <2>3. CASE q = Port53
    BY <2>1, <2>3, ConstantsAssumption, LessOthers
  <2>4. CASE q.out = "direct" /\ DirectForm(req, q)
    <3>1. DirectForm(req, r)
      BY <2>1, <2>4, DirectFormLess
    <3>2. r.out = q.out
      BY <2>1, <2>2, LessType
    <3>. QED  BY <2>4, <3>1, <3>2
  <2>. QED  BY <2>3, <2>4 DEF Parts
<1>6. Parts(w, req)
  BY <1>3, <1>4, <1>5 DEF Parts
<1>. QED  BY <1>6 DEF w

LEMMA PreparedSplits ==
  ASSUME NEW rules, NEW req \in Requests, Splits(rules, req), NEW keep
  PROVE  Splits(Prepared(rules, keep), req)
<1>1. PICK s, t, u \in Seq(Rules) : rules = s \o (t \o u) /\ Sorts(s) /\ Parts(t, req)
  BY DEF Splits
<1>. DEFINE tu == t \o u
<1>2. tu \in Seq(Rules) /\ rules = s \o tu /\ s \in Seq(Rules) /\ t \in Seq(Rules) /\ u \in Seq(Rules)
  BY <1>1, RuleCat
<1>3. Prepared(tu, keep) = Prepared(t, keep) \o Prepared(u, keep)
  BY PreparedCat
<1>. HIDE DEF tu
<1>4. Prepared(s \o tu, keep) = Prepared(s, keep) \o Prepared(tu, keep)
  BY <1>2, PreparedCat, SMTT(30)
<1>5. Sorts(Prepared(s, keep)) /\ Prepared(s, keep) \in Seq(Rules)
  BY <1>1, PreparedSorts, PreparedElems
<1>6. Parts(Prepared(t, keep), req) /\ Prepared(t, keep) \in Seq(Rules)
  BY <1>1, PreparedParts, PreparedElems
<1>7. Prepared(u, keep) \in Seq(Rules)
  BY PreparedElems
<1>. QED  BY <1>2, <1>3, <1>4, <1>5, <1>6, <1>7 DEF Splits

-----------------------------------------------------------------------------
(* The way of a packet the split names.                                      *)

\* what the promise about the split asks of the profiles
ProfilesSplit == \A c \in Profiles : TagsMeanIt(c) /\ OnlyDnsToDns(c) /\ OwnRulesLead(c)

LEMMA GraphSplits ==
  ASSUME NEW req \in Requests, Kept(req), ProfilesSplit, Graph(req).xray # None,
         req.policy = None => Marker \notin UserDomains(req, "direct")
  PROVE  Splits(Graph(req).xray.rules, req)
<1>1. Splits(Xray(req).rules, req)
  <2>1. CASE req.profile = None
    BY <2>1, BuildSplits DEF Xray
  <2>2. CASE req.profile # None
    <3>1. req.policy # None /\ req.profile \in Profiles
      BY <2>2 DEF Kept
    <3>. QED  BY <2>2, <3>1, InjectSplits DEF Xray, ProfilesSplit
  <2>. QED  BY <2>1, <2>2
<1>2. Xray(req) \in Configs /\ UsesXray(req)
  BY XrayConfig, GraphIs
<1>3. CASE InExtension(req)
  <2>. DEFINE keep == HasAsset(req)
              c == Xray(req)
  <2>1. Graph(req).xray = Prepare(c, keep)
    BY <1>3, GraphIs
  <2>2. c \in Configs /\ Splits(c.rules, req)
    BY <1>1, <1>2
  <2>. HIDE DEF keep, c
  <2>3. Splits(Prepared(c.rules, keep), req)
    BY <2>2, PreparedSplits
  <2>4. Prepare(c, keep).rules = Prepared(c.rules, keep)
    BY <2>2 DEF Prepare, RewriteGeodata, Prepared, Dropped, DroppedIps, Configs
  <2>. QED  BY <2>1, <2>3, <2>4
<1>4. CASE ~InExtension(req)
  BY <1>1, <1>2, <1>4, GraphIs
<1>. QED  BY <1>3, <1>4

\* the outbounds of the service's own tags
LEMMA GraphMeans ==
  ASSUME NEW req \in Requests, Kept(req), Graph(req).xray # None
  PROVE  TagsMeanIt(Graph(req).xray)
<1>1. TagsMeanIt(Xray(req))
  <2>1. CASE req.profile = None
    <3>. DEFINE c == Base(req)
    <3>1. c \in Configs /\ c.outbounds = BuildOutbounds(req)
      BY BaseIs
    <3>2. Xray(req) = ApplyPolicy(c, req, TRUE)
      BY <2>1, BuildIs DEF Xray
    <3>. HIDE DEF c
    <3>3. Xray(req).outbounds = BuildOutbounds(req)
      <4>1. ApplyPolicy(c, req, TRUE).outbounds = c.outbounds
        BY <3>1, AppliedIs
      <4>. QED  BY <3>1, <3>2, <4>1
    <3>. QED  BY <3>3, BuildOutboundsAre DEF TagsMeanIt
  <2>2. CASE req.profile # None
    <3>. DEFINE p == req.profile
                k == Chosen(p, req)
                e == Ensured(k, req)
    <3>1. req.policy # None /\ p \in Profiles /\ TagsMeanIt(p) /\ p \in Configs
      BY <2>2, ProfilesAssumption DEF Kept, ProfilesMeanIt
    <3>2. Xray(req) = ApplyPolicy(e, req, FALSE)
      BY <2>2, InjectIs DEF Xray
    <3>. HIDE DEF p
    <3>3. k \in Configs /\ \A o \in Elems(k.outbounds) : o \in Elems(p.outbounds)
      BY <3>1, ChosenIs, KeptOutbounds
    <3>. HIDE DEF k
    <3>4. e \in Configs /\ e.outbounds = EnsureOutbounds(k.outbounds)
      BY <3>3, EnsuredIs
    <3>. HIDE DEF e
    <3>5. Xray(req).outbounds = EnsureOutbounds(k.outbounds)
      <4>1. ApplyPolicy(e, req, FALSE).outbounds = e.outbounds
        BY <3>4, AppliedIs
      <4>. QED  BY <3>2, <3>4, <4>1
    <3>6. ASSUME NEW o \in Elems(EnsureOutbounds(k.outbounds))
          PROVE  o \in Elems(p.outbounds) \/ o \in AddedOutbounds
      BY <3>3, <3>6, ConfigFields, EnsureIs
    <3>. QED  BY <3>1, <3>5, <3>6 DEF TagsMeanIt, AddedOutbounds
  <2>. QED  BY <2>1, <2>2
<1>2. Xray(req) \in Configs /\ UsesXray(req)
  BY XrayConfig, GraphIs
<1>3. CASE InExtension(req)
  <2>. DEFINE keep == HasAsset(req)
              c == Xray(req)
  <2>1. Graph(req).xray = Prepare(c, keep)
    BY <1>3, GraphIs
  <2>2. c \in Configs /\ TagsMeanIt(c)
    BY <1>1, <1>2
  <2>. HIDE DEF keep, c
  <2>3. Elems(Prepare(c, keep).outbounds) \subseteq Elems(c.outbounds)
    BY <2>2, PrepareIs
  <2>. QED  BY <2>1, <2>2, <2>3 DEF TagsMeanIt
<1>4. CASE ~InExtension(req)
  BY <1>1, <1>2, <1>4, GraphIs
<1>. QED  BY <1>3, <1>4

\* where the service's own tags lead
LEMMA OwnTagsLead ==
  ASSUME NEW c, NEW req, Held(c, req), TagsMeanIt(c), NEW tag, NEW o \in Stands(c, tag)
  PROVE  /\ tag = "direct" => Route(o) = "direct"
         /\ tag = "dns-out" => Route(o) = "xray_dns"
<1>1. tag \in {"direct", "dns-out"} => o.tag = tag
  <2>1. \A b \in c.balancers : b.tag = "balancer"
    BY DEF Held
  <2>. QED  BY <2>1, StandsIs
<1>2. o \in Elems(c.outbounds)
  BY StandsIs
<1>. QED  BY <1>1, <1>2 DEF TagsMeanIt, Route

LEMMA NamedIs ==
  ASSUME NEW req \in Requests, NEW p, Named(req, p)
  PROVE  /\ p.domain \in DnsDomains(req)
         /\ p.domain \in ToSingbox(TrafficDomains(req)) /\ p.domain \in ToSingbox(DnsDomains(req))
<1>1. p.domain \in TrafficDomains(req) /\ p.domain \notin Geodata
  BY DEF Named, Ordinary
<1>2. p.domain \in DnsDomains(req)
  <2>1. req.policy # None => req.policy.dns \in {{}, req.policy.direct}
    BY DEF Named, Ordinary
  <2>. QED  BY <1>1, <2>1 DEF TrafficDomains, DnsDomains
<1>. QED  BY <1>1, <1>2 DEF ToSingbox

\* the packets of the bridge of system-proxy mode that are handed on
HandedOn(req, p) ==
  p.inbound = "tun" =>
    p.process \in UserProcs(req, "proxy") \ (UserProcs(req, "direct") \cup UserProcs(req, "block"))
Followed(req, p) == Named(req, Seen(p)) /\ HandedOn(req, p)

SplitWay ==
  /\ at \in {"apps", "box", "box_dns", "xray", "xray_dns", "direct"}
  /\ via = None \/ (via = "direct" /\ at \in {"apps", "direct"})
  /\ at \in {"box", "box_dns"} => leg = Seen(packet)
  /\ at \in {"xray", "xray_dns"} =>
       /\ graph.box = None
       /\ leg = Seen(packet) \/ (leg = Redirected(Seen(packet)) /\ packet.dns)
  /\ at \in {"box_dns", "xray_dns"} => packet.dns
\* A packet the split names passes no engine but to leave directly, or to ask the DNS
\* module for a resolver that is asked directly.
SplitTravels == packet # None /\ Kept(request) /\ Followed(request, packet) => SplitWay

LEMMA FollowedStays ==
  ASSUME request' = request, packet' = packet
  PROVE  /\ Followed(request, packet)' <=> Followed(request, packet)
         /\ Kept(request)' <=> Kept(request) /\ Seen(packet)' = Seen(packet)
BY DEF Followed, HandedOn, Named, Ordinary, Kept, TrafficDomains, Values, UserDomains, UserProcs,
       Split, Tun, Seen, Handed

LEMMA FollowedPacket ==
  ASSUME TypeInv, packet # None, Followed(request, packet)
  PROVE  /\ packet \in Packets \cup Captured /\ packet.dns \in BOOLEAN
         /\ Seen(packet) \in PacketForms /\ Seen(packet).dns = packet.dns
         /\ Named(request, Seen(packet))
<1>1. packet \in {StatsQuery} \cup Packets \cup Captured /\ Named(request, Seen(packet))
  BY DEF TypeInv, Followed
<1>2. packet # StatsQuery
  BY <1>1 DEF Named, Ordinary, StatsQuery, Seen
<1>. QED  BY <1>1, <1>2, PacketIs

LEMMA AppRouteSplits ==
  TypeInv /\ Travels /\ SplitTravels /\ AppRoute => SplitTravels'
<1>. SUFFICES ASSUME TypeInv, Travels, AppRoute, SplitWay, Kept(request), Followed(request, packet)
              PROVE  SplitWay'
  <2>1. AppRoute => request' = request /\ packet' = packet
    BY DEF AppRoute
  <2>. QED  BY <2>1, FollowedStays DEF SplitTravels
<1>. DEFINE out == AppOut(request, leg)
            p == Seen(packet)
<1>1. /\ at = "apps" /\ UNCHANGED <<request, graph, packet, via>>
      /\ \/ /\ out \in {"proxy", "final"}
            /\ at' = IF graph.xray # None THEN "xray" ELSE "box"
            /\ leg' = Handed(leg)
         \/ /\ out \in {"direct", "block", "final"}
            /\ at' = CASE out = "block" -> "block"
                       [] via # None -> via
                       [] OTHER -> "direct"
            /\ leg' = leg
  BY AppRouteIs
<1>2. /\ request \in Requests /\ graph = Graph(request) /\ graph.apps # << >> /\ packet # None
      /\ leg \in PacketForms
  BY <1>1 DEF TypeInv, Early
<1>3. PerApp(request) /\ (UsesXray(request) => graph.box = None)
  BY <1>2, AppsOrBridge
<1>4. p' = p
  BY <1>1, FollowedStays
<1>5. CASE via = None
  <2>1. leg = packet /\ packet \in Captured /\ packet.process # "xray" /\ packet.inbound = "tun"
        /\ p = Handed(packet)
    BY <1>1, <1>2, <1>5, PacketIs DEF Travels
  <2>2. /\ packet.process \in UserProcs(request, "proxy")
        /\ packet.process \notin UserProcs(request, "direct") \cup UserProcs(request, "block")
    BY <2>1 DEF Followed, HandedOn
  <2>3. packet.ip = "public"
    <3>1. p.ip = "public"
      BY DEF Followed, Named, Ordinary
    <3>. QED  BY <1>2, <2>1, <3>1, HandedIs
  <2>4. ~(Split(request) /\ packet.ip \in request.policy.ranges)
    BY <1>2, <2>3, FewSelectors
  <2>5. out = "proxy"
    BY <1>2, <1>3, <2>1, <2>2, <2>3, <2>4, AppSends
  <2>6. at' = (IF graph.xray # None THEN "xray" ELSE "box") /\ leg' = p
    BY <1>1, <2>1, <2>5
  <2>7. graph.xray # None => graph.box = None
    BY <1>2, <1>3, GraphIs
  <2>. HIDE DEF out, p
  <2>. QED  BY <1>1, <1>4, <1>5, <2>6, <2>7 DEF SplitWay, p
<1>6. CASE via # None
  <2>1. out = "direct" /\ via = "direct"
    BY <1>1, <1>2, <1>3, <1>6, AppsLetXrayOut DEF Travels, SplitWay
  <2>2. at' = "direct" /\ via' = via
    BY <1>1, <1>6, <2>1
  <2>. HIDE DEF out
  <2>. QED  BY <2>1, <2>2 DEF SplitWay
<1>. QED  BY <1>5, <1>6

LEMMA BoxRouteSplits ==
  TypeInv /\ SplitTravels /\ BoxRoute => SplitTravels'
<1>. SUFFICES ASSUME TypeInv, BoxRoute, SplitWay, Kept(request), Followed(request, packet) PROVE SplitWay'
  <2>1. BoxRoute => request' = request /\ packet' = packet
    BY DEF BoxRoute
  <2>. QED  BY <2>1, FollowedStays DEF SplitTravels
<1>. DEFINE out == FirstMatch(graph.box.rules, leg, "proxy")
<1>1. /\ at = "box"
      /\ at' = CASE out = "hijack" -> "box_dns"
                 [] out = "direct" -> IF via # None THEN via ELSE "direct"
                 [] out = "block" -> "block"
                 [] OTHER -> IF graph.xray # None THEN "xray" ELSE graph.box.proxy
      /\ UNCHANGED <<request, graph, packet, leg, via>>
  BY DEF BoxRoute
<1>2. /\ request \in Requests /\ graph = Graph(request) /\ graph.box # None /\ packet # None
  BY <1>1 DEF TypeInv, Early
<1>. DEFINE p == Seen(packet)
<1>3. leg = p /\ via = None /\ packet.dns \in BOOLEAN /\ p.dns = packet.dns /\ p' = p
  BY <1>1, <1>2, FollowedPacket, FollowedStays DEF SplitWay
<1>4. Ordinary(request, p) /\ p.domain \in TrafficDomains(request)
  BY <1>2, FollowedPacket DEF Named
<1>5. out = IF packet.dns THEN "hijack" ELSE "direct"
  <2>1. CASE UsesXray(request)
    <3>1. graph.box.rules = BridgeRules(request)
      BY <1>2, <2>1, BoxIs, BoxesTyped
    <3>2. p.process # "xray"
      BY <1>2, <2>1, BridgeSeesApps
    <3>. HIDE DEF p
    <3>. QED  BY <1>2, <1>3, <1>4, <3>1, <3>2, BridgeKeepsSplit
  <2>2. CASE ~UsesXray(request)
    <3>1. graph.box.rules = BoxRules(request)
      BY <1>2, <2>2, BoxIs, BoxesTyped
    <3>. HIDE DEF p
    <3>. QED  BY <1>2, <1>3, <1>4, <3>1, BoxKeepsSplit
  <2>. QED  BY <2>1, <2>2
<1>. HIDE DEF out
<1>6. at' = IF packet.dns THEN "box_dns" ELSE "direct"
  BY <1>1, <1>3, <1>5
<1>. QED  BY <1>1, <1>3, <1>6 DEF SplitWay

LEMMA BoxResolveSplits ==
  TypeInv /\ SplitTravels /\ BoxResolve => SplitTravels'
<1>. SUFFICES ASSUME TypeInv, BoxResolve, SplitWay, Kept(request), Followed(request, packet) PROVE SplitWay'
  <2>1. BoxResolve => request' = request /\ packet' = packet
    BY DEF BoxResolve
  <2>. QED  BY <2>1, FollowedStays DEF SplitTravels
<1>. DEFINE q == [leg EXCEPT !.dns = FALSE]
            server == FirstMatch(graph.box.dns, q, "dns-remote")
<1>1. /\ at = "box_dns"
      /\ at' = CASE server = "dns-direct" -> "direct"
                 [] server = "dns-fakeip" -> "answered"
                 [] OTHER -> IF graph.xray # None THEN "xray" ELSE graph.box.proxy
      /\ UNCHANGED <<request, graph, packet, via>>
  BY DEF BoxResolve
<1>2. /\ request \in Requests /\ graph = Graph(request) /\ graph.box # None /\ packet # None
  BY <1>1 DEF TypeInv, Early
<1>. DEFINE p == Seen(packet)
<1>3. leg = p /\ via = None /\ p \in PacketForms /\ Named(request, p)
  BY <1>1, <1>2, FollowedPacket DEF SplitWay
<1>. HIDE DEF p
<1>4. q.domain = p.domain /\ ~q.dns
  BY <1>3 DEF PacketForms
<1>. HIDE DEF q
<1>5. server = "dns-direct"
  <2>1. CASE UsesXray(request)
    <3>. DEFINE names == ToSingbox(DnsDomains(request))
    <3>1. graph.box.dns = DnsRules(request, names, "realip")
      BY <1>2, <2>1, BoxIs, BoxesTyped DEF BridgeDns
    <3>2. q.domain \in names /\ names \in SUBSET Selectors
      BY <1>2, <1>3, <1>4, NamedIs, Selections
    <3>. HIDE DEF names
    <3>3. FirstMatch(DnsRules(request, names, "realip"), q, "dns-remote") = "dns-direct"
      BY <1>2, <1>4, <3>2, DnsDecides
    <3>. QED  BY <3>1, <3>3
  <2>2. CASE ~UsesXray(request)
    <3>. DEFINE names == UserDomains(request, "direct") \cup ToSingbox(TrafficDomains(request))
                mode == request.dns_mode
    <3>1. graph.box.dns = DnsRules(request, names, mode)
      BY <1>2, <2>2, BoxIs, BoxesTyped DEF BoxDns
    <3>2. q.domain \in names /\ names \in SUBSET Selectors
      BY <1>2, <1>3, <1>4, NamedIs, Selections
    <3>. HIDE DEF names, mode
    <3>3. FirstMatch(DnsRules(request, names, mode), q, "dns-remote") = "dns-direct"
      BY <1>2, <1>4, <3>2, DnsDecides
    <3>. QED  BY <3>1, <3>3
  <2>. QED  BY <2>1, <2>2
<1>. HIDE DEF server
<1>. QED  BY <1>1, <1>3, <1>5 DEF SplitWay

LEMMA XrayRouteSplits ==
  ProfilesSplit /\ TypeInv /\ SplitTravels /\ XrayRoute => SplitTravels'
<1>. SUFFICES ASSUME ProfilesSplit, TypeInv, XrayRoute, SplitWay, Kept(request), Followed(request, packet)
              PROVE  SplitWay'
  <2>1. TypeInv /\ XrayRoute => request' = request /\ packet' = packet /\ packet # None
    BY DEF XrayRoute, TypeInv, Early
  <2>. QED  BY <2>1, FollowedStays DEF SplitTravels
<1>1. PICK o \in Stands(graph.xray, FirstMatch(graph.xray.rules, leg, graph.xray.outbounds[1].tag)) :
        /\ at = "xray" /\ UNCHANGED <<request, graph, packet>>
        /\ IF Route(o) \in {"direct", "proxy"} /\ (graph.box # None \/ graph.apps # << >>)
           THEN /\ at' = (IF graph.box # None THEN "box" ELSE "apps") /\ via' = Route(o)
                /\ leg' = [leg EXCEPT !.process = "xray", !.inbound = "app"]
           ELSE at' = Route(o) /\ UNCHANGED <<via, leg>>
  BY DEF XrayRoute
<1>2. /\ request \in Requests /\ graph = Graph(request) /\ graph.xray # None /\ packet # None
  BY <1>1 DEF TypeInv, Early
<1>. DEFINE p == Seen(packet)
<1>3. /\ graph.box = None /\ via = None /\ p' = p
      /\ leg = p \/ (leg = Redirected(p) /\ packet.dns)
  BY <1>1, FollowedStays DEF SplitWay
<1>4. p \in PacketForms /\ p.dns = packet.dns /\ packet.dns \in BOOLEAN /\ Named(request, p)
  BY <1>2, FollowedPacket
<1>5. request.policy = None => Marker \notin UserDomains(request, "direct")
  BY <1>4 DEF Named, Ordinary
<1>. DEFINE c == graph.xray
            tag == FirstMatch(c.rules, leg, c.outbounds[1].tag)
            r == Route(o)
<1>6. Splits(c.rules, request) /\ Held(c, request) /\ TagsMeanIt(c) /\ o \in Stands(c, tag)
  BY <1>1, <1>2, <1>5, GraphSplits, GraphHeld, GraphMeans
<1>7. /\ packet' = packet /\ graph' = graph
      /\ \/ at' = r /\ leg' = leg /\ via' = None
         \/ r \in {"direct", "proxy"} /\ at' = "apps" /\ via' = r
  BY <1>1, <1>3
<1>. HIDE DEF c, p
<1>8. CASE leg = p
  <2>1. tag = IF p.dns THEN "dns-out" ELSE "direct"
    BY <1>2, <1>4, <1>6, <1>8, SplitsPacket
  <2>. HIDE DEF tag
  <2>2. r = IF packet.dns THEN "xray_dns" ELSE "direct"
    BY <1>4, <1>6, <2>1, OwnTagsLead
  <2>. HIDE DEF r
  <2>. QED  BY <1>3, <1>7, <1>8, <2>2 DEF SplitWay, p
<1>9. CASE leg = Redirected(p) /\ packet.dns
  <2>1. leg.inbound = "dns-direct"
    BY <1>4, <1>9, RedirectedIs
  <2>2. tag = "direct"
    BY <1>6, <2>1, SplitsQuery
  <2>. HIDE DEF tag
  <2>3. r = "direct"
    BY <1>6, <2>2, OwnTagsLead
  <2>. HIDE DEF r
  <2>. QED  BY <1>3, <1>7, <2>3 DEF SplitWay
<1>. QED  BY <1>3, <1>8, <1>9

LEMMA XrayResolveSplits ==
  TypeInv /\ SplitTravels /\ XrayResolve => SplitTravels'
<1>. SUFFICES ASSUME TypeInv, XrayResolve, SplitWay, Kept(request), Followed(request, packet) PROVE SplitWay'
  <2>1. TypeInv /\ XrayResolve => request' = request /\ packet' = packet /\ packet # None
    BY DEF XrayResolve, TypeInv, Early
  <2>. QED  BY <2>1, FollowedStays DEF SplitTravels
<1>1. /\ at = "xray_dns" /\ at' = "xray" /\ UNCHANGED <<request, graph, packet, via>>
      /\ leg' = IF leg.domain \in graph.xray.dns THEN Redirected(leg) ELSE Doh("dns-remote")
  BY DEF XrayResolve, Redirected
<1>2. /\ request \in Requests /\ graph = Graph(request) /\ graph.xray # None /\ packet # None
  BY <1>1 DEF TypeInv, Early
<1>. DEFINE p == Seen(packet)
<1>3. p \in PacketForms /\ Named(request, p)
  BY <1>2, FollowedPacket
<1>4. /\ graph.box = None /\ via = None /\ packet.dns /\ p' = p
      /\ leg = p \/ leg = Redirected(p)
  BY <1>1, FollowedStays DEF SplitWay
<1>. HIDE DEF p
<1>5. graph.xray.dns = DnsDomains(request)
  BY <1>2, GraphHeld DEF Held
<1>6. leg.domain = p.domain /\ Redirected(leg) = Redirected(p)
  BY <1>3, <1>4, RedirectedIs
<1>7. leg' = Redirected(p)
  BY <1>1, <1>2, <1>3, <1>5, <1>6, NamedIs
<1>. QED  BY <1>1, <1>4, <1>7 DEF SplitWay, p

LEMMA StepSplits ==
  ProfilesSplit /\ TypeInv /\ Travels /\ SplitTravels /\ [Next]_vars => SplitTravels'
<1>. SUFFICES ASSUME ProfilesSplit, TypeInv, Travels, SplitTravels, [Next]_vars PROVE SplitTravels'
  OBVIOUS
<1>1. CASE Refuse
  BY <1>1 DEF Refuse, SplitTravels, TypeInv, Early
<1>2. CASE BuildGraph
  BY <1>2 DEF BuildGraph, SplitTravels, TypeInv, Early
<1>3. CASE Send
  <2>1. /\ at = "ready" /\ request' = request /\ graph' = graph /\ via' = via /\ leg' = packet'
        /\ \/ packet' \in Packets /\ at' = IF graph.box # None THEN "box" ELSE "xray"
           \/ packet' \in Captured /\ at' = "apps"
           \/ packet' = StatsQuery
    BY <1>3 DEF Send
  <2>2. packet' = StatsQuery => ~Followed(request, packet)'
    BY <2>1 DEF StatsQuery, Followed, Named, Ordinary, Seen
  <2>3. via = None
    BY <2>1 DEF TypeInv, Travels, Early
  <2>4. CASE packet' \in Packets /\ at' = IF graph.box # None THEN "box" ELSE "xray"
    <3>1. leg' = Seen(packet)'
      BY <2>1, <2>4, PacketTypes DEF Seen
    <3>. QED  BY <2>1, <2>3, <2>4, <3>1 DEF SplitTravels, SplitWay
  <2>5. CASE packet' \in Captured /\ at' = "apps"
    BY <2>1, <2>3, <2>5 DEF SplitTravels, SplitWay
  <2>. QED  BY <2>1, <2>2, <2>4, <2>5 DEF SplitTravels
<1>4. CASE AppRoute
  BY <1>4, AppRouteSplits
<1>5. CASE BoxRoute
  BY <1>5, BoxRouteSplits
<1>6. CASE BoxResolve
  BY <1>6, BoxResolveSplits
<1>7. CASE XrayRoute
  BY <1>7, XrayRouteSplits
<1>8. CASE XrayResolve
  BY <1>8, XrayResolveSplits
<1>9. CASE UNCHANGED vars
  <2>1. request' = request /\ packet' = packet
    BY <1>9 DEF vars
  <2>. QED  BY <1>9, <2>1, FollowedStays DEF vars, SplitTravels, SplitWay
<1>. QED  BY <1>1, <1>2, <1>3, <1>4, <1>5, <1>6, <1>7, <1>8, <1>9 DEF Next

\* what leaves directly though no rule of the user is about it
LEMMA OrdinaryDirect ==
  ASSUME NEW req \in Requests, NEW p, Ordinary(req, p), Allowed(req, p)
  PROVE  p.domain \in TrafficDomains(req)
<1>1. /\ p.ip = "public" /\ p.domain \notin Values(req) /\ p.process \notin SteamProcs \cup Values(req)
      /\ req.policy # None => req.policy.dns \in {{}, req.policy.direct}
  BY DEF Ordinary
<1>2. p.domain \notin UserDomains(req, "direct") /\ p.process \notin UserProcs(req, "direct")
  BY <1>1, UserValues
<1>3. ~(Split(req) /\ p.ip \in req.policy.ranges)
  BY <1>1, FewSelectors
<1>4. p.domain \in DnsDomains(req) => p.domain \in TrafficDomains(req)
  BY <1>1 DEF DnsDomains, TrafficDomains
<1>. QED  BY <1>1, <1>2, <1>3, <1>4 DEF Allowed

LEMMA FollowedDirect ==
  ASSUME NEW req \in Requests, NEW p \in {StatsQuery} \cup Packets \cup Captured,
         Ordinary(req, Seen(p)), HandedOn(req, p), Free(req, p)
  PROVE  p.domain \in TrafficDomains(req)
<1>1. Seen(p).domain = p.domain /\ Seen(p).ip = p.ip
  BY PacketIs
<1>2. CASE Allowed(req, Seen(p))
  BY <1>1, <1>2, OrdinaryDirect
<1>3. CASE p.inbound = "tun" /\ ~Allowed(req, Seen(p))
  <2>1. p.process \in UserProcs(req, "proxy") /\ p.process \notin UserProcs(req, "direct")
    BY <1>3 DEF HandedOn
  <2>2. p.ip = "public" /\ p.domain \notin Values(req)
    BY <1>1 DEF Ordinary
  <2>3. Allowed(req, p)
    BY <1>3, <2>1, <2>2 DEF Free
  <2>4. p.domain \notin UserDomains(req, "direct") /\ ~(Split(req) /\ p.ip \in req.policy.ranges)
    BY <2>2, UserValues, FewSelectors
  <2>5. p.domain \in DnsDomains(req) => p.domain \in TrafficDomains(req)
    BY DEF Ordinary, DnsDomains, TrafficDomains
  <2>. QED  BY <2>1, <2>2, <2>3, <2>4, <2>5 DEF Allowed
<1>. QED  BY <1>2, <1>3 DEF Free

\* SplitIsSymmetric of Routing, for profiles whose outbounds "direct" and "dns-out" are what
\* their tags say, whose rules hand nothing but DNS to the latter and in which the service's
\* own rules come first.
THEOREM RoutingSplitIsSymmetric ==
  ASSUME \A c \in Profiles : TagsMeanIt(c) /\ OnlyDnsToDns(c) /\ OwnRulesLead(c)
  PROVE  Spec => []SplitIsSymmetric
<1>0. ProfilesSplit /\ ProfilesMeanIt
  BY DEF ProfilesSplit, ProfilesMeanIt
<1>1. Init => SplitTravels
  BY DEF Init, SplitTravels
<1>2. TypeInv /\ Travels /\ SplitTravels /\ [Next]_vars => SplitTravels'
  BY <1>0, StepSplits
<1>3. TypeInv /\ Travels /\ SplitTravels => SplitIsSymmetric
  <2>. DEFINE values == {r.value : r \in request.rules}
  <2>. SUFFICES ASSUME TypeInv, Travels, SplitTravels,
                       packet # None, packet.ip = "public", at \in Exits,
                       packet.domain \notin Geodata \cup values,
                       \/ packet.inbound = "app" /\ packet.process \notin SteamProcs \cup values
                       \/ /\ packet.inbound = "tun" /\ "xray" \notin values
                          /\ packet.process \in UserProcs(request, "proxy")
                          /\ packet.process \notin UserProcs(request, "direct")
                          /\ packet.process \notin UserProcs(request, "block"),
                       request.policy = None => /\ request.profile = None
                                                /\ Marker \notin UserDomains(request, "direct"),
                       request.policy # None => request.policy.dns \in {{}, request.policy.direct}
                PROVE  (at = "direct") <=> packet.domain \in TrafficDomains(request)
    BY DEF SplitIsSymmetric
  <2>1. request \in Requests /\ packet \in {StatsQuery} \cup Packets \cup Captured
    BY DEF TypeInv
  <2>2. /\ Seen(packet).domain = packet.domain /\ Seen(packet).ip = packet.ip
        /\ packet.inbound = "app" => Seen(packet) = packet
        /\ packet.inbound = "tun" => Seen(packet).process = "xray" /\ Seen(packet).inbound = "app"
    BY <2>1, PacketIs, HandedIs DEF Seen
  <2>3. Ordinary(request, Seen(packet)) /\ HandedOn(request, packet)
    BY <2>2, ConstantsAssumption DEF Ordinary, Values, HandedOn
  <2>4. Kept(request)
    BY <1>0 DEF Kept, TypeInv
  <2>5. ASSUME at = "direct" PROVE packet.domain \in TrafficDomains(request)
    <3>1. Free(request, packet)
      BY <2>4, <2>5 DEF Travels
    <3>. QED  BY <2>1, <2>3, <3>1, FollowedDirect
  <2>6. ASSUME packet.domain \in TrafficDomains(request) PROVE at = "direct"
    <3>1. Followed(request, packet)
      BY <2>2, <2>3, <2>6 DEF Followed, Named
    <3>. QED  BY <2>4, <3>1 DEF SplitTravels, SplitWay, Exits
  <2>. QED  BY <2>5, <2>6
<1>. QED  BY <1>1, <1>2, <1>3, TravelInvariance, PTL DEF Spec

-----------------------------------------------------------------------------
(* Every rule names an outbound that is there.                               *)

\* some outbound but the statistics interface's
Leadable(c, tag) == tag = "api" \/ \E o \in Stands(c, tag) : o.tag # "api"
OwnTags == {"direct", "dns-out", "api"}
\* the outbounds the client adds are there, and no balancer takes their names
HasOwn(c) == OwnTags \subseteq Tags(c.outbounds) /\ \A b \in c.balancers : b.tag \notin OwnTags
Reachable(c) == HasOwn(c) /\ \A r \in Elems(c.rules) : Leadable(c, r.out)

LEMMA StandsThere ==
  ASSUME NEW c, NEW tag, NEW o \in Elems(c.outbounds),
         \/ o.tag = tag /\ \A b \in c.balancers : b.tag # tag
         \/ \E b \in c.balancers : b.tag = tag /\ o.tag \in b.selects
  PROVE  o \in Stands(c, tag)
<1>1. PICK i \in DOMAIN c.outbounds : c.outbounds[i] = o
  BY DEF Elems
<1>2. CASE o.tag = tag /\ \A b \in c.balancers : b.tag # tag
  <2>1. Stands(c, tag) = {c.outbounds[j] : j \in {k \in DOMAIN c.outbounds : c.outbounds[k].tag \in {tag}}}
    BY <1>2 DEF Stands
  <2>. QED  BY <1>1, <1>2, <2>1
<1>3. CASE \E b \in c.balancers : b.tag = tag /\ o.tag \in b.selects
  <2>. DEFINE tags == UNION {b.selects : b \in {d \in c.balancers : d.tag = tag}}
  <2>1. Stands(c, tag) = {c.outbounds[j] : j \in {k \in DOMAIN c.outbounds : c.outbounds[k].tag \in tags}}
    BY <1>3 DEF Stands
  <2>2. o.tag \in tags
    BY <1>3
  <2>. HIDE DEF tags
  <2>. QED  BY <1>1, <2>1, <2>2
<1>. QED  BY <1>2, <1>3

\* where there are more outbounds, and as many balancers, more can be named
LEMMA StandsMore ==
  ASSUME NEW c, NEW d, d.balancers = c.balancers, NEW tag, NEW o \in Stands(c, tag),
         o \in Elems(d.outbounds)
  PROVE  o \in Stands(d, tag)
<1>1. CASE \A b \in c.balancers : b.tag # tag
  BY <1>1, StandsIs, StandsThere
<1>2. CASE \E b \in c.balancers : b.tag = tag
  BY <1>2, StandsIs, StandsThere
<1>. QED  BY <1>1, <1>2

LEMMA OwnStand ==
  ASSUME NEW c, HasOwn(c), NEW tag \in OwnTags
  PROVE  Leadable(c, tag) /\ Stands(c, tag) # {}
<1>1. PICK o \in Elems(c.outbounds) : o.tag = tag
  BY TagsOfElems DEF HasOwn
<1>2. o \in Stands(c, tag)
  BY <1>1, StandsThere DEF HasOwn
<1>. QED  BY <1>1, <1>2 DEF Leadable, OwnTags

LEMMA ReachableStands ==
  ASSUME NEW c, Reachable(c), NEW r \in Elems(c.rules)
  PROVE  Stands(c, r.out) # {}
<1>1. CASE r.out = "api"
  BY <1>1, OwnStand DEF Reachable, OwnTags
<1>2. CASE r.out # "api"
  BY <1>2 DEF Reachable, Leadable
<1>. QED  BY <1>1, <1>2

\* where the added rules lead
LEMMA AdditionsLead ==
  ASSUME NEW req \in Requests, NEW legacy, NEW rules \in Seq(Rules),
         NEW target \in {"balancer", "proxy"}, NEW r \in Elems(Additions(rules, req, legacy, target))
  PROVE  r.out \in {"direct", "dns-out"} \/ (r.out = target /\ Governed(req, legacy))
<1>1. target \in Names
  BY ConstantsAssumption
<1>. DEFINE g == ~Exists(rules, IsPort53)
            a == Elems(ResolverRules(req, legacy, target))
            b == Elems(DirectRules(rules, req, legacy))
<1>2. Elems(Additions(rules, req, legacy, target)) = a \cup {q \in {Port53} : g} \cup b
  BY <1>1, AdditionsAre, ZenonT(60)
<1>. HIDE DEF g
<1>3. CASE r \in a
  <2>. DEFINE h == Governed(req, legacy)
  <2>1. a = {q \in {DnsDirect, DnsRemote(target)} : h}
    BY <1>1, ResolverRulesAre
  <2>. HIDE DEF a, h
  <2>2. h /\ r \in {DnsDirect, DnsRemote(target)}
    BY <1>3, <2>1
  <2>. QED  BY <2>2, AddedMatches DEF h
<1>4. CASE r = Port53
  BY <1>4, OwnMatches
<1>5. CASE r \in b
  <2>1. \/ r = DomainRule(TrafficDomains(req), "direct") \/ r = Private
        \/ r = AddressRule(req.policy.ranges, "direct")
    BY <1>5, DirectRulesAre DEF Ranges
  <2>2. Private.out = "direct"
    BY AddedMatches
  <2>. QED  BY <2>1, <2>2 DEF DomainRule, AddressRule, Rule
<1>. HIDE DEF a, b
<1>. QED  BY <1>2, <1>3, <1>4, <1>5

LEMMA AppliedReachable ==
  ASSUME NEW c \in Configs, NEW req \in Requests, NEW legacy, Reachable(c),
         Governed(req, legacy) => Leadable(c, Target(c))
  PROVE  Reachable(ApplyPolicy(c, req, legacy))
<1>. DEFINE before == Before(c, req)
            target == Target(c)
            added == Additions(before, req, legacy, target)
            d == ApplyPolicy(c, req, legacy)
            g == req.policy # None
<1>1. target \in {"balancer", "proxy"}
  BY DEF Target
<1>2. before \in Seq(Rules) /\ \A r \in Elems(before) : r = ApiRule \/ r \in Elems(c.rules)
  <2>. DEFINE kept == Retained(c.rules, req)
  <2>1. kept \in Seq(Rules) /\ \A r \in Elems(kept) : r \in Elems(c.rules)
    BY ConfigFields, RetainedIs
  <2>. HIDE DEF kept
  <2>. DEFINE h == ~Exists(kept, IsApi)
  <2>2. WithApi(kept) \in Seq(Rules) /\ Elems(WithApi(kept)) = Elems(kept) \cup {r \in {ApiRule} : h}
    BY <2>1, WithApiIs
  <2>. HIDE DEF h
  <2>3. before = WithApi(kept)
    BY DEF Before, kept
  <2>. HIDE DEF before
  <2>. QED  BY <2>1, <2>2, <2>3
<1>3. Elems(d.rules) = Elems(before) \cup Elems(added) \cup {r \in {AllTo(target)} : g}
  BY AppliedIs
<1>4. d.outbounds = c.outbounds /\ d.balancers = c.balancers
  BY AppliedIs
<1>. HIDE DEF before, d, target
<1>5. ASSUME NEW tag PROVE Leadable(d, tag) <=> Leadable(c, tag)
  BY <1>4 DEF Leadable, Stands
<1>6. HasOwn(c)
  BY DEF Reachable
<1>7. ASSUME NEW r \in Elems(d.rules) PROVE Leadable(c, r.out)
  <2>1. CASE r \in Elems(c.rules)
    BY <2>1 DEF Reachable
  <2>2. CASE r = ApiRule
    BY <2>2, OwnMatches DEF Leadable
  <2>3. CASE r \in Elems(added)
    <3>1. r.out \in {"direct", "dns-out"} \/ (r.out = target /\ Governed(req, legacy))
      BY <1>1, <1>2, <2>3, AdditionsLead
    <3>2. r.out \in {"direct", "dns-out"} => Leadable(c, r.out)
      BY <1>6, OwnStand DEF OwnTags
    <3>. QED  BY <3>1, <3>2 DEF target
  <2>4. CASE r = AllTo(target) /\ g
    BY <2>4, AddedMatches DEF Governed, target
  <2>. HIDE DEF added, g
  <2>. QED  BY <1>2, <1>3, <1>7, <2>1, <2>2, <2>3, <2>4
<1>8. HasOwn(d)
  BY <1>4, <1>6 DEF HasOwn
<1>9. Reachable(d)
  BY <1>5, <1>7, <1>8 DEF Reachable
<1>. QED  BY <1>9 DEF d

LEMMA BuildReachable == ASSUME NEW req \in Requests PROVE Reachable(Build(req))
<1>. DEFINE c == Base(req)
            os == BuildOutbounds(req)
<1>1. /\ c \in Configs /\ c.outbounds = os /\ c.balancers = {} /\ ~IsManaged(c)
      /\ Elems(c.rules) = {ApiRule, Port53} \cup Elems(UserRules(req))
  BY BaseIs
<1>2. \A tag \in {"proxy", "direct", "block", "dns-out", "api"} : \E o \in Elems(os) : o.tag = tag
  <2>1. Elems(os) = {[tag |-> "proxy", protocol |-> req.protocol], [tag |-> "direct", protocol |-> "freedom"],
               [tag |-> "block", protocol |-> "blackhole"], [tag |-> "dns-out", protocol |-> "dns"],
               [tag |-> "api", protocol |-> "blackhole"]}
    BY BuildOutboundsAre
  <2>. HIDE DEF os
  <2>. QED  BY <2>1
<1>3. Build(req) = ApplyPolicy(c, req, TRUE)
  BY BuildIs
<1>. HIDE DEF c, os
<1>4. ASSUME NEW tag \in {"proxy", "direct", "block", "dns-out", "api"} PROVE Leadable(c, tag)
  <2>1. PICK o \in Elems(os) : o.tag = tag
    BY <1>2
  <2>2. o \in Stands(c, tag)
    BY <1>1, <2>1, StandsThere
  <2>. QED  BY <2>1, <2>2 DEF Leadable
<1>5. HasOwn(c)
  BY <1>1, <1>2, TagsOfElems DEF HasOwn, OwnTags
<1>6. ASSUME NEW r \in Elems(c.rules) PROVE Leadable(c, r.out)
  <2>1. CASE r \in {ApiRule, Port53}
    BY <1>4, <2>1, OwnMatches
  <2>2. CASE r \in Elems(UserRules(req))
    <3>1. PICK action \in {"proxy", "direct", "block"} : r = DomainRule(UserDomains(req, action), action)
      BY <2>2, UserRulesAre
    <3>2. r.out = action
      BY <3>1 DEF DomainRule, Rule
    <3>. QED  BY <1>4, <3>2
  <2>. QED  BY <1>1, <2>1, <2>2
<1>7. Reachable(c) /\ Leadable(c, Target(c))
  BY <1>1, <1>4, <1>5, <1>6 DEF Reachable, Target
<1>8. Reachable(ApplyPolicy(c, req, TRUE))
  BY <1>1, <1>7, AppliedReachable
<1>. QED  BY <1>3, <1>8

\* what the promise about the rules asks of the subscriptions
SubscriptionsClose == \A c \in Subscriptions : RulesAreClosed(c)

\* after the client's outbounds and rule are there
EnsuredReachable(c, req) ==
  LET e == Ensured(Chosen(c, req), req)
  IN Reachable(e) /\ (req.policy # None => Leadable(e, Target(e)))

LEMMA EnsuredHasOwn ==
  ASSUME NEW k \in Configs, NEW req \in Requests, \A b \in k.balancers : b.tag \notin OwnTags,
         \A r \in Elems(k.rules) : r.out \in OwnTags \/ \E o \in Stands(k, r.out) : o.tag # "api"
  PROVE  Reachable(Ensured(k, req))
<1>. DEFINE e == Ensured(k, req)
<1>1. /\ e \in Configs /\ e.outbounds = EnsureOutbounds(k.outbounds) /\ e.rules = WithApi(k.rules)
      /\ e.balancers = k.balancers
  BY EnsuredIs
<1>. HIDE DEF e
<1>2. k.outbounds \in Seq(Outbounds) /\ k.rules \in Seq(Rules)
  BY ConfigFields
<1>3. /\ Elems(k.outbounds) \subseteq Elems(e.outbounds)
      /\ OwnTags \subseteq Tags(e.outbounds)
  BY <1>1, <1>2, EnsureIs DEF OwnTags
<1>4. HasOwn(e)
  BY <1>1, <1>3 DEF HasOwn
<1>5. ASSUME NEW r \in Elems(e.rules) PROVE Leadable(e, r.out)
  <2>. DEFINE g == ~Exists(k.rules, IsApi)
  <2>1. Elems(WithApi(k.rules)) = Elems(k.rules) \cup {q \in {ApiRule} : g}
    BY <1>2, WithApiIs
  <2>. HIDE DEF g
  <2>2. CASE r = ApiRule
    BY <2>2, OwnMatches DEF Leadable
  <2>3. CASE r \in Elems(k.rules) /\ r.out \in OwnTags
    BY <1>4, <2>3, OwnStand
  <2>4. CASE r \in Elems(k.rules) /\ r.out \notin OwnTags
    <3>1. PICK o \in Stands(k, r.out) : o.tag # "api"
      BY <2>4
    <3>2. o \in Elems(k.outbounds)
      BY StandsIs
    <3>3. o \in Stands(e, r.out)
      BY <1>1, <1>3, <3>2, StandsMore
    <3>. QED  BY <3>1, <3>3 DEF Leadable
  <2>. QED  BY <1>1, <1>5, <2>1, <2>2, <2>3, <2>4
<1>6. Reachable(e)
  BY <1>4, <1>5 DEF Reachable
<1>. QED  BY <1>6 DEF e

LEMMA ManagedReachable ==
  ASSUME NEW c \in Profiles, NEW req \in Requests, req.policy # None, IsManaged(c)
  PROVE  EnsuredReachable(c, req)
<1>. DEFINE k == Chosen(c, req)
            e == Ensured(k, req)
<1>1. c \in Configs
  BY ProfilesAssumption
<1>2. /\ k \in Configs /\ IsManaged(k)
      /\ k.balancers = {b \in c.balancers : b.tag = "balancer"} /\ k.rules = << >>
  BY <1>1, ChosenIs, ManagedChosen
<1>. HIDE DEF k
<1>3. Elems(k.rules) = {}
  BY <1>2, NoRules
<1>4. \A b \in k.balancers : b.tag \notin OwnTags
  BY <1>2 DEF OwnTags
<1>5. Reachable(e)
  BY <1>2, <1>3, <1>4, EnsuredHasOwn
<1>6. /\ e \in Configs /\ e.outbounds = EnsureOutbounds(k.outbounds) /\ e.balancers = k.balancers
      /\ IsManaged(e)
  BY <1>2, EnsuredIs
<1>. HIDE DEF e
<1>7. PICK b \in e.balancers : b.tag = "balancer" /\ b.selects = Entries
  BY <1>6 DEF IsManaged
<1>8. Candidates(e) # {}
  <2>1. Cardinality(Candidates(e)) >= 2
    BY <1>6 DEF IsManaged
  <2>2. Cardinality({}) = 0
    BY FS_EmptySet
  <2>. QED  BY <2>1, <2>2
<1>9. PICK o \in Elems(e.outbounds) : o.tag \in Entries
  BY <1>8 DEF Candidates, IsCandidate
<1>10. o \in Stands(e, "balancer")
  BY <1>7, <1>9, StandsThere
<1>11. o.tag # "api"
  BY <1>9, ConstantsAssumption
<1>12. Leadable(e, Target(e))
  BY <1>6, <1>10, <1>11 DEF Leadable, Target
<1>. QED  BY <1>5, <1>12 DEF EnsuredReachable, e, k

LEMMA PlainReachable ==
  ASSUME NEW c \in Profiles, NEW req \in Requests, req.policy # None, ~IsManaged(c)
  PROVE  EnsuredReachable(c, req)
<1>. DEFINE k == Chosen(c, req)
            e == Ensured(k, req)
            os == {o \in Elems(c.outbounds) : KeepsPlain(o)}
            stripped == Strip(c.rules, Unsupported, Unsupported)
<1>1. c \in Configs /\ HasProxy(c)
  BY ProfilesAssumption
<1>2. /\ k \in Configs /\ ~IsManaged(k) /\ k.balancers = {} /\ Elems(k.outbounds) = os
  BY <1>1, ChosenIs, PlainChosen
<1>3. PICK tags : tags = {o.tag : o \in os} /\ k.rules = Retain(stripped, {r \in Rules : r.out \in tags})
  BY PlainChosen
<1>4. stripped \in Seq(Rules)
  BY <1>1, ConfigFields, StripElems
<1>. HIDE DEF k, stripped
<1>5. ASSUME NEW r \in Elems(k.rules)
      PROVE  r.out \in OwnTags \/ \E o \in Stands(k, r.out) : o.tag # "api"
  <2>. DEFINE kr == {q \in Rules : q.out \in tags}
  <2>1. k.rules = Retain(stripped, kr) /\ \A q \in kr : q.out \in tags
    BY <1>3
  <2>. HIDE DEF kr
  <2>2. Elems(Retain(stripped, kr)) = Elems(stripped) \cap kr
    BY <1>4, RuleRetain
  <2>3. r.out \in tags
    BY <1>5, <2>1, <2>2
  <2>4. PICK o \in os : o.tag = r.out
    BY <1>3, <2>3
  <2>5. o \in Stands(k, r.out)
    BY <1>2, <2>4, StandsThere
  <2>. QED  BY <2>4, <2>5 DEF OwnTags
<1>6. Reachable(e)
  BY <1>2, <1>5, EnsuredHasOwn
<1>7. /\ e.outbounds = EnsureOutbounds(k.outbounds) /\ e.balancers = {} /\ ~IsManaged(e)
  BY <1>2, EnsuredIs
<1>8. Elems(k.outbounds) \subseteq Elems(e.outbounds)
  BY <1>2, <1>7, ConfigFields, EnsureIs
<1>. HIDE DEF e
<1>9. PICK o \in Elems(c.outbounds) : o.tag = "proxy"
  BY <1>1 DEF HasProxy
<1>10. o \in Elems(e.outbounds)
  BY <1>2, <1>8, <1>9 DEF KeepsPlain
<1>11. o \in Stands(e, "proxy")
  BY <1>7, <1>9, <1>10, StandsThere
<1>12. Leadable(e, Target(e))
  BY <1>7, <1>9, <1>11 DEF Leadable, Target
<1>. QED  BY <1>6, <1>12 DEF EnsuredReachable, e, k

LEMMA SubscriptionReachable ==
  ASSUME NEW c \in Subscriptions, RulesAreClosed(c), NEW req \in Requests, req.policy = None
  PROVE  EnsuredReachable(c, req)
<1>. DEFINE k == Chosen(c, req)
            e == Ensured(k, req)
<1>1. c \in Configs
  BY ProfilesAssumption
<1>2. k = Sanitize(c)
  BY DEF Chosen, Constrain
<1>3. /\ k \in Configs /\ k.outbounds = c.outbounds /\ k.balancers = c.balancers
      /\ k.rules = Strip(c.rules, Unsupported, Unsupported)
  BY <1>1, <1>2, SanitizeIs
<1>. HIDE DEF k
<1>4. \A b \in k.balancers : b.tag \notin OwnTags
  BY <1>3 DEF RulesAreClosed, OwnTags
<1>5. ASSUME NEW r \in Elems(k.rules)
      PROVE  r.out \in OwnTags \/ \E o \in Stands(k, r.out) : o.tag # "api"
  <2>1. c.rules \in Seq(Rules)
    BY <1>1, ConfigFields
  <2>2. PICK q \in Elems(c.rules) : r = Less(q, Unsupported, Unsupported)
    BY <1>3, <1>5, <2>1, StripElems
  <2>3. r.out = q.out
    BY <2>1, <2>2, RuleElems, LessType
  <2>4. CASE q.out \in {"direct", "dns-out", "api"}
    BY <2>3, <2>4 DEF OwnTags
  <2>5. CASE \E o \in Stands(c, q.out) : o.tag # "api"
    BY <1>3, <2>3, <2>5, ZenonT(60) DEF Stands
  <2>. QED  BY <2>4, <2>5 DEF RulesAreClosed
<1>6. Reachable(e)
  BY <1>3, <1>4, <1>5, EnsuredHasOwn
<1>. QED  BY <1>6 DEF EnsuredReachable, e, k

LEMMA InjectReachable ==
  ASSUME NEW c \in Configs, NEW req \in Requests, EnsuredReachable(c, req)
  PROVE  Reachable(Inject(c, req))
<1>. DEFINE e == Ensured(Chosen(c, req), req)
<1>1. e \in Configs
  BY ChosenIs, EnsuredIs
<1>2. Inject(c, req) = ApplyPolicy(e, req, FALSE)
  BY InjectIs
<1>3. Reachable(e) /\ (Governed(req, FALSE) => Leadable(e, Target(e)))
  BY DEF EnsuredReachable, Governed
<1>. HIDE DEF e
<1>. QED  BY <1>1, <1>2, <1>3, AppliedReachable

\* the extension takes the statistics interface away, with the rules about it
LEMMA PreparedStands ==
  ASSUME NEW c \in Configs, Reachable(c), NEW keep, NEW r \in Elems(Prepare(c, keep).rules)
  PROVE  Stands(Prepare(c, keep), r.out) # {}
<1>. DEFINE d == Prepare(c, keep)
            ds == Dropped(keep)
<1>1. PICK q \in Elems(c.rules) : q.out # "api" /\ r = Less(q, ds, DroppedIps)
  BY PrepareIs, ZenonT(60)
<1>. HIDE DEF ds
<1>2. q \in Rules
  BY ConfigFields, RuleElems
<1>3. r.out = q.out
  BY <1>1, <1>2, LessType
<1>4. PICK o \in Stands(c, q.out) : o.tag # "api"
  BY <1>1 DEF Reachable, Leadable
<1>5. o \in Elems(c.outbounds)
  BY StandsIs
<1>6. d.balancers = c.balancers /\ Elems(d.outbounds) = {x \in Elems(c.outbounds) : x.tag # "api"}
  BY PrepareIs
<1>. HIDE DEF d
<1>7. o \in Stands(d, q.out)
  BY <1>4, <1>5, <1>6, StandsMore
<1>. QED  BY <1>3, <1>7 DEF d

LEMMA XrayReachable ==
  ASSUME NEW req \in Requests, SubscriptionsClose,
         req.profile # None => req.profile \in IF req.policy # None THEN Profiles ELSE Subscriptions
  PROVE  Reachable(Xray(req))
<1>1. CASE req.profile = None
  BY <1>1, BuildReachable DEF Xray
<1>2. CASE req.profile # None
  <2>. DEFINE c == req.profile
  <2>1. Xray(req) = Inject(c, req)
    BY <1>2 DEF Xray
  <2>2. c \in IF req.policy # None THEN Profiles ELSE Subscriptions
    BY <1>2
  <2>. HIDE DEF c
  <2>3. c \in Configs
    BY <2>2, ProfilesAssumption
  <2>4. EnsuredReachable(c, req)
    BY <2>2, ManagedReachable, PlainReachable, SubscriptionReachable DEF SubscriptionsClose
  <2>. QED  BY <2>1, <2>3, <2>4, InjectReachable
<1>. QED  BY <1>1, <1>2

\* RulesNameOutbounds of Routing, for subscriptions whose rules name what is there: what the
\* client cuts from a profile and the policy adds to it leave no rule without an outbound.
THEOREM RoutingRulesNameOutbounds ==
  ASSUME \A c \in Subscriptions : RulesAreClosed(c)
  PROVE  Spec => []RulesNameOutbounds
<1>0. SubscriptionsClose
  BY DEF SubscriptionsClose
<1>1. ASSUME TypeInv, graph # None, graph.xray # None, NEW r \in Elems(graph.xray.rules)
      PROVE  Stands(graph.xray, r.out) # {}
  <2>1. request \in Requests /\ graph = Graph(request)
    BY <1>1 DEF TypeInv
  <2>. DEFINE c == Xray(request)
  <2>2. c \in Configs /\ Reachable(c) /\ UsesXray(request)
    BY <1>0, <1>1, <2>1, XrayConfig, XrayReachable, GraphIs DEF TypeInv
  <2>3. CASE InExtension(request)
    <3>. DEFINE keep == HasAsset(request)
    <3>1. graph.xray = Prepare(c, keep)
      BY <2>1, <2>3, GraphIs
    <3>. HIDE DEF keep, c
    <3>. QED  BY <1>1, <2>2, <3>1, PreparedStands
  <2>4. CASE ~InExtension(request)
    <3>1. graph.xray = c
      BY <2>1, <2>2, <2>4, GraphIs
    <3>. HIDE DEF c
    <3>. QED  BY <1>1, <2>2, <3>1, ReachableStands
  <2>. QED  BY <2>3, <2>4
<1>2. TypeInv => RulesNameOutbounds
  BY <1>1 DEF RulesNameOutbounds, Elems
<1>. QED  BY <1>2, TypeInvariance, PTL
=============================================================================
