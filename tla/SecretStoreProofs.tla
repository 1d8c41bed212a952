------------------------- MODULE SecretStoreProofs -------------------------
(***************************************************************************)
(* The variables of SecretStore keep their types for every set of values,  *)
(* every size of them and every bound; what a call of the platform may do  *)
(* to the store; and what an operation that is cut short leaves of a key.  *)
(***************************************************************************)
EXTENDS SecretStore, TLAPS

-----------------------------------------------------------------------------
(* Type correctness. TypeOK leaves open what the step under way carries;     *)
(* TypeInv says it.                                                          *)

Labels == {"idle", "old", "unlink", "chunk", "main", "mirror", "mirror_only", "forget",
           "legacy", "consumed", "read", "parts", "dpapi", "restored", "find", "drop",
           "drop_mirror"}
Operations == {"none", "set", "get", "consume", "migrate", "restore", "delete"}
Writing == {"old", "unlink", "chunk", "main"}

Configs == [platform : {"windows", "macos"}, owner : {"renderer", "app"},
            keyring : BOOLEAN, subscribed : BOOLEAN]

Stores == [keyring : [Entries -> Contents], dpapi : [Entries -> Contents],
           legacy : [Entries -> Contents], fallback : {None, LegacyValue},
           faults : 0 .. MaxFaults]

Jobs == [pc : Labels, op : Operations, value : Values \cup {None, Raw},
         raw : 0 .. MaxPieces, i : 0 .. MaxPieces + 1, old : 0 .. MaxPieces,
         acc : Seq(Contents), leftover : BOOLEAN, then : {"none", "consumed", "restored"}]

\* a set knows what it writes, and what it is part of
Carries ==
  job.pc \in Writing =>
    /\ job.value \in Values \/ (job.value = Raw /\ job.op = "restore" /\ job.raw \in Chunks)
    /\ \/ job.op = "set" /\ job.then = "none"
       \/ job.op \in {"consume", "migrate"} /\ job.then = "consumed" /\ job.value \in Values
       \/ job.op = "restore" /\ job.then = "restored"

\* so does the step that ends an operation
Ends ==
  /\ job.pc \in {"mirror", "mirror_only", "forget"} => job.op = "set" /\ job.value \in Values
  /\ job.pc = "consumed" => job.value \in Values
  /\ job.pc = "restored" => job.value \in Values \cup {Raw}
  /\ job.pc \in {"find", "drop", "drop_mirror"} => job.op = "delete"

\* a loop over the chunks stays within them
Counted ==
  /\ job.pc \in {"unlink", "drop", "parts"} => job.i \in 1 .. job.old + 1
  /\ job.pc = "chunk" => job.i \in 1 .. Size
  /\ job.pc = "parts" => Len(job.acc) = job.i - 1
  /\ job.pc \in {"legacy", "read"} => Len(job.acc) = 0
  /\ Len(job.acc) <= MaxPieces

JobOK == job \in Jobs /\ Carries /\ Ends /\ Counted

HistoryOK ==
  /\ last \in Values \cup {None, Unknown}
  /\ cut \in BOOLEAN
  /\ seen \in Values \cup {None, Unknown, Error, Torn, Raw}

TypeInv == config \in Configs /\ store \in Stores /\ JobOK /\ HistoryOK

\* what JobOK says of the operation whose turn it is, of any operation
Fits(j) ==
  /\ j \in Jobs
  /\ j.pc \in Writing =>
       /\ j.value \in Values \/ (j.value = Raw /\ j.op = "restore" /\ j.raw \in Chunks)
       /\ \/ j.op = "set" /\ j.then = "none"
          \/ j.op \in {"consume", "migrate"} /\ j.then = "consumed" /\ j.value \in Values
          \/ j.op = "restore" /\ j.then = "restored"
  /\ j.pc \in {"mirror", "mirror_only", "forget"} => j.op = "set" /\ j.value \in Values
  /\ j.pc = "consumed" => j.value \in Values
  /\ j.pc = "restored" => j.value \in Values \cup {Raw}
  /\ j.pc \in {"find", "drop", "drop_mirror"} => j.op = "delete"
  /\ j.pc \in {"unlink", "drop", "parts"} => j.i \in 1 .. j.old + 1
  /\ j.pc = "chunk" => j.i \in 1 .. (IF j.value = Raw THEN 0 ELSE Pieces[j.value])
  /\ j.pc = "parts" => Len(j.acc) = j.i - 1
  /\ j.pc \in {"legacy", "read"} => Len(j.acc) = 0
  /\ Len(j.acc) <= MaxPieces

OthersOK == turns \in Nat /\ paused \in [Slots -> {j \in Jobs : Fits(j)}]

LEMMA Sizes ==
  /\ MaxPieces \in Nat
  /\ \A v \in Values : Pieces[v] \in 0 .. MaxPieces
<1> DEFINE S == {Pieces[v] : v \in Values}
<1>1. PICK v \in Values : \A w \in Values : Pieces[w] <= Pieces[v]
  BY ConstantsAssumption
<1>2. Pieces[v] \in S /\ \A w \in Values : Pieces[w] <= Pieces[v]
  BY <1>1
<1>3. MaxPieces \in S /\ \A w \in Values : Pieces[w] <= MaxPieces
  BY <1>2 DEF MaxPieces
<1>4. S \subseteq Nat
  BY ConstantsAssumption
<1>. QED  BY <1>3, <1>4, ConstantsAssumption

LEMMA First == 1 \in 0 .. MaxPieces + 1
  BY Sizes

LEMMA ContentTypes ==
  /\ Absent \in Contents
  /\ \A v \in Values : Whole(v) \in Contents
  /\ \A v \in Values, i \in Chunks : Chunk(v, i) \in Contents
  /\ \A n \in Chunks : Manifest(n) \in Contents
  /\ Chunks \subseteq Entries /\ 0 \in Entries
  BY DEF Contents, Entries

LEMMA ContentParts ==
  ASSUME NEW x \in Contents
  PROVE /\ x.n \in 0 .. MaxPieces
        /\ x.kind \in {"whole", "chunk"} => x.value \in Values
        /\ x.kind = "manifest" => x.n \in Chunks
        /\ x # Absent => x.kind \in {"whole", "chunk", "manifest"}
        /\ Count(x) \in 0 .. MaxPieces
  BY Sizes DEF Contents, Absent, Whole, Chunk, Manifest, Chunks, Count

-----------------------------------------------------------------------------
(* What a call of the platform may do to the store.                          *)

\* what never changes for a key: the stores its platform does not use stay empty
Unused(s) ==
  /\ ~Windows => s.dpapi = Nothing
  /\ Windows => s.legacy = Nothing
  /\ ~config.keyring => s.keyring = Nothing

\* the store after a call, whatever its outcome
Keeps(s, t) == t \in Stores /\ t.fallback = s.fallback /\ (Unused(s) => Unused(t))

LEMMA UsedKeeps ==
  ASSUME NEW s \in Stores, NEW k \in KeyringFails(s), NEW d \in Fails(s, "dpapi")
  PROVE /\ Keeps(s, Used(s, k, d)) /\ Keeps(s, Used(s, k, FALSE)) /\ Keeps(s, Used(s, FALSE, d))
        /\ \A f \in {"keyring", "dpapi", "legacy"} :
             /\ Used(s, k, d)[f] = s[f] /\ Used(s, k, FALSE)[f] = s[f]
             /\ Used(s, FALSE, d)[f] = s[f]
<1>1. k \in BOOLEAN /\ d \in BOOLEAN
  BY DEF KeyringFails, Fails
<1>2. d \/ (k /\ config.keyring) => s.faults > 0
  BY DEF KeyringFails, Fails
<1>3. s.faults \in 0 .. MaxFaults /\ MaxFaults \in Nat
  BY ConstantsAssumption DEF Stores
<1>. QED  BY <1>1, <1>2, <1>3 DEF Used, Stores, Keeps, Unused

LEMMA KeyringFailsType ==
  ASSUME NEW s, NEW k \in KeyringFails(s)
  PROVE k \in BOOLEAN /\ (~config.keyring => k) /\ FALSE \in Fails(s, "dpapi")
        /\ Fails(s, "dpapi") \subseteq BOOLEAN
  BY DEF KeyringFails, Fails

LEMMA KeyringKeeps ==
  ASSUME NEW s \in Stores, NEW e \in Entries, NEW x \in Contents, NEW k \in KeyringFails(s)
  PROVE /\ Keeps(s, InOne(s, e, x, k))
        /\ ~k => InOne(s, e, x, k).keyring[e] = x
<1> DEFINE t == Used(s, k, FALSE)
<1>1. Keeps(s, t) /\ t \in Stores /\ k \in BOOLEAN /\ (~config.keyring => k)
  BY UsedKeeps, KeyringFailsType DEF Keeps
<1>. HIDE DEF t
<1> DEFINE u == InKeyring(t, e, x, k)
<1>2. /\ u.keyring = [t.keyring EXCEPT ![e] = IF k THEN t.keyring[e] ELSE x]
      /\ u.dpapi = t.dpapi /\ u.legacy = t.legacy /\ u.fallback = t.fallback
      /\ u \in Stores
  BY <1>1 DEF InKeyring, Stores
<1>3. ~config.keyring => u.keyring = t.keyring
  BY <1>1, <1>2 DEF Stores
<1>4. Keeps(s, u) /\ (~k => u.keyring[e] = x)
  BY <1>1, <1>2, <1>3 DEF Keeps, Unused, Stores
<1>. QED  BY <1>4 DEF t, InOne

LEMMA BothKeep ==
  ASSUME NEW s \in Stores, NEW e \in Entries, NEW x \in Contents,
         NEW k \in KeyringFails(s), NEW d \in Fails(s, "dpapi"), Windows
  PROVE /\ Keeps(s, InBoth(s, e, x, k, d))
        /\ ~k => InBoth(s, e, x, k, d).keyring[e] = x
        /\ ~d => InBoth(s, e, x, k, d).dpapi[e] = x
<1> DEFINE t == Used(s, k, d)
<1>1. /\ Keeps(s, t) /\ t \in Stores /\ k \in BOOLEAN /\ d \in BOOLEAN
      /\ ~config.keyring => k
  BY UsedKeeps, KeyringFailsType DEF Keeps
<1>. HIDE DEF t
<1> DEFINE u == InMirror(InKeyring(t, e, x, k), e, x, d)
<1>2. /\ u.keyring = [t.keyring EXCEPT ![e] = IF k THEN t.keyring[e] ELSE x]
      /\ u.dpapi = [t.dpapi EXCEPT ![e] = IF d THEN t.dpapi[e] ELSE x]
      /\ u.legacy = t.legacy /\ u.fallback = t.fallback
      /\ u \in Stores
  BY <1>1 DEF InKeyring, InMirror, Stores
<1>3. ~config.keyring => u.keyring = t.keyring
  BY <1>1, <1>2 DEF Stores
<1>4. Keeps(s, u) /\ (~k => u.keyring[e] = x) /\ (~d => u.dpapi[e] = x)
  BY <1>1, <1>2, <1>3 DEF Keeps, Unused, Stores
<1>. QED  BY <1>4 DEF t, InBoth

LEMMA ForgottenKeeps ==
  ASSUME NEW s \in Stores, NEW t \in Stores, Keeps(s, t), NEW e \in Entries, ~Windows
  PROVE Keeps(s, Forgotten(t, e)) /\ Forgotten(t, e).keyring = t.keyring
        /\ Forgotten(t, e).legacy[e] = Absent
  BY ContentTypes DEF Keeps, Unused, Forgotten, Stores

LEMMA SetKeeps ==
  ASSUME NEW s \in Stores, NEW e \in Entries, NEW x \in Contents, NEW r \in NativeSet(s, e, x)
  PROVE r.ok \in BOOLEAN /\ Keeps(s, r.store)
<1>1. CASE Windows
  <2>1. PICK k \in KeyringFails(s), d \in Fails(s, "dpapi") :
          r = [ok |-> ~k \/ ~d, store |-> InBoth(s, e, x, k, d)]
    BY <1>1 DEF NativeSet, WindowsSet
  <2>2. k \in BOOLEAN /\ d \in BOOLEAN
    BY KeyringFailsType
  <2>. QED  BY <1>1, <2>1, <2>2, BothKeep
<1>2. CASE ~Windows
  <2>1. PICK k \in KeyringFails(s) :
          r = [ok |-> ~k, store |-> InOne(s, e, x, k)]
    BY <1>2 DEF NativeSet, MacSet
  <2>2. k \in BOOLEAN /\ Keeps(s, InOne(s, e, x, k))
    BY KeyringKeeps, KeyringFailsType
  <2>. QED  BY <2>1, <2>2
<1>. QED  BY <1>1, <1>2

LEMMA DeleteKeeps ==
  ASSUME NEW s \in Stores, NEW e \in Entries, NEW r \in NativeDelete(s, e)
  PROVE /\ r.ok \in BOOLEAN /\ Keeps(s, r.store)
        /\ r.ok => r.store.keyring[e] = Absent
        /\ r.ok /\ Windows => r.store.dpapi[e] = Absent
        /\ r.ok /\ ~Windows => r.store.legacy[e] = Absent
<1>0. Absent \in Contents
  BY ContentTypes
<1>1. CASE Windows
  <2>1. PICK k \in KeyringFails(s), d \in Fails(s, "dpapi") :
          r = [ok |-> ~k /\ ~d, store |-> InBoth(s, e, Absent, k, d)]
    BY <1>1 DEF NativeDelete, WindowsDelete
  <2>2. k \in BOOLEAN /\ d \in BOOLEAN
    BY KeyringFailsType
  <2> DEFINE u == InBoth(s, e, Absent, k, d)
  <2>3. Keeps(s, u) /\ (~k => u.keyring[e] = Absent) /\ (~d => u.dpapi[e] = Absent)
    BY <1>0, <1>1, BothKeep
  <2>4. r.ok = (~k /\ ~d) /\ r.store = u
    BY <2>1
  <2>. QED  BY <1>1, <2>2, <2>3, <2>4
<1>2. CASE ~Windows
  <2>1. PICK k \in KeyringFails(s) :
          r = [ok |-> ~k, store |-> Forgotten(InOne(s, e, Absent, k), e)]
    BY <1>2 DEF NativeDelete, MacDelete
  <2> DEFINE u == InOne(s, e, Absent, k)
  <2>a. k \in BOOLEAN
    BY KeyringFailsType
  <2>b. Keeps(s, InOne(s, e, Absent, k))
        /\ (~k => InOne(s, e, Absent, k).keyring[e] = Absent)
    BY <1>0, KeyringKeeps
  <2>2. Keeps(s, u) /\ (~k => u.keyring[e] = Absent) /\ k \in BOOLEAN
    BY <2>a, <2>b
  <2>3. u \in Stores
    BY <2>2 DEF Keeps
  <2>. HIDE DEF u
  <2>4. Keeps(s, Forgotten(u, e)) /\ Forgotten(u, e).keyring = u.keyring
        /\ Forgotten(u, e).legacy[e] = Absent
    BY <1>2, <2>2, <2>3, ForgottenKeeps
  <2>5. r = [ok |-> ~k, store |-> Forgotten(u, e)]
    BY <2>1 DEF u
  <2>6. r.ok = ~k /\ r.store = Forgotten(u, e)
    BY <2>5
  <2>. QED  BY <1>2, <2>2, <2>4, <2>6
<1>. QED  BY <1>1, <1>2

LEMMA GetKeeps ==
  ASSUME NEW s \in Stores, NEW e \in Entries, NEW r \in NativeGet(s, e)
  PROVE r.ok \in BOOLEAN /\ r.x \in Contents /\ Keeps(s, r.store)
<1>1. CASE Windows
  <2>1. PICK k \in KeyringFails(s), d \in Fails(s, "dpapi") :
          \/ r = [ok |-> TRUE, x |-> s.keyring[e], store |-> Used(s, k, FALSE)]
          \/ r = [ok |-> TRUE, x |-> Absent, store |-> Used(s, k, d)]
          \/ \E q \in WindowsSet(Used(s, k, FALSE), e, s.dpapi[e]) :
               r = [ok |-> TRUE, x |-> s.dpapi[e], store |-> q.store]
    <3>1. PICK k \in KeyringFails(s), d \in Fails(s, "dpapi") : r \in WindowsRead(s, e, k, d)
      BY <1>1 DEF NativeGet, WindowsGet
    <3>. QED  BY <3>1 DEF WindowsRead
  <2>2. Keeps(s, Used(s, k, d)) /\ Keeps(s, Used(s, k, FALSE))
    BY UsedKeeps, KeyringFailsType
  <2>3. s.keyring[e] \in Contents /\ s.dpapi[e] \in Contents /\ Absent \in Contents
    BY ContentTypes DEF Stores
  <2>4. CASE r = [ok |-> TRUE, x |-> s.keyring[e], store |-> Used(s, k, FALSE)]
    BY <2>2, <2>3, <2>4
  <2>5. CASE r = [ok |-> TRUE, x |-> Absent, store |-> Used(s, k, d)]
    BY <2>2, <2>3, <2>5
  <2>6. ASSUME NEW q \in WindowsSet(Used(s, k, FALSE), e, s.dpapi[e]),
               r = [ok |-> TRUE, x |-> s.dpapi[e], store |-> q.store]
        PROVE r.ok \in BOOLEAN /\ r.x \in Contents /\ Keeps(s, r.store)
    <3>1. Used(s, k, FALSE) \in Stores
      BY <2>2 DEF Keeps
    <3>2. Keeps(Used(s, k, FALSE), q.store)
      BY <1>1, <2>3, <3>1, SetKeeps DEF NativeSet
    <3>. QED  BY <2>2, <2>3, <2>6, <3>2 DEF Keeps
  <2>. QED  BY <2>1, <2>4, <2>5, <2>6
<1>2. CASE ~Windows
  <2>1. PICK k \in KeyringFails(s) :
          \/ r = [ok |-> FALSE, x |-> Absent, store |-> Used(s, k, FALSE)]
          \/ r = [ok |-> TRUE, x |-> s.keyring[e], store |-> s]
          \/ \E q \in MacSet(s, e, s.legacy[e]) :
               r = [ok |-> q.ok, x |-> s.legacy[e],
                    store |-> IF q.ok THEN Forgotten(q.store, e) ELSE q.store]
    BY <1>2 DEF NativeGet, MacGet
  <2>2. Keeps(s, Used(s, k, FALSE)) /\ Keeps(s, s)
    BY UsedKeeps, KeyringFailsType DEF Keeps
  <2>3. s.keyring[e] \in Contents /\ s.legacy[e] \in Contents /\ Absent \in Contents
    BY ContentTypes DEF Stores
  <2>4. CASE r = [ok |-> FALSE, x |-> Absent, store |-> Used(s, k, FALSE)]
    BY <2>2, <2>3, <2>4
  <2>5. CASE r = [ok |-> TRUE, x |-> s.keyring[e], store |-> s]
    BY <2>2, <2>3, <2>5
  <2>6. ASSUME NEW q \in MacSet(s, e, s.legacy[e]),
               r = [ok |-> q.ok, x |-> s.legacy[e],
                    store |-> IF q.ok THEN Forgotten(q.store, e) ELSE q.store]
        PROVE r.ok \in BOOLEAN /\ r.x \in Contents /\ Keeps(s, r.store)
    <3>1. q.ok \in BOOLEAN /\ Keeps(s, q.store)
      BY <1>2, <2>3, SetKeeps DEF NativeSet
    <3>2. Keeps(s, Forgotten(q.store, e))
      BY <1>2, <3>1, ForgottenKeeps DEF Keeps
    <3>. QED  BY <2>3, <2>6, <3>1, <3>2
  <2>. QED  BY <2>1, <2>4, <2>5, <2>6
<1>. QED  BY <1>1, <1>2

-----------------------------------------------------------------------------
(* The ways an action ends.                                                  *)

\* everything but the store
RestOK == config \in Configs /\ JobOK /\ HistoryOK

LEMMA FinishOK ==
  ASSUME TypeInv, NEW result \in Values \cup {None, Unknown},
         NEW shown \in Values \cup {None, Unknown, Error, Torn, Raw},
         Finish(result, shown), cut' \in BOOLEAN
  PROVE RestOK'
<1>1. NoJob \in Jobs
  BY Sizes DEF NoJob, Jobs, Labels, Operations
<1>2. job' = NoJob
  BY DEF Finish
<1>3. JobOK'
  BY <1>1, <1>2, Sizes DEF JobOK, Carries, Ends, Counted, Writing, NoJob
<1>. QED  BY <1>3 DEF RestOK, TypeInv, HistoryOK, Finish

LEMMA EndsEarlyOK == ASSUME TypeInv, EndsEarly PROVE cut' \in BOOLEAN
  BY DEF EndsEarly, TypeInv, HistoryOK

LEMMA SameOK == ASSUME TypeInv, Same, JobOK' PROVE RestOK'
  BY DEF RestOK, TypeInv, HistoryOK, Same

LEMMA KeyringSetFailsOK ==
  ASSUME TypeInv, job.pc \in Writing, KeyringSetFails
  PROVE RestOK'
<1>1. cut' \in BOOLEAN
  BY EndsEarlyOK DEF KeyringSetFails
<1>2. JobOK /\ job.acc \in Seq(Contents)
  BY DEF TypeInv, JobOK, Jobs
<1>3. CASE /\ job.op = "set" /\ StepTo("mirror_only") /\ UNCHANGED <<config, last, seen>>
  <2>1. job' = [job EXCEPT !.pc = "mirror_only"]
    BY <1>3 DEF StepTo
  <2>2. JobOK'
    BY <1>2, <1>3, <2>1 DEF JobOK, Jobs, Labels, Carries, Ends, Counted, Writing
  <2>. QED  BY <1>1, <1>3, <2>2 DEF RestOK, TypeInv, HistoryOK
<1>4. CASE job.op = "restore" /\ StepTo("restored") /\ UNCHANGED <<config, last, seen>>
  <2>1. job' = [job EXCEPT !.pc = "restored"]
    BY <1>4 DEF StepTo
  <2>2. JobOK'
    BY <1>2, <1>4, <2>1 DEF JobOK, Jobs, Labels, Carries, Ends, Counted, Writing
  <2>. QED  BY <1>1, <1>4, <2>2 DEF RestOK, TypeInv, HistoryOK
<1>5. CASE Finish(Unknown, Unknown) \/ Finish(Unknown, Error)
  BY <1>1, <1>5, FinishOK
<1>. QED  BY <1>3, <1>4, <1>5 DEF KeyringSetFails

-----------------------------------------------------------------------------
(* The steps of a set.                                                       *)

LEMMA NoJobType ==
  /\ NoJob \in Jobs
  /\ NoJob.i = 0 /\ NoJob.then = "none" /\ Len(NoJob.acc) = 0
  BY Sizes DEF NoJob, Jobs, Labels, Operations

LEMMA StartSetType == ASSUME TypeInv, NEW v \in Values, StartSet(v) PROVE TypeInv'
<1>1. job' = [NoJob EXCEPT !.pc = "old", !.op = "set", !.value = v]
  BY DEF StartSet
<1>2. job' \in Jobs
  BY <1>1, NoJobType DEF Jobs, Labels, Operations
<1>3. Carries' /\ Ends' /\ Counted'
  BY <1>1, NoJobType, Sizes DEF Jobs, Carries, Ends, Counted, Writing
<1>. QED  BY <1>2, <1>3 DEF JobOK, StartSet, TypeInv, HistoryOK

LEMMA ReadOldType == ASSUME TypeInv, ReadOld PROVE TypeInv'
<1>1. PICK r \in NativeGet(store, 0) :
        /\ store' = r.store
        /\ IF r.ok
           THEN /\ job' = [job EXCEPT !.pc = "unlink", !.i = 1, !.old = Count(r.x),
                                      !.leftover = r.store.faults < store.faults]
                /\ Same
           ELSE KeyringSetFails
  BY DEF ReadOld
<1>2. r.ok \in BOOLEAN /\ r.x \in Contents /\ store' \in Stores
  BY <1>1, GetKeeps, ContentTypes DEF TypeInv, Keeps
<1>3. job.pc = "old" /\ JobOK
  BY DEF ReadOld, At, TypeInv
<1>4. CASE r.ok
  <2>1. Count(r.x) \in 0 .. MaxPieces
    BY <1>2, ContentParts
  <2>2. JobOK'
    <3> DEFINE n == Count(r.x)
               left == r.store.faults < store.faults
    <3>0. job' = [job EXCEPT !.pc = "unlink", !.i = 1, !.old = n, !.leftover = left]
      BY <1>1, <1>4
    <3>1. n \in 0 .. MaxPieces /\ left \in BOOLEAN
      BY <2>1
    <3>. HIDE DEF n, left
    <3>2. job' \in Jobs
      BY <1>3, <3>0, <3>1, First DEF JobOK, Jobs, Labels
    <3>3. Carries' /\ Ends'
      BY <1>3, <3>0 DEF JobOK, Jobs, Carries, Ends, Writing
    <3>4. job'.pc = "unlink" /\ job'.i = 1 /\ job'.old = n /\ job'.acc = job.acc
      BY <1>3, <3>0 DEF JobOK, Jobs
    <3>5. Counted'
      BY <1>3, <3>1, <3>4, Sizes DEF JobOK, Counted
    <3>. QED  BY <3>2, <3>3, <3>5 DEF JobOK
  <2>. QED  BY <1>1, <1>2, <1>4, <2>2, SameOK DEF RestOK, TypeInv
<1>5. CASE ~r.ok
  BY <1>1, <1>2, <1>3, <1>5, KeyringSetFailsOK DEF RestOK, TypeInv, Writing
<1>. QED  BY <1>2, <1>4, <1>5

LEMMA SizeType ==
  ASSUME TypeInv, job.pc \in Writing
  PROVE Size \in 0 .. MaxPieces
  BY Sizes DEF TypeInv, JobOK, Carries, Size

LEMMA UnlinkChunksType == ASSUME TypeInv, UnlinkChunks PROVE TypeInv'
<1>1. JobOK /\ job.pc = "unlink" /\ Same
  BY DEF UnlinkChunks, At, TypeInv
<1>2. job.i \in 1 .. job.old + 1 /\ job.old \in 0 .. MaxPieces /\ Size \in 0 .. MaxPieces
  BY <1>1, SizeType DEF JobOK, Counted, Jobs, Writing
<1>3. CASE job.i > job.old
  <2>1. job' = [job EXCEPT !.pc = IF Size = 0 THEN "main" ELSE "chunk", !.i = 1] /\ store' = store
    BY <1>3 DEF UnlinkChunks
  <2>2. JobOK'
    <3> DEFINE next == IF Size = 0 THEN "main" ELSE "chunk"
    <3>0. job' = [job EXCEPT !.pc = next, !.i = 1] /\ next \in {"main", "chunk"}
      BY <2>1
    <3>a. next = "chunk" => 1 \in 1 .. Size
      BY <1>2, Sizes
    <3>. HIDE DEF next
    <3>1. job' \in Jobs
      BY <1>1, <3>0, First DEF JobOK, Jobs, Labels
    <3>2. Carries' /\ Ends'
      BY <1>1, <3>0 DEF JobOK, Jobs, Carries, Ends, Writing
    <3>3. Size' = Size /\ job'.pc = next /\ job'.i = 1 /\ job'.acc = job.acc
      BY <1>1, <3>0 DEF JobOK, Jobs, Size
    <3>4. Counted'
      BY <1>1, <3>0, <3>3, <3>a DEF JobOK, Counted
    <3>. QED  BY <3>1, <3>2, <3>4 DEF JobOK
  <2>. QED  BY <1>1, <2>1, <2>2, SameOK DEF RestOK, TypeInv
<1>4. CASE ~(job.i > job.old)
  <2>1. PICK r \in NativeDelete(store, job.i) :
          store' = r.store /\ job' = [job EXCEPT !.i = @ + 1, !.leftover = @ \/ ~r.ok]
    BY <1>4 DEF UnlinkChunks
  <2>2. job.i \in Entries
    BY <1>2, <1>4, Sizes DEF Entries, Chunks
  <2>3. store' \in Stores
    BY <2>1, <2>2, DeleteKeeps DEF TypeInv, Keeps
  <2>4. JobOK'
    <3> DEFINE left == job.leftover \/ ~r.ok
    <3>0. job' = [job EXCEPT !.i = job.i + 1, !.leftover = left] /\ left \in BOOLEAN
      BY <2>1
    <3>a. job.i + 1 \in 1 .. job.old + 1 /\ job.i + 1 \in 0 .. MaxPieces + 1
      BY <1>2, <1>4, Sizes
    <3>. HIDE DEF left
    <3>1. job' \in Jobs
      BY <1>1, <3>0, <3>a DEF JobOK, Jobs
    <3>2. Carries' /\ Ends'
      BY <1>1, <3>0 DEF JobOK, Jobs, Carries, Ends, Writing
    <3>b. job'.pc = job.pc /\ job'.i = job.i + 1 /\ job'.old = job.old /\ job'.acc = job.acc
      BY <1>1, <3>0 DEF JobOK, Jobs
    <3>3. Counted'
      BY <1>1, <3>a, <3>b DEF JobOK, Counted
    <3>. QED  BY <3>1, <3>2, <3>3 DEF JobOK
  <2>. QED  BY <1>1, <2>3, <2>4, SameOK DEF RestOK, TypeInv
<1>. QED  BY <1>3, <1>4

LEMMA WriteChunkType == ASSUME TypeInv, WriteChunk PROVE TypeInv'
<1>1. PICK r \in NativeSet(store, job.i, Chunk(job.value, job.i)) :
        /\ store' = r.store
        /\ IF r.ok
           THEN /\ job' = [job EXCEPT !.i = @ + 1, !.pc = IF job.i = Size THEN "main" ELSE @]
                /\ Same
           ELSE KeyringSetFails
  BY DEF WriteChunk
<1>2. JobOK /\ job.pc = "chunk"
  BY DEF WriteChunk, At, TypeInv
<1>3. job.i \in 1 .. Size /\ Size \in 0 .. MaxPieces
  BY <1>2, SizeType DEF JobOK, Counted, Writing
<1>4. job.i \in Chunks /\ job.value \in Values
  BY <1>2, <1>3, Sizes DEF Chunks, JobOK, Carries, Writing, Size
<1>5. r.ok \in BOOLEAN /\ store' \in Stores
  BY <1>1, <1>4, SetKeeps, ContentTypes DEF TypeInv, Keeps
<1>6. CASE r.ok
  <2>1. JobOK'
    <3> DEFINE next == IF job.i = Size THEN "main" ELSE "chunk"
    <3>0. job' = [job EXCEPT !.i = job.i + 1, !.pc = next] /\ next \in {"main", "chunk"}
      BY <1>1, <1>2, <1>6
    <3>a. next = "chunk" => job.i + 1 \in 1 .. Size
      BY <1>3
    <3>b. job.i + 1 \in 0 .. MaxPieces + 1
      BY <1>3, Sizes
    <3>. HIDE DEF next
    <3>1. job' \in Jobs
      BY <1>2, <3>0, <3>b DEF JobOK, Jobs, Labels
    <3>2. Carries' /\ Ends'
      BY <1>2, <3>0 DEF JobOK, Jobs, Carries, Ends, Writing
    <3>3. Size' = Size /\ job'.pc = next /\ job'.i = job.i + 1 /\ job'.acc = job.acc
      BY <1>2, <3>0 DEF JobOK, Jobs, Size
    <3>4. Counted'
      BY <1>2, <3>0, <3>3, <3>a DEF JobOK, Counted
    <3>. QED  BY <3>1, <3>2, <3>4 DEF JobOK
  <2>. QED  BY <1>1, <1>5, <1>6, <2>1, SameOK DEF RestOK, TypeInv
<1>7. CASE ~r.ok
  BY <1>1, <1>2, <1>5, <1>7, KeyringSetFailsOK DEF RestOK, TypeInv, Writing
<1>. QED  BY <1>5, <1>6, <1>7

MainContent == IF job.value = Raw THEN Manifest(job.raw)
               ELSE IF Size > 0 THEN Manifest(Size) ELSE Whole(job.value)

LEMMA MainType == ASSUME TypeInv, job.pc = "main" PROVE MainContent \in Contents
<1>1. JobOK /\ Size \in 0 .. MaxPieces
  BY SizeType DEF TypeInv, Writing
<1>2. CASE job.value = Raw
  <2>1. job.raw \in Chunks
    BY <1>1, <1>2, ConstantsAssumption DEF JobOK, Carries, Writing
  <2>2. Manifest(job.raw) \in Contents
    BY <2>1, ContentTypes
  <2>3. MainContent = Manifest(job.raw)
    BY <1>2 DEF Size, MainContent
  <2>. QED  BY <2>2, <2>3
<1>3. CASE job.value # Raw /\ Size > 0
  <2>1. Size \in Chunks /\ MainContent = Manifest(Size)
    BY <1>1, <1>3, Sizes DEF Chunks, MainContent
  <2>. QED  BY <2>1, ContentTypes
<1>4. CASE job.value # Raw /\ ~(Size > 0)
  <2>1. job.value \in Values /\ MainContent = Whole(job.value)
    BY <1>1, <1>4 DEF JobOK, Carries, Writing, MainContent
  <2>. QED  BY <2>1, ContentTypes
<1>. QED  BY <1>2, <1>3, <1>4

LEMMA WriteMainType == ASSUME TypeInv, WriteMain PROVE TypeInv'
<1> DEFINE x == MainContent
<1>1. PICK r \in NativeSet(store, 0, x) :
        store' = r.store /\ IF r.ok THEN StepTo(Advance) /\ Same ELSE KeyringSetFails
  BY DEF WriteMain, MainContent
<1>2. JobOK /\ job.pc = "main" /\ Size \in 0 .. MaxPieces
  BY SizeType DEF WriteMain, At, TypeInv, Writing
<1>3. x \in Contents
  BY <1>2, MainType
<1>4. r.ok \in BOOLEAN /\ store' \in Stores
  <2>. HIDE DEF x
  <2>. QED  BY <1>1, <1>3, SetKeeps, ContentTypes DEF TypeInv, Keeps
<1>5. CASE r.ok
  <2>1. job' = [job EXCEPT !.pc = Advance]
    BY <1>1, <1>5 DEF StepTo
  <2>2. JobOK'
    BY <1>2, <2>1 DEF JobOK, Jobs, Labels, Carries, Ends, Counted, Writing, Advance
  <2>. QED  BY <1>1, <1>4, <1>5, <2>2, SameOK DEF RestOK, TypeInv
<1>6. CASE ~r.ok
  BY <1>1, <1>2, <1>4, <1>6, KeyringSetFailsOK DEF RestOK, TypeInv, Writing
<1>. QED  BY <1>4, <1>5, <1>6

LEMMA FailsType ==
  ASSUME TypeInv, NEW d \in Fails(store, "dpapi")
  PROVE d \in BOOLEAN /\ Used(store, FALSE, d) \in Stores
        /\ Used(store, FALSE, d).fallback = store.fallback
<1>1. store.faults \in 0 .. MaxFaults /\ MaxFaults \in Nat /\ d \in BOOLEAN
  BY ConstantsAssumption DEF TypeInv, Stores, Fails
<1>2. d => store.faults > 0
  BY DEF Fails
<1>. QED  BY <1>1, <1>2 DEF Used, TypeInv, Stores

LEMMA MirrorType == ASSUME TypeInv, Mirror PROVE TypeInv'
<1>1. PICK d \in IF Windows THEN Fails(store, "dpapi") ELSE {TRUE} :
        /\ store' = IF d THEN Used(store, FALSE, Windows)
                    ELSE [store EXCEPT !.dpapi[0] = Whole(job.value)]
        /\ Finish(IF d /\ At("mirror_only") THEN Unknown ELSE job.value, Unknown)
  BY DEF Mirror
<1>2. job.value \in Values /\ d \in BOOLEAN
  BY DEF Mirror, At, TypeInv, JobOK, Ends, Fails
<1>3. store' \in Stores
  <2>1. CASE ~d
    BY <1>1, <1>2, <2>1, ContentTypes DEF TypeInv, Stores
  <2>2. CASE d /\ Windows
    <3>1. store' = [store EXCEPT !.faults = store.faults - 1]
      BY <1>1, <2>2 DEF Used
    <3>2. store.faults > 0
      BY <1>1, <2>2 DEF Fails
    <3>3. store.faults \in 0 .. MaxFaults /\ MaxFaults \in Nat
      BY ConstantsAssumption DEF TypeInv, Stores
    <3>4. store.faults - 1 \in 0 .. MaxFaults
      BY <3>2, <3>3
    <3>. QED  BY <3>1, <3>4 DEF TypeInv, Stores
  <2>3. CASE d /\ ~Windows
    BY <1>1, <2>3 DEF TypeInv, Used
  <2>. QED  BY <1>2, <2>1, <2>2, <2>3
<1>4. cut' \in BOOLEAN
  BY DEF Mirror, TypeInv, HistoryOK
<1>5. RestOK'
  BY <1>1, <1>2, <1>4, FinishOK
<1>. QED  BY <1>3, <1>5 DEF RestOK, TypeInv

LEMMA ForgetType == ASSUME TypeInv, Forget PROVE TypeInv'
<1>1. job.value \in Values
  BY DEF Forget, At, TypeInv, JobOK, Ends
<1>2. RestOK'
  BY <1>1, FinishOK DEF Forget
<1>3. store' \in Stores
  BY DEF Forget, TypeInv, Stores
<1>. QED  BY <1>2, <1>3 DEF RestOK, TypeInv

-----------------------------------------------------------------------------
(* The steps of a get.                                                       *)

LEMMA PlainStepOK ==
  ASSUME TypeInv, NEW l \in {"read", "dpapi"}, StepTo(l), l = "read" => job.pc = "legacy"
  PROVE JobOK'
<1>1. job' = [job EXCEPT !.pc = l] /\ JobOK
  BY DEF StepTo, TypeInv
<1>2. job' \in Jobs /\ job'.pc = l /\ job'.acc = job.acc
  BY <1>1 DEF JobOK, Jobs, Labels
<1>. QED  BY <1>1, <1>2 DEF JobOK, Carries, Ends, Counted, Writing

\* a get that has to store what it found first
LEMMA StoringOK ==
  ASSUME TypeInv, NEW v \in Values, NEW o \in {"consume", "migrate"},
         job' = [job EXCEPT !.pc = "old", !.op = o, !.value = v, !.then = "consumed"]
  PROVE JobOK'
<1>1. JobOK
  BY DEF TypeInv
<1>2. job' \in Jobs
  BY <1>1 DEF JobOK, Jobs, Labels, Operations
<1>3. job'.pc = "old" /\ job'.op = o /\ job'.value = v /\ job'.then = "consumed"
      /\ job'.acc = job.acc
  BY <1>1 DEF JobOK, Jobs
<1>. QED  BY <1>1, <1>2, <1>3 DEF JobOK, Carries, Ends, Counted, Writing

LEMMA StartGetType == ASSUME TypeInv, StartGet PROVE TypeInv'
<1> DEFINE l == IF config.owner = "renderer" THEN "legacy" ELSE "read"
<1>1. job' = [NoJob EXCEPT !.pc = l, !.op = "get"] /\ l \in {"legacy", "read"}
  BY DEF StartGet
<1>. HIDE DEF l
<1>2. job' \in Jobs /\ job'.pc = l /\ job'.acc = NoJob.acc
  BY <1>1, NoJobType DEF Jobs, Labels, Operations
<1>3. JobOK'
  BY <1>1, <1>2, NoJobType, Sizes DEF JobOK, Carries, Ends, Counted, Writing
<1>. QED  BY <1>3 DEF StartGet, TypeInv, HistoryOK

LEMMA ConsumeLegacyType == ASSUME TypeInv, ConsumeLegacy PROVE TypeInv'
<1>1. Same /\ store' = store /\ job.pc = "legacy"
  BY DEF ConsumeLegacy, At
<1>2. JobOK'
  <2>1. CASE store.fallback # None /\ config.subscribed
    <3>1. store.fallback \in Values
      BY <2>1, ConstantsAssumption DEF TypeInv, Stores
    <3>. QED  BY <2>1, <3>1, StoringOK DEF ConsumeLegacy
  <2>2. CASE ~(store.fallback # None /\ config.subscribed)
    BY <1>1, <2>2, PlainStepOK DEF ConsumeLegacy, StepTo
  <2>. QED  BY <2>1, <2>2
<1>. QED  BY <1>1, <1>2, SameOK DEF RestOK, TypeInv

LEMMA ConsumedType == ASSUME TypeInv, Consumed PROVE TypeInv'
<1>1. job.value \in Values
  BY DEF Consumed, At, TypeInv, JobOK, Ends
<1>2. RestOK'
  BY <1>1, FinishOK DEF Consumed
<1>3. store' \in Stores
  BY DEF Consumed, TypeInv, Stores
<1>. QED  BY <1>2, <1>3 DEF RestOK, TypeInv

LEMMA LastAndCut ==
  ASSUME TypeInv
  PROVE last \in Values \cup {None, Unknown} /\ cut \in BOOLEAN
  BY DEF TypeInv, HistoryOK

LEMMA ReadFailsOK == ASSUME TypeInv, ReadFails PROVE RestOK'
<1>1. CASE StepTo("dpapi") /\ Same
  BY <1>1, PlainStepOK, SameOK
<1>2. CASE Finish(last, Error) /\ UNCHANGED cut
  BY <1>2, LastAndCut, FinishOK
<1>. QED  BY <1>1, <1>2 DEF ReadFails

LEMMA NothingReadOK == ASSUME TypeInv, NothingRead PROVE RestOK'
<1>1. CASE StepTo("dpapi") /\ Same
  BY <1>1, PlainStepOK, SameOK
<1>2. CASE /\ store.fallback # None
           /\ job' = [job EXCEPT !.pc = "old", !.op = "migrate", !.value = store.fallback,
                                 !.then = "consumed"]
           /\ Same
  <2>1. store.fallback \in Values
    BY <1>2, ConstantsAssumption DEF TypeInv, Stores
  <2>. QED  BY <1>2, <2>1, StoringOK, SameOK
<1>3. CASE Finish(last, None) /\ UNCHANGED cut
  BY <1>3, LastAndCut, FinishOK
<1>. QED  BY <1>1, <1>2, <1>3 DEF NothingRead

LEMMA ShownType ==
  ASSUME TypeInv, NEW s \in Stores, NEW v \in Values \cup {Torn}, Shown(s, v)
  PROVE TypeInv'
<1>1. RestOK'
  BY LastAndCut, FinishOK DEF Shown
<1>2. store' \in Stores
  BY DEF Shown, Stores
<1>. QED  BY <1>1, <1>2 DEF RestOK, TypeInv

LEMMA ReadMainType == ASSUME TypeInv, ReadMain PROVE TypeInv'
<1>1. PICK r \in NativeGet(store, 0) :
        CASE ~r.ok -> store' = r.store /\ ReadFails
          [] r.ok /\ r.x = Absent -> store' = r.store /\ NothingRead
          [] r.ok /\ r.x.kind = "whole" -> Shown(r.store, r.x.value)
          [] OTHER -> /\ job' = [job EXCEPT !.pc = "parts", !.i = 1, !.old = Count(r.x)]
                      /\ store' = r.store /\ Same
  BY DEF ReadMain
<1>2. r.ok \in BOOLEAN /\ r.x \in Contents /\ r.store \in Stores
  BY GetKeeps, ContentTypes DEF TypeInv, Keeps
<1>3. Absent.kind # "whole"
  BY DEF Absent
<1>4. CASE ~r.ok
  BY <1>1, <1>2, <1>4, ReadFailsOK DEF RestOK, TypeInv
<1>5. CASE r.ok /\ r.x = Absent
  BY <1>1, <1>2, <1>3, <1>5, NothingReadOK DEF RestOK, TypeInv
<1>6. CASE r.ok /\ r.x.kind = "whole"
  <2>1. Shown(r.store, r.x.value)
    BY <1>1, <1>3, <1>6
  <2>2. r.x.value \in Values
    BY <1>2, <1>6, ContentParts
  <2>. QED  BY <1>2, <2>1, <2>2, ShownType
<1>7. CASE r.ok /\ r.x # Absent /\ r.x.kind # "whole"
  <2> DEFINE n == Count(r.x)
  <2>1. job' = [job EXCEPT !.pc = "parts", !.i = 1, !.old = n] /\ store' = r.store /\ Same
    BY <1>1, <1>7
  <2>2. n \in 0 .. MaxPieces
    BY <1>2, ContentParts
  <2>. HIDE DEF n
  <2>3. job.pc = "read" /\ JobOK
    BY DEF ReadMain, At, TypeInv
  <2>4. job' \in Jobs
    BY <2>1, <2>2, <2>3, First DEF JobOK, Jobs, Labels
  <2>5. job'.pc = "parts" /\ job'.i = 1 /\ job'.old = n /\ job'.acc = job.acc
    BY <2>1, <2>3 DEF JobOK, Jobs
  <2>6. JobOK'
    BY <2>2, <2>3, <2>4, <2>5 DEF JobOK, Carries, Ends, Counted, Writing
  <2>. QED  BY <1>2, <2>1, <2>6, SameOK DEF RestOK, TypeInv
<1>. QED  BY <1>2, <1>4, <1>5, <1>6, <1>7

LEMMA ReadPartType == ASSUME TypeInv, ReadPart PROVE TypeInv'
<1>1. JobOK /\ job.pc = "parts" /\ job.i <= job.old
  BY DEF ReadPart, At, TypeInv
<1>2. job.i \in 1 .. job.old /\ job.old \in 0 .. MaxPieces /\ Len(job.acc) = job.i - 1
      /\ job.acc \in Seq(Contents)
  BY <1>1 DEF JobOK, Counted, Jobs
<1>3. job.i \in Entries
  BY <1>2, Sizes DEF Entries, Chunks
<1>4. PICK r \in NativeGet(store, job.i) :
        /\ store' = r.store
        /\ IF r.ok /\ r.x # Absent
           THEN job' = [job EXCEPT !.i = @ + 1, !.acc = Append(@, r.x)] /\ Same
           ELSE ReadFails
  BY DEF ReadPart
<1>5. r.ok \in BOOLEAN /\ r.x \in Contents /\ r.store \in Stores
  BY <1>3, GetKeeps DEF TypeInv, Keeps
<1>6. CASE r.ok /\ r.x # Absent
  <2> DEFINE acc == Append(job.acc, r.x)
  <2>1. job' = [job EXCEPT !.i = job.i + 1, !.acc = acc] /\ Same
    BY <1>4, <1>6
  <2>2. acc \in Seq(Contents) /\ Len(acc) = job.i
    BY <1>2, <1>5
  <2>. HIDE DEF acc
  <2>3. job.i + 1 \in 1 .. job.old + 1 /\ job.i + 1 \in 0 .. MaxPieces + 1 /\ job.i <= MaxPieces
        /\ job.i = (job.i + 1) - 1
    BY <1>2, Sizes
  <2>4. job' \in Jobs
    BY <1>1, <2>1, <2>2, <2>3 DEF JobOK, Jobs
  <2>5. job'.pc = "parts" /\ job'.i = job.i + 1 /\ job'.old = job.old /\ job'.acc = acc
    BY <1>1, <2>1 DEF JobOK, Jobs
  <2>6. JobOK'
    BY <2>2, <2>3, <2>4, <2>5 DEF JobOK, Carries, Ends, Counted, Writing
  <2>. QED  BY <1>4, <1>5, <2>1, <2>6, SameOK DEF RestOK, TypeInv
<1>7. CASE ~(r.ok /\ r.x # Absent)
  BY <1>4, <1>5, <1>7, ReadFailsOK DEF RestOK, TypeInv
<1>. QED  BY <1>6, <1>7

LEMMA ReadDoneType == ASSUME TypeInv, ReadDone PROVE TypeInv'
<1>1. Text(job.acc) \in Values \cup {Torn}
  BY DEF Text
<1>. QED  BY <1>1, ShownType DEF ReadDone, TypeInv

LEMMA ReadMirrorType == ASSUME TypeInv, ReadMirror PROVE TypeInv'
<1> DEFINE x == store.dpapi[0]
           v == IF x.kind = "manifest" THEN Raw ELSE x.value
<1>1. PICK d \in Fails(store, "dpapi") :
        /\ store' = Used(store, FALSE, d)
        /\ CASE d \/ x = Absent -> Finish(last, None) /\ UNCHANGED cut
             [] OTHER -> /\ job' = [job EXCEPT !.pc = "old", !.op = "restore", !.value = v,
                                               !.raw = x.n, !.then = "restored"]
                         /\ Same
  BY DEF ReadMirror
<1>2. store' \in Stores /\ x \in Contents /\ JobOK
  BY <1>1, FailsType, ContentTypes DEF TypeInv, Stores
<1>3. CASE d \/ x = Absent
  BY <1>1, <1>2, <1>3, LastAndCut, FinishOK DEF RestOK, TypeInv
<1>4. CASE ~(d \/ x = Absent)
  <2>1. x.n \in 0 .. MaxPieces /\ (v \in Values \/ (v = Raw /\ x.n \in Chunks))
    BY <1>2, <1>4, ContentParts
  <2> DEFINE n == x.n
  <2>2. job' = [job EXCEPT !.pc = "old", !.op = "restore", !.value = v, !.raw = n,
                           !.then = "restored"] /\ Same
    BY <1>1, <1>4
  <2>3. n \in 0 .. MaxPieces /\ (v \in Values \/ (v = Raw /\ n \in Chunks))
    BY <2>1
  <2>. HIDE DEF v, n
  <2>4. job' \in Jobs
    BY <1>2, <2>2, <2>3 DEF JobOK, Jobs, Labels, Operations
  <2>5. job'.pc = "old" /\ job'.op = "restore" /\ job'.value = v /\ job'.raw = n
        /\ job'.then = "restored" /\ job'.acc = job.acc
    BY <1>2, <2>2 DEF JobOK, Jobs
  <2>6. JobOK'
    BY <1>2, <2>3, <2>4, <2>5 DEF JobOK, Carries, Ends, Counted, Writing
  <2>. QED  BY <1>2, <2>2, <2>6, SameOK DEF RestOK, TypeInv
<1>. QED  BY <1>3, <1>4

LEMMA RestoredType == ASSUME TypeInv, Restored PROVE TypeInv'
<1>1. job.value \in Values \cup {Raw}
  BY DEF Restored, At, TypeInv, JobOK, Ends
<1>2. RestOK'
  BY <1>1, LastAndCut, FinishOK DEF Restored
<1>. QED  BY <1>2 DEF Restored, RestOK, TypeInv

-----------------------------------------------------------------------------
(* The steps of a delete, and the end of the process.                        *)

LEMMA StartDeleteType == ASSUME TypeInv, StartDelete PROVE TypeInv'
<1>1. job' = [NoJob EXCEPT !.pc = "find", !.op = "delete"]
  BY DEF StartDelete
<1>2. job' \in Jobs /\ job'.pc = "find" /\ job'.op = "delete" /\ job'.acc = NoJob.acc
  BY <1>1, NoJobType DEF Jobs, Labels, Operations
<1>3. JobOK'
  BY <1>2, NoJobType, Sizes DEF JobOK, Carries, Ends, Counted, Writing
<1>. QED  BY <1>3 DEF StartDelete, TypeInv, HistoryOK

LEMMA FindOldType == ASSUME TypeInv, FindOld PROVE TypeInv'
<1>1. PICK r \in NativeGet(store, 0) :
        /\ store' = r.store
        /\ job' = IF r.ok THEN [job EXCEPT !.pc = "drop", !.i = 1, !.old = Count(r.x)]
                  ELSE [job EXCEPT !.pc = "drop_mirror", !.leftover = TRUE]
  BY DEF FindOld
<1>2. r.ok \in BOOLEAN /\ r.x \in Contents /\ r.store \in Stores
  BY GetKeeps, ContentTypes DEF TypeInv, Keeps
<1>3. job.pc = "find" /\ JobOK /\ Same
  BY DEF FindOld, At, TypeInv
<1>4. CASE r.ok
  <2> DEFINE n == Count(r.x)
  <2>1. job' = [job EXCEPT !.pc = "drop", !.i = 1, !.old = n]
    BY <1>1, <1>4
  <2>2. n \in 0 .. MaxPieces
    BY <1>2, ContentParts
  <2>. HIDE DEF n
  <2>3. job' \in Jobs
    BY <1>3, <2>1, <2>2, First DEF JobOK, Jobs, Labels
  <2>4. job'.pc = "drop" /\ job'.i = 1 /\ job'.old = n /\ job'.acc = job.acc /\ job'.op = job.op
    BY <1>3, <2>1 DEF JobOK, Jobs
  <2>5. JobOK'
    BY <1>3, <2>2, <2>3, <2>4 DEF JobOK, Carries, Ends, Counted, Writing
  <2>. QED  BY <1>1, <1>2, <1>3, <2>5, SameOK DEF RestOK, TypeInv
<1>5. CASE ~r.ok
  <2> DEFINE left == TRUE
  <2>1. job' = [job EXCEPT !.pc = "drop_mirror", !.leftover = left] /\ left \in BOOLEAN
    BY <1>1, <1>5
  <2>. HIDE DEF left
  <2>2. job' \in Jobs /\ job'.pc = "drop_mirror" /\ job'.acc = job.acc /\ job'.op = job.op
    BY <1>3, <2>1 DEF JobOK, Jobs, Labels
  <2>3. JobOK'
    BY <1>3, <2>2 DEF JobOK, Carries, Ends, Counted, Writing
  <2>. QED  BY <1>1, <1>2, <1>3, <2>3, SameOK DEF RestOK, TypeInv
<1>. QED  BY <1>2, <1>4, <1>5

LEMMA DropChunkType == ASSUME TypeInv, DropChunk PROVE TypeInv'
<1>1. JobOK /\ job.pc = "drop" /\ job.i <= job.old /\ Same
  BY DEF DropChunk, At, TypeInv
<1>2. job.i \in 1 .. job.old /\ job.old \in 0 .. MaxPieces
  BY <1>1 DEF JobOK, Counted, Jobs
<1>3. job.i \in Entries /\ job.i + 1 \in 1 .. job.old + 1 /\ job.i + 1 \in 0 .. MaxPieces + 1
  BY <1>2, Sizes DEF Entries, Chunks
<1>4. PICK r \in NativeDelete(store, job.i) :
        store' = r.store /\ job' = [job EXCEPT !.i = job.i + 1]
  BY DEF DropChunk
<1>5. store' \in Stores
  BY <1>3, <1>4, DeleteKeeps DEF TypeInv, Keeps
<1>6. job' \in Jobs
  BY <1>1, <1>3, <1>4 DEF JobOK, Jobs
<1>7. job'.pc = "drop" /\ job'.i = job.i + 1 /\ job'.old = job.old /\ job'.acc = job.acc
      /\ job'.op = job.op
  BY <1>1, <1>4 DEF JobOK, Jobs
<1>8. JobOK'
  BY <1>1, <1>3, <1>6, <1>7 DEF JobOK, Carries, Ends, Counted, Writing
<1>. QED  BY <1>1, <1>5, <1>8, SameOK DEF RestOK, TypeInv

LEMMA DropMainType == ASSUME TypeInv, DropMain PROVE TypeInv'
<1>1. JobOK /\ job.pc = "drop" /\ Same
  BY DEF DropMain, At, TypeInv
<1>2. PICK r \in NativeDelete(store, 0) :
        store' = r.store /\ job' = [job EXCEPT !.pc = "drop_mirror", !.leftover = ~r.ok]
  BY DEF DropMain
<1>3. store' \in Stores
  BY <1>2, DeleteKeeps, ContentTypes DEF TypeInv, Keeps
<1> DEFINE left == ~r.ok
<1>4. job' = [job EXCEPT !.pc = "drop_mirror", !.leftover = left] /\ left \in BOOLEAN
  BY <1>2
<1>. HIDE DEF left
<1>5. job' \in Jobs /\ job'.pc = "drop_mirror" /\ job'.acc = job.acc /\ job'.op = job.op
  BY <1>1, <1>4 DEF JobOK, Jobs, Labels
<1>6. JobOK'
  BY <1>1, <1>5 DEF JobOK, Carries, Ends, Counted, Writing
<1>. QED  BY <1>1, <1>3, <1>6, SameOK DEF RestOK, TypeInv

LEMMA DropMirrorType == ASSUME TypeInv, DropMirror PROVE TypeInv'
<1> DEFINE mirrored == config.owner = "app" /\ Windows
<1>1. PICK d \in IF mirrored THEN Fails(store, "dpapi") ELSE {FALSE} :
        /\ store' = IF config.owner = "renderer" THEN [store EXCEPT !.fallback = None]
                    ELSE [Used(store, FALSE, d) EXCEPT
                            !.dpapi[0] = IF d \/ ~Windows THEN @ ELSE Absent]
        /\ \E result \in {None, Unknown} : Finish(result, Unknown)
  BY DEF DropMirror
<1>2. RestOK'
  BY <1>1, FinishOK, LastAndCut DEF DropMirror
<1>3. d \in Fails(store, "dpapi")
  BY <1>1 DEF Fails
<1>4. Used(store, FALSE, d) \in Stores
  BY <1>3, FailsType
<1>5. store' \in Stores
  <2> DEFINE t == Used(store, FALSE, d)
  <2>1. t \in Stores
    BY <1>4
  <2>2. \/ store' = [store EXCEPT !.fallback = None]
        \/ store' = [t EXCEPT !.dpapi[0] = t.dpapi[0]]
        \/ store' = [t EXCEPT !.dpapi[0] = Absent]
    BY <1>1
  <2>. HIDE DEF t
  <2>. QED  BY <2>1, <2>2, ContentTypes DEF TypeInv, Stores
<1>. QED  BY <1>2, <1>5 DEF RestOK, TypeInv

LEMMA CrashType == ASSUME TypeInv, Crash PROVE TypeInv'
<1>1. JobOK'
  BY NoJobType, Sizes DEF Crash, NoJob, JobOK, Carries, Ends, Counted, Writing
<1>2. HistoryOK'
  BY EndsEarlyOK, LastAndCut DEF Crash, HistoryOK
<1>. QED  BY <1>1, <1>2 DEF Crash, TypeInv

LEMMA InitType == ASSUME Init PROVE TypeInv
<1>1. JobOK
  BY NoJobType, Sizes DEF Init, NoJob, JobOK, Carries, Ends, Counted, Writing
<1>2. Nothing \in [Entries -> Contents]
  BY ContentTypes DEF Nothing
<1>3. [Nothing EXCEPT ![0] = Whole(LegacyValue)] \in [Entries -> Contents]
  BY <1>2, ContentTypes, ConstantsAssumption
<1>4. PICK l \in {Nothing, [Nothing EXCEPT ![0] = Whole(LegacyValue)]}, f \in {None, LegacyValue} :
        store = [keyring |-> Nothing, dpapi |-> Nothing, legacy |-> l, fallback |-> f,
                 faults |-> MaxFaults]
  BY DEF Init
<1>5. store \in Stores
  BY <1>2, <1>3, <1>4, ConstantsAssumption DEF Stores
<1>6. config \in Configs
  BY DEF Init, Configs
<1>7. HistoryOK
  BY DEF Init, HistoryOK
<1>. QED  BY <1>1, <1>5, <1>6, <1>7 DEF TypeInv

LEMMA StepType == ASSUME TypeInv, Call \/ Step \/ Crash PROVE TypeInv'
  BY StartSetType, ReadOldType, UnlinkChunksType, WriteChunkType, WriteMainType,
     MirrorType, ForgetType, StartGetType, ConsumeLegacyType, ConsumedType, ReadMainType,
     ReadPartType, ReadDoneType, ReadMirrorType, RestoredType, StartDeleteType, FindOldType,
     DropChunkType, DropMainType, DropMirrorType, CrashType DEF Call, Step

LEMMA JobFits == JobOK <=> Fits(job)
  BY DEF JobOK, Carries, Ends, Counted, Fits, Size

LEMMA NoJobFits == Fits(NoJob)
  BY NoJobType, Sizes DEF NoJob, Fits, Writing

\* an operation that waits keeps what it has, and goes on with it
LEMMA SwitchType ==
  ASSUME TypeInv, OthersOK, NEW s \in Slots, Switch(s) PROVE TypeInv' /\ OthersOK'
<1>1. /\ job' = paused[s] /\ paused' = [paused EXCEPT ![s] = job] /\ turns' = turns + 1
      /\ UNCHANGED <<config, store, last, cut, seen>>
  BY DEF Switch
<1>2. Fits(job) /\ Fits(paused[s]) /\ job \in Jobs
  BY JobFits DEF TypeInv, OthersOK, JobOK
<1>3. OthersOK'
  BY <1>1, <1>2 DEF OthersOK
<1>4. Fits(job)'
  BY <1>1, <1>2 DEF Fits
<1>5. JobOK'
  BY <1>4 DEF JobOK, Carries, Ends, Counted, Fits, Size
<1>. QED  BY <1>1, <1>3, <1>5 DEF TypeInv, HistoryOK

LEMMA OthersInit == ASSUME Init PROVE OthersOK
  BY NoJobFits, NoJobType DEF Init, OthersOK

LEMMA OthersNext == ASSUME TypeInv, OthersOK, [Next]_vars PROVE TypeInv' /\ OthersOK'
<1>1. CASE UNCHANGED vars
  BY <1>1 DEF vars, TypeInv, JobOK, Carries, Ends, Counted, HistoryOK, Size, OthersOK
<1>2. CASE (Call \/ Step) /\ UNCHANGED <<paused, turns>>
  BY <1>2, StepType DEF OthersOK
<1>3. CASE \E s \in Slots : Switch(s)
  BY <1>3, SwitchType
<1>4. CASE Crash
  BY <1>4, StepType, NoJobFits, NoJobType DEF Crash, OthersOK
<1>. QED  BY <1>1, <1>2, <1>3, <1>4 DEF Next

LEMMA TypeInvariance == Spec => [](TypeInv /\ OthersOK)
<1>1. Init => TypeInv /\ OthersOK
  BY InitType, OthersInit
<1>2. TypeInv /\ OthersOK /\ [Next]_vars => TypeInv' /\ OthersOK'
  BY OthersNext
<1>. QED  BY <1>1, <1>2, PTL DEF Spec

\* a step after which operations still have not overlapped is a step of the only one
LEMMA AloneNext ==
  ASSUME OthersOK, [Next]_vars, ~Overlapped'
  PROVE ~Overlapped /\ (Call \/ Step \/ Crash \/ UNCHANGED vars)
<1>1. CASE UNCHANGED vars
  BY <1>1 DEF vars, Overlapped
<1>2. CASE (Call \/ Step) /\ UNCHANGED <<paused, turns>>
  BY <1>2 DEF Overlapped
<1>3. ASSUME NEW s \in Slots, Switch(s) PROVE FALSE
  BY <1>3 DEF Switch, OthersOK, Overlapped
<1>4. CASE Crash
  BY <1>4 DEF Crash, Overlapped
<1>. QED  BY <1>1, <1>2, <1>3, <1>4 DEF Next

\* The variables keep their types: what is stored in each entry, the loops over the
\* chunks, the texts put together from them (storage/mod.rs).
THEOREM SecretTypeCorrect == Spec => []TypeOK
<1>1. TypeInv /\ OthersOK => TypeOK
  BY DEF TypeInv, TypeOK, Stores, JobOK, Jobs, Counted, HistoryOK, OthersOK, Fits
<1>. QED  BY <1>1, TypeInvariance, PTL

-----------------------------------------------------------------------------
(* What SecretStore promises, for every set of values, every size of them  *)
(* and every bound: a migration loses nothing, whatever overlaps. For      *)
(* operations one after another: where the keyring works always or never,  *)
(* what has been deleted stays deleted and what was set is read; and where *)
(* no store fails, what is read is whole, whatever was killed between two  *)
(* entries.                                                                *)

-----------------------------------------------------------------------------
(* A migration loses nothing: only five actions touch the plaintext file.    *)

Survives ==
  store.fallback # None /\ store'.fallback = None =>
    job.op \in {"set", "delete"} \/ seen' \in Values \cup {Torn}

LEMMA CallsKeepFallback ==
  ASSUME TypeInv, NEW e \in Entries, NEW r \in NativeGet(store, e) \cup NativeDelete(store, e),
         store' = r.store
  PROVE store'.fallback = store.fallback
  BY GetKeeps, DeleteKeeps DEF TypeInv, Keeps

LEMMA WritesKeepFallback ==
  ASSUME TypeInv, NEW e \in Entries, NEW x \in Contents, NEW r \in NativeSet(store, e, x),
         store' = r.store
  PROVE store'.fallback = store.fallback
  BY SetKeeps DEF TypeInv, Keeps

LEMMA ReadOldSurvives == ASSUME TypeInv, ReadOld PROVE Survives
  BY CallsKeepFallback, ContentTypes DEF ReadOld, Survives

LEMMA UnlinkSurvives == ASSUME TypeInv, UnlinkChunks PROVE Survives
<1>1. JobOK /\ job.pc = "unlink"
  BY DEF UnlinkChunks, At, TypeInv
<1>2. job.i \in 1 .. job.old + 1 /\ job.old \in 0 .. MaxPieces
  BY <1>1 DEF JobOK, Counted, Jobs
<1>3. CASE ~(job.i > job.old)
  <2>1. job.i \in Entries
    BY <1>2, <1>3, Sizes DEF Entries, Chunks
  <2>. QED  BY <1>3, <2>1, CallsKeepFallback DEF UnlinkChunks, Survives
<1>. QED  BY <1>3 DEF UnlinkChunks, Survives

LEMMA WriteChunkSurvives == ASSUME TypeInv, WriteChunk PROVE Survives
<1>1. JobOK /\ job.pc = "chunk"
  BY DEF WriteChunk, At, TypeInv
<1>2. job.i \in 1 .. Size /\ Size \in 0 .. MaxPieces
  BY <1>1, SizeType DEF JobOK, Counted, Writing
<1>3. job.i \in Chunks /\ job.value \in Values
  BY <1>1, <1>2, Sizes DEF Chunks, JobOK, Carries, Writing, Size
<1>4. job.i \in Entries /\ Chunk(job.value, job.i) \in Contents
  BY <1>3, ContentTypes
<1>. QED  BY <1>4, WritesKeepFallback DEF WriteChunk, Survives

LEMMA WriteMainSurvives == ASSUME TypeInv, WriteMain PROVE Survives
<1>1. PICK r \in NativeSet(store, 0, MainContent) : store' = r.store
  BY DEF WriteMain, MainContent
<1>2. MainContent \in Contents
  BY MainType DEF WriteMain, At
<1>. QED  BY <1>1, <1>2, WritesKeepFallback, ContentTypes DEF Survives

LEMMA MirrorSurvives == ASSUME TypeInv, Mirror PROVE Survives
<1>1. job.op = "set"
  BY DEF Mirror, At, TypeInv, JobOK, Ends
<1>. QED  BY <1>1 DEF Survives

LEMMA ReadMainSurvives == ASSUME TypeInv, ReadMain PROVE Survives
<1>1. PICK r \in NativeGet(store, 0) :
        CASE ~r.ok -> store' = r.store /\ ReadFails
          [] r.ok /\ r.x = Absent -> store' = r.store /\ NothingRead
          [] r.ok /\ r.x.kind = "whole" -> Shown(r.store, r.x.value)
          [] OTHER -> /\ job' = [job EXCEPT !.pc = "parts", !.i = 1, !.old = Count(r.x)]
                      /\ store' = r.store /\ Same
  BY DEF ReadMain
<1>2. r.ok \in BOOLEAN /\ r.x \in Contents /\ Absent.kind # "whole"
  BY GetKeeps, ContentTypes DEF TypeInv, Absent
<1>3. CASE r.ok /\ r.x.kind = "whole"
  <2>1. r.x.value \in Values
    BY <1>2, <1>3, ContentParts
  <2>2. seen' = r.x.value
    BY <1>1, <1>2, <1>3 DEF Shown, Finish
  <2>. QED  BY <2>1, <2>2 DEF Survives
<1>4. CASE ~(r.ok /\ r.x.kind = "whole")
  <2>1. store' = r.store
    BY <1>1, <1>2, <1>4
  <2>. QED  BY <2>1, CallsKeepFallback, ContentTypes DEF Survives
<1>. QED  BY <1>3, <1>4

LEMMA ReadPartSurvives == ASSUME TypeInv, ReadPart PROVE Survives
<1>1. JobOK /\ job.pc = "parts" /\ job.i <= job.old
  BY DEF ReadPart, At, TypeInv
<1>2. job.i \in 1 .. job.old /\ job.old \in 0 .. MaxPieces
  BY <1>1 DEF JobOK, Counted, Jobs
<1>3. job.i \in Entries
  BY <1>2, Sizes DEF Entries, Chunks
<1>. QED  BY <1>3, CallsKeepFallback DEF ReadPart, Survives

LEMMA ReadDoneSurvives == ASSUME TypeInv, ReadDone PROVE Survives
<1>1. Text(job.acc) \in Values \cup {Torn}
  BY DEF Text
<1>. QED  BY <1>1 DEF ReadDone, Shown, Finish, Survives

LEMMA ConsumedSurvives == ASSUME TypeInv, Consumed PROVE Survives
<1>1. job.value \in Values
  BY DEF Consumed, At, TypeInv, JobOK, Ends
<1>. QED  BY <1>1 DEF Consumed, Finish, Survives

LEMMA ReadMirrorSurvives == ASSUME TypeInv, ReadMirror PROVE Survives
  BY FailsType DEF ReadMirror, Survives

LEMMA DeletingSurvives == ASSUME TypeInv, FindOld \/ DropChunk \/ DropMain \/ DropMirror PROVE Survives
<1>1. job.op = "delete"
  BY DEF FindOld, DropChunk, DropMain, DropMirror, At, TypeInv, JobOK, Ends
<1>. QED  BY <1>1 DEF Survives

LEMMA ForgetSurvives == ASSUME TypeInv, Forget PROVE Survives
<1>1. job.op = "set"
  BY DEF Forget, At, TypeInv, JobOK, Ends
<1>. QED  BY <1>1 DEF Survives

LEMMA StepSurvives == ASSUME TypeInv, [Next]_vars PROVE [Survives]_vars
<1>1. CASE Next
  <2>1. ASSUME store' = store PROVE Survives
    BY <2>1 DEF Survives
  <2>2. CASE Call
    BY <2>1, <2>2 DEF Call, StartSet, StartGet, StartDelete
  <2>3. CASE ConsumeLegacy \/ Restored \/ Crash
    BY <2>1, <2>3 DEF ConsumeLegacy, Restored, Crash
  <2>4. ASSUME NEW s \in Slots, Switch(s) PROVE Survives
    BY <2>1, <2>4 DEF Switch
  <2>. QED  BY <1>1, <2>2, <2>3, <2>4, ReadOldSurvives, UnlinkSurvives, WriteChunkSurvives,
            WriteMainSurvives, MirrorSurvives, ForgetSurvives, ConsumedSurvives,
            ReadMainSurvives, ReadPartSurvives, ReadDoneSurvives, ReadMirrorSurvives,
            DeletingSurvives DEF Next, Step
<1>2. CASE UNCHANGED vars
  BY <1>2
<1>. QED  BY <1>1, <1>2

\* The state an older version left behind survives its migration: whatever fails or is
\* killed between two entries, its file goes only with a set or a delete of the key, or
\* when a get shows what the keyring holds (storage/mod.rs).
THEOREM MigrationKeepsState == Spec => LegacySurvives
<1>1. TypeInv /\ [Next]_vars => [Survives]_vars
  BY StepSurvives
<1>. QED  BY <1>1, TypeInvariance, PTL DEF Spec, LegacySurvives, Survives

-----------------------------------------------------------------------------
(* What has been deleted stays deleted, if the keyring works always or never *)
(* for the user. Otherwise the delete of an app key succeeds with its DPAPI  *)
(* file alone (app_api_native_secret_delete).                                *)

KeyGone(s) == s.keyring[0] = Absent /\ s.dpapi[0] = Absent /\ s.legacy[0] = Absent

\* the places where a get can be that has found nothing yet
Searching == {"idle", "legacy", "read", "dpapi"}

Deleted ==
  last = None => /\ KeyGone(store) /\ store.fallback = None
                 /\ seen \notin Values /\ job.pc \in Searching

\* before its last part a delete has removed the key, unless it says otherwise
Deleting ==
  job.pc = "drop_mirror" =>
    /\ ~job.leftover => KeyGone(store)
    /\ Windows => store.keyring[0] = Absent

Quiet ==
  /\ Unused(store)
  /\ config.owner = "app" => store.fallback = None
  /\ Deleted /\ Deleting

LEMMA Distinct ==
  /\ None \notin Values /\ Unknown \notin Values \cup {None} /\ Error \notin Values \cup {None}
  /\ Torn \notin Values \cup {None} /\ Raw \notin Values \cup {None}
  BY ConstantsAssumption

\* a store that may have changed, but not what the invariant says of it while something
\* else than a search goes on
LEMMA BusyQuiet ==
  ASSUME TypeInv, Quiet, Keeps(store, store'), UNCHANGED config,
         last' # None, job'.pc # "drop_mirror"
  PROVE Quiet'
<1>1. Windows' = Windows
  BY DEF Windows
<1>2. Unused(store')
  BY DEF Keeps, Quiet
<1>3. Unused(store)'
  BY <1>1, <1>2 DEF Unused
<1>. QED  BY <1>1, <1>3 DEF Quiet, Deleted, Deleting, Keeps

LEMMA BusyLast == ASSUME Quiet, job.pc \notin Searching PROVE last # None
  BY DEF Quiet, Deleted

LEMMA SetFailsLast ==
  ASSUME TypeInv, Quiet, job.pc \notin Searching, KeyringSetFails
  PROVE UNCHANGED config /\ last' # None /\ job'.pc # "drop_mirror"
<1>1. last # None /\ JobOK
  BY BusyLast DEF TypeInv
<1>2. CASE StepTo("mirror_only") /\ UNCHANGED <<config, last, seen>>
  BY <1>1, <1>2 DEF StepTo, JobOK, Jobs
<1>3. CASE StepTo("restored") /\ UNCHANGED <<config, last, seen>>
  BY <1>1, <1>3 DEF StepTo, JobOK, Jobs
<1>4. CASE Finish(Unknown, Unknown) \/ Finish(Unknown, Error)
  BY <1>4, Distinct DEF Finish, NoJob
<1>. QED  BY <1>2, <1>3, <1>4 DEF KeyringSetFails

LEMMA StartSetQuiet == ASSUME TypeInv, Quiet, NEW v \in Values, StartSet(v) PROVE Quiet'
<1>1. job'.pc = "old"
  BY NoJobType DEF StartSet, Jobs
<1>2. Keeps(store, store')
  BY DEF Keeps, StartSet, TypeInv
<1>. QED  BY <1>1, <1>2, BusyQuiet, Distinct DEF StartSet

LEMMA ReadOldQuiet == ASSUME TypeInv, Quiet, ReadOld PROVE Quiet'
<1>1. PICK r \in NativeGet(store, 0) :
        /\ store' = r.store
        /\ \/ job' = [job EXCEPT !.pc = "unlink", !.i = 1, !.old = Count(r.x),
                                 !.leftover = r.store.faults < store.faults] /\ Same
           \/ KeyringSetFails
  BY DEF ReadOld
<1>2. Keeps(store, store')
  BY <1>1, GetKeeps, ContentTypes DEF TypeInv
<1>3. job.pc = "old" /\ last # None
  BY BusyLast DEF ReadOld, At, Searching
<1>4. CASE job' = [job EXCEPT !.pc = "unlink", !.i = 1, !.old = Count(r.x),
                              !.leftover = r.store.faults < store.faults] /\ Same
  <2>1. job'.pc = "unlink"
    BY <1>4 DEF TypeInv, JobOK, Jobs
  <2>. QED  BY <1>2, <1>3, <1>4, <2>1, BusyQuiet DEF Same
<1>5. CASE KeyringSetFails
  BY <1>2, <1>3, <1>5, SetFailsLast, BusyQuiet DEF Searching
<1>. QED  BY <1>1, <1>4, <1>5

LEMMA UnlinkChunksQuiet == ASSUME TypeInv, Quiet, UnlinkChunks PROVE Quiet'
<1>1. JobOK /\ job.pc = "unlink" /\ Same /\ last # None
  BY BusyLast DEF UnlinkChunks, At, TypeInv, Searching
<1>2. job.i \in 1 .. job.old + 1 /\ job.old \in 0 .. MaxPieces
  BY <1>1 DEF JobOK, Counted, Jobs
<1>3. CASE job.i > job.old
  <2>1. job'.pc \in {"main", "chunk"} /\ store' = store
    BY <1>1, <1>3 DEF UnlinkChunks, JobOK, Jobs
  <2>2. Keeps(store, store')
    BY <2>1 DEF Keeps, TypeInv
  <2>. QED  BY <1>1, <2>1, <2>2, BusyQuiet DEF Same
<1>4. CASE ~(job.i > job.old)
  <2>1. job.i \in Entries
    BY <1>2, <1>4, Sizes DEF Entries, Chunks
  <2>2. PICK r \in NativeDelete(store, job.i) :
          store' = r.store /\ job' = [job EXCEPT !.i = @ + 1, !.leftover = @ \/ ~r.ok]
    BY <1>4 DEF UnlinkChunks
  <2>3. Keeps(store, store')
    BY <2>1, <2>2, DeleteKeeps DEF TypeInv
  <2>4. job'.pc = "unlink"
    BY <1>1, <2>2 DEF JobOK, Jobs
  <2>. QED  BY <1>1, <2>3, <2>4, BusyQuiet DEF Same
<1>. QED  BY <1>3, <1>4

LEMMA WriteChunkQuiet == ASSUME TypeInv, Quiet, WriteChunk PROVE Quiet'
<1>1. JobOK /\ job.pc = "chunk" /\ last # None
  BY BusyLast DEF WriteChunk, At, TypeInv, Searching
<1>2. job.i \in 1 .. Size /\ Size \in 0 .. MaxPieces
  BY <1>1, SizeType DEF JobOK, Counted, Writing
<1>3. job.i \in Chunks /\ job.value \in Values
  BY <1>1, <1>2, Sizes DEF Chunks, JobOK, Carries, Writing, Size
<1>4. PICK r \in NativeSet(store, job.i, Chunk(job.value, job.i)) :
        /\ store' = r.store
        /\ \/ /\ job' = [job EXCEPT !.i = @ + 1, !.pc = IF job.i = Size THEN "main" ELSE @]
              /\ Same
           \/ KeyringSetFails
  BY DEF WriteChunk
<1>5. Keeps(store, store')
  BY <1>3, <1>4, SetKeeps, ContentTypes DEF TypeInv
<1>6. CASE /\ job' = [job EXCEPT !.i = @ + 1, !.pc = IF job.i = Size THEN "main" ELSE @]
           /\ Same
  <2>1. job'.pc \in {"main", "chunk"}
    BY <1>1, <1>6 DEF JobOK, Jobs
  <2>. QED  BY <1>1, <1>5, <1>6, <2>1, BusyQuiet DEF Same
<1>7. CASE KeyringSetFails
  BY <1>1, <1>5, <1>7, SetFailsLast, BusyQuiet DEF Searching
<1>. QED  BY <1>4, <1>6, <1>7

LEMMA WriteMainQuiet == ASSUME TypeInv, Quiet, WriteMain PROVE Quiet'
<1>1. JobOK /\ job.pc = "main" /\ last # None
  BY BusyLast DEF WriteMain, At, TypeInv, Searching
<1>2. PICK r \in NativeSet(store, 0, MainContent) :
        store' = r.store /\ ((StepTo(Advance) /\ Same) \/ KeyringSetFails)
  BY DEF WriteMain, MainContent
<1>3. Keeps(store, store')
  BY <1>1, <1>2, MainType, SetKeeps, ContentTypes DEF TypeInv
<1>4. CASE StepTo(Advance) /\ Same
  <2>1. job'.pc # "drop_mirror"
    BY <1>1, <1>4 DEF StepTo, Advance, JobOK, Jobs
  <2>. QED  BY <1>1, <1>3, <1>4, <2>1, BusyQuiet DEF Same
<1>5. CASE KeyringSetFails
  BY <1>1, <1>3, <1>5, SetFailsLast, BusyQuiet DEF Searching
<1>. QED  BY <1>2, <1>4, <1>5
LEMMA MirrorQuiet == ASSUME TypeInv, Quiet, Mirror PROVE Quiet'
<1>1. PICK d \in IF Windows THEN Fails(store, "dpapi") ELSE {TRUE} :
        /\ store' = IF d THEN Used(store, FALSE, Windows)
                    ELSE [store EXCEPT !.dpapi[0] = Whole(job.value)]
        /\ Finish(IF d /\ At("mirror_only") THEN Unknown ELSE job.value, Unknown)
  BY DEF Mirror
<1>2. job.value \in Values /\ d \in BOOLEAN
  BY <1>1 DEF Mirror, At, TypeInv, JobOK, Ends, Fails
<1>3. last' # None /\ job'.pc = "idle" /\ config' = config
  BY <1>1, <1>2, Distinct DEF Finish, NoJob
<1>4. store' \in Stores
  BY MirrorType DEF TypeInv
<1>5. store'.fallback = store.fallback /\ store'.keyring = store.keyring
      /\ store'.legacy = store.legacy /\ (~Windows => store'.dpapi = store.dpapi)
  BY <1>1, <1>2 DEF Used, TypeInv, Stores
<1>6. Keeps(store, store')
  BY <1>4, <1>5 DEF Keeps, Unused
<1>. QED  BY <1>3, <1>6, BusyQuiet

\* the plaintext file goes
LEMMA GoneQuiet ==
  ASSUME TypeInv, Quiet, store' = [store EXCEPT !.fallback = None], UNCHANGED config,
         last' # None, job'.pc # "drop_mirror"
  PROVE Quiet'
<1>1. store'.keyring = store.keyring /\ store'.dpapi = store.dpapi
      /\ store'.legacy = store.legacy /\ store'.fallback = None
  BY DEF TypeInv, Stores
<1>. QED  BY <1>1 DEF Quiet, Unused, Windows, Deleted, Deleting

LEMMA ForgetQuiet == ASSUME TypeInv, Quiet, Forget PROVE Quiet'
<1>1. job.value \in Values
  BY DEF Forget, At, TypeInv, JobOK, Ends
<1>2. last' # None /\ job'.pc = "idle" /\ config' = config
  BY <1>1, Distinct DEF Forget, Finish, NoJob
<1>. QED  BY <1>2, GoneQuiet DEF Forget

LEMMA ConsumedQuiet == ASSUME TypeInv, Quiet, Consumed PROVE Quiet'
<1>1. job.value \in Values
  BY DEF Consumed, At, TypeInv, JobOK, Ends
<1>2. last' # None /\ job'.pc = "idle" /\ config' = config
  BY <1>1, Distinct DEF Consumed, Finish, NoJob
<1>. QED  BY <1>2, GoneQuiet DEF Consumed

\* a search goes on, or ends without a value
LEMMA SearchQuiet ==
  ASSUME TypeInv, Quiet, Keeps(store, store'), UNCHANGED <<config, last>>,
         last = None => KeyGone(store') /\ seen' \notin Values,
         job'.pc \in Searching
  PROVE Quiet'
<1>1. Unused(store)' /\ (config.owner = "app" => store.fallback = None)'
  BY DEF Keeps, Quiet, Unused, Windows
<1>2. Deleted'
  BY DEF Quiet, Deleted, Keeps, KeyGone
<1>3. Deleting'
  BY DEF Deleting, Searching
<1>. QED  BY <1>1, <1>2, <1>3 DEF Quiet

LEMMA StartGetQuiet == ASSUME TypeInv, Quiet, StartGet PROVE Quiet'
<1>1. job'.pc \in Searching
  BY NoJobType DEF StartGet, Jobs, Searching
<1>2. Keeps(store, store') /\ (last = None => KeyGone(store'))
  BY DEF Keeps, StartGet, TypeInv, Quiet, Deleted, KeyGone
<1>. QED  BY <1>1, <1>2, SearchQuiet, Distinct DEF StartGet

LEMMA ConsumeLegacyQuiet == ASSUME TypeInv, Quiet, ConsumeLegacy PROVE Quiet'
<1>1. Same /\ store' = store /\ JobOK
  BY DEF ConsumeLegacy, TypeInv
<1>2. Keeps(store, store')
  BY <1>1 DEF Keeps, TypeInv
<1>3. CASE store.fallback # None /\ config.subscribed
  <2>1. last # None
    BY <1>3 DEF Quiet, Deleted
  <2>2. job'.pc = "old"
    BY <1>1, <1>3 DEF ConsumeLegacy, JobOK, Jobs
  <2>. QED  BY <1>1, <1>2, <2>1, <2>2, BusyQuiet DEF Same
<1>4. CASE ~(store.fallback # None /\ config.subscribed)
  <2>1. job'.pc \in Searching
    BY <1>1, <1>4 DEF ConsumeLegacy, JobOK, Jobs, Searching
  <2>2. last = None => KeyGone(store') /\ seen' \notin Values
    BY <1>1 DEF Quiet, Deleted, Same, KeyGone
  <2>. QED  BY <1>1, <1>2, <2>1, <2>2, SearchQuiet DEF Same
<1>. QED  BY <1>3, <1>4

\* nothing is found where nothing is
LEMMA GetGone ==
  ASSUME NEW s \in Stores, KeyGone(s), NEW r \in NativeGet(s, 0)
  PROVE r.x = Absent /\ KeyGone(r.store)
<1>1. CASE Windows
  <2>1. PICK k \in KeyringFails(s), d \in Fails(s, "dpapi") : r \in WindowsRead(s, 0, k, d)
    BY <1>1 DEF NativeGet, WindowsGet
  <2>2. r = [ok |-> TRUE, x |-> Absent, store |-> Used(s, k, d)]
    BY <2>1 DEF WindowsRead, KeyGone
  <2>3. KeyGone(Used(s, k, d))
    BY UsedKeeps DEF KeyGone, Used
  <2>. QED  BY <2>2, <2>3
<1>2. CASE ~Windows
  <2>1. PICK k \in KeyringFails(s) :
          \/ r = [ok |-> FALSE, x |-> Absent, store |-> Used(s, k, FALSE)]
          \/ r = [ok |-> TRUE, x |-> s.keyring[0], store |-> s]
    BY <1>2 DEF NativeGet, MacGet, KeyGone
  <2>2. KeyGone(Used(s, k, FALSE))
    BY DEF KeyGone, Used, Stores
  <2>3. s.keyring[0] = Absent
    BY DEF KeyGone
  <2>4. CASE r = [ok |-> FALSE, x |-> Absent, store |-> Used(s, k, FALSE)]
    BY <2>2, <2>4
  <2>5. CASE r = [ok |-> TRUE, x |-> s.keyring[0], store |-> s]
    BY <2>3, <2>5
  <2>. QED  BY <2>1, <2>4, <2>5
<1>. QED  BY <1>1, <1>2

LEMMA IdleQuiet ==
  ASSUME TypeInv, Quiet, Keeps(store, store'), NEW shown, Finish(last, shown),
         last = None => KeyGone(store') /\ shown \notin Values
  PROVE Quiet'
<1>1. job'.pc \in Searching
  BY DEF Finish, NoJob, Searching
<1>. QED  BY <1>1, SearchQuiet DEF Finish

LEMMA ToMirrorQuiet ==
  ASSUME TypeInv, Quiet, Keeps(store, store'), StepTo("dpapi"), Same,
         last = None => KeyGone(store')
  PROVE Quiet'
<1>1. job'.pc \in Searching
  BY DEF StepTo, TypeInv, JobOK, Jobs, Searching
<1>2. last = None => seen' \notin Values
  BY DEF Quiet, Deleted, Same
<1>. QED  BY <1>1, <1>2, SearchQuiet DEF Same

LEMMA ReadFailsQuiet ==
  ASSUME TypeInv, Quiet, Keeps(store, store'), ReadFails, last = None => KeyGone(store')
  PROVE Quiet'
<1>1. CASE StepTo("dpapi") /\ Same
  BY <1>1, ToMirrorQuiet
<1>2. CASE Finish(last, Error)
  BY <1>2, IdleQuiet, Distinct
<1>. QED  BY <1>1, <1>2 DEF ReadFails

LEMMA NothingReadQuiet ==
  ASSUME TypeInv, Quiet, Keeps(store, store'), NothingRead, last = None => KeyGone(store')
  PROVE Quiet'
<1>1. CASE StepTo("dpapi") /\ Same
  BY <1>1, ToMirrorQuiet
<1>2. CASE /\ store.fallback # None
           /\ job' = [job EXCEPT !.pc = "old", !.op = "migrate", !.value = store.fallback,
                                 !.then = "consumed"]
           /\ Same
  <2>1. job'.pc = "old" /\ last # None
    BY <1>2 DEF TypeInv, JobOK, Jobs, Quiet, Deleted
  <2>. QED  BY <1>2, <2>1, BusyQuiet DEF Same
<1>3. CASE Finish(last, None)
  BY <1>3, IdleQuiet, Distinct
<1>. QED  BY <1>1, <1>2, <1>3 DEF NothingRead
LEMMA ShownQuiet ==
  ASSUME TypeInv, Quiet, NEW s, NEW v, Keeps(store, s), last # None, Shown(s, v)
  PROVE Quiet'
<1>1. job'.pc = "idle" /\ last' # None /\ config' = config
  BY DEF Shown, Finish, NoJob
<1>2. store'.keyring = s.keyring /\ store'.dpapi = s.dpapi /\ store'.legacy = s.legacy
      /\ store'.fallback \in {None, s.fallback}
      /\ (config.owner # "renderer" => store'.fallback = s.fallback)
  BY DEF Shown, Keeps, Stores
<1>3. Unused(s) /\ s.fallback = store.fallback
  BY DEF Keeps, Quiet
<1>4. Unused(store)' /\ (config.owner = "app" => store.fallback = None)'
  BY <1>1, <1>2, <1>3 DEF Unused, Windows, Quiet
<1>. QED  BY <1>1, <1>4 DEF Quiet, Deleted, Deleting

LEMMA ReadMainQuiet == ASSUME TypeInv, Quiet, ReadMain PROVE Quiet'
<1>1. PICK r \in NativeGet(store, 0) :
        CASE ~r.ok -> store' = r.store /\ ReadFails
          [] r.ok /\ r.x = Absent -> store' = r.store /\ NothingRead
          [] r.ok /\ r.x.kind = "whole" -> Shown(r.store, r.x.value)
          [] OTHER -> /\ job' = [job EXCEPT !.pc = "parts", !.i = 1, !.old = Count(r.x)]
                      /\ store' = r.store /\ Same
  BY DEF ReadMain
<1>2. r.ok \in BOOLEAN /\ r.x \in Contents /\ Keeps(store, r.store) /\ Absent.kind # "whole"
  BY GetKeeps, ContentTypes DEF TypeInv, Absent
<1>3. last = None => r.x = Absent /\ KeyGone(r.store)
  BY GetGone DEF TypeInv, Quiet, Deleted
<1>4. CASE ~r.ok
  BY <1>1, <1>2, <1>3, <1>4, ReadFailsQuiet
<1>5. CASE r.ok /\ r.x = Absent
  BY <1>1, <1>2, <1>3, <1>5, NothingReadQuiet
<1>6. CASE r.ok /\ r.x.kind = "whole"
  <2>1. Shown(r.store, r.x.value)
    BY <1>1, <1>2, <1>6
  <2>2. last # None
    BY <1>2, <1>3, <1>6
  <2>. QED  BY <1>2, <2>1, <2>2, ShownQuiet
<1>7. CASE r.ok /\ r.x # Absent /\ r.x.kind # "whole"
  <2>1. job' = [job EXCEPT !.pc = "parts", !.i = 1, !.old = Count(r.x)]
        /\ store' = r.store /\ Same
    BY <1>1, <1>7
  <2>2. job'.pc = "parts"
    BY <2>1 DEF TypeInv, JobOK, Jobs
  <2>3. last # None
    BY <1>3, <1>7
  <2>. QED  BY <1>2, <2>1, <2>2, <2>3, BusyQuiet DEF Same
<1>. QED  BY <1>2, <1>4, <1>5, <1>6, <1>7

LEMMA ReadPartQuiet == ASSUME TypeInv, Quiet, ReadPart PROVE Quiet'
<1>1. JobOK /\ job.pc = "parts" /\ job.i <= job.old /\ last # None
  BY BusyLast DEF ReadPart, At, TypeInv, Searching
<1>2. job.i \in 1 .. job.old /\ job.old \in 0 .. MaxPieces
  BY <1>1 DEF JobOK, Counted, Jobs
<1>3. job.i \in Entries
  BY <1>2, Sizes DEF Entries, Chunks
<1>4. PICK r \in NativeGet(store, job.i) :
        /\ store' = r.store
        /\ \/ job' = [job EXCEPT !.i = @ + 1, !.acc = Append(@, r.x)] /\ Same
           \/ ReadFails
  BY DEF ReadPart
<1>5. Keeps(store, store')
  BY <1>3, <1>4, GetKeeps DEF TypeInv
<1>6. CASE job' = [job EXCEPT !.i = @ + 1, !.acc = Append(@, r.x)] /\ Same
  <2>1. job'.pc = "parts"
    BY <1>1, <1>6 DEF JobOK, Jobs
  <2>. QED  BY <1>1, <1>5, <1>6, <2>1, BusyQuiet DEF Same
<1>7. CASE ReadFails
  BY <1>1, <1>5, <1>7, ReadFailsQuiet
<1>. QED  BY <1>4, <1>6, <1>7

LEMMA ReadDoneQuiet == ASSUME TypeInv, Quiet, ReadDone PROVE Quiet'
<1>1. last # None
  BY BusyLast DEF ReadDone, At, Searching
<1>2. Keeps(store, store)
  BY DEF Keeps, TypeInv
<1>. QED  BY <1>1, <1>2, ShownQuiet DEF ReadDone

LEMMA MirrorCallKeeps ==
  ASSUME TypeInv, NEW d \in Fails(store, "dpapi")
  PROVE Keeps(store, Used(store, FALSE, d))
        /\ (KeyGone(store) => KeyGone(Used(store, FALSE, d)))
<1>1. Used(store, FALSE, d) \in Stores /\ Used(store, FALSE, d).fallback = store.fallback
  BY FailsType
<1>2. LET t == Used(store, FALSE, d)
      IN t.keyring = store.keyring /\ t.dpapi = store.dpapi /\ t.legacy = store.legacy
  BY DEF Used, TypeInv, Stores
<1>. QED  BY <1>1, <1>2 DEF Keeps, Unused, KeyGone

LEMMA ReadMirrorQuiet == ASSUME TypeInv, Quiet, ReadMirror PROVE Quiet'
<1> DEFINE x == store.dpapi[0]
           v == IF x.kind = "manifest" THEN Raw ELSE x.value
<1>1. PICK d \in Fails(store, "dpapi") :
        /\ store' = Used(store, FALSE, d)
        /\ CASE d \/ x = Absent -> Finish(last, None) /\ UNCHANGED cut
             [] OTHER -> /\ job' = [job EXCEPT !.pc = "old", !.op = "restore", !.value = v,
                                               !.raw = x.n, !.then = "restored"]
                         /\ Same
  BY DEF ReadMirror
<1>2. Keeps(store, store') /\ (last = None => KeyGone(store'))
  BY <1>1, MirrorCallKeeps DEF Quiet, Deleted
<1>3. CASE d \/ x = Absent
  BY <1>1, <1>2, <1>3, IdleQuiet, Distinct
<1>4. CASE ~(d \/ x = Absent)
  <2>1. last # None
    BY <1>4 DEF Quiet, Deleted, KeyGone
  <2>2. job' = [job EXCEPT !.pc = "old", !.op = "restore", !.value = v, !.raw = x.n,
                           !.then = "restored"] /\ Same
    BY <1>1, <1>4
  <2>3. job'.pc = "old"
    BY <2>2 DEF TypeInv, JobOK, Jobs
  <2>. QED  BY <1>2, <2>1, <2>2, <2>3, BusyQuiet DEF Same
<1>. QED  BY <1>3, <1>4

LEMMA RestoredQuiet == ASSUME TypeInv, Quiet, Restored PROVE Quiet'
<1>1. last # None /\ store' = store
  BY BusyLast DEF Restored, At, Searching
<1>2. Keeps(store, store')
  BY <1>1 DEF Keeps, TypeInv
<1>. QED  BY <1>1, <1>2, IdleQuiet DEF Restored

LEMMA StartDeleteQuiet == ASSUME TypeInv, Quiet, StartDelete PROVE Quiet'
<1>1. job'.pc = "find"
  BY NoJobType DEF StartDelete, Jobs
<1>2. Keeps(store, store')
  BY DEF Keeps, StartDelete, TypeInv
<1>. QED  BY <1>1, <1>2, BusyQuiet, Distinct DEF StartDelete

\* the last part of a delete is reached
LEMMA DropQuiet ==
  ASSUME TypeInv, Quiet, Keeps(store, store'), Same, last # None, Deleting'
  PROVE Quiet'
<1>1. Unused(store)' /\ (config.owner = "app" => store.fallback = None)'
  BY DEF Keeps, Quiet, Unused, Windows, Same
<1>. QED  BY <1>1 DEF Quiet, Deleted, Same

LEMMA FindOldQuiet == ASSUME TypeInv, Quiet, FindOld PROVE Quiet'
<1>1. JobOK /\ job.pc = "find" /\ last # None /\ Same
  BY BusyLast DEF FindOld, At, TypeInv, Searching
<1>2. PICK r \in NativeGet(store, 0) :
        /\ store' = r.store
        /\ job' = IF r.ok THEN [job EXCEPT !.pc = "drop", !.i = 1, !.old = Count(r.x)]
                  ELSE [job EXCEPT !.pc = "drop_mirror", !.leftover = TRUE]
  BY DEF FindOld
<1>3. Keeps(store, store') /\ r.ok \in BOOLEAN
  BY <1>2, GetKeeps, ContentTypes DEF TypeInv
<1>4. CASE r.ok
  <2>1. job'.pc = "drop"
    BY <1>1, <1>2, <1>4 DEF JobOK, Jobs
  <2>. QED  BY <1>1, <1>3, <2>1, BusyQuiet DEF Same
<1>5. CASE ~r.ok
  <2>1. ASSUME Windows PROVE r.ok
    <3>1. PICK k \in KeyringFails(store), d \in Fails(store, "dpapi") :
            r \in WindowsRead(store, 0, k, d)
      BY <2>1 DEF NativeGet, WindowsGet
    <3>2. \E x, t : r = [ok |-> TRUE, x |-> x, store |-> t]
      BY <3>1 DEF WindowsRead
    <3>. QED  BY <3>2
  <2>2. job'.leftover
    BY <1>1, <1>2, <1>5 DEF JobOK, Jobs
  <2>3. Deleting'
    BY <1>1, <1>5, <2>1, <2>2 DEF Deleting, Same, Windows
  <2>. QED  BY <1>1, <1>3, <2>3, DropQuiet
<1>. QED  BY <1>3, <1>4, <1>5

LEMMA DropChunkQuiet == ASSUME TypeInv, Quiet, DropChunk PROVE Quiet'
<1>1. JobOK /\ job.pc = "drop" /\ job.i <= job.old /\ Same /\ last # None
  BY BusyLast DEF DropChunk, At, TypeInv, Searching
<1>2. job.i \in 1 .. job.old /\ job.old \in 0 .. MaxPieces
  BY <1>1 DEF JobOK, Counted, Jobs
<1>3. job.i \in Entries
  BY <1>2, Sizes DEF Entries, Chunks
<1>4. PICK r \in NativeDelete(store, job.i) :
        store' = r.store /\ job' = [job EXCEPT !.i = job.i + 1]
  BY DEF DropChunk
<1>5. Keeps(store, store')
  BY <1>3, <1>4, DeleteKeeps DEF TypeInv
<1>6. job'.pc = "drop"
  BY <1>1, <1>4 DEF JobOK, Jobs
<1>. QED  BY <1>1, <1>5, <1>6, BusyQuiet DEF Same

\* a keyring that works always or never keeps no deleted entry
LEMMA KeyringDeletes ==
  ASSUME Faulty \subseteq {"dpapi"}, NEW s \in Stores, Unused(s), Windows,
         NEW r \in NativeDelete(s, 0)
  PROVE r.store.keyring[0] = Absent
<1>1. PICK k \in KeyringFails(s), d \in Fails(s, "dpapi") :
        r = [ok |-> ~k /\ ~d, store |-> InBoth(s, 0, Absent, k, d)]
  BY DEF NativeDelete, WindowsDelete
<1> DEFINE u == InBoth(s, 0, Absent, k, d)
<1>2. Keeps(s, u) /\ (~k => u.keyring[0] = Absent)
  BY ContentTypes, BothKeep
<1>3. k = ~config.keyring
  BY DEF KeyringFails, Fails
<1>4. CASE config.keyring
  BY <1>1, <1>2, <1>3, <1>4
<1>5. CASE ~config.keyring
  <2>1. u.keyring = Nothing
    BY <1>2, <1>5 DEF Keeps, Unused
  <2>2. Nothing[0] = Absent
    BY ContentTypes DEF Nothing
  <2>3. r.store = u
    BY <1>1
  <2>. QED  BY <2>1, <2>2, <2>3
<1>. QED  BY <1>4, <1>5

LEMMA NothingThere == Nothing[0] = Absent
  BY ContentTypes DEF Nothing

LEMMA DropMainQuiet ==
  ASSUME Faulty \subseteq {"dpapi"}, TypeInv, Quiet, DropMain PROVE Quiet'
<1>1. JobOK /\ job.pc = "drop" /\ Same /\ last # None
  BY BusyLast DEF DropMain, At, TypeInv, Searching
<1>2. PICK r \in NativeDelete(store, 0) :
        store' = r.store /\ job' = [job EXCEPT !.pc = "drop_mirror", !.leftover = ~r.ok]
  BY DEF DropMain
<1>3. /\ r.ok \in BOOLEAN /\ Keeps(store, r.store)
      /\ r.ok => r.store.keyring[0] = Absent
      /\ r.ok /\ Windows => r.store.dpapi[0] = Absent
      /\ r.ok /\ ~Windows => r.store.legacy[0] = Absent
  BY DeleteKeeps, ContentTypes DEF TypeInv
<1>4. Windows => r.store.keyring[0] = Absent
  BY KeyringDeletes DEF TypeInv, Quiet
<1>5. Unused(r.store)
  BY <1>3 DEF Keeps, Quiet
<1>6. r.ok => KeyGone(r.store)
  BY <1>3, <1>5, NothingThere DEF KeyGone, Unused
<1>7. job'.leftover = ~r.ok
  BY <1>1, <1>2 DEF JobOK, Jobs
<1>8. Deleting'
  BY <1>1, <1>2, <1>3, <1>4, <1>6, <1>7 DEF Deleting, Same, Windows, KeyGone
<1>. QED  BY <1>1, <1>2, <1>3, <1>8, DropQuiet

LEMMA DropMirrorQuiet == ASSUME TypeInv, Quiet, DropMirror PROVE Quiet'
<1> DEFINE mirrored == config.owner = "app" /\ Windows
<1>1. PICK d \in IF mirrored THEN Fails(store, "dpapi") ELSE {FALSE} :
        /\ store' = IF config.owner = "renderer" THEN [store EXCEPT !.fallback = None]
                    ELSE [Used(store, FALSE, d) EXCEPT
                            !.dpapi[0] = IF d \/ ~Windows THEN @ ELSE Absent]
        /\ Finish(IF (IF mirrored THEN ~d ELSE ~job.leftover) THEN None ELSE Unknown, Unknown)
  BY DEF DropMirror
<1>2. job.pc = "drop_mirror" /\ (~job.leftover => KeyGone(store))
      /\ (Windows => store.keyring[0] = Absent) /\ Unused(store)
      /\ (config.owner = "app" => store.fallback = None)
  BY DEF DropMirror, At, Quiet, Deleting
<1>3. job'.pc = "idle" /\ config' = config /\ seen' = Unknown
  BY <1>1 DEF Finish, NoJob
<1>4. config.owner \in {"renderer", "app"} /\ d \in BOOLEAN /\ d \in Fails(store, "dpapi")
  BY <1>1 DEF TypeInv, Configs, Fails
<1>5. CASE config.owner = "renderer"
  <2>1. store'.keyring = store.keyring /\ store'.dpapi = store.dpapi
        /\ store'.legacy = store.legacy /\ store'.fallback = None
    BY <1>1, <1>5 DEF TypeInv, Stores
  <2>2. last' = None => ~job.leftover
    BY <1>1, <1>5, Distinct DEF Finish
  <2>3. last' = None => KeyGone(store')
    BY <1>2, <2>1, <2>2 DEF KeyGone
  <2>4. Unused(store)'
    BY <1>2, <1>3, <2>1 DEF Unused, Windows
  <2>. QED  BY <1>3, <1>5, <2>1, <2>3, <2>4, Distinct DEF Quiet, Deleted, Deleting, Searching
<1>6. CASE config.owner = "app"
  <2> DEFINE t == Used(store, FALSE, d)
             y == IF d \/ ~Windows THEN t.dpapi[0] ELSE Absent
  <2>1. t \in Stores /\ Keeps(store, t) /\ (KeyGone(store) => KeyGone(t))
        /\ t.keyring = store.keyring /\ t.legacy = store.legacy /\ t.dpapi = store.dpapi
    BY <1>4, MirrorCallKeeps DEF Keeps, Used, TypeInv, Stores
  <2>2. store' = [t EXCEPT !.dpapi[0] = y]
    BY <1>1, <1>6
  <2>3. ~Windows => y = t.dpapi[0]
    OBVIOUS
  <2>4. Windows /\ ~d => y = Absent
    OBVIOUS
  <2>. HIDE DEF t, y
  <2>5. store'.keyring = t.keyring /\ store'.legacy = t.legacy /\ store'.fallback = t.fallback
        /\ store'.dpapi[0] = y /\ (~Windows => store'.dpapi = t.dpapi)
    BY <2>1, <2>2, <2>3, ContentTypes DEF Stores
  <2>6. Unused(store)' /\ store'.fallback = None
    BY <1>2, <1>3, <1>6, <2>1, <2>5 DEF Unused, Windows, Keeps
  <2>7. last' = None => KeyGone(store')
    <3>1. CASE Windows
      <4>1. last' = None => ~d
        BY <1>1, <1>6, <3>1, Distinct DEF Finish
      <4>. QED  BY <1>2, <2>1, <2>4, <2>5, <3>1, <4>1, NothingThere DEF KeyGone, Unused
    <3>2. CASE ~Windows
      <4>1. last' = None => ~job.leftover
        BY <1>1, <1>6, <3>2, Distinct DEF Finish
      <4>. QED  BY <1>2, <2>1, <2>3, <2>5, <3>2, <4>1 DEF KeyGone
    <3>. QED  BY <3>1, <3>2
  <2>. QED  BY <1>3, <2>6, <2>7, Distinct DEF Quiet, Deleted, Deleting, Searching
<1>. QED  BY <1>4, <1>5, <1>6

LEMMA CrashQuiet == ASSUME TypeInv, Quiet, Crash PROVE Quiet'
<1>1. job'.pc = "idle" /\ seen' = Unknown /\ config' = config /\ store' = store
      /\ last' \in {last, Unknown}
  BY DEF Crash, NoJob
<1>2. Unused(store)' /\ (config.owner = "app" => store.fallback = None)'
  BY <1>1 DEF Quiet, Unused, Windows
<1>3. Deleted' /\ Deleting'
  BY <1>1, Distinct DEF Quiet, Deleted, Deleting, Searching, KeyGone
<1>. QED  BY <1>2, <1>3 DEF Quiet

LEMMA InitQuiet == ASSUME Init PROVE Quiet
<1>1. store.keyring = Nothing /\ store.dpapi = Nothing
  BY DEF Init
<1>2. Unused(store)
  BY <1>1 DEF Init, Unused, Windows
<1>. QED  BY <1>2, Distinct DEF Init, Quiet, Deleted, Deleting, NoJob

LEMMA StepQuiet ==
  ASSUME Faulty \subseteq {"dpapi"}, TypeInv, Quiet, Call \/ Step \/ Crash \/ UNCHANGED vars
  PROVE Quiet'
<1>1. CASE UNCHANGED vars
  BY <1>1 DEF vars, Quiet, Unused, Windows, Deleted, Deleting, KeyGone
<1>2. CASE Call \/ Step \/ Crash
  BY <1>2, StartSetQuiet, ReadOldQuiet, UnlinkChunksQuiet, WriteChunkQuiet, WriteMainQuiet,
     MirrorQuiet, ForgetQuiet, StartGetQuiet, ConsumeLegacyQuiet, ConsumedQuiet,
     ReadMainQuiet, ReadPartQuiet, ReadDoneQuiet, ReadMirrorQuiet, RestoredQuiet,
     StartDeleteQuiet, FindOldQuiet, DropChunkQuiet, DropMainQuiet, DropMirrorQuiet,
     CrashQuiet DEF Call, Step
<1>. QED  BY <1>1, <1>2

\* What has been deleted with success does not come back, from no mirror or older store,
\* whatever the DPAPI files do, where the keyring works always or never
\* (storage/mod.rs:342, 498, 584).
THEOREM DeletedStaysDeleted ==
  ASSUME Faulty \subseteq {"dpapi"}
  PROVE Spec => []DeleteIsFinal
<1>1. Init => Quiet
  BY InitQuiet
<1>2. TypeInv /\ OthersOK /\ (Overlapped \/ Quiet) /\ [Next]_vars => (Overlapped \/ Quiet)'
  BY StepQuiet, AloneNext
<1>3. Overlapped \/ Quiet => DeleteIsFinal
  BY DEF Quiet, Deleted, DeleteIsFinal
<1>. QED  BY <1>1, <1>2, <1>3, TypeInvariance, PTL DEF Spec

-----------------------------------------------------------------------------
(* What was stored is what is read. The store that a get trusts is the       *)
(* keyring where there is one, and the DPAPI files where it cannot be used.  *)

Primary(s) == IF config.keyring THEN s.keyring ELSE s.dpapi

\* A value is held whole, or as a manifest and its chunks. A restore whose manifest is
\* put back as it stands may have removed chunks of DPAPI files: they read as an error.
Holds(s, v) ==
  \/ Primary(s)[0] = Whole(v)
  \/ /\ Pieces[v] > 0 /\ Primary(s)[0] = Manifest(Pieces[v])
     /\ \A i \in 1 .. Pieces[v] : \/ Primary(s)[i] = Chunk(v, i)
                                  \/ ~config.keyring /\ Primary(s)[i] = Absent

\* the chunks before i are those of v
Written(s, v, i) == \A j \in 1 .. i - 1 : Primary(s)[j] = Chunk(v, j)

\* what the last operation stored is held until something else is being stored
Lasting ==
  last \in Values /\ (job.pc \in {"idle", "legacy", "read", "parts", "dpapi"} \/ job.op = "restore")
    => Holds(store, last)

Writes ==
  /\ job.pc = "chunk" => Written(store, job.value, job.i)
  /\ job.pc = "main" /\ job.value # Raw => Written(store, job.value, Size + 1)
  /\ job.pc \in {"mirror", "forget", "consumed"} => Holds(store, job.value)
  /\ job.pc = "mirror_only" => ~config.keyring

Reads ==
  last \in Values =>
    /\ job.pc = "parts" => /\ job.old = Pieces[last] /\ Primary(store)[0] = Manifest(job.old)
                           /\ \A j \in 1 .. job.i - 1 : job.acc[j] = Chunk(last, j)
    /\ job.pc = "dpapi" => ~config.keyring

\* a restore brings back what is stored in the DPAPI files, and leaves it there
Restores ==
  last \in Values /\ job.op = "restore" =>
    /\ ~config.keyring
    /\ \/ job.value = last /\ (job.pc # "restored" => Primary(store)[0] = Whole(last))
       \/ job.value = Raw /\ (job.pc # "restored" => Primary(store)[0] = Manifest(job.raw))

Kinds ==
  /\ job.pc = "consumed" => job.op \in {"consume", "migrate"}
  /\ job.pc = "restored" => job.op = "restore"
  /\ job.pc \in {"legacy", "read", "parts", "dpapi"} => job.op = "get"
  /\ ~Windows => config.keyring

Matches == last \in Values /\ seen \in Values => seen = last

Fresh == Lasting /\ Writes /\ Reads /\ Restores /\ Kinds /\ Matches

-----------------------------------------------------------------------------
(* What is read is whole, where no store fails: whatever is killed between    *)
(* two entries, a manifest counts the chunks of one value, or one is missing. *)

Missing(p, n) == \E i \in 1 .. n : p[i] = Absent
Complete(p, n) == \E v \in Values : Pieces[v] = n /\ \A i \in 1 .. n : p[i] = Chunk(v, i)
Good(p) == p[0].kind = "manifest" => Missing(p, p[0].n) \/ Complete(p, p[0].n)

\* a set of more chunks than before is at work on them
Growing == job.pc \in {"chunk", "main"} /\ job.old > 0 /\ Size > job.old

\* the chunks between i and the last old one are gone
Cleared ==
  /\ job.pc \in {"unlink", "drop", "chunk", "main"} => Count(Primary(store)[0]) = job.old
  /\ job.pc \in {"unlink", "drop"} => \A j \in 1 .. job.i - 1 : Primary(store)[j] = Absent
  /\ job.pc \in {"chunk", "main"} => \A j \in job.i .. job.old : Primary(store)[j] = Absent
  /\ job.pc = "main" => job.i = Size + 1

Reading ==
  job.pc = "parts" =>
    /\ Primary(store)[0] = Manifest(job.old)
    /\ \A j \in 1 .. job.i - 1 : job.acc[j] = Primary(store)[j] /\ job.acc[j] # Absent

PutsBack ==
  job.op = "restore" /\ job.value = Raw =>
    /\ job.pc = "old" => Primary(store)[0] = Manifest(job.raw)
    /\ job.pc \in {"unlink", "main"} => job.old = job.raw

\* the entries of the stores agree
Agree(s) ==
  /\ \A e \in Chunks : s.legacy[e] = Absent /\ (Windows /\ config.keyring => s.dpapi[e] = s.keyring[e])
  /\ s.dpapi[0] # Absent => Windows /\ Primary(s)[0] # Absent
  /\ s.dpapi[0].kind = "manifest" => Primary(s)[0] = s.dpapi[0]
  /\ s.legacy[0].kind \in {"absent", "whole"}
  /\ s.dpapi[0].kind # "chunk" /\ s.keyring[0].kind # "chunk"

Solid ==
  /\ ~cut /\ ~Growing => Good(Primary(store))
  /\ Cleared /\ Reading /\ PutsBack /\ Agree(store) /\ OnlyCutsMix

-----------------------------------------------------------------------------
(* What the calls do to the entries, where the keyring works always or never. *)

LEMMA OneWrites ==
  ASSUME NEW s \in Stores, NEW e \in Entries, NEW x \in Contents, NEW k \in KeyringFails(s)
  PROVE /\ InOne(s, e, x, k).keyring = [s.keyring EXCEPT ![e] = IF k THEN s.keyring[e] ELSE x]
        /\ InOne(s, e, x, k).dpapi = s.dpapi /\ InOne(s, e, x, k).legacy = s.legacy
        /\ InOne(s, e, x, k) \in Stores
<1> DEFINE t == Used(s, k, FALSE)
<1>1. t.keyring = s.keyring /\ t.dpapi = s.dpapi /\ t.legacy = s.legacy
  BY DEF Used, Stores
<1>2. t \in Stores /\ InOne(s, e, x, k) \in Stores
  BY UsedKeeps, KeyringKeeps, KeyringFailsType DEF Keeps
<1>. HIDE DEF t
<1>3. /\ InKeyring(t, e, x, k).keyring = [t.keyring EXCEPT ![e] = IF k THEN t.keyring[e] ELSE x]
      /\ InKeyring(t, e, x, k).dpapi = t.dpapi /\ InKeyring(t, e, x, k).legacy = t.legacy
  BY <1>2 DEF InKeyring, Stores
<1>. QED  BY <1>1, <1>2, <1>3 DEF t, InOne

LEMMA BothWrite ==
  ASSUME NEW s \in Stores, NEW e \in Entries, NEW x \in Contents,
         NEW k \in KeyringFails(s), NEW d \in Fails(s, "dpapi"), Windows
  PROVE /\ InBoth(s, e, x, k, d).keyring = [s.keyring EXCEPT ![e] = IF k THEN s.keyring[e] ELSE x]
        /\ InBoth(s, e, x, k, d).dpapi = [s.dpapi EXCEPT ![e] = IF d THEN s.dpapi[e] ELSE x]
        /\ InBoth(s, e, x, k, d).legacy = s.legacy
<1> DEFINE t == Used(s, k, d)
<1>1. t.keyring = s.keyring /\ t.dpapi = s.dpapi /\ t.legacy = s.legacy
  BY DEF Used, Stores
<1>2. t \in Stores
  BY UsedKeeps DEF Keeps
<1>. HIDE DEF t
<1> DEFINE u == InMirror(InKeyring(t, e, x, k), e, x, d)
<1>3. /\ u.keyring = [t.keyring EXCEPT ![e] = IF k THEN t.keyring[e] ELSE x]
      /\ u.dpapi = [t.dpapi EXCEPT ![e] = IF d THEN t.dpapi[e] ELSE x]
      /\ u.legacy = t.legacy
  BY <1>2 DEF InKeyring, InMirror, Stores
<1>. QED  BY <1>1, <1>3 DEF t, InBoth

Steady == Faulty \subseteq {"dpapi"}
Usable == ~Windows => config.keyring

LEMMA SteadyFails ==
  ASSUME Steady, config \in Configs, NEW s, NEW k \in KeyringFails(s)
  PROVE k = ~config.keyring
  BY DEF Steady, KeyringFails, Fails, Configs

LEMMA PrimaryType ==
  ASSUME NEW s \in Stores
  PROVE Primary(s) \in [Entries -> Contents]
  BY DEF Primary, Stores

LEMMA Replaced ==
  ASSUME NEW p \in [Entries -> Contents], NEW e \in Entries, NEW x
  PROVE /\ [p EXCEPT ![e] = x][e] = x
        /\ \A f \in Entries \ {e} : [p EXCEPT ![e] = x][f] = p[f]
        /\ [p EXCEPT ![e] = p[e]] = p
  OBVIOUS

\* a write that works replaces the entry, one that fails leaves it
LEMMA SetPrimary ==
  ASSUME Steady, Usable, config \in Configs, NEW s \in Stores, NEW e \in Entries,
         NEW x \in Contents, NEW r \in NativeSet(s, e, x)
  PROVE /\ r.ok => Primary(r.store) = [Primary(s) EXCEPT ![e] = x]
        /\ ~r.ok => Primary(r.store) = Primary(s) /\ Windows /\ ~config.keyring
<1>1. CASE Windows
  <2>1. PICK k \in KeyringFails(s), d \in Fails(s, "dpapi") :
          r = [ok |-> ~k \/ ~d, store |-> InBoth(s, e, x, k, d)]
    BY <1>1 DEF NativeSet, WindowsSet
  <2>2. k = ~config.keyring /\ d \in BOOLEAN /\ config.keyring \in BOOLEAN
    BY SteadyFails, KeyringFailsType DEF Configs
  <2> DEFINE u == InBoth(s, e, x, k, d)
  <2>3. /\ u.keyring = [s.keyring EXCEPT ![e] = IF k THEN s.keyring[e] ELSE x]
        /\ u.dpapi = [s.dpapi EXCEPT ![e] = IF d THEN s.dpapi[e] ELSE x]
    BY <1>1, BothWrite
  <2>4. r.ok = (~k \/ ~d) /\ r.store = u
    BY <2>1
  <2>. HIDE DEF u
  <2>5. CASE config.keyring
    BY <2>2, <2>3, <2>4, <2>5 DEF Primary
  <2>6. CASE ~config.keyring
    <3>1. Primary(r.store) = [s.dpapi EXCEPT ![e] = IF d THEN s.dpapi[e] ELSE x]
          /\ Primary(s) = s.dpapi
      BY <2>3, <2>4, <2>6 DEF Primary
    <3>2. [s.dpapi EXCEPT ![e] = s.dpapi[e]] = s.dpapi
      BY DEF Stores
    <3>. QED  BY <1>1, <2>2, <2>4, <2>6, <3>1, <3>2
  <2>. QED  BY <2>2, <2>5, <2>6
<1>2. CASE ~Windows
  <2>1. PICK k \in KeyringFails(s) :
          r = [ok |-> ~k, store |-> InOne(s, e, x, k)]
    BY <1>2 DEF NativeSet, MacSet
  <2>2. ~k /\ config.keyring
    BY <1>2, SteadyFails DEF Usable
  <2>3. InOne(s, e, x, k).keyring = [s.keyring EXCEPT ![e] = IF k THEN s.keyring[e] ELSE x]
    BY OneWrites
  <2>. QED  BY <2>1, <2>2, <2>3 DEF Primary
<1>. QED  BY <1>1, <1>2

\* a delete removes the entry, or fails and leaves it
LEMMA DeletePrimary ==
  ASSUME Steady, Usable, config \in Configs, NEW s \in Stores, NEW e \in Entries,
         NEW r \in NativeDelete(s, e)
  PROVE \/ Primary(r.store) = [Primary(s) EXCEPT ![e] = Absent]
        \/ Primary(r.store) = Primary(s) /\ ~config.keyring
<1>0. Absent \in Contents
  BY ContentTypes
<1>1. CASE Windows
  <2>1. PICK k \in KeyringFails(s), d \in Fails(s, "dpapi") :
          r = [ok |-> ~k /\ ~d, store |-> InBoth(s, e, Absent, k, d)]
    BY <1>1 DEF NativeDelete, WindowsDelete
  <2>2. k = ~config.keyring /\ d \in BOOLEAN /\ config.keyring \in BOOLEAN
    BY SteadyFails, KeyringFailsType DEF Configs
  <2> DEFINE u == InBoth(s, e, Absent, k, d)
  <2>3. /\ u.keyring = [s.keyring EXCEPT ![e] = IF k THEN s.keyring[e] ELSE Absent]
        /\ u.dpapi = [s.dpapi EXCEPT ![e] = IF d THEN s.dpapi[e] ELSE Absent]
    BY <1>0, <1>1, BothWrite
  <2>4. r.store = u
    BY <2>1
  <2>. HIDE DEF u
  <2>5. CASE config.keyring
    BY <2>2, <2>3, <2>4, <2>5 DEF Primary
  <2>6. CASE ~config.keyring
    <3>1. Primary(r.store) = [s.dpapi EXCEPT ![e] = IF d THEN s.dpapi[e] ELSE Absent]
          /\ Primary(s) = s.dpapi
      BY <2>3, <2>4, <2>6 DEF Primary
    <3>2. [s.dpapi EXCEPT ![e] = s.dpapi[e]] = s.dpapi
      BY DEF Stores
    <3>. QED  BY <2>2, <2>6, <3>1, <3>2
  <2>. QED  BY <2>2, <2>5, <2>6
<1>2. CASE ~Windows
  <2>1. PICK k \in KeyringFails(s) :
          r = [ok |-> ~k, store |-> Forgotten(InOne(s, e, Absent, k), e)]
    BY <1>2 DEF NativeDelete, MacDelete
  <2>2. ~k /\ config.keyring
    BY <1>2, SteadyFails DEF Usable
  <2> DEFINE u == InOne(s, e, Absent, k)
  <2>3. u.keyring = [s.keyring EXCEPT ![e] = IF k THEN s.keyring[e] ELSE Absent] /\ u \in Stores
    BY <1>0, OneWrites
  <2>. HIDE DEF u
  <2>4. Forgotten(u, e).keyring = u.keyring
    BY <2>3 DEF Forgotten, Stores
  <2>5. r.store = Forgotten(u, e)
    BY <2>1 DEF u
  <2>. QED  BY <2>2, <2>3, <2>4, <2>5 DEF Primary
<1>. QED  BY <1>1, <1>2

\* an entry that is there is read, but for a DPAPI file that cannot be; reading leaves it
LEMMA GetPrimary ==
  ASSUME Steady, Usable, config \in Configs, NEW s \in Stores, NEW e \in Entries,
         NEW r \in NativeGet(s, e), Primary(s)[e] # Absent \/ ~config.keyring
  PROVE /\ Primary(r.store) = Primary(s)
        /\ config.keyring => r.ok /\ r.x = Primary(s)[e]
        /\ ~config.keyring => r.x \in {Primary(s)[e], Absent}
        /\ Windows => r.ok
<1>1. CASE Windows
  <2>1. PICK k \in KeyringFails(s), d \in Fails(s, "dpapi") : r \in WindowsRead(s, e, k, d)
    BY <1>1 DEF NativeGet, WindowsGet
  <2>2. k = ~config.keyring /\ d \in BOOLEAN /\ config.keyring \in BOOLEAN
    BY SteadyFails, KeyringFailsType DEF Configs
  <2>3. Primary(Used(s, k, d)) = Primary(s) /\ Primary(Used(s, k, FALSE)) = Primary(s)
        /\ Used(s, k, FALSE) \in Stores
        /\ Used(s, k, FALSE).dpapi = s.dpapi
    BY UsedKeeps, KeyringFailsType DEF Primary, Used, Stores, Keeps
  <2>4. CASE config.keyring
    <3>1. s.keyring[e] # Absent /\ ~k
      BY <2>2, <2>4 DEF Primary
    <3>2. r = [ok |-> TRUE, x |-> s.keyring[e], store |-> Used(s, k, FALSE)]
      BY <2>1, <3>1 DEF WindowsRead
    <3>. QED  BY <2>3, <2>4, <3>2 DEF Primary
  <2>5. CASE ~config.keyring
    <3>1. \/ r = [ok |-> TRUE, x |-> Absent, store |-> Used(s, k, d)]
          \/ \E q \in WindowsSet(Used(s, k, FALSE), e, s.dpapi[e]) :
               r = [ok |-> TRUE, x |-> s.dpapi[e], store |-> q.store]
      BY <2>1, <2>2, <2>5 DEF WindowsRead
    <3>2. CASE r = [ok |-> TRUE, x |-> Absent, store |-> Used(s, k, d)]
      BY <2>3, <2>5, <3>2
    <3>3. ASSUME NEW q \in WindowsSet(Used(s, k, FALSE), e, s.dpapi[e]),
                 r = [ok |-> TRUE, x |-> s.dpapi[e], store |-> q.store]
          PROVE r.ok /\ r.x = s.dpapi[e] /\ Primary(r.store) = Primary(s)
      <4> DEFINE t == Used(s, k, FALSE)
      <4>1. t \in Stores /\ t.dpapi = s.dpapi /\ s.dpapi[e] \in Contents
        BY <2>3 DEF Stores
      <4>2. Primary(t) = t.dpapi /\ [t.dpapi EXCEPT ![e] = s.dpapi[e]] = t.dpapi
        BY <2>5, <4>1 DEF Primary, Stores
      <4>3. q \in NativeSet(t, e, s.dpapi[e])
        BY <1>1, <3>3 DEF NativeSet
      <4>. HIDE DEF t
      <4>4. Primary(q.store) = Primary(t)
        BY <4>1, <4>2, <4>3, SetPrimary, SetKeeps
      <4>. QED  BY <2>3, <3>3, <4>4 DEF t
    <3>. QED  BY <2>5, <3>1, <3>2, <3>3 DEF Primary
  <2>. QED  BY <2>2, <2>4, <2>5
<1>2. CASE ~Windows
  <2>1. PICK k \in KeyringFails(s) :
          r \in IF k THEN {[ok |-> FALSE, x |-> Absent, store |-> Used(s, k, FALSE)]}
                ELSE IF s.keyring[e] # Absent \/ s.legacy[e] = Absent
                THEN {[ok |-> TRUE, x |-> s.keyring[e], store |-> s]}
                ELSE {[ok |-> q.ok, x |-> s.legacy[e],
                       store |-> IF q.ok THEN Forgotten(q.store, e) ELSE q.store] :
                      q \in MacSet(s, e, s.legacy[e])}
    BY <1>2 DEF NativeGet, MacGet
  <2>2. ~k /\ config.keyring
    BY <1>2, SteadyFails DEF Usable
  <2>3. s.keyring[e] # Absent
    BY <2>2 DEF Primary
  <2>4. r = [ok |-> TRUE, x |-> s.keyring[e], store |-> s]
    BY <2>1, <2>2, <2>3
  <2>. QED  BY <1>2, <2>2, <2>4 DEF Primary
<1>. QED  BY <1>1, <1>2

-----------------------------------------------------------------------------
(* A step in three kinds: an operation ends, an operation is under way that  *)
(* nothing relies on yet, and a get goes on.                                 *)

LEMMA KindsKept == ASSUME Kinds, UNCHANGED config PROVE (~Windows => config.keyring)'
  BY DEF Kinds, Windows

LEMMA IdleFresh ==
  ASSUME Kinds, UNCHANGED config, job' = NoJob,
         last' \in Values => Holds(store, last)',
         last' \in Values /\ seen' \in Values => seen' = last'
  PROVE Fresh'
<1>1. job'.pc = "idle" /\ job'.op = "none"
  BY DEF NoJob
<1>. QED  BY <1>1, KindsKept DEF Fresh, Lasting, Writes, Reads, Restores, Kinds, Matches

LEMMA BusyFresh ==
  ASSUME Kinds, UNCHANGED config,
         job'.pc \in {"old", "unlink", "find", "drop", "drop_mirror"},
         last' \in Values => job'.op # "restore",
         last' \in Values /\ seen' \in Values => seen' = last'
  PROVE Fresh'
  BY KindsKept DEF Fresh, Lasting, Writes, Reads, Restores, Kinds, Matches

LEMMA SearchFresh ==
  ASSUME Kinds, UNCHANGED config,
         job'.pc \in {"legacy", "read", "dpapi"}, job'.op = "get",
         last' \in Values => Holds(store, last)' /\ (job'.pc = "dpapi" => ~config.keyring),
         last' \in Values /\ seen' \in Values => seen' = last'
  PROVE Fresh'
  BY KindsKept DEF Fresh, Lasting, Writes, Reads, Restores, Kinds, Matches

LEMMA SameHolds ==
  ASSUME UNCHANGED config, Primary(store') = Primary(store), NEW v
  PROVE Holds(store, v) => Holds(store', v)
  BY DEF Holds

LEMMA HeldPresent ==
  ASSUME NEW s, NEW v, Holds(s, v)
  PROVE Primary(s)[0] # Absent /\ Primary(s)[0].kind # "absent"
  BY DEF Holds, Whole, Manifest, Absent

\* which stores a step writes does not depend on when one asks
LEMMA PrimaryNext ==
  ASSUME UNCHANGED config
  PROVE Primary(store)' = Primary(store')
  BY DEF Primary

LEMMA GetFailsOnMac ==
  ASSUME NEW s \in Stores, NEW e \in Entries, NEW r \in NativeGet(s, e), Windows
  PROVE r.ok
<1>1. PICK k \in KeyringFails(s), d \in Fails(s, "dpapi") : r \in WindowsRead(s, e, k, d)
  BY DEF NativeGet, WindowsGet
<1>2. \E x, t : r = [ok |-> TRUE, x |-> x, store |-> t]
  BY <1>1 DEF WindowsRead
<1>. QED  BY <1>2

LEMMA FinishFresh ==
  ASSUME Fresh, NEW result, NEW shown, Finish(result, shown),
         result \in Values => Holds(store', result),
         result \in Values /\ shown \in Values => shown = result
  PROVE Fresh'
<1>1. result \in Values => Holds(store, last)'
  BY PrimaryNext DEF Finish, Holds
<1>. QED  BY <1>1, IdleFresh DEF Finish, Fresh

-----------------------------------------------------------------------------
(* The steps of a set.                                                       *)

LEMMA StartSetFresh == ASSUME TypeInv, Fresh, NEW v \in Values, StartSet(v) PROVE Fresh'
<1>1. job'.pc = "old" /\ last' \notin Values
  BY NoJobType, Distinct DEF StartSet, Jobs
<1>. QED  BY <1>1, BusyFresh DEF StartSet, Fresh

\* keyring_set failed: a restore has left what it was to bring back
LEMMA SetFailsFresh ==
  ASSUME TypeInv, Fresh, job.pc \in Writing, KeyringSetFails,
         Windows => ~config.keyring,
         last \in Values /\ job.op = "restore" => Primary(store') = Primary(store)
  PROVE Fresh'
<1>1. CASE job.op = "set" /\ Windows /\ StepTo("mirror_only") /\ UNCHANGED <<config, last, seen>>
  <2>1. job'.pc = "mirror_only" /\ job'.op = "set"
    BY <1>1 DEF StepTo, TypeInv, JobOK, Jobs
  <2>. QED  BY <1>1, <2>1, KindsKept
            DEF Fresh, Lasting, Writes, Reads, Restores, Kinds, Matches
<1>2. CASE job.op = "restore" /\ StepTo("restored") /\ UNCHANGED <<config, last, seen>>
  <2>1. job'.pc = "restored" /\ job'.op = "restore" /\ job'.value = job.value
    BY <1>2 DEF StepTo, TypeInv, JobOK, Jobs
  <2>2. last \in Values => Holds(store', last)
    BY <1>2, SameHolds DEF Fresh, Lasting
  <2>3. Lasting'
    BY <1>2, <2>2, PrimaryNext DEF Lasting, Holds
  <2>4. Restores'
    BY <1>2, <2>1 DEF Fresh, Restores
  <2>5. Writes' /\ Reads' /\ Kinds' /\ Matches'
    BY <1>2, <2>1, KindsKept DEF Fresh, Writes, Reads, Kinds, Matches
  <2>. QED  BY <2>3, <2>4, <2>5 DEF Fresh
<1>3. CASE Finish(Unknown, Unknown) \/ Finish(Unknown, Error)
  BY <1>3, Distinct, FinishFresh
<1>. QED  BY <1>1, <1>2, <1>3 DEF KeyringSetFails

\* a set goes on, before it writes anything
LEMMA SettingFresh ==
  ASSUME TypeInv, Fresh, UNCHANGED <<config, last, seen>>,
         job'.pc \in {"old", "unlink"}, job'.op = job.op, job'.value = job.value,
         job'.raw = job.raw, job.pc # "restored",
         last \in Values /\ job.op = "restore" =>
           Holds(store', last) /\ Primary(store')[0] = Primary(store)[0]
  PROVE Fresh'
<1>1. Lasting'
  BY PrimaryNext DEF Lasting, Holds
<1>2. Restores'
  BY PrimaryNext DEF Fresh, Restores
<1>3. Writes' /\ Reads' /\ Kinds' /\ Matches'
  BY KindsKept DEF Fresh, Writes, Reads, Kinds, Matches
<1>. QED  BY <1>1, <1>2, <1>3 DEF Fresh

LEMMA ReadOldFresh == ASSUME Steady, TypeInv, Fresh, ReadOld PROVE Fresh'
<1>1. PICK r \in NativeGet(store, 0) :
        /\ store' = r.store
        /\ \/ /\ r.ok
              /\ job' = [job EXCEPT !.pc = "unlink", !.i = 1, !.old = Count(r.x),
                                    !.leftover = r.store.faults < store.faults]
              /\ Same
           \/ ~r.ok /\ KeyringSetFails
  BY DEF ReadOld
<1>2. job.pc = "old" /\ JobOK /\ Usable
  BY DEF ReadOld, At, TypeInv, Fresh, Kinds, Usable
<1>3. last \in Values /\ job.op = "restore" => ~config.keyring
  BY DEF Fresh, Restores
<1>4. last \in Values /\ job.op = "restore" => Primary(store') = Primary(store) /\ Holds(store, last)
  BY <1>1, <1>2, <1>3, GetPrimary, ContentTypes DEF TypeInv, Fresh, Lasting
<1>5. CASE /\ job' = [job EXCEPT !.pc = "unlink", !.i = 1, !.old = Count(r.x),
                                 !.leftover = r.store.faults < store.faults]
           /\ Same
  <2>1. job'.pc = "unlink" /\ job'.op = job.op /\ job'.value = job.value /\ job'.raw = job.raw
    BY <1>2, <1>5 DEF JobOK, Jobs
  <2>2. last \in Values /\ job.op = "restore" => Holds(store', last)
    BY <1>4, <1>5, SameHolds DEF Same
  <2>. QED  BY <1>2, <1>4, <1>5, <2>1, <2>2, SettingFresh DEF Same
<1>6. CASE ~r.ok /\ KeyringSetFails
  <2>1. Windows => ~config.keyring
    BY <1>1, <1>6, GetFailsOnMac, ContentTypes DEF TypeInv
  <2>. QED  BY <1>2, <1>4, <1>6, <2>1, SetFailsFresh DEF Writing
<1>. QED  BY <1>1, <1>5, <1>6

LEMMA WritingFresh ==
  ASSUME TypeInv, Fresh, UNCHANGED <<config, last, seen>>,
         job'.pc \in {"chunk", "main"}, job'.op = job.op, job'.value = job.value,
         job'.raw = job.raw, job.pc # "restored",
         job'.pc = "chunk" => Written(store', job.value, job'.i),
         job'.pc = "main" /\ job.value # Raw => Written(store', job.value, Size + 1),
         last \in Values /\ job.op = "restore" =>
           Holds(store', last) /\ Primary(store')[0] = Primary(store)[0]
  PROVE Fresh'
<1>1. Lasting'
  BY PrimaryNext DEF Lasting, Holds
<1>2. Restores'
  BY PrimaryNext DEF Fresh, Restores
<1>3. Writes'
  BY PrimaryNext DEF Writes, Written, Size
<1>4. Reads' /\ Kinds' /\ Matches'
  BY KindsKept DEF Fresh, Reads, Kinds, Matches
<1>. QED  BY <1>1, <1>2, <1>3, <1>4 DEF Fresh

\* without the keyring a chunk that is missing makes a value an error, not another one
LEMMA DropHolds ==
  ASSUME UNCHANGED config, ~config.keyring, NEW v \in Values, NEW i \in Chunks,
         Primary(store) \in [Entries -> Contents], Holds(store, v),
         \/ Primary(store') = [Primary(store) EXCEPT ![i] = Absent]
         \/ Primary(store') = Primary(store)
  PROVE Holds(store', v) /\ Primary(store')[0] = Primary(store)[0]
<1>1. CASE Primary(store') = Primary(store)
  BY <1>1, SameHolds
<1>2. CASE Primary(store') = [Primary(store) EXCEPT ![i] = Absent]
  <2>1. i # 0 /\ i \in Entries /\ 0 \in Entries /\ 1 .. Pieces[v] \subseteq Entries
    BY Sizes DEF Chunks, Entries
  <2>2. /\ Primary(store')[0] = Primary(store)[0]
        /\ \A j \in Entries : Primary(store')[j] \in {Primary(store)[j], Absent}
    BY <1>2, <2>1
  <2>. QED  BY <2>1, <2>2 DEF Holds
<1>. QED  BY <1>1, <1>2

LEMMA UnlinkFresh == ASSUME Steady, TypeInv, Fresh, UnlinkChunks PROVE Fresh'
<1>1. JobOK /\ job.pc = "unlink" /\ Same /\ Usable /\ config \in Configs /\ store \in Stores
  BY DEF UnlinkChunks, At, TypeInv, Fresh, Kinds, Usable
<1>2. job.i \in 1 .. job.old + 1 /\ job.old \in 0 .. MaxPieces
  BY <1>1 DEF JobOK, Counted, Jobs
<1>3. last \in Values /\ job.op = "restore" => ~config.keyring /\ Holds(store, last)
  BY DEF Fresh, Restores, Lasting
<1>4. CASE job.i > job.old
  <2> DEFINE next == IF Size = 0 THEN "main" ELSE "chunk"
  <2>1. job' = [job EXCEPT !.pc = next, !.i = 1] /\ store' = store
    BY <1>4 DEF UnlinkChunks
  <2>2. next \in {"chunk", "main"} /\ (next = "main" => Size = 0)
    OBVIOUS
  <2>. HIDE DEF next
  <2>3. job'.pc = next /\ job'.op = job.op /\ job'.value = job.value /\ job'.raw = job.raw
        /\ job'.i = 1
    BY <1>1, <2>1 DEF JobOK, Jobs
  <2>4. Written(store', job.value, 1)
    BY DEF Written
  <2>5. next = "main" => Written(store', job.value, Size + 1)
    BY <2>2, <2>4
  <2>6. last \in Values /\ job.op = "restore" => Holds(store', last)
    BY <1>1, <1>3, <2>1, SameHolds DEF Same
  <2>. QED  BY <1>1, <2>1, <2>2, <2>3, <2>4, <2>5, <2>6, WritingFresh DEF Same
<1>5. CASE ~(job.i > job.old)
  <2>1. PICK r \in NativeDelete(store, job.i) :
          store' = r.store /\ job' = [job EXCEPT !.i = @ + 1, !.leftover = @ \/ ~r.ok]
    BY <1>5 DEF UnlinkChunks
  <2>2. job.i \in Entries /\ job.i \in Chunks
    BY <1>2, <1>5, Sizes DEF Entries, Chunks
  <2>3. \/ Primary(store') = [Primary(store) EXCEPT ![job.i] = Absent]
        \/ Primary(store') = Primary(store)
    BY <1>1, <2>1, <2>2, DeletePrimary DEF Same
  <2>4. last \in Values /\ job.op = "restore" =>
          Holds(store', last) /\ Primary(store')[0] = Primary(store)[0]
    BY <1>1, <1>3, <2>2, <2>3, DropHolds, PrimaryType DEF Same
  <2>5. job'.pc = "unlink" /\ job'.op = job.op /\ job'.value = job.value /\ job'.raw = job.raw
    BY <1>1, <2>1 DEF JobOK, Jobs
  <2>. QED  BY <1>1, <2>4, <2>5, SettingFresh DEF Same
<1>. QED  BY <1>4, <1>5

LEMMA WriteChunkFresh == ASSUME Steady, TypeInv, Fresh, WriteChunk PROVE Fresh'
<1>1. JobOK /\ job.pc = "chunk" /\ Usable /\ config \in Configs /\ store \in Stores
  BY DEF WriteChunk, At, TypeInv, Fresh, Kinds, Usable
<1>2. job.i \in 1 .. Size /\ Size \in 0 .. MaxPieces
  BY <1>1, SizeType DEF JobOK, Counted, Writing
<1>3. job.i \in Chunks /\ job.i \in Entries /\ 0 \in Entries /\ job.i # 0
      /\ job.value \in Values /\ job.value # Raw
  BY <1>1, <1>2, Sizes, Distinct DEF Chunks, Entries, JobOK, Carries, Writing, Size
<1> DEFINE x == Chunk(job.value, job.i)
           p == Primary(store)
<1>4. x \in Contents /\ p \in [Entries -> Contents]
  BY <1>1, <1>3, ContentTypes, PrimaryType
<1>5. PICK r \in NativeSet(store, job.i, x) :
        /\ store' = r.store
        /\ \/ /\ r.ok
              /\ job' = [job EXCEPT !.i = @ + 1, !.pc = IF job.i = Size THEN "main" ELSE @]
              /\ Same
           \/ ~r.ok /\ KeyringSetFails
  BY DEF WriteChunk
<1>c. ASSUME NEW e \in Entries, NEW y \in Contents, NEW q \in NativeSet(store, e, y)
      PROVE /\ q.ok => Primary(q.store) = [p EXCEPT ![e] = y]
            /\ ~q.ok => Primary(q.store) = p /\ ~config.keyring
  BY <1>1, SetPrimary
<1>d. /\ r.ok => Primary(r.store) = [p EXCEPT ![job.i] = x]
      /\ ~r.ok => Primary(r.store) = p /\ ~config.keyring
  <2>. HIDE DEF x, p
  <2>. QED  BY <1>3, <1>4, <1>c
<1>a. Written(store, job.value, job.i)
  BY <1>1 DEF Fresh, Writes
<1>b. last \in Values /\ job.op = "restore" =>
        job.value = last /\ p[0] = Whole(last)
  BY <1>1, <1>3 DEF Fresh, Restores
<1>6. CASE /\ r.ok
           /\ job' = [job EXCEPT !.i = @ + 1, !.pc = IF job.i = Size THEN "main" ELSE @]
           /\ Same
  <2> DEFINE next == IF job.i = Size THEN "main" ELSE "chunk"
  <2>1. next \in {"chunk", "main"} /\ (next = "main" => job.i = Size)
    OBVIOUS
  <2>2. job' = [job EXCEPT !.i = job.i + 1, !.pc = next]
    BY <1>1, <1>6
  <2>. HIDE DEF next
  <2>3. job'.pc = next /\ job'.op = job.op /\ job'.value = job.value /\ job'.raw = job.raw
        /\ job'.i = job.i + 1
    BY <1>1, <2>2 DEF JobOK, Jobs
  <2>. HIDE DEF x
  <2>4. Primary(r.store) = [p EXCEPT ![job.i] = x]
    BY <1>6, <1>d
  <2>. HIDE DEF p
  <2>5. /\ Primary(r.store)[job.i] = x
        /\ \A f \in Entries \ {job.i} : Primary(r.store)[f] = p[f]
    BY <1>3, <1>4, <2>4
  <2>6. Written(store', job.value, job.i + 1)
    <3>1. ASSUME NEW j \in 1 .. job.i PROVE Primary(store')[j] = Chunk(job.value, j)
      <4>1. CASE j = job.i
        BY <1>5, <2>5, <4>1 DEF x
      <4>2. CASE j # job.i
        <5>1. j \in 1 .. MaxPieces /\ j \in 1 .. job.i - 1
          BY <1>2, <4>2, Sizes
        <5>2. j \in Entries
          BY <5>1 DEF Entries, Chunks
        <5>. QED  BY <1>5, <1>a, <2>5, <4>2, <5>1, <5>2 DEF Written, p
      <4>. QED  BY <4>1, <4>2
    <3>2. ASSUME NEW j \in 1 .. (job.i + 1) - 1 PROVE j \in 1 .. job.i
      BY <1>2
    <3>. QED  BY <3>1, <3>2 DEF Written
  <2>7. last \in Values /\ job.op = "restore" =>
          Holds(store', last) /\ Primary(store')[0] = Primary(store)[0]
    BY <1>3, <1>5, <1>b, <2>5 DEF Holds, p
  <2>8. next = "main" => Written(store', job.value, Size + 1)
    BY <2>1, <2>6
  <2>9. UNCHANGED <<config, last, seen>>
    BY <1>6 DEF Same
  <2>. QED  BY <1>1, <2>1, <2>3, <2>6, <2>7, <2>8, <2>9, WritingFresh
<1>7. CASE ~r.ok /\ KeyringSetFails
  <2>1. Primary(store') = Primary(store) /\ ~config.keyring
    BY <1>5, <1>7, <1>d
  <2>. QED  BY <1>1, <1>7, <2>1, SetFailsFresh DEF Writing
<1>. QED  BY <1>5, <1>6, <1>7

LEMMA WriteMainFresh == ASSUME Steady, TypeInv, Fresh, WriteMain PROVE Fresh'
<1> DEFINE x == MainContent
           p == Primary(store)
<1>1. JobOK /\ job.pc = "main" /\ Usable /\ config \in Configs /\ store \in Stores
  BY DEF WriteMain, At, TypeInv, Fresh, Kinds, Usable
<1>2. x \in Contents /\ p \in [Entries -> Contents] /\ Size \in 0 .. MaxPieces /\ 0 \in Entries
  BY <1>1, MainType, PrimaryType, SizeType, ContentTypes DEF Writing
<1>3. PICK r \in NativeSet(store, 0, x) :
        /\ store' = r.store
        /\ (r.ok /\ StepTo(Advance) /\ Same) \/ (~r.ok /\ KeyringSetFails)
  BY DEF WriteMain, MainContent
<1>4. ASSUME NEW e \in Entries, NEW y \in Contents, NEW q \in NativeSet(store, e, y)
      PROVE /\ q.ok => Primary(q.store) = [p EXCEPT ![e] = y]
            /\ ~q.ok => Primary(q.store) = p /\ ~config.keyring
  BY <1>1, SetPrimary
<1>5. /\ r.ok => Primary(r.store) = [p EXCEPT ![0] = x]
      /\ ~r.ok => Primary(r.store) = p /\ ~config.keyring
  <2>. HIDE DEF x, p
  <2>. QED  BY <1>2, <1>4
<1>6. last \in Values /\ job.op = "restore" =>
        /\ ~config.keyring /\ Holds(store, last)
        /\ job.value = last \/ (job.value = Raw /\ p[0] = Manifest(job.raw))
  BY <1>1 DEF Fresh, Restores, Lasting
<1>7. CASE r.ok /\ StepTo(Advance) /\ Same
  <2>1. Primary(store') = [p EXCEPT ![0] = x]
    BY <1>3, <1>5, <1>7
  <2>2. /\ Primary(store')[0] = x
        /\ \A f \in Entries \ {0} : Primary(store')[f] = p[f]
    <3>. HIDE DEF x, p
    <3>. QED  BY <1>2, <2>1
  <2>3. job.value # Raw => Holds(store', job.value)
    <3>. SUFFICES ASSUME job.value # Raw PROVE Holds(store', job.value)
      OBVIOUS
    <3>1. job.value \in Values /\ Size = Pieces[job.value]
      BY <1>1 DEF JobOK, Carries, Writing, Size
    <3>2. CASE Size > 0
      <4>1. x = Manifest(Size)
        BY <3>2 DEF MainContent
      <4>2. Written(store, job.value, Size + 1)
        BY <1>1 DEF Fresh, Writes
      <4>3. ASSUME NEW j \in 1 .. Size PROVE Primary(store')[j] = Chunk(job.value, j)
        <5>1. j \in 1 .. MaxPieces /\ j \in 1 .. (Size + 1) - 1 /\ j # 0
          BY <1>2, Sizes
        <5>2. j \in Entries \ {0}
          BY <5>1 DEF Entries, Chunks
        <5>3. p[j] = Chunk(job.value, j)
          BY <4>2, <5>1 DEF Written
        <5>. QED  BY <2>2, <5>2, <5>3
      <4>4. Primary(store')[0] = Manifest(Size)
        BY <2>2, <4>1
      <4>. QED  BY <3>1, <3>2, <4>3, <4>4 DEF Holds
    <3>3. CASE ~(Size > 0)
      <4>1. x = Whole(job.value)
        BY <3>3 DEF MainContent
      <4>. QED  BY <2>2, <4>1 DEF Holds
    <3>. QED  BY <3>2, <3>3
  <2>4. job'.pc = Advance /\ job'.op = job.op /\ job'.value = job.value /\ job'.raw = job.raw
    BY <1>1, <1>7 DEF StepTo, JobOK, Jobs
  <2>5. last \in Values /\ job.op = "restore" => Holds(store', last)
    <3>1. CASE job.value = Raw /\ p[0] = Manifest(job.raw)
      <4>1. x = p[0]
        BY <3>1 DEF MainContent
      <4>2. Primary(store') = p
        <5>. HIDE DEF x, p
        <5>. QED  BY <1>2, <2>1, <4>1
      <4>. QED  BY <1>6, <1>7, <4>2, SameHolds DEF Same
    <3>. QED  BY <1>6, <2>3, <3>1, Distinct
  <2>6. \/ job.op = "set" /\ Advance \in {"mirror", "forget"} /\ job.value \in Values
        \/ job.op \in {"consume", "migrate"} /\ Advance = "consumed" /\ job.value \in Values
        \/ job.op = "restore" /\ Advance = "restored"
    BY <1>1 DEF JobOK, Carries, Writing, Advance
  <2>7. Lasting'
    BY <1>7, <2>4, <2>5, <2>6, PrimaryNext DEF Lasting, Holds, Same
  <2>8. Writes'
    BY <1>7, <2>3, <2>4, <2>6, Distinct, PrimaryNext DEF Writes, Holds, Same
  <2>9. Restores'
    BY <1>6, <1>7, <2>4, <2>6 DEF Restores, Same
  <2>10. Reads' /\ Kinds' /\ Matches'
    BY <1>7, <2>4, <2>6, KindsKept DEF Fresh, Reads, Kinds, Matches, Same
  <2>. QED  BY <2>7, <2>8, <2>9, <2>10 DEF Fresh
<1>8. CASE ~r.ok /\ KeyringSetFails
  <2>1. Primary(store') = Primary(store) /\ ~config.keyring
    BY <1>3, <1>5, <1>8
  <2>. QED  BY <1>1, <1>8, <2>1, SetFailsFresh DEF Writing
<1>. QED  BY <1>3, <1>7, <1>8

LEMMA MirrorFresh == ASSUME TypeInv, Fresh, Mirror PROVE Fresh'
<1>1. PICK d \in IF Windows THEN Fails(store, "dpapi") ELSE {TRUE} :
        /\ store' = IF d THEN Used(store, FALSE, Windows)
                    ELSE [store EXCEPT !.dpapi[0] = Whole(job.value)]
        /\ Finish(IF d /\ At("mirror_only") THEN Unknown ELSE job.value, Unknown)
  BY DEF Mirror
<1>2. job.value \in Values /\ (At("mirror") => Holds(store, job.value))
      /\ (At("mirror_only") => ~config.keyring) /\ d \in BOOLEAN /\ config.keyring \in BOOLEAN
  BY <1>1 DEF Mirror, At, TypeInv, JobOK, Ends, Fails, Fresh, Writes, Configs
<1>3. config' = config
  BY <1>1 DEF Finish
<1>4. CASE d
  <2>1. Primary(store') = Primary(store)
    BY <1>1, <1>4 DEF Used, Primary, TypeInv, Stores
  <2>2. At("mirror") => Holds(store', job.value)
    BY <1>2, <1>3, <2>1, SameHolds
  <2>3. At("mirror") \/ At("mirror_only")
    BY DEF Mirror
  <2>. QED  BY <1>1, <1>4, <2>2, <2>3, Distinct, FinishFresh
<1>5. CASE ~d
  <2>1. store'.keyring = store.keyring /\ store'.dpapi[0] = Whole(job.value)
    BY <1>1, <1>5, ContentTypes DEF TypeInv, Stores
  <2>2. Holds(store', job.value)
    <3>1. CASE config.keyring
      <4>1. Primary(store') = Primary(store)
        BY <2>1, <3>1 DEF Primary
      <4>2. At("mirror")
        BY <1>2, <3>1 DEF Mirror
      <4>. QED  BY <1>2, <1>3, <4>1, <4>2, SameHolds
    <3>2. CASE ~config.keyring
      BY <2>1, <3>2 DEF Primary, Holds
    <3>. QED  BY <1>2, <3>1, <3>2
  <2>. QED  BY <1>1, <1>5, <2>2, Distinct, FinishFresh
<1>. QED  BY <1>2, <1>4, <1>5

LEMMA FallbackFresh ==
  ASSUME TypeInv, store' = [store EXCEPT !.fallback = None], NEW v
  PROVE Holds(store, v) => Holds(store', v)
<1>1. Primary(store') = Primary(store)
  BY DEF Primary, TypeInv, Stores
<1>. QED  BY <1>1 DEF Holds

LEMMA ForgetFresh == ASSUME TypeInv, Fresh, Forget PROVE Fresh'
<1>1. Holds(store, job.value)
  BY DEF Forget, At, Fresh, Writes
<1>. QED  BY <1>1, FallbackFresh, Distinct, FinishFresh DEF Forget

-----------------------------------------------------------------------------
(* The steps of a get.                                                       *)

LEMMA ConsumedFresh == ASSUME TypeInv, Fresh, Consumed PROVE Fresh'
<1>1. Holds(store, job.value)
  BY DEF Consumed, At, Fresh, Writes
<1>. QED  BY <1>1, FallbackFresh, FinishFresh DEF Consumed

LEMMA StartGetFresh == ASSUME TypeInv, Fresh, StartGet PROVE Fresh'
<1>1. job'.pc \in {"legacy", "read"} /\ job'.op = "get"
  BY NoJobType DEF StartGet, Jobs
<1>2. last' \in Values => Holds(store, last)'
  BY DEF StartGet, Idle, Fresh, Lasting, Holds, Primary
<1>3. seen' \notin Values
  BY Distinct DEF StartGet
<1>. QED  BY <1>1, <1>2, <1>3, SearchFresh DEF StartGet, Fresh

LEMMA ConsumeLegacyFresh == ASSUME TypeInv, Fresh, ConsumeLegacy PROVE Fresh'
<1>1. Same /\ store' = store /\ JobOK /\ job.pc = "legacy"
  BY DEF ConsumeLegacy, At, TypeInv
<1>2. Matches' /\ config' = config
  BY <1>1 DEF Fresh, Matches, Same
<1>3. CASE store.fallback # None /\ config.subscribed
  <2>1. job'.pc = "old" /\ job'.op = "consume"
    BY <1>1, <1>3 DEF ConsumeLegacy, JobOK, Jobs
  <2>. QED  BY <1>2, <2>1, BusyFresh DEF Fresh, Matches
<1>4. CASE ~(store.fallback # None /\ config.subscribed)
  <2>1. job'.pc = "read" /\ job'.op = "get"
    BY <1>1, <1>4 DEF ConsumeLegacy, JobOK, Jobs, Fresh, Kinds
  <2>2. last' \in Values => Holds(store, last)'
    BY <1>1 DEF Fresh, Lasting, Holds, Primary, Same
  <2>. QED  BY <1>2, <2>1, <2>2, SearchFresh DEF Fresh, Matches
<1>. QED  BY <1>3, <1>4

\* a get that fails goes on to the DPAPI file of an app key, or ends
LEMMA ReadFailsFresh ==
  ASSUME TypeInv, Fresh, job.pc \in {"read", "parts"}, ReadFails,
         last \in Values => Holds(store', last) /\ ~config.keyring
  PROVE Fresh'
<1>1. CASE StepTo("dpapi") /\ Same
  <2>1. job'.pc = "dpapi" /\ job'.op = "get"
    BY <1>1 DEF StepTo, TypeInv, JobOK, Jobs, Fresh, Kinds
  <2>2. last' \in Values => Holds(store, last)'
    BY <1>1, PrimaryNext DEF Same, Holds
  <2>. QED  BY <1>1, <2>1, <2>2, SearchFresh DEF Same, Fresh, Matches
<1>2. CASE Finish(last, Error)
  BY <1>2, FinishFresh, Distinct
<1>. QED  BY <1>1, <1>2 DEF ReadFails

LEMMA NothingReadFresh ==
  ASSUME TypeInv, Fresh, job.pc = "read", NothingRead,
         last \in Values => Holds(store', last) /\ ~config.keyring
  PROVE Fresh'
<1>1. CASE StepTo("dpapi") /\ Same
  <2>1. job'.pc = "dpapi" /\ job'.op = "get"
    BY <1>1 DEF StepTo, TypeInv, JobOK, Jobs, Fresh, Kinds
  <2>2. last' \in Values => Holds(store, last)'
    BY <1>1, PrimaryNext DEF Same, Holds
  <2>. QED  BY <1>1, <2>1, <2>2, SearchFresh DEF Same, Fresh, Matches
<1>2. CASE /\ job' = [job EXCEPT !.pc = "old", !.op = "migrate", !.value = store.fallback,
                                 !.then = "consumed"]
           /\ Same
  <2>1. job'.pc = "old" /\ job'.op = "migrate"
    BY <1>2 DEF TypeInv, JobOK, Jobs
  <2>. QED  BY <1>2, <2>1, BusyFresh DEF Same, Fresh, Matches
<1>3. CASE Finish(last, None)
  BY <1>3, FinishFresh, Distinct
<1>. QED  BY <1>1, <1>2, <1>3 DEF NothingRead

LEMMA ShownFresh ==
  ASSUME TypeInv, Fresh, NEW s \in Stores, NEW v, Shown(s, v),
         last \in Values => Holds(s, last),
         last \in Values /\ v \in Values => v = last
  PROVE Fresh'
<1>1. Primary(store') = Primary(s)
  BY DEF Shown, Primary, Stores
<1>2. last \in Values => Holds(store', last)
  BY <1>1 DEF Holds
<1>. QED  BY <1>2, FinishFresh DEF Shown

\* what is held, read from its first entry
LEMMA HeldFirst ==
  ASSUME NEW s, NEW v, Holds(s, v)
  PROVE /\ Primary(s)[0] # Absent
        /\ Primary(s)[0].kind = "whole" => Primary(s)[0].value = v
        /\ Primary(s)[0].kind # "whole" => Primary(s)[0] = Manifest(Pieces[v])
                                           /\ Count(Primary(s)[0]) = Pieces[v]
  BY DEF Holds, Whole, Manifest, Absent, Count

LEMMA ReadMainFresh == ASSUME Steady, TypeInv, Fresh, ReadMain PROVE Fresh'
<1>1. PICK r \in NativeGet(store, 0) :
        CASE ~r.ok -> store' = r.store /\ ReadFails
          [] r.ok /\ r.x = Absent -> store' = r.store /\ NothingRead
          [] r.ok /\ r.x.kind = "whole" -> Shown(r.store, r.x.value)
          [] OTHER -> /\ job' = [job EXCEPT !.pc = "parts", !.i = 1, !.old = Count(r.x)]
                      /\ store' = r.store /\ Same
  BY DEF ReadMain
<1>2. /\ JobOK /\ job.pc = "read" /\ Usable /\ config \in Configs /\ store \in Stores
      /\ 0 \in Entries /\ (last \in Values => Holds(store, last))
  BY ContentTypes DEF ReadMain, At, TypeInv, Fresh, Kinds, Usable, Lasting
<1>3. r.ok \in BOOLEAN /\ r.x \in Contents /\ r.store \in Stores /\ Absent.kind # "whole"
  BY <1>2, GetKeeps DEF Keeps, Absent
<1>4. ASSUME last \in Values
      PROVE /\ Primary(store)[0] # Absent /\ Primary(r.store) = Primary(store)
            /\ config.keyring => r.ok /\ r.x = Primary(store)[0]
            /\ ~config.keyring => r.x \in {Primary(store)[0], Absent}
            /\ r.ok
  <2>1. Primary(store)[0] # Absent
    BY <1>2, <1>4, HeldFirst
  <2>2. /\ Primary(r.store) = Primary(store)
        /\ config.keyring => r.ok /\ r.x = Primary(store)[0]
        /\ ~config.keyring => r.x \in {Primary(store)[0], Absent}
        /\ Windows => r.ok
    BY <1>2, <2>1, GetPrimary
  <2>. QED  BY <1>2, <2>1, <2>2 DEF Usable
<1>a. last \in Values => Holds(r.store, last)
  BY <1>2, <1>4 DEF Holds
<1>5. CASE ~r.ok
  BY <1>1, <1>2, <1>3, <1>4, <1>5, ReadFailsFresh
<1>6. CASE r.ok /\ r.x = Absent
  <2>1. last \in Values => ~config.keyring
    BY <1>4, <1>6
  <2>2. store' = r.store /\ NothingRead
    BY <1>1, <1>3, <1>6
  <2>. QED  BY <1>2, <1>a, <2>1, <2>2, NothingReadFresh
<1>7. CASE r.ok /\ r.x.kind = "whole"
  <2>1. Shown(r.store, r.x.value)
    BY <1>1, <1>3, <1>7
  <2>2. last \in Values => r.x.value = last
    BY <1>2, <1>3, <1>4, <1>7, HeldFirst
  <2>. QED  BY <1>3, <1>a, <2>1, <2>2, ShownFresh
<1>8. CASE r.ok /\ r.x # Absent /\ r.x.kind # "whole"
  <2>1. job' = [job EXCEPT !.pc = "parts", !.i = 1, !.old = Count(r.x)]
        /\ store' = r.store /\ Same
    BY <1>1, <1>8
  <2>2. job'.pc = "parts" /\ job'.i = 1 /\ job'.old = Count(r.x) /\ job'.op = "get"
    BY <1>2, <2>1 DEF JobOK, Jobs, Fresh, Kinds
  <2>3. last \in Values =>
          /\ Primary(r.store)[0] = Manifest(Pieces[last]) /\ Count(r.x) = Pieces[last]
    BY <1>2, <1>4, <1>8, HeldFirst
  <2>4. Lasting' /\ Reads'
    BY <1>a, <2>1, <2>2, <2>3, PrimaryNext DEF Lasting, Reads, Holds, Same
  <2>5. Writes' /\ Restores' /\ Kinds' /\ Matches'
    BY <2>1, <2>2, KindsKept DEF Fresh, Writes, Restores, Kinds, Matches, Same
  <2>. QED  BY <2>4, <2>5 DEF Fresh
<1>. QED  BY <1>3, <1>5, <1>6, <1>7, <1>8

\* a manifest's chunks, read one after the other
LEMMA HeldChunk ==
  ASSUME TypeInv, Fresh, last \in Values, job.pc = "parts", NEW i \in 1 .. job.old
  PROVE /\ i \in Entries /\ Chunk(last, i) # Absent
        /\ Primary(store)[i] = Chunk(last, i) \/ (~config.keyring /\ Primary(store)[i] = Absent)
<1>1. job.old = Pieces[last] /\ Primary(store)[0] = Manifest(job.old) /\ Holds(store, last)
  BY DEF Fresh, Reads, Lasting
<1>2. Primary(store)[0] # Whole(last)
  BY <1>1 DEF Whole, Manifest
<1>3. i \in Entries
  BY <1>1, Sizes DEF Entries, Chunks
<1>4. Chunk(last, i) # Absent
  BY DEF Chunk, Absent
<1>. QED  BY <1>1, <1>2, <1>3, <1>4 DEF Holds

LEMMA ReadPartFresh == ASSUME Steady, TypeInv, Fresh, ReadPart PROVE Fresh'
<1>1. PICK r \in NativeGet(store, job.i) :
        /\ store' = r.store
        /\ \/ /\ r.ok /\ r.x # Absent
              /\ job' = [job EXCEPT !.i = @ + 1, !.acc = Append(@, r.x)] /\ Same
           \/ ~(r.ok /\ r.x # Absent) /\ ReadFails
  BY DEF ReadPart
<1>2. /\ JobOK /\ job.pc = "parts" /\ Usable /\ config \in Configs /\ store \in Stores
      /\ job.i <= job.old /\ (last \in Values => Holds(store, last))
  BY DEF ReadPart, At, TypeInv, Fresh, Kinds, Usable, Lasting
<1>3. job.i \in 1 .. job.old /\ job.old \in 0 .. MaxPieces /\ job.acc \in Seq(Contents)
      /\ Len(job.acc) = job.i - 1
  BY <1>2 DEF JobOK, Counted, Jobs
<1>4. job.i \in Entries
  BY <1>3, Sizes DEF Entries, Chunks
<1>5. r.ok \in BOOLEAN /\ r.x \in Contents /\ r.store \in Stores
  BY <1>2, <1>4, GetKeeps DEF Keeps
<1>6. ASSUME last \in Values
      PROVE /\ Primary(r.store) = Primary(store)
            /\ r.ok /\ r.x # Absent => r.x = Chunk(last, job.i)
            /\ ~(r.ok /\ r.x # Absent) => ~config.keyring
  <2>1. /\ Primary(store)[job.i] = Chunk(last, job.i)
           \/ (~config.keyring /\ Primary(store)[job.i] = Absent)
        /\ Chunk(last, job.i) # Absent
    BY <1>2, <1>3, <1>6, HeldChunk
  <2>2. /\ Primary(r.store) = Primary(store)
        /\ config.keyring => r.ok /\ r.x = Primary(store)[job.i]
        /\ ~config.keyring => r.x \in {Primary(store)[job.i], Absent}
    BY <1>2, <1>4, <2>1, GetPrimary
  <2>. QED  BY <2>1, <2>2
<1>a. last \in Values => Holds(r.store, last)
  BY <1>2, <1>6 DEF Holds
<1>7. CASE /\ r.ok /\ r.x # Absent
           /\ job' = [job EXCEPT !.i = @ + 1, !.acc = Append(@, r.x)] /\ Same
  <2>1. job'.pc = "parts" /\ job'.i = job.i + 1 /\ job'.old = job.old /\ job'.op = "get"
        /\ job'.acc = Append(job.acc, r.x)
    BY <1>2, <1>7 DEF JobOK, Jobs, Fresh, Kinds
  <2>2. Lasting'
    BY <1>1, <1>7, <1>a, PrimaryNext DEF Lasting, Holds, Same
  <2>3. ASSUME last \in Values
        PROVE \A j \in 1 .. job'.i - 1 : job'.acc[j] = Chunk(last, j)
    <3>1. \A j \in 1 .. job.i - 1 : job.acc[j] = Chunk(last, j)
      BY <1>2, <2>3 DEF Fresh, Reads
    <3>2. r.x = Chunk(last, job.i)
      BY <1>6, <1>7, <2>3
    <3>. QED  BY <1>3, <1>5, <2>1, <3>1, <3>2
  <2>4. Reads'
    <3>1. last \in Values => job.old = Pieces[last] /\ Primary(store')[0] = Manifest(job.old)
      BY <1>1, <1>2, <1>6 DEF Fresh, Reads
    <3>. QED  BY <1>7, <2>1, <2>3, <3>1, PrimaryNext DEF Reads, Same
  <2>5. Writes' /\ Restores' /\ Kinds' /\ Matches'
    BY <1>7, <2>1, KindsKept DEF Fresh, Writes, Restores, Kinds, Matches, Same
  <2>. QED  BY <2>2, <2>4, <2>5 DEF Fresh
<1>8. CASE ~(r.ok /\ r.x # Absent) /\ ReadFails
  BY <1>1, <1>2, <1>6, <1>8, <1>a, ReadFailsFresh
<1>. QED  BY <1>1, <1>7, <1>8

\* the chunks of a value make that value
LEMMA TextWhole ==
  ASSUME NEW acc \in Seq(Contents), NEW v \in Values, Pieces[v] > 0,
         Len(acc) = Pieces[v], \A j \in 1 .. Pieces[v] : acc[j] = Chunk(v, j)
  PROVE Text(acc) = v
<1>1. acc = Parts(v)
  BY DEF Parts
<1>2. ASSUME NEW w \in Values, Pieces[w] > 0, acc = Parts(w) PROVE w = v
  <2>1. 1 \in 1 .. Pieces[w] /\ 1 \in 1 .. Pieces[v]
    BY <1>2, ConstantsAssumption
  <2>2. acc[1] = Chunk(w, 1) /\ acc[1] = Chunk(v, 1)
    BY <1>2, <2>1 DEF Parts
  <2>. QED  BY <2>2 DEF Chunk
<1>. QED  BY <1>1, <1>2 DEF Text

LEMMA ReadDoneFresh == ASSUME TypeInv, Fresh, ReadDone PROVE Fresh'
<1>1. /\ JobOK /\ job.pc = "parts" /\ store \in Stores /\ job.i > job.old
      /\ Shown(store, Text(job.acc)) /\ (last \in Values => Holds(store, last))
  BY DEF ReadDone, At, TypeInv, Fresh, Lasting
<1>2. job.i \in 1 .. job.old + 1 /\ job.old \in 0 .. MaxPieces /\ job.acc \in Seq(Contents)
      /\ Len(job.acc) = job.i - 1
  BY <1>1 DEF JobOK, Counted, Jobs
<1>3. ASSUME last \in Values PROVE Text(job.acc) = last
  <2>1. job.old = Pieces[last] /\ Primary(store)[0] = Manifest(job.old)
        /\ \A j \in 1 .. job.i - 1 : job.acc[j] = Chunk(last, j)
    BY <1>1, <1>3 DEF Fresh, Reads
  <2>2. Manifest(job.old) \in Contents
    BY <1>1, <2>1, PrimaryType, ContentTypes
  <2>3. job.old \in Chunks
    BY <2>2, ContentParts DEF Manifest
  <2>4. Pieces[last] > 0 /\ Len(job.acc) = Pieces[last] /\ job.i - 1 = Pieces[last]
    BY <1>1, <1>2, <2>1, <2>3, Sizes DEF Chunks
  <2>5. \A j \in 1 .. Pieces[last] : job.acc[j] = Chunk(last, j)
    BY <2>1, <2>4
  <2>. QED  BY <1>2, <1>3, <2>4, <2>5, TextWhole
<1>. QED  BY <1>1, <1>3, ShownFresh

LEMMA ReadMirrorFresh == ASSUME TypeInv, Fresh, ReadMirror PROVE Fresh'
<1> DEFINE x == store.dpapi[0]
           v == IF x.kind = "manifest" THEN Raw ELSE x.value
<1>1. PICK d \in Fails(store, "dpapi") :
        /\ store' = Used(store, FALSE, d)
        /\ CASE d \/ x = Absent -> Finish(last, None) /\ UNCHANGED cut
             [] OTHER -> /\ job' = [job EXCEPT !.pc = "old", !.op = "restore", !.value = v,
                                               !.raw = x.n, !.then = "restored"]
                         /\ Same
  BY DEF ReadMirror
<1>2. job.pc = "dpapi" /\ JobOK
  BY DEF ReadMirror, At, TypeInv
<1>3. last \in Values => Holds(store, last) /\ ~config.keyring
  BY <1>2 DEF Fresh, Lasting, Reads
<1>4. Primary(store') = Primary(store)
  BY <1>1 DEF Used, Primary, TypeInv, Stores
<1>5. last \in Values => Holds(store', last)
  BY <1>3, <1>4 DEF Holds
<1>6. CASE d \/ x = Absent
  BY <1>1, <1>5, <1>6, FinishFresh, Distinct
<1>7. CASE ~(d \/ x = Absent)
  <2>1. job' = [job EXCEPT !.pc = "old", !.op = "restore", !.value = v, !.raw = x.n,
                           !.then = "restored"] /\ Same
    BY <1>1, <1>7
  <2>2. last \in Values => \/ v = last /\ x = Whole(last)
                           \/ v = Raw /\ x = Manifest(x.n)
    BY <1>3, HeldFirst DEF Holds, Primary, Whole, Manifest
  <2>. HIDE DEF v
  <2>3. job'.pc = "old" /\ job'.op = "restore" /\ job'.value = v /\ job'.raw = x.n
    BY <1>2, <2>1 DEF JobOK, Jobs
  <2>4. last \in Values => Primary(store')[0] = x
    BY <1>3, <1>4 DEF Primary
  <2>5. Lasting'
    BY <1>5, <2>1, PrimaryNext DEF Lasting, Holds, Same
  <2>6. Restores'
    BY <1>3, <2>1, <2>2, <2>3, <2>4, PrimaryNext DEF Restores, Same
  <2>7. Writes' /\ Reads' /\ Kinds' /\ Matches'
    BY <2>1, <2>3, KindsKept DEF Fresh, Writes, Reads, Kinds, Matches, Same
  <2>. QED  BY <2>5, <2>6, <2>7 DEF Fresh
<1>. QED  BY <1>6, <1>7

LEMMA RestoredFresh == ASSUME TypeInv, Fresh, Restored PROVE Fresh'
<1>1. job.pc = "restored" /\ job.op = "restore" /\ store' = store /\ Finish(last, job.value)
  BY DEF Restored, At, Fresh, Kinds
<1>2. last \in Values => Holds(store', last)
  BY <1>1 DEF Fresh, Lasting
<1>3. last \in Values /\ job.value \in Values => job.value = last
  BY <1>1, Distinct DEF Fresh, Restores
<1>. QED  BY <1>1, <1>2, <1>3, FinishFresh

-----------------------------------------------------------------------------
(* The steps of a delete, and a crash.                                       *)

LEMMA StartDeleteFresh == ASSUME TypeInv, Fresh, StartDelete PROVE Fresh'
<1>1. job'.pc = "find" /\ last' \notin Values
  BY NoJobType, Distinct DEF StartDelete, Jobs
<1>. QED  BY <1>1, BusyFresh DEF StartDelete, Fresh

LEMMA DroppingFresh ==
  ASSUME TypeInv, Fresh, job.pc \in {"find", "drop"}, Same,
         job'.pc \in {"drop", "drop_mirror"}, job'.op = job.op
  PROVE Fresh'
<1>1. job.op = "delete"
  BY DEF TypeInv, JobOK, Ends
<1>. QED  BY <1>1, BusyFresh DEF Same, Fresh, Matches

LEMMA FindOldFresh == ASSUME TypeInv, Fresh, FindOld PROVE Fresh'
<1>1. job.pc = "find" /\ Same /\ JobOK
  BY DEF FindOld, At, TypeInv
<1>2. \E r : job' = IF r.ok THEN [job EXCEPT !.pc = "drop", !.i = 1, !.old = Count(r.x)]
                    ELSE [job EXCEPT !.pc = "drop_mirror", !.leftover = TRUE]
  BY DEF FindOld
<1>3. job'.pc \in {"drop", "drop_mirror"} /\ job'.op = job.op
  BY <1>1, <1>2 DEF JobOK, Jobs
<1>. QED  BY <1>1, <1>3, DroppingFresh

LEMMA DropFresh == ASSUME TypeInv, Fresh, DropChunk \/ DropMain PROVE Fresh'
<1>1. job.pc = "drop" /\ Same /\ JobOK
  BY DEF DropChunk, DropMain, At, TypeInv
<1>2. job' = [job EXCEPT !.i = job.i + 1]
      \/ \E r : job' = [job EXCEPT !.pc = "drop_mirror", !.leftover = ~r.ok]
  BY DEF DropChunk, DropMain
<1>3. job'.pc \in {"drop", "drop_mirror"} /\ job'.op = job.op
  BY <1>1, <1>2 DEF JobOK, Jobs
<1>. QED  BY <1>1, <1>3, DroppingFresh

LEMMA DropMirrorFresh == ASSUME TypeInv, Fresh, DropMirror PROVE Fresh'
<1>1. Finish(None, Unknown) \/ Finish(Unknown, Unknown)
  BY DEF DropMirror
<1>. QED  BY <1>1, FinishFresh, Distinct

LEMMA CrashFresh == ASSUME TypeInv, Fresh, Crash PROVE Fresh'
<1>1. /\ job' = NoJob /\ seen' = Unknown /\ UNCHANGED <<config, store>>
      /\ (last' = last /\ job.op = "get") \/ last' = Unknown
  BY DEF Crash
<1>2. JobOK
  BY DEF TypeInv
<1>3. job.op = "get" => job.pc \in {"idle", "legacy", "read", "parts", "dpapi"}
  BY <1>2 DEF JobOK, Jobs, Labels, Carries, Ends, Writing, Fresh, Kinds
<1>4. last' \in Values => Holds(store, last)'
  BY <1>1, <1>3, Distinct DEF Fresh, Lasting, Holds, Primary
<1>5. seen' \notin Values
  BY <1>1, Distinct
<1>6. Kinds
  BY DEF Fresh
<1>. QED  BY <1>1, <1>4, <1>5, <1>6, IdleFresh

LEMMA InitFresh == ASSUME Init PROVE Fresh
<1>1. job.pc = "idle" /\ job.op = "none" /\ last \notin Values
      /\ (config.platform = "macos" => config.keyring)
      /\ config.platform \in {"windows", "macos"}
  BY Distinct DEF Init, NoJob
<1>. QED  BY <1>1 DEF Fresh, Lasting, Writes, Reads, Restores, Kinds, Matches, Windows

LEMMA StepFresh ==
  ASSUME Steady, TypeInv, Fresh, Call \/ Step \/ Crash \/ UNCHANGED vars PROVE Fresh'
<1>1. CASE UNCHANGED vars
  BY <1>1 DEF vars, Fresh, Lasting, Writes, Reads, Restores, Kinds, Matches, Holds, Written,
              Primary, Windows, Size
<1>2. CASE Call \/ Step \/ Crash
  BY <1>2, StartSetFresh, ReadOldFresh, UnlinkFresh, WriteChunkFresh, WriteMainFresh,
     MirrorFresh, ForgetFresh, StartGetFresh, ConsumeLegacyFresh, ConsumedFresh,
     ReadMainFresh, ReadPartFresh, ReadDoneFresh, ReadMirrorFresh, RestoredFresh,
     StartDeleteFresh, FindOldFresh, DropFresh, DropMirrorFresh, CrashFresh DEF Call, Step
<1>. QED  BY <1>1, <1>2

LEMMA FreshInvariance == ASSUME Steady PROVE Spec => [](Overlapped \/ Fresh)
<1>1. Init => Overlapped \/ Fresh
  BY InitFresh
<1>2. TypeInv /\ OthersOK /\ (Overlapped \/ Fresh) /\ [Next]_vars => (Overlapped \/ Fresh)'
  BY StepFresh, AloneNext
<1>. QED  BY <1>1, <1>2, TypeInvariance, PTL DEF Spec

\* For operations that do not overlap: what one that succeeded has stored is what the next
\* get returns: across values
\* of one entry and of many, restarts between any two entries and DPAPI files that fail, where
\* the keyring works always or never (storage/mod.rs:302, 318).
THEOREM WhatIsSetIsRead ==
  ASSUME Faulty \subseteq {"dpapi"}
  PROVE Spec => []SetIsRead
<1>1. Spec => [](Overlapped \/ Fresh)
  BY FreshInvariance DEF Steady
<1>2. Overlapped \/ Fresh => SetIsRead
  BY DEF Fresh, Matches, SetIsRead
<1>. QED  BY <1>1, <1>2, PTL

-----------------------------------------------------------------------------
(* What the calls do to the entries where no store fails.                    *)

Works == Faulty = {}

LEMMA WorksSteady == ASSUME Works PROVE Steady
  BY DEF Works, Steady

LEMMA WorksFails ==
  ASSUME Works, config \in Configs, NEW s
  PROVE /\ \A k \in KeyringFails(s) : k = ~config.keyring
        /\ \A d \in Fails(s, "dpapi") : d = FALSE
  BY DEF Works, KeyringFails, Fails, Configs

LEMMA SetWorks ==
  ASSUME Works, Usable, config \in Configs, NEW s \in Stores, NEW e \in Entries,
         NEW x \in Contents, NEW r \in NativeSet(s, e, x)
  PROVE /\ r.ok
        /\ r.store.keyring = IF config.keyring THEN [s.keyring EXCEPT ![e] = x] ELSE s.keyring
        /\ r.store.dpapi = IF Windows THEN [s.dpapi EXCEPT ![e] = x] ELSE s.dpapi
        /\ r.store.legacy = s.legacy
<1>0. /\ [s.keyring EXCEPT ![e] = s.keyring[e]] = s.keyring
      /\ [s.dpapi EXCEPT ![e] = s.dpapi[e]] = s.dpapi /\ config.keyring \in BOOLEAN
  BY DEF Stores, Configs
<1>1. CASE Windows
  <2>1. PICK k \in KeyringFails(s), d \in Fails(s, "dpapi") :
          r = [ok |-> ~k \/ ~d, store |-> InBoth(s, e, x, k, d)]
    BY <1>1 DEF NativeSet, WindowsSet
  <2>2. k = ~config.keyring /\ d = FALSE
    BY WorksFails
  <2>3. /\ InBoth(s, e, x, k, d).keyring = [s.keyring EXCEPT ![e] = IF k THEN s.keyring[e] ELSE x]
        /\ InBoth(s, e, x, k, d).dpapi = [s.dpapi EXCEPT ![e] = IF d THEN s.dpapi[e] ELSE x]
        /\ InBoth(s, e, x, k, d).legacy = s.legacy
    BY <1>1, BothWrite
  <2>4. r.ok = (~k \/ ~d) /\ r.store = InBoth(s, e, x, k, d)
    BY <2>1
  <2>. QED  BY <1>0, <1>1, <2>2, <2>3, <2>4
<1>2. CASE ~Windows
  <2>1. PICK k \in KeyringFails(s) :
          r = [ok |-> ~k, store |-> InOne(s, e, x, k)]
    BY <1>2 DEF NativeSet, MacSet
  <2>2. ~k /\ config.keyring
    BY <1>2, WorksFails DEF Usable
  <2>3. /\ InOne(s, e, x, k).keyring = [s.keyring EXCEPT ![e] = IF k THEN s.keyring[e] ELSE x]
        /\ InOne(s, e, x, k).dpapi = s.dpapi /\ InOne(s, e, x, k).legacy = s.legacy
    BY OneWrites
  <2>4. r.ok = ~k /\ r.store = InOne(s, e, x, k)
    BY <2>1
  <2>. QED  BY <1>2, <2>2, <2>3, <2>4
<1>. QED  BY <1>1, <1>2

LEMMA DeleteWorks ==
  ASSUME Works, Usable, config \in Configs, NEW s \in Stores, NEW e \in Entries,
         NEW r \in NativeDelete(s, e)
  PROVE /\ r.store.keyring = IF config.keyring THEN [s.keyring EXCEPT ![e] = Absent] ELSE s.keyring
        /\ r.store.dpapi = IF Windows THEN [s.dpapi EXCEPT ![e] = Absent] ELSE s.dpapi
        /\ r.store.legacy = IF Windows THEN s.legacy ELSE [s.legacy EXCEPT ![e] = Absent]
<1>0. /\ [s.keyring EXCEPT ![e] = s.keyring[e]] = s.keyring /\ Absent \in Contents
      /\ [s.dpapi EXCEPT ![e] = s.dpapi[e]] = s.dpapi /\ config.keyring \in BOOLEAN
  BY ContentTypes DEF Stores, Configs
<1>1. CASE Windows
  <2>1. PICK k \in KeyringFails(s), d \in Fails(s, "dpapi") :
          r = [ok |-> ~k /\ ~d, store |-> InBoth(s, e, Absent, k, d)]
    BY <1>1 DEF NativeDelete, WindowsDelete
  <2>2. k = ~config.keyring /\ d = FALSE
    BY WorksFails
  <2> DEFINE u == InBoth(s, e, Absent, k, d)
  <2>3. /\ u.keyring = [s.keyring EXCEPT ![e] = IF k THEN s.keyring[e] ELSE Absent]
        /\ u.dpapi = [s.dpapi EXCEPT ![e] = IF d THEN s.dpapi[e] ELSE Absent]
        /\ u.legacy = s.legacy
    BY <1>0, <1>1, BothWrite
  <2>4. r.store = u
    BY <2>1
  <2>. HIDE DEF u
  <2>. QED  BY <1>0, <1>1, <2>2, <2>3, <2>4
<1>2. CASE ~Windows
  <2>1. PICK k \in KeyringFails(s) :
          r = [ok |-> ~k, store |-> Forgotten(InOne(s, e, Absent, k), e)]
    BY <1>2 DEF NativeDelete, MacDelete
  <2>2. ~k /\ config.keyring
    BY <1>2, WorksFails DEF Usable
  <2> DEFINE u == InOne(s, e, Absent, k)
  <2>3. u.keyring = [s.keyring EXCEPT ![e] = IF k THEN s.keyring[e] ELSE Absent] /\ u \in Stores
        /\ u.dpapi = s.dpapi /\ u.legacy = s.legacy
    BY <1>0, OneWrites
  <2>. HIDE DEF u
  <2>4. Forgotten(u, e).keyring = u.keyring /\ Forgotten(u, e).dpapi = u.dpapi
        /\ Forgotten(u, e).legacy = [u.legacy EXCEPT ![e] = Absent]
    BY <2>3 DEF Forgotten, Stores
  <2>5. r.store = Forgotten(u, e)
    BY <2>1 DEF u
  <2>. QED  BY <1>2, <2>2, <2>3, <2>4, <2>5
<1>. QED  BY <1>1, <1>2

\* an entry the keyring lacks is looked for in the other store, and moves to the keyring
LEMMA GetWorks ==
  ASSUME Works, Usable, config \in Configs, NEW s \in Stores, NEW e \in Entries,
         NEW r \in NativeGet(s, e)
  PROVE /\ r.ok
        /\ \/ r.x = Primary(s)[e] /\ r.store.keyring = s.keyring /\ r.store.dpapi = s.dpapi
              /\ r.store.legacy = s.legacy
           \/ /\ Windows /\ config.keyring /\ s.keyring[e] = Absent /\ s.dpapi[e] # Absent
              /\ r.x = s.dpapi[e] /\ r.store.keyring = [s.keyring EXCEPT ![e] = r.x]
              /\ r.store.dpapi = s.dpapi /\ r.store.legacy = s.legacy
           \/ /\ ~Windows /\ s.keyring[e] = Absent /\ s.legacy[e] # Absent
              /\ r.x = s.legacy[e] /\ r.store.keyring = [s.keyring EXCEPT ![e] = r.x]
              /\ r.store.dpapi = s.dpapi /\ r.store.legacy = [s.legacy EXCEPT ![e] = Absent]
<1>0. config.keyring \in BOOLEAN /\ s.dpapi[e] \in Contents /\ s.legacy[e] \in Contents
      /\ [s.dpapi EXCEPT ![e] = s.dpapi[e]] = s.dpapi
  BY DEF Stores, Configs
<1>1. CASE Windows
  <2>1. PICK k \in KeyringFails(s), d \in Fails(s, "dpapi") : r \in WindowsRead(s, e, k, d)
    BY <1>1 DEF NativeGet, WindowsGet
  <2>2. k = ~config.keyring /\ d = FALSE
    BY WorksFails
  <2>3. Used(s, k, d) = s /\ Used(s, k, FALSE) = s
    BY <1>0, <2>2 DEF Used
  <2>4. CASE ~k /\ s.keyring[e] # Absent
    <3>1. r = [ok |-> TRUE, x |-> s.keyring[e], store |-> s]
      BY <2>1, <2>3, <2>4 DEF WindowsRead
    <3>. QED  BY <1>0, <2>2, <2>4, <3>1 DEF Primary
  <2>5. CASE ~(~k /\ s.keyring[e] # Absent) /\ s.dpapi[e] = Absent
    <3>1. r = [ok |-> TRUE, x |-> Absent, store |-> s]
      BY <2>1, <2>3, <2>5 DEF WindowsRead
    <3>. QED  BY <1>0, <2>2, <2>5, <3>1 DEF Primary
  <2>6. CASE ~(~k /\ s.keyring[e] # Absent) /\ s.dpapi[e] # Absent
    <3>1. PICK q \in WindowsSet(s, e, s.dpapi[e]) :
            r = [ok |-> TRUE, x |-> s.dpapi[e], store |-> q.store]
      BY <2>1, <2>2, <2>3, <2>6 DEF WindowsRead
    <3>2. q \in NativeSet(s, e, s.dpapi[e])
      BY <1>1 DEF NativeSet
    <3>3. /\ q.store.keyring = IF config.keyring THEN [s.keyring EXCEPT ![e] = s.dpapi[e]]
                               ELSE s.keyring
          /\ q.store.dpapi = s.dpapi /\ q.store.legacy = s.legacy
      BY <1>0, <1>1, <3>2, SetWorks
    <3>. QED  BY <1>0, <1>1, <2>2, <2>6, <3>1, <3>3 DEF Primary
  <2>. QED  BY <2>4, <2>5, <2>6
<1>2. CASE ~Windows
  <2>1. PICK k \in KeyringFails(s) :
          r \in IF k THEN {[ok |-> FALSE, x |-> Absent, store |-> Used(s, k, FALSE)]}
                ELSE IF s.keyring[e] # Absent \/ s.legacy[e] = Absent
                THEN {[ok |-> TRUE, x |-> s.keyring[e], store |-> s]}
                ELSE {[ok |-> q.ok, x |-> s.legacy[e],
                       store |-> IF q.ok THEN Forgotten(q.store, e) ELSE q.store] :
                      q \in MacSet(s, e, s.legacy[e])}
    BY <1>2 DEF NativeGet, MacGet
  <2>2. ~k /\ config.keyring
    BY <1>2, WorksFails DEF Usable
  <2>3. CASE s.keyring[e] # Absent \/ s.legacy[e] = Absent
    <3>1. r = [ok |-> TRUE, x |-> s.keyring[e], store |-> s]
      BY <2>1, <2>2, <2>3
    <3>. QED  BY <2>2, <3>1 DEF Primary
  <2>4. CASE ~(s.keyring[e] # Absent \/ s.legacy[e] = Absent)
    <3>1. PICK q \in MacSet(s, e, s.legacy[e]) :
            r = [ok |-> q.ok, x |-> s.legacy[e],
                 store |-> IF q.ok THEN Forgotten(q.store, e) ELSE q.store]
      BY <2>1, <2>2, <2>4
    <3>2. q \in NativeSet(s, e, s.legacy[e])
      BY <1>2 DEF NativeSet
    <3>3. /\ q.ok /\ q.store.keyring = [s.keyring EXCEPT ![e] = s.legacy[e]]
          /\ q.store.dpapi = s.dpapi /\ q.store.legacy = s.legacy /\ q.store \in Stores
      BY <1>0, <1>2, <2>2, <3>2, SetWorks, SetKeeps DEF Keeps
    <3>4. /\ Forgotten(q.store, e).keyring = q.store.keyring
          /\ Forgotten(q.store, e).dpapi = q.store.dpapi
          /\ Forgotten(q.store, e).legacy = [q.store.legacy EXCEPT ![e] = Absent]
      BY <3>3 DEF Forgotten, Stores
    <3>. QED  BY <1>2, <2>4, <3>1, <3>3, <3>4
  <2>. QED  BY <2>3, <2>4
<1>. QED  BY <1>1, <1>2

LEMMA StoreMaps ==
  ASSUME NEW s \in Stores
  PROVE /\ s.keyring \in [Entries -> Contents] /\ s.dpapi \in [Entries -> Contents]
        /\ s.legacy \in [Entries -> Contents]
        /\ 0 \in Entries /\ Chunks \subseteq Entries /\ 0 \notin Chunks
  BY Sizes DEF Stores, Entries, Chunks

LEMMA Kind == Absent.kind = "absent"
  BY DEF Absent

LEMMA SetAgrees ==
  ASSUME Works, Usable, config \in Configs, NEW s \in Stores, NEW e \in Entries,
         NEW x \in Contents, NEW r \in NativeSet(s, e, x), Agree(s),
         e = 0 => x.kind \in {"whole", "manifest"}
  PROVE /\ r.ok /\ Agree(r.store)
        /\ Primary(r.store) = [Primary(s) EXCEPT ![e] = x]
<1> DEFINE t == r.store
<1>1. /\ r.ok
      /\ t.keyring = IF config.keyring THEN [s.keyring EXCEPT ![e] = x] ELSE s.keyring
      /\ t.dpapi = IF Windows THEN [s.dpapi EXCEPT ![e] = x] ELSE s.dpapi
      /\ t.legacy = s.legacy
  BY SetWorks
<1>2. Primary(t) = [Primary(s) EXCEPT ![e] = x]
  BY <1>1 DEF Primary, Usable
<1>3. Primary(s) \in [Entries -> Contents]
  BY PrimaryType
<1>. HIDE DEF t
<1>4. \A f \in Entries :
        /\ Primary(t)[f] = IF f = e THEN x ELSE Primary(s)[f]
        /\ t.keyring[f] = IF config.keyring /\ f = e THEN x ELSE s.keyring[f]
        /\ t.dpapi[f] = IF Windows /\ f = e THEN x ELSE s.dpapi[f]
        /\ t.legacy[f] = s.legacy[f]
  BY <1>1, <1>2, <1>3, StoreMaps
<1>5. e = 0 => x # Absent
  BY Kind
<1>6. Agree(t)
  <2>1. \A f \in Chunks : t.legacy[f] = Absent /\ (Windows /\ config.keyring => t.dpapi[f] = t.keyring[f])
    BY <1>4, StoreMaps DEF Agree
  <2>2. t.dpapi[0] # Absent => Windows /\ Primary(t)[0] # Absent
    BY <1>4, <1>5, StoreMaps DEF Agree
  <2>3. t.dpapi[0].kind = "manifest" => Primary(t)[0] = t.dpapi[0]
    <3>1. CASE e = 0 /\ Windows
      BY <1>4, <3>1, StoreMaps
    <3>2. CASE e # 0
      BY <1>4, <3>2, StoreMaps DEF Agree
    <3>3. CASE e = 0 /\ ~Windows
      <4>1. t.dpapi[0] = s.dpapi[0]
        BY <1>4, <3>3, StoreMaps
      <4>. QED  BY <3>3, <4>1, Kind DEF Agree
    <3>. QED  BY <3>1, <3>2, <3>3
  <2>4. t.legacy[0].kind \in {"absent", "whole"}
    BY <1>4, StoreMaps DEF Agree
  <2>5. t.dpapi[0].kind # "chunk" /\ t.keyring[0].kind # "chunk"
    BY <1>4, StoreMaps DEF Agree
  <2>. QED  BY <2>1, <2>2, <2>3, <2>4, <2>5 DEF Agree
<1>. QED  BY <1>1, <1>2, <1>6 DEF t

LEMMA DeleteAgrees ==
  ASSUME Works, Usable, config \in Configs, NEW s \in Stores, NEW e \in Entries,
         NEW r \in NativeDelete(s, e), Agree(s)
  PROVE Agree(r.store) /\ Primary(r.store) = [Primary(s) EXCEPT ![e] = Absent]
<1> DEFINE t == r.store
<1>1. /\ t.keyring = IF config.keyring THEN [s.keyring EXCEPT ![e] = Absent] ELSE s.keyring
      /\ t.dpapi = IF Windows THEN [s.dpapi EXCEPT ![e] = Absent] ELSE s.dpapi
      /\ t.legacy = IF Windows THEN s.legacy ELSE [s.legacy EXCEPT ![e] = Absent]
  BY DeleteWorks
<1>2. Primary(t) = [Primary(s) EXCEPT ![e] = Absent]
  BY <1>1 DEF Primary, Usable
<1>3. Primary(s) \in [Entries -> Contents]
  BY PrimaryType
<1>. HIDE DEF t
<1>4. \A f \in Entries :
        /\ Primary(t)[f] = IF f = e THEN Absent ELSE Primary(s)[f]
        /\ t.keyring[f] = IF config.keyring /\ f = e THEN Absent ELSE s.keyring[f]
        /\ t.dpapi[f] = IF Windows /\ f = e THEN Absent ELSE s.dpapi[f]
        /\ t.legacy[f] = IF ~Windows /\ f = e THEN Absent ELSE s.legacy[f]
  BY <1>1, <1>2, <1>3, StoreMaps
<1>5. Agree(t)
  <2>1. \A f \in Chunks : t.legacy[f] = Absent /\ (Windows /\ config.keyring => t.dpapi[f] = t.keyring[f])
    BY <1>4, StoreMaps DEF Agree
  <2>2. t.dpapi[0] # Absent => Windows /\ Primary(t)[0] # Absent
    BY <1>4, StoreMaps DEF Agree
  <2>3. t.dpapi[0].kind = "manifest" => Primary(t)[0] = t.dpapi[0]
    <3>1. CASE e = 0 /\ Windows
      BY <1>4, <3>1, StoreMaps, Kind
    <3>2. CASE e # 0
      BY <1>4, <3>2, StoreMaps DEF Agree
    <3>3. CASE e = 0 /\ ~Windows
      <4>1. t.dpapi[0] = s.dpapi[0]
        BY <1>4, <3>3, StoreMaps
      <4>. QED  BY <3>3, <4>1, Kind DEF Agree
    <3>. QED  BY <3>1, <3>2, <3>3
  <2>4. t.legacy[0].kind \in {"absent", "whole"}
    BY <1>4, StoreMaps, Kind DEF Agree
  <2>5. t.dpapi[0].kind # "chunk" /\ t.keyring[0].kind # "chunk"
    BY <1>4, StoreMaps, Kind DEF Agree
  <2>. QED  BY <2>1, <2>2, <2>3, <2>4, <2>5 DEF Agree
<1>. QED  BY <1>2, <1>5 DEF t

\* what is read is there afterwards, and a chunk was there before
LEMMA GetAgrees ==
  ASSUME Works, Usable, config \in Configs, NEW s \in Stores, NEW e \in Entries,
         NEW r \in NativeGet(s, e), Agree(s)
  PROVE /\ r.ok /\ Agree(r.store) /\ r.x = Primary(r.store)[e]
        /\ \/ Primary(r.store) = Primary(s)
           \/ e = 0 /\ Primary(s)[0] = Absent /\ r.x.kind = "whole"
        /\ e = 0 => r.x.kind # "chunk"
<1> DEFINE t == r.store
<1>1. CASE /\ r.ok /\ r.x = Primary(s)[e] /\ t.keyring = s.keyring /\ t.dpapi = s.dpapi
           /\ t.legacy = s.legacy
  <2>1. Primary(t) = Primary(s)
    BY <1>1 DEF Primary
  <2>2. Agree(t)
    BY <1>1, <2>1 DEF Agree
  <2>3. e = 0 => r.x.kind # "chunk"
    BY <1>1 DEF Agree, Primary
  <2>. QED  BY <1>1, <2>1, <2>2, <2>3
<1>2. CASE /\ Windows /\ config.keyring /\ s.keyring[e] = Absent /\ s.dpapi[e] # Absent
  <2>1. e \notin Chunks /\ e # 0
    BY <1>2 DEF Agree, Primary
  <2>. QED  BY <2>1 DEF Entries
<1>3. CASE /\ r.ok /\ ~Windows /\ s.keyring[e] = Absent /\ s.legacy[e] # Absent
           /\ r.x = s.legacy[e] /\ t.keyring = [s.keyring EXCEPT ![e] = r.x]
           /\ t.dpapi = s.dpapi /\ t.legacy = [s.legacy EXCEPT ![e] = Absent]
  <2>1. e \notin Chunks
    BY <1>3 DEF Agree
  <2>2. e = 0 /\ config.keyring
    BY <1>3, <2>1 DEF Entries, Usable
  <2>3. r.x \in Contents /\ r.x.kind \in {"absent", "whole"}
    BY <1>3, <2>2, StoreMaps DEF Agree
  <2>4. r.x.kind = "whole"
    BY <1>3, <2>3, ContentParts
  <2>5. Primary(t)[0] = r.x /\ Primary(s)[0] = Absent
    BY <1>3, <2>2, StoreMaps DEF Primary
  <2>6. Agree(t)
    <3>. HIDE DEF t
    <3>1. \A f \in Entries :
            /\ t.dpapi[f] = s.dpapi[f]
            /\ t.legacy[f] = IF f = e THEN Absent ELSE s.legacy[f]
            /\ t.keyring[f] = IF f = e THEN r.x ELSE s.keyring[f]
      BY <1>3, StoreMaps
    <3>2. s.dpapi[0].kind # "manifest"
      BY <2>5, Kind DEF Agree
    <3>. QED  BY <1>3, <2>2, <2>4, <3>1, <3>2, StoreMaps, Kind DEF Agree
  <2>. QED  BY <1>3, <2>2, <2>4, <2>5, <2>6
<1>. QED  BY <1>1, <1>2, <1>3, GetWorks

-----------------------------------------------------------------------------
(* When the entries are whole.                                               *)

LEMMA WholeGood == ASSUME NEW p, p[0].kind # "manifest" PROVE Good(p)
  BY DEF Good

LEMMA HoldsGood == ASSUME NEW s, NEW v \in Values, Holds(s, v) PROVE Good(Primary(s))
<1> DEFINE p == Primary(s)
<1>1. CASE p[0] = Whole(v)
  BY <1>1 DEF Good, Whole
<1>2. CASE /\ Pieces[v] > 0 /\ p[0] = Manifest(Pieces[v])
           /\ \A i \in 1 .. Pieces[v] : \/ p[i] = Chunk(v, i)
                                        \/ ~config.keyring /\ p[i] = Absent
  <2>1. p[0].n = Pieces[v]
    BY <1>2 DEF Manifest
  <2>2. Missing(p, Pieces[v]) \/ \A i \in 1 .. Pieces[v] : p[i] = Chunk(v, i)
    BY <1>2 DEF Missing
  <2>. QED  BY <2>1, <2>2 DEF Good, Complete
<1>. QED  BY <1>1, <1>2 DEF Holds

\* a step that leaves no work on the chunks
LEMMA SolidOther ==
  ASSUME UNCHANGED config, Agree(store'), ~cut' => Good(Primary(store')),
         job'.pc \notin {"unlink", "drop", "chunk", "main", "parts"},
         seen' = Torn => cut',
         job'.pc = "old" /\ job'.op = "restore" /\ job'.value = Raw =>
           Primary(store')[0] = Manifest(job'.raw)
  PROVE Solid'
<1>1. Agree(store)' /\ (~cut' => Good(Primary(store))')
  BY PrimaryNext DEF Agree, Windows, Primary, Good, Missing, Complete
<1>2. Cleared' /\ Reading' /\ OnlyCutsMix'
  BY DEF Cleared, Reading, OnlyCutsMix
<1>3. PutsBack'
  BY PrimaryNext DEF PutsBack
<1>. QED  BY <1>1, <1>2, <1>3 DEF Solid, Growing

\* a call that looks up an entry leaves the entries whole
LEMMA GetGood ==
  ASSUME NEW p, NEW q, Good(p), q = p \/ q[0].kind = "whole"
  PROVE Good(q)
  BY DEF Good

\* a step of the loop that removes chunks
LEMMA SolidRemoving ==
  ASSUME UNCHANGED config, Agree(store'), ~cut' => Good(Primary(store')),
         job'.pc \in {"unlink", "drop"}, seen' = Torn => cut',
         Count(Primary(store')[0]) = job'.old,
         \A j \in 1 .. job'.i - 1 : Primary(store')[j] = Absent,
         job'.pc = "unlink" /\ job'.op = "restore" /\ job'.value = Raw => job'.old = job'.raw
  PROVE Solid'
<1>1. Agree(store)' /\ (~cut' => Good(Primary(store))')
  BY PrimaryNext DEF Agree, Windows, Primary, Good, Missing, Complete
<1>2. Cleared' /\ Reading' /\ OnlyCutsMix'
  BY PrimaryNext DEF Cleared, Reading, OnlyCutsMix
<1>3. PutsBack'
  BY DEF PutsBack
<1>. QED  BY <1>1, <1>2, <1>3 DEF Solid, Growing

\* a step of the loop that writes them
LEMMA SolidWriting ==
  ASSUME UNCHANGED config, Agree(store'), ~cut' => Good(Primary(store')) \/ Growing',
         job'.pc \in {"chunk", "main"}, seen' = Torn => cut',
         Count(Primary(store')[0]) = job'.old,
         \A j \in job'.i .. job'.old : Primary(store')[j] = Absent,
         job'.pc = "main" => job'.i = Size' + 1,
         job'.pc = "main" /\ job'.op = "restore" /\ job'.value = Raw => job'.old = job'.raw
  PROVE Solid'
<1>1. Agree(store)' /\ (~cut' => Good(Primary(store))' \/ Growing')
  BY PrimaryNext DEF Agree, Windows, Primary, Good, Missing, Complete
<1>2. Cleared' /\ Reading' /\ OnlyCutsMix'
  BY PrimaryNext DEF Cleared, Reading, OnlyCutsMix
<1>3. PutsBack'
  BY DEF PutsBack
<1>. QED  BY <1>1, <1>2, <1>3 DEF Solid

LEMMA Base ==
  ASSUME TypeInv, Fresh, Solid
  PROVE /\ Usable /\ config \in Configs /\ store \in Stores /\ JobOK /\ job \in Jobs /\ Agree(store)
        /\ (seen = Torn => cut) /\ Unknown # Torn /\ Error # Torn /\ Raw # Torn
        /\ (job.pc \notin {"chunk", "main"} /\ ~cut => Good(Primary(store)))
        /\ Primary(store) \in [Entries -> Contents]
  BY PrimaryType DEF TypeInv, Fresh, Kinds, Usable, JobOK, Solid, OnlyCutsMix, Growing,
     Unknown, Torn, Error, Raw

LEMMA StartSetSolid ==
  ASSUME TypeInv, Fresh, Solid, NEW v \in Values, StartSet(v) PROVE Solid'
<1>1. job'.pc = "old" /\ job'.op = "set" /\ job.pc = "idle"
  BY NoJobType DEF StartSet, Jobs, Idle
<1>2. Agree(store') /\ (~cut' => Good(Primary(store'))) /\ seen' # Torn
  BY <1>1, Base DEF StartSet
<1>. QED  BY <1>1, <1>2, SolidOther DEF StartSet

\* the key itself is looked up
LEMMA LookedUp ==
  ASSUME Works, TypeInv, Fresh, Solid, NEW r \in NativeGet(store, 0)
  PROVE /\ r.ok /\ r.store \in Stores /\ Agree(r.store)
        /\ r.x = Primary(r.store)[0] /\ r.x \in Contents /\ r.x.kind # "chunk"
        /\ job.pc \notin {"chunk", "main"} /\ ~cut => Good(Primary(r.store))
        /\ Primary(store)[0] # Absent => Primary(r.store) = Primary(store)
<1>1. 0 \in Entries
  BY ContentTypes
<1>2. /\ r.ok /\ Agree(r.store) /\ r.x = Primary(r.store)[0]
      /\ \/ Primary(r.store) = Primary(store)
         \/ Primary(store)[0] = Absent /\ r.x.kind = "whole"
      /\ r.x.kind # "chunk"
  BY <1>1, Base, GetAgrees
<1>3. r.store \in Stores /\ r.x \in Contents
  BY <1>1, Base, GetKeeps DEF Keeps
<1>4. job.pc \notin {"chunk", "main"} /\ ~cut => Good(Primary(r.store))
  BY <1>2, Base, GetGood
<1>. QED  BY <1>2, <1>3, <1>4

LEMMA ReadOldSolid == ASSUME Works, TypeInv, Fresh, Solid, ReadOld PROVE Solid'
<1>1. PICK r \in NativeGet(store, 0) :
        /\ store' = r.store
        /\ r.ok => /\ job' = [job EXCEPT !.pc = "unlink", !.i = 1, !.old = Count(r.x),
                                         !.leftover = r.store.faults < store.faults]
                   /\ Same
  BY DEF ReadOld
<1>2. job.pc = "old"
  BY DEF ReadOld, At
<1>3. /\ r.ok /\ Agree(store') /\ r.x = Primary(store')[0]
      /\ ~cut => Good(Primary(store'))
      /\ Primary(store)[0] # Absent => Primary(store') = Primary(store)
  BY <1>1, <1>2, LookedUp
<1>4. job'.pc = "unlink" /\ job'.i = 1 /\ job'.old = Count(r.x) /\ job'.op = job.op
      /\ job'.value = job.value /\ job'.raw = job.raw
  BY <1>1, <1>3, Base DEF Jobs
<1>5. job.op = "restore" /\ job.value = Raw => Count(r.x) = job.raw
  <2>1. job.op = "restore" /\ job.value = Raw => Primary(store)[0] = Manifest(job.raw)
    BY <1>2 DEF Solid, PutsBack
  <2>. QED  BY <1>3, <2>1 DEF Manifest, Absent, Count
<1>6. \A j \in 1 .. job'.i - 1 : Primary(store')[j] = Absent
  BY <1>4
<1>7. Same
  BY <1>1, <1>3
<1>. QED  BY <1>3, <1>4, <1>5, <1>6, <1>7, Base, SolidRemoving DEF Same

\* one more chunk is gone
LEMMA Removed ==
  ASSUME Works, TypeInv, Fresh, Solid, job.pc \in {"unlink", "drop"}, job.i <= job.old,
         NEW r \in NativeDelete(store, job.i)
  PROVE /\ Agree(r.store) /\ Good(Primary(r.store))
        /\ Count(Primary(r.store)[0]) = job.old
        /\ \A j \in 1 .. job.i : Primary(r.store)[j] = Absent
        /\ job.i \in Nat /\ job.i \in Chunks
<1>1. job.i \in 1 .. job.old + 1 /\ job.old \in 0 .. MaxPieces /\ job.i \in Nat
  BY DEF TypeInv, JobOK, Counted, Jobs
<1>2. job.i \in Entries /\ job.i # 0 /\ 0 \in Entries /\ job.i \in Chunks
  BY <1>1, Sizes DEF Entries, Chunks
<1> DEFINE p == Primary(store)
           q == Primary(r.store)
<1>3. Agree(r.store) /\ q = [p EXCEPT ![job.i] = Absent]
  BY <1>2, Base, DeleteAgrees
<1>4. p \in [Entries -> Contents]
  BY Base
<1>5. Count(p[0]) = job.old /\ \A j \in 1 .. job.i - 1 : p[j] = Absent
  BY DEF Solid, Cleared
<1>. HIDE DEF p, q
<1>6. q[0] = p[0] /\ q[job.i] = Absent
  BY <1>2, <1>3, <1>4
<1>7. \A j \in 1 .. job.i : q[j] = Absent
  <2>1. ASSUME NEW j \in 1 .. job.i, j # job.i PROVE q[j] = Absent
    <3>1. j \in 1 .. job.i - 1 /\ j \in Entries
      BY <1>1, <2>1, Sizes DEF Entries, Chunks
    <3>. QED  BY <1>3, <1>4, <1>5, <2>1, <3>1
  <2>. QED  BY <1>6, <2>1
<1>8. Good(q)
  <2>1. CASE p[0].kind = "manifest"
    <3>1. q[0].n = job.old
      BY <1>5, <1>6, <2>1 DEF Count
    <3>2. job.i \in 1 .. job.old
      BY <1>1
    <3>. QED  BY <1>6, <3>1, <3>2 DEF Good, Missing
  <2>2. CASE p[0].kind # "manifest"
    BY <1>6, <2>2 DEF Good
  <2>. QED  BY <2>1, <2>2
<1>. QED  BY <1>1, <1>2, <1>3, <1>5, <1>6, <1>7, <1>8 DEF q

LEMMA UnlinkSolid == ASSUME Works, TypeInv, Fresh, Solid, UnlinkChunks PROVE Solid'
<1>1. JobOK /\ job.pc = "unlink" /\ Same
  BY DEF UnlinkChunks, At, TypeInv
<1>2. job.i \in 1 .. job.old + 1 /\ job.old \in 0 .. MaxPieces
  BY <1>1 DEF JobOK, Counted, Jobs
<1>3. CASE job.i > job.old
  <2> DEFINE next == IF Size = 0 THEN "main" ELSE "chunk"
  <2>1. job' = [job EXCEPT !.pc = next, !.i = 1] /\ store' = store
    BY <1>3 DEF UnlinkChunks
  <2>2. next \in {"chunk", "main"} /\ (next = "main" => Size = 0)
    OBVIOUS
  <2>. HIDE DEF next
  <2>3. job'.pc = next /\ job'.op = job.op /\ job'.value = job.value /\ job'.raw = job.raw
        /\ job'.i = 1 /\ job'.old = job.old
    BY <1>1, <2>1 DEF JobOK, Jobs
  <2>4. Size' = Size
    BY <2>3 DEF Size
  <2>5. \A j \in 1 .. job.old : Primary(store')[j] = Absent
    <3>1. \A j \in 1 .. job.i - 1 : Primary(store)[j] = Absent
      BY <1>1 DEF Solid, Cleared
    <3>2. \A j \in 1 .. job.old : j \in 1 .. job.i - 1
      BY <1>2, <1>3
    <3>3. Primary(store') = Primary(store)
      BY <2>1
    <3>. QED  BY <3>1, <3>2, <3>3
  <2>6. Agree(store') /\ (~cut' => Good(Primary(store'))) /\ (seen' = Torn => cut')
    BY <1>1, <2>1, Base DEF Same
  <2>7. Count(Primary(store')[0]) = job'.old
    BY <1>1, <2>1, <2>3 DEF Solid, Cleared
  <2>8. job'.op = "restore" /\ job'.value = Raw => job'.old = job'.raw
    BY <1>1, <2>3 DEF Solid, PutsBack
  <2>9. job'.pc = "main" => job'.i = Size' + 1
    BY <2>2, <2>3, <2>4
  <2>10. UNCHANGED config /\ job'.pc \in {"chunk", "main"}
         /\ \A j \in job'.i .. job'.old : Primary(store')[j] = Absent
    BY <1>1, <2>2, <2>3, <2>5 DEF Same
  <2>. QED  BY <2>6, <2>7, <2>8, <2>9, <2>10, SolidWriting
<1>4. CASE ~(job.i > job.old)
  <2>1. PICK r \in NativeDelete(store, job.i) :
          store' = r.store /\ job' = [job EXCEPT !.i = @ + 1, !.leftover = @ \/ ~r.ok]
    BY <1>4 DEF UnlinkChunks
  <2>2. /\ Agree(store') /\ Good(Primary(store')) /\ Count(Primary(store')[0]) = job.old
        /\ \A j \in 1 .. job.i : Primary(store')[j] = Absent
    BY <1>1, <1>2, <1>4, <2>1, Removed
  <2>3. job'.pc = "unlink" /\ job'.op = job.op /\ job'.value = job.value /\ job'.raw = job.raw
        /\ job'.old = job.old /\ job'.i = job.i + 1
    BY <1>1, <2>1 DEF JobOK, Jobs
  <2>4. \A j \in 1 .. job'.i - 1 : Primary(store')[j] = Absent
    BY <1>2, <2>2, <2>3
  <2>5. job'.op = "restore" /\ job'.value = Raw => job'.old = job'.raw
    BY <1>1, <2>3 DEF Solid, PutsBack
  <2>. QED  BY <1>1, <2>2, <2>3, <2>4, <2>5, Base, SolidRemoving DEF Same
<1>. QED  BY <1>3, <1>4

LEMMA WriteChunkSolid == ASSUME Works, TypeInv, Fresh, Solid, WriteChunk PROVE Solid'
<1>1. JobOK /\ job.pc = "chunk" /\ job.old \in 0 .. MaxPieces
  BY DEF WriteChunk, At, TypeInv, JobOK, Jobs
<1>2. job.i \in 1 .. Size /\ Size \in 0 .. MaxPieces
  BY <1>1, SizeType DEF JobOK, Counted, Writing
<1>3. job.i \in Chunks /\ job.i \in Entries /\ 0 \in Entries /\ job.i # 0
      /\ job.value \in Values /\ job.value # Raw /\ Size = Pieces[job.value]
  BY <1>1, <1>2, Sizes, Distinct DEF Chunks, Entries, JobOK, Carries, Writing, Size
<1> DEFINE x == Chunk(job.value, job.i)
           p == Primary(store)
           q == Primary(store')
<1>4. x \in Contents /\ p \in [Entries -> Contents]
  BY <1>3, Base, ContentTypes
<1>5. PICK r \in NativeSet(store, job.i, x) :
        /\ store' = r.store
        /\ r.ok => /\ job' = [job EXCEPT !.i = @ + 1, !.pc = IF job.i = Size THEN "main" ELSE @]
                   /\ Same
  BY DEF WriteChunk
<1>6. r.ok /\ Agree(store') /\ q = [p EXCEPT ![job.i] = x]
  <2>1. ASSUME NEW e \in Entries, NEW y \in Contents, NEW w \in NativeSet(store, e, y), e # 0
        PROVE w.ok /\ Agree(w.store) /\ Primary(w.store) = [p EXCEPT ![e] = y]
    <3>1. Usable /\ config \in Configs /\ store \in Stores /\ Agree(store)
      BY Base
    <3>. QED  BY <2>1, <3>1, SetAgrees
  <2>2. r.ok /\ Agree(r.store) /\ Primary(r.store) = [p EXCEPT ![job.i] = x]
    <3>. HIDE DEF x, p
    <3>. QED  BY <1>3, <1>4, <2>1
  <2>. QED  BY <1>5, <2>2
<1>a. Same /\ job' = [job EXCEPT !.i = job.i + 1, !.pc = IF job.i = Size THEN "main" ELSE "chunk"]
  BY <1>1, <1>5, <1>6
<1> DEFINE next == IF job.i = Size THEN "main" ELSE "chunk"
<1>b. next \in {"chunk", "main"} /\ (next = "main" => job.i = Size)
  OBVIOUS
<1>c. job'.pc = next /\ job'.op = job.op /\ job'.value = job.value /\ job'.raw = job.raw
      /\ job'.i = job.i + 1 /\ job'.old = job.old
  <2>1. job' = [job EXCEPT !.i = job.i + 1, !.pc = next]
    BY <1>a
  <2>. HIDE DEF next
  <2>. QED  BY <1>1, <2>1 DEF JobOK, Jobs
<1>d. Count(p[0]) = job.old /\ \A j \in job.i .. job.old : p[j] = Absent
  BY <1>1 DEF Solid, Cleared
<1>e. \A j \in 1 .. job.i - 1 : p[j] = Chunk(job.value, j)
  BY <1>1 DEF Fresh, Writes, Written
<1>f. Size' = Size
  BY <1>c DEF Size
<1>. HIDE DEF x, p, q, next
<1>7. q[job.i] = x /\ \A f \in Entries : f # job.i => q[f] = p[f]
  BY <1>3, <1>4, <1>6
<1>8. q[0] = p[0]
  BY <1>3, <1>7
<1>9. \A j \in job'.i .. job'.old : q[j] = Absent
  <2>1. ASSUME NEW j \in job.i + 1 .. job.old PROVE q[j] = Absent
    <3>1. j \in job.i .. job.old /\ j # job.i /\ j \in 1 .. MaxPieces
      BY <1>1, <1>2, Sizes
    <3>2. j \in Entries
      BY <3>1 DEF Entries, Chunks
    <3>. QED  BY <1>7, <1>d, <3>1, <3>2
  <2>. QED  BY <1>c, <2>1
<1>10. Good(q) \/ Growing'
  <2>1. CASE p[0].kind # "manifest"
    BY <1>8, <2>1 DEF Good
  <2>2. CASE p[0].kind = "manifest" /\ Size > job.old
    <3>1. job.old > 0
      <4>1. p[0].n \in Chunks
        BY <1>3, <1>4, <2>2, ContentParts
      <4>. QED  BY <1>d, <2>2, <4>1, Sizes DEF Count, Chunks
    <3>. QED  BY <1>b, <1>c, <1>f, <2>2, <3>1 DEF Growing
  <2>3. CASE p[0].kind = "manifest" /\ ~(Size > job.old)
    <3>1. q[0].n = job.old /\ job.i <= job.old /\ job.old \in 1 .. job.old /\ job.old \in Entries
      BY <1>1, <1>2, <1>8, <1>d, <2>3, Sizes DEF Count, Entries, Chunks
    <3>2. CASE job.i = job.old
      <4>1. Size = job.old
        BY <1>1, <1>2, <2>3, <3>2
      <4>2. ASSUME NEW j \in 1 .. job.old PROVE q[j] = Chunk(job.value, j)
        <5>1. CASE j = job.i
          BY <1>7, <5>1 DEF x
        <5>2. CASE j # job.i
          <6>1. j \in 1 .. job.i - 1 /\ j \in 1 .. MaxPieces
            BY <1>1, <1>2, <3>2, <5>2, Sizes
          <6>2. j \in Entries
            BY <6>1 DEF Entries, Chunks
          <6>. QED  BY <1>7, <1>e, <5>2, <6>1, <6>2
        <5>. QED  BY <5>1, <5>2
      <4>3. Complete(q, job.old)
        BY <1>3, <4>1, <4>2 DEF Complete
      <4>. QED  BY <3>1, <4>3 DEF Good
    <3>3. CASE job.i # job.old
      <4>1. job.old \in job.i .. job.old
        BY <1>1, <1>2, <3>1
      <4>2. q[job.old] = Absent
        BY <1>7, <1>d, <3>1, <3>3, <4>1
      <4>. QED  BY <3>1, <4>2 DEF Good, Missing
    <3>. QED  BY <3>2, <3>3
  <2>. QED  BY <2>1, <2>2, <2>3
<1>11. job'.pc = "main" => job'.i = Size' + 1
  BY <1>b, <1>c, <1>f
<1>12. job'.value # Raw /\ job'.pc \in {"chunk", "main"} /\ Count(q[0]) = job'.old
  BY <1>3, <1>8, <1>b, <1>c, <1>d
<1>13. UNCHANGED config /\ (seen' = Torn => cut')
  BY <1>a, Base DEF Same
<1>. QED  BY <1>6, <1>9, <1>10, <1>11, <1>12, <1>13, SolidWriting DEF q

LEMMA WriteMainSolid == ASSUME Works, TypeInv, Fresh, Solid, WriteMain PROVE Solid'
<1> DEFINE x == MainContent
           p == Primary(store)
           q == Primary(store')
<1>1. JobOK /\ job.pc = "main" /\ job.old \in 0 .. MaxPieces
  BY DEF WriteMain, At, TypeInv, JobOK, Jobs
<1>2. x \in Contents /\ p \in [Entries -> Contents] /\ Size \in 0 .. MaxPieces /\ 0 \in Entries
      /\ x.kind \in {"whole", "manifest"}
  BY <1>1, Base, MainType, SizeType, ContentTypes DEF Writing, MainContent, Whole, Manifest
<1>3. PICK r \in NativeSet(store, 0, x) : store' = r.store /\ (r.ok => StepTo(Advance) /\ Same)
  BY DEF WriteMain, MainContent
<1>4. r.ok /\ Agree(store') /\ q = [p EXCEPT ![0] = x]
  <2>1. ASSUME NEW y \in Contents, NEW w \in NativeSet(store, 0, y), y.kind \in {"whole", "manifest"}
        PROVE w.ok /\ Agree(w.store) /\ Primary(w.store) = [p EXCEPT ![0] = y]
    <3>1. Usable /\ config \in Configs /\ store \in Stores /\ Agree(store)
      BY Base
    <3>2. 0 \in Entries
      BY ContentTypes
    <3>. QED  BY <2>1, <3>1, <3>2, SetAgrees
  <2>2. r.ok /\ Agree(r.store) /\ Primary(r.store) = [p EXCEPT ![0] = x]
    <3>. HIDE DEF x, p
    <3>. QED  BY <1>2, <2>1
  <2>. QED  BY <1>3, <2>2
<1>5. StepTo(Advance) /\ Same
  BY <1>3, <1>4
<1>6. Advance \in {"mirror", "forget", "consumed", "restored"}
  BY <1>1 DEF JobOK, Carries, Writing, Advance
<1>7. job'.pc = Advance
  BY <1>1, <1>5 DEF StepTo, JobOK, Jobs
<1>8. q[0] = x /\ \A f \in Entries : f # 0 => q[f] = p[f]
  <2>. HIDE DEF x, p, q
  <2>. QED  BY <1>2, <1>4
<1>9. Good(q)
  <2>1. CASE job.value = Raw
    <3>1. job.op = "restore" /\ job.raw \in Chunks /\ x = Manifest(job.raw) /\ Size = 0
      BY <1>1, <2>1, Distinct DEF JobOK, Carries, Writing, MainContent, Size
    <3>2. job.old = job.raw /\ job.i = 1 /\ \A j \in job.i .. job.old : p[j] = Absent
      BY <1>1, <2>1, <3>1 DEF Solid, PutsBack, Cleared
    <3>3. 1 \in 1 .. job.raw /\ 1 \in Entries
      BY <3>1, Sizes DEF Chunks, Entries
    <3>4. q[1] = Absent
      BY <1>8, <3>2, <3>3
    <3>5. q[0].n = job.raw
      BY <1>8, <3>1 DEF Manifest
    <3>. QED  BY <3>3, <3>4, <3>5 DEF Good, Missing
  <2>2. CASE job.value # Raw /\ Size > 0
    <3>1. job.value \in Values /\ Size = Pieces[job.value] /\ x = Manifest(Size)
      BY <1>1, <2>2 DEF JobOK, Carries, Writing, Size, MainContent
    <3>2. Written(store, job.value, Size + 1)
      BY <1>1, <2>2 DEF Fresh, Writes
    <3>3. ASSUME NEW j \in 1 .. Size PROVE q[j] = Chunk(job.value, j)
      <4>1. j \in 1 .. (Size + 1) - 1 /\ j \in 1 .. MaxPieces /\ j # 0
        BY <1>2, Sizes
      <4>2. j \in Entries
        BY <4>1 DEF Entries, Chunks
      <4>3. p[j] = Chunk(job.value, j)
        BY <3>2, <4>1 DEF Written
      <4>. QED  BY <1>8, <4>1, <4>2, <4>3
    <3>4. q[0].n = Size
      BY <1>8, <3>1 DEF Manifest
    <3>5. Complete(q, Size)
      BY <3>1, <3>3 DEF Complete
    <3>. QED  BY <3>4, <3>5 DEF Good
  <2>3. CASE job.value # Raw /\ ~(Size > 0)
    <3>1. x.kind = "whole"
      BY <2>3 DEF MainContent, Whole
    <3>. QED  BY <1>8, <3>1 DEF Good
  <2>. QED  BY <2>1, <2>2, <2>3
<1>. HIDE DEF x, p
<1>. QED  BY <1>4, <1>5, <1>6, <1>7, <1>9, Base, SolidOther DEF Same

LEMMA MirrorSolid == ASSUME Works, TypeInv, Fresh, Solid, Mirror PROVE Solid'
<1>1. PICK d \in IF Windows THEN Fails(store, "dpapi") ELSE {TRUE} :
        /\ store' = IF d THEN Used(store, FALSE, Windows)
                    ELSE [store EXCEPT !.dpapi[0] = Whole(job.value)]
        /\ job' = NoJob /\ config' = config /\ seen' = Unknown
  BY DEF Mirror, Finish
<1>2. job.value \in Values /\ (At("mirror") => Holds(store, job.value))
      /\ (At("mirror_only") => ~config.keyring) /\ config.keyring \in BOOLEAN
      /\ (At("mirror") \/ At("mirror_only"))
      /\ (cut' <=> cut /\ At("mirror_only"))
      /\ job.pc \notin {"chunk", "main"}
  BY <1>1 DEF Mirror, At, TypeInv, JobOK, Ends, Fresh, Writes, Configs
<1>3. d = ~Windows
  BY <1>1, Base, WorksFails
<1>4. ~cut' => Good(Primary(store))
  BY <1>2, Base, HoldsGood
<1>5. Agree(store') /\ (~cut' => Good(Primary(store')))
  <2>1. CASE ~Windows
    <3>1. store' = store
      BY <1>1, <1>3, <2>1 DEF Used
    <3>. QED  BY <1>4, <3>1, Base
  <2>2. CASE Windows
    <3> DEFINE w == Whole(job.value)
    <3>1. store' = [store EXCEPT !.dpapi[0] = w]
      BY <1>1, <1>3, <2>2
    <3>2. w # Absent /\ w.kind = "whole"
      BY DEF Whole, Absent
    <3>. HIDE DEF w
    <3>3. /\ store'.keyring = store.keyring /\ store'.legacy = store.legacy
          /\ store'.dpapi = [store.dpapi EXCEPT ![0] = w]
      BY <3>1, Base DEF Stores
    <3>4. \A f \in Entries : store'.dpapi[f] = IF f = 0 THEN w ELSE store.dpapi[f]
      BY <3>3, Base, StoreMaps
    <3>5. CASE config.keyring
      <4>1. Primary(store') = Primary(store) /\ At("mirror")
        BY <1>2, <3>3, <3>5 DEF Primary
      <4>2. Primary(store)[0] # Absent
        BY <1>2, <4>1, HeldFirst
      <4>3. Agree(store')
        BY <2>2, <3>2, <3>3, <3>4, <4>1, <4>2, Base, StoreMaps DEF Agree
      <4>. QED  BY <1>4, <4>1, <4>3
    <3>6. CASE ~config.keyring
      <4>1. Primary(store')[0] = w /\ Primary(store') = store'.dpapi
        BY <3>4, <3>6, Base, StoreMaps DEF Primary
      <4>2. Agree(store')
        BY <2>2, <3>2, <3>3, <3>4, <3>6, <4>1, Base, StoreMaps DEF Agree
      <4>. QED  BY <3>2, <4>1, <4>2, WholeGood
    <3>. QED  BY <1>2, <3>5, <3>6
  <2>. QED  BY <2>1, <2>2
<1>6. job'.pc = "idle"
  BY <1>1 DEF NoJob
<1>. QED  BY <1>1, <1>5, <1>6, Base, SolidOther

\* an operation ends with the value in place, and the plaintext file goes
LEMMA PlacedSolid ==
  ASSUME TypeInv, Fresh, Solid, job.value \in Values, Holds(store, job.value),
         store' = [store EXCEPT !.fallback = None], job' = NoJob, UNCHANGED config,
         seen' # Torn
  PROVE Solid'
<1>1. store'.keyring = store.keyring /\ store'.dpapi = store.dpapi /\ store'.legacy = store.legacy
  BY Base DEF Stores
<1>2. Primary(store') = Primary(store)
  BY <1>1 DEF Primary
<1>3. Agree(store')
  BY <1>1, <1>2, Base DEF Agree
<1>4. Good(Primary(store')) /\ job'.pc = "idle"
  BY <1>2, HoldsGood DEF NoJob
<1>. QED  BY <1>3, <1>4, SolidOther

LEMMA ForgetSolid == ASSUME TypeInv, Fresh, Solid, Forget PROVE Solid'
<1>1. Holds(store, job.value) /\ job.value \in Values
  BY DEF Forget, At, Fresh, Writes, TypeInv, JobOK, Ends
<1>. QED  BY <1>1, PlacedSolid, Base DEF Forget, Finish

LEMMA ConsumedSolid == ASSUME TypeInv, Fresh, Solid, Consumed PROVE Solid'
<1>1. Holds(store, job.value) /\ job.value \in Values
  BY DEF Consumed, At, Fresh, Writes, TypeInv, JobOK, Ends
<1>2. seen' = job.value /\ Torn \notin Values
  BY Distinct DEF Consumed, Finish
<1>. QED  BY <1>1, <1>2, PlacedSolid DEF Consumed, Finish

LEMMA StartGetSolid == ASSUME TypeInv, Fresh, Solid, StartGet PROVE Solid'
<1>1. job'.pc \in {"legacy", "read"} /\ job'.op = "get" /\ job.pc = "idle"
  BY NoJobType DEF StartGet, Jobs, Idle
<1>2. Agree(store') /\ (~cut' => Good(Primary(store'))) /\ seen' # Torn
  BY <1>1, Base DEF StartGet
<1>. QED  BY <1>1, <1>2, SolidOther DEF StartGet

LEMMA ConsumeLegacySolid == ASSUME TypeInv, Fresh, Solid, ConsumeLegacy PROVE Solid'
<1>1. Same /\ store' = store /\ job.pc = "legacy"
  BY DEF ConsumeLegacy, At
<1>2. job'.pc = "read" \/ (job'.pc = "old" /\ job'.op = "consume")
  <2>1. JobOK
    BY Base
  <2>. QED  BY <2>1 DEF ConsumeLegacy, JobOK, Jobs
<1>3. Agree(store') /\ (~cut' => Good(Primary(store'))) /\ (seen' = Torn => cut')
  BY <1>1, Base DEF Same
<1>. QED  BY <1>1, <1>2, <1>3, SolidOther DEF Same

\* a get that found nothing ends or goes on to another store
LEMMA LeavesSolid ==
  ASSUME TypeInv, Fresh, Solid, Agree(store'), ~cut => Good(Primary(store')),
         UNCHANGED cut, ReadFails \/ NothingRead
  PROVE Solid'
<1>1. UNCHANGED config /\ (seen' = Torn => cut')
  BY Base, Distinct DEF ReadFails, NothingRead, Finish, Same
<1>2. \/ job'.pc = "dpapi" \/ job'.pc = "idle"
      \/ job'.pc = "old" /\ job'.op = "migrate"
  <2>1. CASE StepTo("dpapi")
    BY <2>1, Base DEF StepTo, Jobs
  <2>2. CASE job' = [job EXCEPT !.pc = "old", !.op = "migrate", !.value = store.fallback,
                                !.then = "consumed"]
    BY <2>2, Base DEF Jobs
  <2>3. CASE job' = NoJob
    BY <2>3 DEF NoJob
  <2>. QED  BY <2>1, <2>2, <2>3 DEF ReadFails, NothingRead, Finish
<1>. QED  BY <1>1, <1>2, SolidOther

LEMMA ReadFailsCut == ASSUME ReadFails \/ NothingRead PROVE UNCHANGED cut
  BY DEF ReadFails, NothingRead, Same

LEMMA ShownSolid ==
  ASSUME TypeInv, Fresh, Solid, NEW s \in Stores, NEW v, Shown(s, v), Agree(s),
         ~cut => Good(Primary(s)), v = Torn => cut
  PROVE Solid'
<1>1. store'.keyring = s.keyring /\ store'.dpapi = s.dpapi /\ store'.legacy = s.legacy
  BY DEF Shown, Stores
<1>2. Primary(store') = Primary(s)
  BY <1>1 DEF Primary
<1>3. Agree(store')
  BY <1>1, <1>2 DEF Agree
<1>4. job'.pc = "idle" /\ cut' = cut /\ seen' = v /\ config' = config
  BY DEF Shown, Finish, NoJob
<1>. QED  BY <1>2, <1>3, <1>4, SolidOther

LEMMA ManifestParts ==
  ASSUME NEW x \in Contents, x.kind = "manifest"
  PROVE x = Manifest(x.n)
  BY DEF Contents, Absent, Whole, Chunk, Manifest

LEMMA ReadMainSolid == ASSUME Works, TypeInv, Fresh, Solid, ReadMain PROVE Solid'
<1>1. PICK r \in NativeGet(store, 0) :
        CASE ~r.ok -> store' = r.store /\ ReadFails
          [] r.ok /\ r.x = Absent -> store' = r.store /\ NothingRead
          [] r.ok /\ r.x.kind = "whole" -> Shown(r.store, r.x.value)
          [] OTHER -> /\ job' = [job EXCEPT !.pc = "parts", !.i = 1, !.old = Count(r.x)]
                      /\ store' = r.store /\ Same
  BY DEF ReadMain
<1>2. job.pc = "read"
  BY DEF ReadMain, At
<1>3. /\ r.ok /\ r.store \in Stores /\ Agree(r.store)
      /\ r.x = Primary(r.store)[0] /\ r.x \in Contents /\ r.x.kind # "chunk"
      /\ ~cut => Good(Primary(r.store))
  BY <1>2, LookedUp
<1>4. CASE r.x = Absent
  <2>1. store' = r.store /\ NothingRead
    BY <1>1, <1>3, <1>4, Kind
  <2>. QED  BY <1>3, <2>1, LeavesSolid, ReadFailsCut
<1>5. CASE r.x # Absent /\ r.x.kind = "whole"
  <2>1. Shown(r.store, r.x.value)
    BY <1>1, <1>3, <1>5
  <2>2. r.x.value # Torn
    BY <1>3, <1>5, ContentParts, Distinct
  <2>. QED  BY <1>3, <2>1, <2>2, ShownSolid
<1>6. CASE r.x # Absent /\ r.x.kind # "whole"
  <2>1. job' = [job EXCEPT !.pc = "parts", !.i = 1, !.old = Count(r.x)]
        /\ store' = r.store /\ Same
    BY <1>1, <1>3, <1>6
  <2>2. job'.pc = "parts" /\ job'.i = 1 /\ job'.old = Count(r.x) /\ job'.op = "get"
    BY <1>2, <2>1, Base DEF Jobs, Fresh, Kinds
  <2>3. r.x = Manifest(Count(r.x))
    <3>1. r.x.kind = "manifest"
      BY <1>3, <1>6, ContentParts
    <3>2. r.x = Manifest(r.x.n)
      BY <1>3, <3>1, ManifestParts
    <3>. QED  BY <3>1, <3>2 DEF Count
  <2>4. Reading'
    BY <1>3, <2>1, <2>2, <2>3, PrimaryNext DEF Reading, Same
  <2>5. Agree(store)' /\ (~cut' => Good(Primary(store))')
    BY <1>3, <2>1, PrimaryNext DEF Agree, Windows, Primary, Good, Missing, Complete, Same
  <2>6. Cleared' /\ PutsBack' /\ OnlyCutsMix'
    BY <2>1, <2>2, Base DEF Cleared, PutsBack, OnlyCutsMix, Same
  <2>. QED  BY <2>4, <2>5, <2>6 DEF Solid
<1>. QED  BY <1>4, <1>5, <1>6

LEMMA ReadPartSolid == ASSUME Works, TypeInv, Fresh, Solid, ReadPart PROVE Solid'
<1>1. PICK r \in NativeGet(store, job.i) :
        /\ store' = r.store
        /\ \/ /\ r.ok /\ r.x # Absent
              /\ job' = [job EXCEPT !.i = @ + 1, !.acc = Append(@, r.x)] /\ Same
           \/ ReadFails
  BY DEF ReadPart
<1>2. JobOK /\ job.pc = "parts" /\ job.i <= job.old
  BY DEF ReadPart, At, TypeInv
<1>3. job.i \in 1 .. job.old /\ job.old \in 0 .. MaxPieces /\ job.acc \in Seq(Contents)
      /\ Len(job.acc) = job.i - 1
  BY <1>2 DEF JobOK, Counted, Jobs
<1>4. job.i \in Entries /\ job.i # 0
  BY <1>3, Sizes DEF Entries, Chunks
<1>5. /\ Agree(store') /\ Primary(store') = Primary(store)
      /\ r.x = Primary(store)[job.i] /\ r.x \in Contents
  BY <1>1, <1>4, Base, GetAgrees, GetKeeps
<1>6. ~cut => Good(Primary(store'))
  BY <1>2, <1>5, Base
<1>7. CASE /\ r.x # Absent
           /\ job' = [job EXCEPT !.i = @ + 1, !.acc = Append(@, r.x)] /\ Same
  <2>1. job'.pc = "parts" /\ job'.i = job.i + 1 /\ job'.old = job.old /\ job'.op = "get"
        /\ job'.acc = Append(job.acc, r.x)
    BY <1>2, <1>7 DEF JobOK, Jobs, Fresh, Kinds
  <2>2. /\ Primary(store)[0] = Manifest(job.old)
        /\ \A j \in 1 .. job.i - 1 : job.acc[j] = Primary(store)[j] /\ job.acc[j] # Absent
    BY <1>2 DEF Solid, Reading
  <2>3. \A j \in 1 .. job'.i - 1 : job'.acc[j] = Primary(store)[j] /\ job'.acc[j] # Absent
    <3>1. job'.acc[job.i] = r.x /\ \A j \in 1 .. job.i - 1 : job'.acc[j] = job.acc[j]
      BY <1>3, <1>5, <2>1
    <3>2. \A j \in 1 .. job'.i - 1 : j = job.i \/ j \in 1 .. job.i - 1
      BY <1>3, <2>1
    <3>. QED  BY <1>5, <1>7, <2>2, <3>1, <3>2
  <2>4. Reading'
    <3>1. Primary(store)' = Primary(store)
      BY <1>5, <1>7, PrimaryNext DEF Same
    <3>. QED  BY <2>1, <2>2, <2>3, <3>1 DEF Reading
  <2>5. Agree(store)' /\ (~cut' => Good(Primary(store))')
    BY <1>5, <1>6, <1>7, PrimaryNext DEF Agree, Windows, Primary, Good, Missing, Complete, Same
  <2>6. Cleared' /\ PutsBack' /\ OnlyCutsMix'
    BY <1>7, <2>1, Base DEF Cleared, PutsBack, OnlyCutsMix, Same
  <2>. QED  BY <2>4, <2>5, <2>6 DEF Solid
<1>8. CASE ReadFails
  BY <1>5, <1>6, <1>8, LeavesSolid, ReadFailsCut
<1>. QED  BY <1>1, <1>7, <1>8

LEMMA ReadDoneSolid == ASSUME TypeInv, Fresh, Solid, ReadDone PROVE Solid'
<1>1. /\ JobOK /\ job.pc = "parts" /\ store \in Stores /\ job.i > job.old
      /\ Shown(store, Text(job.acc)) /\ Agree(store) /\ (~cut => Good(Primary(store)))
  BY Base DEF ReadDone, At
<1>2. job.i \in 1 .. job.old + 1 /\ job.old \in 0 .. MaxPieces /\ job.acc \in Seq(Contents)
      /\ Len(job.acc) = job.i - 1
  BY <1>1 DEF JobOK, Counted, Jobs
<1>3. /\ Primary(store)[0] = Manifest(job.old)
      /\ \A j \in 1 .. job.i - 1 : job.acc[j] = Primary(store)[j] /\ job.acc[j] # Absent
  BY <1>1 DEF Solid, Reading
<1>4. job.i - 1 = job.old
  BY <1>1, <1>2
<1>5. ASSUME ~cut PROVE Text(job.acc) # Torn
  <2>1. ~Missing(Primary(store), job.old)
    BY <1>3, <1>4 DEF Missing
  <2>2. Complete(Primary(store), job.old)
    BY <1>1, <1>3, <1>5, <2>1 DEF Good, Manifest
  <2>3. PICK v \in Values : Pieces[v] = job.old
                            /\ \A i \in 1 .. job.old : Primary(store)[i] = Chunk(v, i)
    BY <2>2 DEF Complete
  <2>4. Manifest(job.old) \in Contents
    BY <1>3, Base, ContentTypes
  <2>5. job.old \in Chunks
    BY <2>4, ContentParts DEF Manifest
  <2>6. Pieces[v] > 0 /\ Len(job.acc) = Pieces[v]
    BY <1>2, <1>4, <2>3, <2>5, Sizes DEF Chunks
  <2>7. \A j \in 1 .. Pieces[v] : job.acc[j] = Chunk(v, j)
    BY <1>3, <1>4, <2>3
  <2>8. Text(job.acc) = v
    BY <1>2, <2>6, <2>7, TextWhole
  <2>. QED  BY <2>8, Distinct
<1>. QED  BY <1>1, <1>5, ShownSolid

LEMMA ReadMirrorSolid == ASSUME Works, TypeInv, Fresh, Solid, ReadMirror PROVE Solid'
<1> DEFINE x == store.dpapi[0]
           v == IF x.kind = "manifest" THEN Raw ELSE x.value
<1>1. PICK d \in Fails(store, "dpapi") :
        /\ store' = Used(store, FALSE, d)
        /\ CASE d \/ x = Absent -> Finish(last, None) /\ UNCHANGED cut
             [] OTHER -> /\ job' = [job EXCEPT !.pc = "old", !.op = "restore", !.value = v,
                                               !.raw = x.n, !.then = "restored"]
                         /\ Same
  BY DEF ReadMirror
<1>2. d = FALSE /\ job.pc = "dpapi"
  BY Base, WorksFails DEF ReadMirror, At
<1>3. store' = store
  BY <1>1, <1>2 DEF Used
<1>4. Agree(store') /\ (~cut => Good(Primary(store'))) /\ x \in Contents
  BY <1>2, <1>3, Base, StoreMaps
<1>5. CASE x = Absent
  <2>1. Finish(last, None) /\ UNCHANGED cut
    BY <1>1, <1>5
  <2>2. job'.pc = "idle" /\ config' = config /\ seen' = None
    BY <2>1 DEF Finish, NoJob
  <2>. QED  BY <1>4, <2>1, <2>2, Distinct, SolidOther, ConstantsAssumption
<1>6. CASE x # Absent
  <2>1. job' = [job EXCEPT !.pc = "old", !.op = "restore", !.value = v, !.raw = x.n,
                           !.then = "restored"] /\ Same
    BY <1>1, <1>2, <1>6
  <2>2. x.kind # "manifest" => v # Raw
    <3>1. x.kind # "manifest" => x.kind = "whole"
      BY <1>4, <1>6, Base, ContentParts DEF Agree
    <3>. QED  BY <1>4, <3>1, ContentParts, Distinct
  <2>. HIDE DEF v
  <2>3. job'.pc = "old" /\ job'.value = v /\ job'.raw = x.n
    BY <2>1, Base DEF Jobs
  <2>4. x.kind = "manifest" => Primary(store')[0] = Manifest(x.n)
    <3>1. x.kind = "manifest" => x = Manifest(x.n)
      BY <1>4, ManifestParts
    <3>. QED  BY <1>3, <3>1, Base DEF Agree
  <2>5. UNCHANGED <<config, cut, seen>>
    BY <2>1 DEF Same
  <2>. QED  BY <1>4, <2>2, <2>3, <2>4, <2>5, Base, SolidOther
<1>. QED  BY <1>5, <1>6

LEMMA RestoredSolid == ASSUME TypeInv, Fresh, Solid, Restored PROVE Solid'
<1>1. job.pc = "restored" /\ store' = store /\ cut' = cut /\ Finish(last, job.value)
      /\ job.value \in Values \cup {Raw}
  BY DEF Restored, At, TypeInv, JobOK, Ends
<1>2. job'.pc = "idle" /\ config' = config /\ seen' # Torn
  BY <1>1, Base, Distinct DEF Finish, NoJob
<1>. QED  BY <1>1, <1>2, Base, SolidOther

LEMMA StartDeleteSolid == ASSUME TypeInv, Fresh, Solid, StartDelete PROVE Solid'
<1>1. job'.pc = "find" /\ job.pc = "idle"
  BY NoJobType DEF StartDelete, Jobs, Idle
<1>2. Agree(store') /\ (~cut' => Good(Primary(store'))) /\ seen' # Torn
  BY <1>1, Base DEF StartDelete
<1>. QED  BY <1>1, <1>2, SolidOther DEF StartDelete

LEMMA FindOldSolid == ASSUME Works, TypeInv, Fresh, Solid, FindOld PROVE Solid'
<1>1. PICK r \in NativeGet(store, 0) :
        /\ store' = r.store
        /\ r.ok => job' = [job EXCEPT !.pc = "drop", !.i = 1, !.old = Count(r.x)]
  BY DEF FindOld
<1>2. job.pc = "find" /\ Same
  BY DEF FindOld, At
<1>3. /\ r.ok /\ Agree(store') /\ r.x = Primary(store')[0]
      /\ ~cut => Good(Primary(store'))
  BY <1>1, <1>2, LookedUp
<1>4. job'.pc = "drop" /\ job'.i = 1 /\ job'.old = Count(r.x)
  BY <1>1, <1>3, Base DEF Jobs
<1>5. \A j \in 1 .. job'.i - 1 : Primary(store')[j] = Absent
  BY <1>4
<1>. QED  BY <1>2, <1>3, <1>4, <1>5, Base, SolidRemoving DEF Same

LEMMA DropChunkSolid == ASSUME Works, TypeInv, Fresh, Solid, DropChunk PROVE Solid'
<1>1. JobOK /\ job.pc = "drop" /\ job.i <= job.old /\ Same
  BY DEF DropChunk, At, TypeInv
<1>2. PICK r \in NativeDelete(store, job.i) :
        store' = r.store /\ job' = [job EXCEPT !.i = job.i + 1]
  BY DEF DropChunk
<1>3. /\ Agree(store') /\ Good(Primary(store')) /\ Count(Primary(store')[0]) = job.old
      /\ \A j \in 1 .. job.i : Primary(store')[j] = Absent
      /\ job.i \in Nat
  BY <1>1, <1>2, Removed
<1>4. job'.pc = "drop" /\ job'.old = job.old /\ job'.i = job.i + 1
  BY <1>1, <1>2 DEF JobOK, Jobs
<1>5. \A j \in 1 .. job'.i - 1 : Primary(store')[j] = Absent
  BY <1>3, <1>4
<1>. QED  BY <1>1, <1>3, <1>4, <1>5, Base, SolidRemoving DEF Same

LEMMA DropMainSolid == ASSUME Works, TypeInv, Fresh, Solid, DropMain PROVE Solid'
<1>1. job.pc = "drop" /\ Same
  BY DEF DropMain, At
<1>2. PICK r \in NativeDelete(store, 0) :
        store' = r.store /\ job' = [job EXCEPT !.pc = "drop_mirror", !.leftover = ~r.ok]
  BY DEF DropMain
<1>3. Agree(store') /\ Primary(store') = [Primary(store) EXCEPT ![0] = Absent]
  BY <1>2, Base, DeleteAgrees, ContentTypes
<1>4. Primary(store')[0] = Absent
  BY <1>3, Base, ContentTypes
<1>5. Good(Primary(store'))
  BY <1>4, Kind, WholeGood
<1>6. job'.pc = "drop_mirror"
  BY <1>2, Base DEF Jobs
<1>. QED  BY <1>1, <1>3, <1>5, <1>6, Base, SolidOther DEF Same

LEMMA DropMirrorSolid == ASSUME Works, TypeInv, Fresh, Solid, DropMirror PROVE Solid'
<1>1. PICK d \in IF config.owner = "app" /\ Windows THEN Fails(store, "dpapi") ELSE {FALSE} :
        store' = IF config.owner = "renderer" THEN [store EXCEPT !.fallback = None]
                 ELSE [Used(store, FALSE, d) EXCEPT
                         !.dpapi[0] = IF d \/ ~Windows THEN @ ELSE Absent]
  BY DEF DropMirror
<1>2. d = FALSE /\ job.pc = "drop_mirror" /\ config' = config /\ cut' = cut
      /\ job' = NoJob /\ seen' = Unknown
  BY <1>1, Base, WorksFails DEF DropMirror, At, Finish
<1>3. ~cut' => Good(Primary(store))
  BY <1>2, Base
<1>4. Agree(store') /\ (~cut' => Good(Primary(store')))
  <2>1. CASE /\ store'.keyring = store.keyring /\ store'.dpapi = store.dpapi
             /\ store'.legacy = store.legacy
    <3>1. Primary(store') = Primary(store)
      BY <2>1 DEF Primary
    <3>. QED  BY <1>3, <2>1, <3>1, Base DEF Agree
  <2>2. CASE Windows /\ store' = [store EXCEPT !.dpapi[0] = Absent]
    <3>1. /\ store'.keyring = store.keyring /\ store'.legacy = store.legacy
          /\ store'.dpapi = [store.dpapi EXCEPT ![0] = Absent]
      BY <2>2, Base DEF Stores
    <3>2. \A f \in Entries : store'.dpapi[f] = IF f = 0 THEN Absent ELSE store.dpapi[f]
      BY <3>1, Base, StoreMaps
    <3>3. Agree(store')
      BY <2>2, <3>1, <3>2, Base, StoreMaps, Kind DEF Agree
    <3>4. CASE config.keyring
      <4>1. Primary(store') = Primary(store)
        BY <3>1, <3>4 DEF Primary
      <4>. QED  BY <1>3, <3>3, <4>1
    <3>5. CASE ~config.keyring
      <4>1. Primary(store')[0] = Absent
        BY <3>2, <3>5, Base, StoreMaps DEF Primary
      <4>. QED  BY <3>3, <4>1, Kind, WholeGood
    <3>. QED  BY <3>4, <3>5, Base DEF Configs
  <2>3. CASE config.owner = "renderer"
    <3>1. store' = [store EXCEPT !.fallback = None]
      BY <1>1, <2>3
    <3>. QED  BY <2>1, <3>1, Base DEF Stores
  <2>4. CASE config.owner # "renderer" /\ Windows
    <3>1. store' = [store EXCEPT !.dpapi[0] = Absent]
      BY <1>1, <1>2, <2>4 DEF Used
    <3>. QED  BY <2>2, <2>4, <3>1
  <2>5. CASE config.owner # "renderer" /\ ~Windows
    <3>1. store' = [store EXCEPT !.dpapi[0] = store.dpapi[0]]
      BY <1>1, <1>2, <2>5 DEF Used
    <3>2. store'.dpapi = store.dpapi /\ store'.keyring = store.keyring
          /\ store'.legacy = store.legacy
      BY <3>1, Base, StoreMaps DEF Stores
    <3>. QED  BY <2>1, <3>2
  <2>. QED  BY <2>3, <2>4, <2>5
<1>5. job'.pc = "idle"
  BY <1>2 DEF NoJob
<1>. QED  BY <1>2, <1>4, <1>5, Base, SolidOther

\* a set of more chunks than before that is cut short is marked so
LEMMA CrashSolid == ASSUME TypeInv, Fresh, Solid, Crash PROVE Solid'
<1>1. job' = NoJob /\ seen' = Unknown /\ config' = config /\ store' = store
      /\ cut' = (cut \/ (job.pc \in {"chunk", "main"}
                          /\ ((job.old > 0 /\ Size > job.old) \/ job.leftover)))
  BY DEF Crash, EndsEarly
<1>2. ~cut' => ~cut /\ ~Growing
  BY <1>1 DEF Growing
<1>3. ~cut' => Good(Primary(store'))
  BY <1>1, <1>2 DEF Solid
<1>4. job'.pc = "idle" /\ Agree(store')
  BY <1>1, Base DEF NoJob
<1>. QED  BY <1>1, <1>3, <1>4, Base, SolidOther

LEMMA InitSolid == ASSUME Init PROVE Solid
<1>1. /\ store.keyring = Nothing /\ store.dpapi = Nothing /\ job.pc = "idle" /\ job.op = "none"
      /\ seen = Unknown /\ store.legacy \in {Nothing, [Nothing EXCEPT ![0] = Whole(LegacyValue)]}
  BY DEF Init, NoJob
<1>2. \A e \in Entries : Nothing[e] = Absent
  BY DEF Nothing
<1>3. 0 \in Entries /\ Chunks \subseteq Entries /\ 0 \notin Chunks
  BY Sizes DEF Entries, Chunks
<1>4. Nothing[0].kind = "absent" /\ Whole(LegacyValue).kind = "whole"
  BY <1>2, <1>3, Kind DEF Whole
<1>5. Primary(store) = Nothing
  BY <1>1 DEF Primary
<1>6. Good(Primary(store))
  BY <1>4, <1>5 DEF Good
<1>7. /\ \A e \in Chunks : store.legacy[e] = Absent
      /\ store.legacy[0].kind \in {"absent", "whole"}
  <2>1. CASE store.legacy = Nothing
    BY <1>2, <1>3, <1>4, <2>1
  <2>2. CASE store.legacy = [Nothing EXCEPT ![0] = Whole(LegacyValue)]
    <3>1. Nothing \in [Entries -> {Absent}]
      BY DEF Nothing
    <3>2. \A e \in Entries : store.legacy[e] = IF e = 0 THEN Whole(LegacyValue) ELSE Nothing[e]
      BY <2>2, <3>1
    <3>. QED  BY <1>2, <1>3, <1>4, <3>2
  <2>. QED  BY <1>1, <2>1, <2>2
<1>8. Agree(store)
  BY <1>1, <1>2, <1>3, <1>4, <1>5, <1>7 DEF Agree
<1>. QED  BY <1>1, <1>6, <1>8 DEF Solid, Cleared, Reading, PutsBack, OnlyCutsMix, Unknown, Torn

LEMMA StepSolid ==
  ASSUME Works, TypeInv, Fresh, Solid, Call \/ Step \/ Crash \/ UNCHANGED vars PROVE Solid'
<1>1. CASE UNCHANGED vars
  BY <1>1 DEF vars, Solid, Cleared, Reading, PutsBack, Agree, OnlyCutsMix, Growing, Good,
              Missing, Complete, Primary, Windows, Size
<1>2. CASE Call \/ Step \/ Crash
  BY <1>2, StartSetSolid, ReadOldSolid, UnlinkSolid, WriteChunkSolid, WriteMainSolid,
     MirrorSolid, ForgetSolid, StartGetSolid, ConsumeLegacySolid, ConsumedSolid,
     ReadMainSolid, ReadPartSolid, ReadDoneSolid, ReadMirrorSolid, RestoredSolid,
     StartDeleteSolid, FindOldSolid, DropChunkSolid, DropMainSolid, DropMirrorSolid,
     CrashSolid DEF Call, Step
<1>. QED  BY <1>1, <1>2

\* As long as operations have not overlapped a get never returns a mixture of two values or
\* a part of one, whatever was killed between two entries, except after a set of more chunks than before has been cut short: for stores
\* that work (storage/mod.rs:318).
THEOREM ReadsStayWhole ==
  ASSUME Faulty = {}
  PROVE Spec => []ReadsAreWhole
<1>1. Spec => [](Overlapped \/ Fresh)
  BY FreshInvariance, WorksSteady DEF Works
<1>2. Init => Overlapped \/ Solid
  BY InitSolid
<1>3. /\ TypeInv /\ OthersOK /\ (Overlapped \/ Fresh) /\ (Overlapped \/ Solid) /\ [Next]_vars
      => (Overlapped \/ Solid)'
  BY StepSolid, AloneNext DEF Works
<1>4. Overlapped \/ Solid => ReadsAreWhole
  BY DEF Solid, OnlyCutsMix, ReadsAreWhole
<1>. QED  BY <1>1, <1>2, <1>3, <1>4, TypeInvariance, PTL DEF Spec
=============================================================================
