---------------------------- MODULE SessionProofs ----------------------------
(***************************************************************************)
(* What the account session, its leases and their cache keep true, for     *)
(* every set of accounts, locations and calls and every bound.             *)
(***************************************************************************)
EXTENDS Session, ListProofs, SequenceTheorems, WellFoundedInduction, NaturalsInduction, FiniteSetTheorems, TLAPS

-----------------------------------------------------------------------------
(* The jobs of the calls, and the caches they carry.                         *)

Loading == {"load", "load_disk", "load_set"}
Leasing == {"connect", "ping", "refresh_cached", "background"}
Leased == {"bring_up", "bring_up_cached", "probe", "cache_write"}
Deleting == {"delete_memory", "delete_session", "delete_cache"}

Pcs == {"idle", "send", "location"} \cup Loading \cup Leased \cup Deleting \cup Changing

JobType ==
  [op : Commands \cup {"none", "background"},
   pc : Pcs,
   back : {"none", "command", "auth", "refresh"}, own : Accounts \cup {None},
   with : Session \cup {None}, value : Session \cup {None}, retried : BOOLEAN,
   again : BOOLEAN, ids : Seq(Locations), lease : Lease \cup {None},
   read : Caches \cup {None}]

\* the entries of a cache are one per location, at most MaxEntries, and its owner's
CacheSound(k, mixed) ==
  /\ k \in Caches /\ Len(k.entries) <= MaxEntries
  /\ \A i, j \in DOMAIN k.entries : i # j => k.entries[i].loc # k.entries[j].loc
  /\ mixed \/ \A i \in DOMAIN k.entries : k.entries[i].for = k.owner

\* what a call has before it goes on: where its answer returns to, and what it carries
Returns(job) ==
  /\ job.pc \in Loading => job.back # "none" /\ job.op # "sign_in"
  /\ job.pc = "send" => job.back \in {"auth", "refresh"}
  /\ job.pc \in {"refresh"} \cup Invalidating => job.back = "refresh"
  /\ job.pc \in {"store", "store_memory"} => job.op \in {"sign_in", "status"} \/ job.back = "refresh"
  /\ job.pc = "exchange" => job.op \in {"sign_in", "status"}
  /\ job.pc \in Deleting => job.op = "logout"
  /\ job.pc = "bring_up" => job.op = "connect"
  /\ job.pc = "location" => job.op \in {"connect", "refresh_cached"} /\ job.back = "none"
  /\ job.back \in {"auth", "refresh"} => job.op # "sign_in"
  /\ job.back = "command" => /\ job.op \in {"sign_in", "status", "connect", "ping", "refresh_cached"}
                             /\ job.lease = None
                             /\ job.op = "ping" => job.ids # << >>

Carries(job, mixed) ==
  /\ Len(job.ids) <= (IF job.op = "refresh_cached" THEN MaxEntries ELSE 3)
  /\ job.pc \in {"store", "store_memory", "load_set"} => job.value # None
  /\ job.pc = "load_set" => job.value.access = FALSE
  /\ job.pc \in {"refresh", "send"} => job.with # None
  /\ job.pc = "location" => job.own # None
  /\ job.pc \in Leased => job.op \in Leasing
  /\ job.op \in Leasing /\ (job.back \in {"auth", "refresh"} \/ job.pc \in Leased)
       => job.own # None /\ job.ids # << >>
  /\ job.pc \in {"bring_up", "bring_up_cached", "probe"} => job.lease # None
  /\ job.lease # None => mixed \/ job.lease.for = job.own
  /\ job.pc = "cache_write" => job.read # None /\ CacheSound(job.read, mixed)

JobOK(job, mixed) == job \in JobType /\ Returns(job) /\ Carries(job, mixed)

HistType ==
  [mixed : BOOLEAN, out : BOOLEAN, taken : BOOLEAN, refused : SUBSET Pairs, behind : BOOLEAN]

Jobs ==
  /\ windows \in BOOLEAN /\ now \in 0 .. MaxNow
  /\ left \in [trouble : 0 .. MaxTrouble, commands : 0 .. MaxCommands]
  /\ memory \in Session \cup {None}
  /\ disk \in [keyring : Texts, dpapi : Texts]
  /\ server \in [good : SUBSET Pairs, next : 1 .. MaxPairs + 1]
  /\ \A p \in server.good : p < server.next
  /\ hist \in HistType /\ raced \in BOOLEAN
  /\ cache # None => CacheSound(cache, hist.mixed)
  /\ calls \in [Calls -> JobType]
  /\ \A c \in Calls : JobOK(calls[c], hist.mixed)

-----------------------------------------------------------------------------
(* The session, in memory, on disk and in the hands of the calls.            *)

\* s is the session stored last, or what a load finds
Kept(s) == Newest # None /\ Newest.pair = s.pair
Found(s) == Readable # None /\ Readable.pair = s.pair

\* what a call at one of these points knows of the session
Fits(job) ==
  /\ job.pc = "store_memory" => Kept(job.value) /\ ~hist.out
  /\ job.pc = "load_set" => Found(job.value) /\ ~hist.out
  /\ job.pc = "refresh" => Kept(job.with)
  /\ job.pc \in {"invalidate_keyring", "invalidate_dpapi", "delete_session"} => memory = None
  /\ job.pc = "invalidate_dpapi" /\ hist.taken => disk.keyring \in Gone
  /\ job.pc \in Invalidating => job.with # None /\ job.with.pair \in hist.refused

Agrees == memory # None /\ (\A c \in Calls : ~At(c, "store_memory")) => Kept(memory)

SignedOut == memory = None /\ disk.keyring \in Gone /\ disk.dpapi \in Gone

Quiet ==
  /\ ~windows => disk.dpapi = None
  /\ ~raced => /\ ~Overlap(calls) /\ Agrees /\ (hist.out => SignedOut)
               /\ \A c \in Calls : Fits(calls[c])

-----------------------------------------------------------------------------
(* What builds a job.                                                        *)

\* the fields of a job
LEMMA JobFields ==
  ASSUME NEW job \in JobType
  PROVE  /\ job.op \in Commands \cup {"none", "background"} /\ job.pc \in Pcs
         /\ job.back \in {"none", "command", "auth", "refresh"}
         /\ job.own \in Accounts \cup {None} /\ job.with \in Session \cup {None}
         /\ job.value \in Session \cup {None} /\ job.retried \in BOOLEAN
         /\ job.again \in BOOLEAN /\ job.ids \in Seq(Locations)
         /\ job.lease \in Lease \cup {None} /\ job.read \in Caches \cup {None}
BY DEF JobType

LEMMA AnsweredFields ==
  ASSUME NEW job \in JobType, NEW pc \in {"location", "delete_memory", "bring_up", "probe", "load"},
         NEW j, j = Answered(job, pc)
  PROVE  /\ j \in JobType /\ j.pc = pc /\ j.back = "none" /\ j.with = None
         /\ j.op = job.op /\ j.own = job.own /\ j.value = job.value /\ j.ids = job.ids
         /\ j.lease = job.lease /\ j.read = job.read
<1>1. pc \in Pcs
  BY DEF Pcs, Loading, Leased, Deleting, Changing
<1>2. j \in JobType
  BY <1>1 DEF JobType, Answered
<1>. QED  BY <1>2 DEF JobType, Answered

LEMMA IdleOK == \A m \in BOOLEAN : JobOK(Idle, m)
<1>1. Idle \in JobType
  <2>1. "idle" \in Pcs /\ "none" \in Commands \cup {"none", "background"}
    BY DEF Pcs
  <2>. QED  BY <2>1 DEF Idle, JobType
<1>2. Returns(Idle)
  BY DEF Idle, Returns, Loading, Deleting, Invalidating
<1>3. ASSUME NEW m \in BOOLEAN PROVE Carries(Idle, m)
  <2>1. /\ Idle.pc = "idle" /\ Idle.op = "none" /\ Idle.lease = None /\ Len(Idle.ids) = 0
    BY DEF Idle
  <2>. HIDE DEF Idle
  <2>. QED  BY <2>1, ConstantsAssumption DEF Carries, Leased, Leasing
<1>. QED  BY <1>1, <1>2, <1>3 DEF JobOK

\* what every job has, and what one that has begun a request has
Has(job, m) ==
  /\ job \in JobType /\ job.op # "sign_in"
  /\ Len(job.ids) <= (IF job.op = "refresh_cached" THEN MaxEntries ELSE 3)
  /\ job.lease # None => m \/ job.lease.for = job.own

Going(job, m) == Has(job, m) /\ (job.op \in Leasing => job.own # None /\ job.ids # << >>)

LEMMA LoadOK ==
  ASSUME NEW j, NEW m \in BOOLEAN, Going(j, m), j.pc = "load", j.back \in {"auth", "refresh"}
  PROVE  JobOK(j, m)
BY DEF JobOK, Returns, Carries, Loading, Leased, Deleting, Invalidating, Has, Going

LEMMA AuthorizeOK ==
  ASSUME NEW job \in JobType, NEW m \in BOOLEAN, job.op # "sign_in",
         Len(job.ids) <= (IF job.op = "refresh_cached" THEN MaxEntries ELSE 3),
         job.op \in Leasing => job.own # None /\ job.ids # << >>,
         NEW j, j = Authorize(job)
  PROVE  JobOK(j, m) /\ j.pc = "load"
<1>. DEFINE a == Answered(job, "load")
<1>1. /\ a \in JobType /\ a.pc = "load"
      /\ a.op = job.op /\ a.own = job.own /\ a.ids = job.ids
  BY AnsweredFields
<1>. HIDE DEF a
<1>2. j = [a EXCEPT !.back = "auth", !.lease = None]
  BY DEF Authorize, a
<1>3. j \in JobType
  BY <1>1, <1>2 DEF JobType
<1>4. /\ j.pc = "load" /\ j.back = "auth" /\ j.lease = None /\ j.op = job.op /\ j.own = job.own
      /\ j.ids = job.ids
  BY <1>1, <1>2 DEF JobType
<1>5. Going(j, m)
  BY <1>3, <1>4 DEF Going, Has
<1>. QED  BY <1>4, <1>5, LoadOK

LEMMA RefreshOK ==
  ASSUME NEW job, NEW m \in BOOLEAN, Going(job, m), NEW j, j = Refresh(job)
  PROVE  JobOK(j, m) /\ j.pc = "load"
<1>. DEFINE a == Answered(job, "load")
<1>1. /\ a \in JobType /\ a.pc = "load" /\ a.lease = job.lease
      /\ a.op = job.op /\ a.own = job.own /\ a.ids = job.ids
  BY AnsweredFields DEF Going, Has
<1>. HIDE DEF a
<1>2. j = [a EXCEPT !.back = "refresh", !.retried = TRUE]
  BY DEF Refresh, a
<1>3. j \in JobType
  BY <1>1, <1>2 DEF JobType
<1>4. /\ j.pc = "load" /\ j.back = "refresh" /\ j.lease = job.lease /\ j.op = job.op
      /\ j.own = job.own /\ j.ids = job.ids
  BY <1>1, <1>2 DEF JobType
<1>5. Going(j, m)
  BY <1>3, <1>4 DEF Going, Has
<1>. QED  BY <1>4, <1>5, LoadOK

LEMMA NextLocationOK ==
  ASSUME NEW job \in JobType, NEW m \in BOOLEAN, job.op \in {"connect", "refresh_cached"},
         Len(job.ids) <= (IF job.op = "refresh_cached" THEN MaxEntries ELSE 3),
         job.own # None, job.ids # << >>, NEW j, j = NextLocation(job)
  PROVE  JobOK(j, m) /\ j.pc = "location"
<1>. DEFINE a == Answered(job, "location")
<1>1. /\ a \in JobType /\ a.pc = "location" /\ a.back = "none"
      /\ a.op = job.op /\ a.own = job.own /\ a.ids = job.ids
  BY AnsweredFields
<1>2. Tail(a.ids) \in Seq(Locations) /\ Len(Tail(a.ids)) <= Len(job.ids)
  <2>1. a.ids \in Seq(Locations) /\ a.ids # << >>
    BY <1>1 DEF JobType
  <2>. HIDE DEF a
  <2>. QED  BY <1>1, <2>1
<1>. HIDE DEF a
<1>3. j = [a EXCEPT !.ids = Tail(a.ids), !.lease = None]
  BY DEF NextLocation, a
<1>4. j \in JobType
  BY <1>1, <1>2, <1>3 DEF JobType
<1>5. /\ j.pc = "location" /\ j.back = "none" /\ j.lease = None /\ j.op = job.op
      /\ j.own = job.own /\ j.ids = Tail(a.ids)
  BY <1>1, <1>3 DEF JobType
<1>6. Len(j.ids) <= (IF j.op = "refresh_cached" THEN MaxEntries ELSE 3)
  <2>1. Len(j.ids) \in Nat /\ Len(job.ids) \in Nat /\ MaxEntries \in Nat
    BY <1>4, ConstantsAssumption DEF JobType
  <2>. QED  BY <1>2, <1>5, <2>1
<1>. QED  BY <1>4, <1>5, <1>6
          DEF JobOK, Returns, Carries, Loading, Leased, Deleting, Invalidating

\* where a call goes on when its authorised request has failed
LEMMA FailedOK ==
  ASSUME NEW job, NEW m \in BOOLEAN, Going(job, m), NEW terminal \in BOOLEAN,
         NEW j, j = Failed(job, terminal)
  PROVE  JobOK(j, m) /\ j.pc \in {"idle", "location", "delete_memory"}
<1>1. CASE job.op = "logout"
  <2>1. j = Answered(job, "delete_memory")
    BY <1>1 DEF Failed
  <2>2. /\ j \in JobType /\ j.pc = "delete_memory" /\ j.back = "none"
        /\ j.op = job.op /\ j.own = job.own /\ j.ids = job.ids /\ j.lease = job.lease
    BY <2>1, AnsweredFields DEF Going, Has
  <2>. QED  BY <1>1, <2>2
            DEF JobOK, Returns, Carries, Loading, Leased, Leasing, Deleting, Invalidating, Going, Has
<1>2. CASE \/ job.op = "connect" /\ ~terminal
           \/ job.op = "refresh_cached"
  <2>1. j = NextLocation(job)
    BY <1>2 DEF Failed
  <2>. QED  BY <1>2, <2>1, NextLocationOK DEF Going, Has, Leasing
<1>3. CASE ~(job.op = "logout" \/ (job.op = "connect" /\ ~terminal) \/ job.op = "refresh_cached")
  <2>1. j = Idle
    BY <1>3 DEF Failed
  <2>2. j.pc = "idle"
    BY <2>1 DEF Idle
  <2>. QED  BY <2>1, <2>2, IdleOK
<1>. QED  BY <1>1, <1>2, <1>3

LEMMA RefreshFailedOK ==
  ASSUME NEW job, NEW m \in BOOLEAN, Going(job, m), NEW j, j = RefreshFailed(job)
  PROVE  JobOK(j, m) /\ j.pc \in {"idle", "location", "delete_memory"}
<1>1. CASE job.op = "refresh"
  <2>1. j = Idle /\ Idle.pc = "idle"
    BY <1>1 DEF RefreshFailed, Idle
  <2>. QED  BY <2>1, IdleOK
<1>2. CASE job.op # "refresh"
  <2>. DEFINE no == FALSE
  <2>1. no \in BOOLEAN /\ j = Failed(job, no)
    BY <1>2 DEF RefreshFailed
  <2>. HIDE DEF no
  <2>. QED  BY <2>1, FailedOK
<1>. QED  BY <1>1, <1>2

LEMMA CachedIdsOK ==
  ASSUME NEW a \in Accounts, cache # None => cache \in Caches /\ Len(cache.entries) <= MaxEntries
  PROVE  CachedIds(a) \in Seq(Locations) /\ Len(CachedIds(a)) <= MaxEntries
<1>. DEFINE s == LoadCache(a).entries
            kept == {e \in Lease : Fresh(e)}
            r == Retain(s, kept)
<1>1. s \in Seq(Lease) /\ Len(s) <= MaxEntries
  <2>1. CASE cache # None /\ ScopeMatches(cache, a)
    BY <2>1 DEF LoadCache, Caches
  <2>2. CASE ~(cache # None /\ ScopeMatches(cache, a))
    <3>1. s = << >>
      BY <2>2 DEF LoadCache, ForSession
    <3>. QED  BY <3>1, ConstantsAssumption
  <2>. QED  BY <2>1, <2>2
<1>. HIDE DEF s, kept
<1>2. r \in Seq(Lease) /\ Len(r) <= Len(s)
  BY <1>1, RetainKeeps
<1>3. CachedIds(a) = [i \in 1 .. Len(r) |-> r[i].loc]
  BY DEF CachedIds, s, kept
<1>. HIDE DEF r
<1>4. \A i \in 1 .. Len(r) : r[i].loc \in Locations
  <2>1. \A i \in 1 .. Len(r) : r[i] \in Lease
    BY <1>2
  <2>2. \A e \in Lease : e.loc \in Locations
    BY DEF Lease
  <2>. QED  BY <2>1, <2>2
<1>5. CachedIds(a) \in Seq(Locations) /\ Len(CachedIds(a)) = Len(r)
  BY <1>2, <1>3, <1>4
<1>. QED  BY <1>1, <1>2, <1>5, ConstantsAssumption

\* a call that a load returns to
Loaden(job, m) ==
  /\ Has(job, m) /\ job.back \in {"command", "auth", "refresh"}
  /\ job.op \in Leasing /\ job.back \in {"auth", "refresh"} => job.own # None /\ job.ids # << >>
  /\ job.back = "command" => /\ job.op \in {"status", "connect", "ping", "refresh_cached"}
                             /\ job.lease = None
                             /\ job.op = "ping" => job.ids # << >>

LEMMA SessionFields ==
  ASSUME NEW s \in Session
  PROVE  /\ s.account \in Accounts /\ s.pair \in Pairs /\ s.access \in BOOLEAN
         /\ s # None /\ s.account # None
BY ConstantsAssumption DEF Session

LEMMA LoadedOK ==
  ASSUME NEW job, NEW m \in BOOLEAN, Loaden(job, m), NEW s \in Session \cup {None},
         cache # None => cache \in Caches /\ Len(cache.entries) <= MaxEntries,
         NEW j, j = Loaded(job, s)
  PROVE  /\ JobOK(j, m)
         /\ j.pc \in {"idle", "send", "load", "refresh", "exchange", "location", "delete_memory"}
         /\ j.pc = "refresh" => s # None /\ j.with = s
<1>0. /\ job \in JobType /\ job.op # "sign_in"
      /\ Len(job.ids) <= (IF job.op = "refresh_cached" THEN MaxEntries ELSE 3)
      /\ job.lease # None => m \/ job.lease.for = job.own
  BY DEF Loaden, Has
<1>1. CASE job.back = "auth"
  <2>0. Going(job, m)
    BY <1>1 DEF Loaden, Going
  <2>1. CASE s = None
    <3>. DEFINE yes == TRUE
    <3>1. yes \in BOOLEAN /\ j = Failed(job, yes)
      BY <1>1, <2>1 DEF Loaded
    <3>. HIDE DEF yes
    <3>. QED  BY <2>0, <3>1, FailedOK
  <2>2. CASE s # None /\ s.access
    <3>1. j = [job EXCEPT !.pc = "send", !.with = s]
      BY <1>1, <2>2 DEF Loaded
    <3>2. /\ j.pc = "send" /\ j.back = "auth" /\ j.with = s /\ j.op = job.op /\ j.own = job.own
          /\ j.ids = job.ids /\ j.lease = job.lease
      BY <1>0, <1>1, <3>1 DEF JobType
    <3>3. j \in JobType
      <4>1. "send" \in Pcs
        BY DEF Pcs
      <4>. QED  BY <1>0, <3>1, <4>1 DEF JobType
    <3>. QED  BY <2>0, <2>2, <3>2, <3>3
              DEF JobOK, Returns, Carries, Loading, Leased, Deleting, Invalidating, Has, Going
  <2>3. CASE s # None /\ ~s.access
    <3>1. j = Refresh(job)
      BY <1>1, <2>3 DEF Loaded
    <3>. QED  BY <2>0, <3>1, RefreshOK
  <2>. QED  BY <2>1, <2>2, <2>3
<1>2. CASE job.back = "refresh"
  <2>0. Going(job, m)
    BY <1>2 DEF Loaden, Going
  <2>1. CASE s # None
    <3>1. j = [job EXCEPT !.pc = "refresh", !.with = s]
      BY <1>2, <2>1 DEF Loaded
    <3>2. /\ j.pc = "refresh" /\ j.back = "refresh" /\ j.with = s /\ j.op = job.op
          /\ j.own = job.own /\ j.ids = job.ids /\ j.lease = job.lease
      BY <1>0, <1>2, <3>1 DEF JobType
    <3>3. j \in JobType
      <4>1. "refresh" \in Pcs
        BY DEF Pcs, Changing
      <4>. QED  BY <1>0, <3>1, <4>1 DEF JobType
    <3>. QED  BY <2>0, <2>1, <3>2, <3>3
              DEF JobOK, Returns, Carries, Loading, Leased, Deleting, Invalidating, Has, Going
  <2>2. CASE s = None /\ job.op = "refresh"
    <3>1. j = Idle /\ Idle.pc = "idle"
      BY <1>2, <2>2 DEF Loaded, Idle
    <3>. QED  BY <3>1, IdleOK
  <2>3. CASE s = None /\ job.op # "refresh"
    <3>. DEFINE no == FALSE
    <3>1. no \in BOOLEAN /\ j = Failed(job, no)
      BY <1>2, <2>3 DEF Loaded
    <3>. HIDE DEF no
    <3>. QED  BY <2>0, <3>1, FailedOK
  <2>. QED  BY <2>1, <2>2, <2>3
<1>3. CASE job.back = "command"
  <2>0. /\ job.op \in {"status", "connect", "ping", "refresh_cached"} /\ job.lease = None
        /\ job.op = "ping" => job.ids # << >>
    BY <1>3 DEF Loaden
  <2>1. CASE job.op = "status" /\ s = None
    <3>1. j = [job EXCEPT !.pc = "exchange"]
      BY <1>3, <2>1 DEF Loaded
    <3>2. /\ j.pc = "exchange" /\ j.back = "command" /\ j.op = job.op
          /\ j.own = job.own /\ j.ids = job.ids /\ j.lease = job.lease
      BY <1>0, <1>3, <3>1 DEF JobType
    <3>3. j \in JobType
      <4>1. "exchange" \in Pcs
        BY DEF Pcs, Changing
      <4>. QED  BY <1>0, <3>1, <4>1 DEF JobType
    <3>. QED  BY <1>0, <2>0, <2>1, <3>2, <3>3
              DEF JobOK, Returns, Carries, Loading, Leased, Leasing, Deleting, Invalidating
  <2>2. CASE \/ job.op = "status" /\ s # None
             \/ job.op # "status" /\ (s = None \/ s.pair \in Blocked)
    <3>1. j = Idle /\ Idle.pc = "idle"
      BY <1>3, <2>2 DEF Loaded, Idle
    <3>. QED  BY <3>1, IdleOK
  <2>3. CASE job.op # "status" /\ ~(s = None \/ s.pair \in Blocked)
    <3>0. s.account \in Accounts /\ s.account # None
      BY <2>3, SessionFields
    <3>1. CASE job.op = "connect"
      <4>. DEFINE a == Answered(job, "location")
      <4>1. j = [a EXCEPT !.own = s.account]
        BY <1>3, <2>3, <3>1 DEF Loaded
      <4>2. /\ a \in JobType /\ a.pc = "location" /\ a.back = "none" /\ a.op = job.op
            /\ a.ids = job.ids /\ a.lease = job.lease
        BY <1>0, AnsweredFields
      <4>. HIDE DEF a
      <4>3. /\ j.pc = "location" /\ j.back = "none" /\ j.op = job.op /\ j.own = s.account
            /\ j.ids = job.ids /\ j.lease = None
        BY <2>0, <4>1, <4>2 DEF JobType
      <4>4. j \in JobType
        BY <3>0, <4>1, <4>2 DEF JobType
      <4>. QED  BY <1>0, <3>0, <3>1, <4>3, <4>4
                DEF JobOK, Returns, Carries, Loading, Leased, Deleting, Invalidating
    <3>2. CASE job.op = "ping"
      <4>. DEFINE b == [job EXCEPT !.own = s.account]
      <4>1. j = Authorize(b)
        BY <1>3, <2>3, <3>2 DEF Loaded
      <4>2. /\ b \in JobType /\ b.op = "ping" /\ b.own = s.account /\ b.ids = job.ids
        BY <1>0, <3>0, <3>2 DEF JobType
      <4>. HIDE DEF b
      <4>. QED  BY <1>0, <2>0, <3>0, <3>2, <4>1, <4>2, AuthorizeOK
    <3>3. CASE job.op = "refresh_cached"
      <4>. DEFINE a == Answered(job, "location")
                  ids == CachedIds(s.account)
      <4>0. ids \in Seq(Locations) /\ Len(ids) <= MaxEntries
        BY <3>0, CachedIdsOK
      <4>. HIDE DEF ids
      <4>1. j = [a EXCEPT !.own = s.account, !.ids = ids]
        BY <1>3, <2>3, <3>3 DEF Loaded, ids
      <4>2. /\ a \in JobType /\ a.pc = "location" /\ a.back = "none" /\ a.op = job.op
            /\ a.lease = job.lease
        BY <1>0, AnsweredFields
      <4>. HIDE DEF a
      <4>3. /\ j.pc = "location" /\ j.back = "none" /\ j.op = job.op /\ j.own = s.account
            /\ j.ids = ids /\ j.lease = None
        BY <2>0, <4>1, <4>2 DEF JobType
      <4>4. j \in JobType
        BY <3>0, <4>0, <4>1, <4>2 DEF JobType
      <4>. QED  BY <3>0, <3>3, <4>0, <4>3, <4>4
                DEF JobOK, Returns, Carries, Loading, Leased, Deleting, Invalidating
    <3>. QED  BY <2>0, <2>3, <3>1, <3>2, <3>3
  <2>. QED  BY <2>1, <2>2, <2>3
<1>. QED  BY <1>1, <1>2, <1>3 DEF Loaden

-----------------------------------------------------------------------------
(* The cache.                                                                *)

LEMMA LoadCacheOK ==
  ASSUME NEW a \in Accounts, NEW m \in BOOLEAN, cache # None => CacheSound(cache, m)
  PROVE  CacheSound(LoadCache(a), m) /\ LoadCache(a).owner = a /\ ScopeMatches(LoadCache(a), a)
<1>1. CASE cache # None /\ ScopeMatches(cache, a)
  BY <1>1 DEF LoadCache, ScopeMatches
<1>2. CASE ~(cache # None /\ ScopeMatches(cache, a))
  <2>. DEFINE k == LoadCache(a)
  <2>1. k = [owner |-> a, current |-> TRUE, entries |-> << >>]
    BY <1>2 DEF LoadCache, ForSession
  <2>2. k \in Caches /\ k.entries = << >> /\ k.owner = a /\ k.current
    BY <2>1 DEF Caches
  <2>3. Len(<< >>) <= MaxEntries /\ DOMAIN << >> = {}
    BY ConstantsAssumption
  <2>4. Len(k.entries) <= MaxEntries /\ DOMAIN k.entries = {}
    BY <2>2, <2>3, Zenon
  <2>. HIDE DEF k
  <2>5. /\ \A i, j \in DOMAIN k.entries : i # j => k.entries[i].loc # k.entries[j].loc
        /\ \A i \in DOMAIN k.entries : k.entries[i].for = k.owner
    BY <2>4, Zenon
  <2>. QED  BY <2>2, <2>4, <2>5, Zenon DEF CacheSound, ScopeMatches, k
<1>. QED  BY <1>1, <1>2

LEMMA CachedLeaseOK ==
  ASSUME NEW a \in Accounts, NEW m \in BOOLEAN, cache # None => CacheSound(cache, m),
         NEW loc, CachedLease(a, loc) # None
  PROVE  /\ CachedLease(a, loc) \in Lease
         /\ CachedLease(a, loc).loc = loc /\ Fresh(CachedLease(a, loc))
         /\ m \/ CachedLease(a, loc).for = a
<1>. DEFINE k == LoadCache(a)
            s == k.entries
            kept == {e \in Lease : e.loc = loc /\ Fresh(e)}
            r == Retain(s, kept)
<1>1. CacheSound(k, m) /\ k.owner = a
  BY LoadCacheOK
<1>2. s \in Seq(Lease)
  BY <1>1 DEF CacheSound, Caches
<1>3. CachedLease(a, loc) = r[1] /\ r # << >>
  BY DEF CachedLease
<1>. HIDE DEF s, kept
<1>4. /\ r \in Seq(Lease)
      /\ \E w \in [1 .. Len(r) -> 1 .. Len(s)] :
           \A j \in DOMAIN w : r[j] \in kept /\ r[j] = s[w[j]]
  <2>1. /\ r \in Seq(Lease)
        /\ \E w \in [1 .. Len(r) -> 1 .. Len(s)] :
             /\ \A j \in DOMAIN w : r[j] \in kept /\ r[j] = s[w[j]]
             /\ \A i, j \in DOMAIN w : i # j => w[i] # w[j]
    BY <1>2, RetainKeeps
  <2>. HIDE DEF r
  <2>. QED  BY <2>1
<1>. HIDE DEF r
<1>5. 1 \in 1 .. Len(r)
  BY <1>3, <1>4
<1>6. PICK i \in 1 .. Len(s) : r[1] \in kept /\ r[1] = s[i]
  BY <1>4, <1>5
<1>7. m \/ s[i].for = a
  <2>1. i \in DOMAIN k.entries
    BY <1>2 DEF s
  <2>. HIDE DEF k
  <2>. QED  BY <1>1, <2>1 DEF CacheSound, s
<1>. QED  BY <1>3, <1>6, <1>7 DEF kept

LEMMA InsertOK ==
  ASSUME NEW a \in Accounts, NEW m \in BOOLEAN, NEW k, CacheSound(k, m), k.owner = a,
         NEW lease \in Lease, m \/ lease.for = a
  PROVE  CacheSound(Insert(k, a, lease), m)
<1>1. CASE ~Fresh(lease)
  BY <1>1 DEF Insert
<1>2. CASE Fresh(lease)
  <2>. DEFINE s == IF ScopeMatches(k, a) THEN k.entries ELSE << >>
              kept == {e \in Lease : Fresh(e) /\ e.loc # lease.loc}
              r == Retain(s, kept)
              all == <<lease>> \o r
              n == IF Len(all) < MaxEntries THEN Len(all) ELSE MaxEntries
              es == SubSeq(all, 1, n)
              new == Insert(k, a, lease)
  <2>1. /\ s \in Seq(Lease)
        /\ \A i, j \in 1 .. Len(s) : i # j => s[i].loc # s[j].loc
        /\ m \/ \A i \in 1 .. Len(s) : s[i].for = a
    <3>1. CASE ScopeMatches(k, a)
      <4>1. s = k.entries /\ k.entries \in Seq(Lease)
        BY <3>1 DEF CacheSound, Caches
      <4>2. DOMAIN k.entries = 1 .. Len(k.entries)
        BY <4>1
      <4>. HIDE DEF s
      <4>. QED  BY <4>1, <4>2 DEF CacheSound
    <3>2. CASE ~ScopeMatches(k, a)
      <4>1. s = << >>
        BY <3>2
      <4>. HIDE DEF s
      <4>. QED  BY <4>1
    <3>. QED  BY <3>1, <3>2
  <2>2. new = [ForSession(a) EXCEPT !.entries = es]
    BY <1>2 DEF Insert
  <2>. HIDE DEF s, kept
  <2>3. PICK w \in [1 .. Len(r) -> 1 .. Len(s)] :
             /\ \A j \in DOMAIN w : r[j] \in kept /\ r[j] = s[w[j]]
             /\ \A i, j \in DOMAIN w : i # j => w[i] # w[j]
    BY <2>1, RetainKeeps
  <2>4. r \in Seq(Lease)
    BY <2>1, RetainKeeps
  <2>. HIDE DEF r
  <2>5. \A i, j \in 1 .. Len(r) : /\ r[i] \in Lease /\ r[i].loc # lease.loc
                                  /\ i # j => r[i].loc # r[j].loc
    <3>. TAKE i, j \in 1 .. Len(r)
    <3>1. /\ r[i] \in kept /\ r[i] = s[w[i]] /\ r[j] = s[w[j]]
          /\ w[i] \in 1 .. Len(s) /\ w[j] \in 1 .. Len(s)
          /\ i # j => w[i] # w[j]
      BY <2>3
    <3>2. r[i] \in Lease /\ r[i].loc # lease.loc
      BY <3>1 DEF kept
    <3>3. i # j => r[i].loc # r[j].loc
      BY <2>1, <3>1
    <3>. QED  BY <3>2, <3>3
  <2>6. m \/ \A i \in 1 .. Len(r) : r[i].for = a
    <3>. SUFFICES ASSUME ~m, NEW i \in 1 .. Len(r) PROVE r[i].for = a
      OBVIOUS
    <3>1. r[i] = s[w[i]] /\ w[i] \in 1 .. Len(s)
      BY <2>3
    <3>. QED  BY <2>1, <3>1
  <2>7. /\ all \in Seq(Lease) /\ Len(all) = Len(r) + 1 /\ all[1] = lease
        /\ \A i \in 2 .. Len(all) : all[i] = r[i - 1] /\ i - 1 \in 1 .. Len(r)
    BY <2>4
  <2>. HIDE DEF all
  <2>8. \A i, j \in 1 .. Len(all) : i # j => all[i].loc # all[j].loc
    <3>. TAKE i, j \in 1 .. Len(all)
    <3>. SUFFICES ASSUME i # j PROVE all[i].loc # all[j].loc
      OBVIOUS
    <3>0. Len(all) \in Nat
      BY <2>7
    <3>1. CASE i = 1
      <4>1. j \in 2 .. Len(all)
        BY <3>0, <3>1
      <4>. QED  BY <2>5, <2>7, <3>1, <4>1
    <3>2. CASE j = 1
      <4>1. i \in 2 .. Len(all)
        BY <3>0, <3>2
      <4>. QED  BY <2>5, <2>7, <3>2, <4>1
    <3>3. CASE i # 1 /\ j # 1
      <4>1. i \in 2 .. Len(all) /\ j \in 2 .. Len(all)
        BY <3>0, <3>3
      <4>2. all[i] = r[i - 1] /\ all[j] = r[j - 1] /\ i - 1 # j - 1
            /\ i - 1 \in 1 .. Len(r) /\ j - 1 \in 1 .. Len(r)
        BY <2>7, <4>1
      <4>. QED  BY <2>5, <4>2
    <3>. QED  BY <3>1, <3>2, <3>3
  <2>9. m \/ \A i \in 1 .. Len(all) : all[i].for = a
    <3>. SUFFICES ASSUME ~m, NEW i \in 1 .. Len(all) PROVE all[i].for = a
      OBVIOUS
    <3>1. i = 1 \/ i \in 2 .. Len(all)
      BY <2>7
    <3>. QED  BY <2>6, <2>7, <3>1
  <2>10. n \in 1 .. Len(all) /\ n <= MaxEntries
    BY <2>4, <2>7, ConstantsAssumption
  <2>. HIDE DEF n
  <2>11. /\ es \in Seq(Lease) /\ Len(es) = n /\ DOMAIN es = 1 .. n
         /\ \A i \in 1 .. n : es[i] = all[i] /\ i \in 1 .. Len(all)
    BY <2>7, <2>10, SubSeqProperties
  <2>. HIDE DEF es, new
  <2>12. new \in Caches /\ new.entries = es /\ new.owner = a
    BY <2>2, <2>11 DEF ForSession, Caches
  <2>13. \A i, j \in DOMAIN es : i # j => es[i].loc # es[j].loc
    BY <2>8, <2>11, Zenon
  <2>14. m \/ \A i \in DOMAIN es : es[i].for = a
    BY <2>9, <2>11, Zenon
  <2>15. Len(es) <= MaxEntries
    BY <2>10, <2>11
  <2>16. CacheSound(new, m)
    BY <2>12, <2>13, <2>14, <2>15, Zenon DEF CacheSound
  <2>. QED  BY <2>16 DEF new
<1>. QED  BY <1>1, <1>2

\* the locations of a request: at most three
LEMMA LocationIdsOK ==
  ASSUME NEW request \in Seq(Locations \cup {Blank})
  PROVE  LocationIds(request) \in Seq(Locations) /\ Len(LocationIds(request)) <= 3
<1>. DEFINE T == {x \in Seq(Locations) : Len(x) <= 3}
            n == Len(request)
            new(ids, id) == IF id = Blank \/ Len(ids) = 3 \/ (\E i \in DOMAIN ids : ids[i] = id)
                            THEN ids ELSE Append(ids, id)
            G == [i \in 1 .. n |-> [x \in T |-> new(x, request[i])]]
            Turn(g, i) == IF i = 0 THEN << >> ELSE new(g[i - 1], request[i])
            Is(g) == g = [i \in 0 .. n |-> IF i = 0 THEN << >> ELSE new(g[i - 1], request[i])]
<1>1. n \in Nat /\ \A i \in 1 .. n : request[i] \in Locations \cup {Blank}
  OBVIOUS
<1>2. << >> \in T
  OBVIOUS
<1>3. \A x \in T, i \in 1 .. n : new(x, request[i]) \in T
  <2>. TAKE x \in T, i \in 1 .. n
  <2>0. x \in Seq(Locations) /\ Len(x) \in Nat /\ Len(x) <= 3
    OBVIOUS
  <2>1. CASE request[i] = Blank \/ Len(x) = 3 \/ (\E k \in DOMAIN x : x[k] = request[i])
    <3>1. new(x, request[i]) = x
      BY <2>1
    <3>. HIDE DEF new
    <3>. QED  BY <3>1
  <2>2. CASE ~(request[i] = Blank \/ Len(x) = 3 \/ (\E k \in DOMAIN x : x[k] = request[i]))
    <3>1. new(x, request[i]) = Append(x, request[i])
      BY <2>2
    <3>2. Append(x, request[i]) \in Seq(Locations) /\ Len(Append(x, request[i])) = Len(x) + 1
      BY <1>1, <2>0, <2>2
    <3>3. Len(x) # 3
      BY <2>2, Zenon
    <3>4. Len(x) + 1 <= 3
      <4>. DEFINE l == Len(x)
      <4>1. l \in Nat /\ l <= 3 /\ l # 3
        BY <2>0, <3>3
      <4>. HIDE DEF l
      <4>2. l + 1 <= 3
        BY <4>1
      <4>. QED  BY <4>2 DEF l
    <3>. HIDE DEF new
    <3>. QED  BY <3>1, <3>2, <3>4
  <2>. QED  BY <2>1, <2>2
<1>. HIDE DEF new
<1>4. G \in [1 .. n -> [T -> T]]
  <2>1. \A i \in 1 .. n : [x \in T |-> new(x, request[i])] \in [T -> T]
    <3>. HIDE DEF T
    <3>. QED  BY <1>3
  <2>. HIDE DEF T, n
  <2>. QED  BY <2>1
<1>5. PICK f \in [0 .. n -> T] : f[0] = << >> /\ \A i \in 1 .. n : f[i] = G[i][f[i - 1]]
  <2>. DEFINE base == << >>
  <2>1. \E f \in [0 .. n -> T] : f[0] = base /\ \A i \in 1 .. n : f[i] = G[i][f[i - 1]]
    <3>1. base \in T /\ n \in Nat
      BY <1>1, <1>2
    <3>. HIDE DEF base, G, n, T, Is, Turn
    <3>. QED  BY <1>4, <3>1, Iterated
  <2>. QED  BY <2>1, Zenon
<1>6. ASSUME NEW i \in 1 .. n PROVE f[i] = new(f[i - 1], request[i])
  <2>1. f[i - 1] \in T
    <3>1. i - 1 \in 0 .. n
      BY <1>1
    <3>. HIDE DEF T
    <3>. QED  BY <3>1
  <2>2. G[i][f[i - 1]] = new(f[i - 1], request[i])
    <3>1. G[i] = [x \in T |-> new(x, request[i])]
      BY Zenon
    <3>. HIDE DEF G, T
    <3>. QED  BY <2>1, <3>1
  <2>. HIDE DEF G
  <2>. QED  BY <1>5, <2>2
<1>7. Is(f)
  <2>1. f = [i \in 0 .. n |-> f[i]]
    <3>. HIDE DEF T
    <3>. QED  OBVIOUS
  <2>2. \A i \in 0 .. n : f[i] = Turn(f, i)
    <3>. TAKE i \in 0 .. n
    <3>1. CASE i = 0
      BY <1>5, <3>1
    <3>2. CASE i # 0
      <4>1. i \in 1 .. n
        BY <1>1, <3>2
      <4>. QED  BY <1>6, <3>2, <4>1
    <3>. QED  BY <3>1, <3>2
  <2>3. [i \in 0 .. n |-> f[i]] = [i \in 0 .. n |-> Turn(f, i)]
    <3>. HIDE DEF Turn
    <3>. QED  BY <2>2
  <2>. QED  BY <2>1, <2>3, Zenon
<1>. DEFINE h == CHOOSE g : Is(g)
<1>8. Is(h)
  <2>. HIDE DEF Is
  <2>. QED  BY <1>7
<1>9. LocationIds(request) = h[n]
  BY DEF LocationIds, new
<1>10. \A i \in 0 .. n : h[i] = Turn(h, i)
  <2>. HIDE DEF h, Turn
  <2>1. h = [i \in 0 .. n |-> Turn(h, i)]
    BY <1>8, Zenon DEF Turn
  <2>. QED  BY <2>1
<1>. HIDE DEF h
<1>. DEFINE S == {i \in Nat : i <= n => h[i] \in T}
<1>11. 0 \in S
  <2>1. 0 \in 0 .. n
    BY <1>1
  <2>2. h[0] = << >>
    BY <1>10, <2>1
  <2>. HIDE DEF T, n
  <2>. QED  BY <1>2, <2>2
<1>12. ASSUME NEW i \in Nat, i \in S PROVE i + 1 \in S
  <2>. SUFFICES ASSUME i + 1 <= n PROVE h[i + 1] \in T
    OBVIOUS
  <2>1. i + 1 \in 1 .. n /\ i + 1 \in 0 .. n /\ i + 1 # 0 /\ (i + 1) - 1 = i /\ i <= n
    BY <1>1
  <2>2. h[i + 1] = new(h[i], request[i + 1])
    BY <1>10, <2>1
  <2>3. h[i] \in T
    BY <1>12, <2>1
  <2>. HIDE DEF T, n
  <2>. QED  BY <1>3, <2>1, <2>2, <2>3
<1>. HIDE DEF S
<1>13. Nat \subseteq S
  BY <1>11, <1>12, Inductive
<1>14. h[n] \in T
  BY <1>1, <1>13 DEF S
<1>. QED  BY <1>9, <1>14

-----------------------------------------------------------------------------
(* The steps of a call keep the jobs right.                                  *)

Serving == {"bring_up", "bring_up_cached"}

\* a job that hands a lease to the connection: fresh, of the location being tried, its own
Serves(j) == j.pc \in Serving => /\ j.lease.exp > now /\ j.lease.loc = Head(j.ids)
                                 /\ hist'.mixed \/ j.lease.for = j.own

CallsGo ==
  /\ calls' \in [Calls -> JobType] /\ raced' \in BOOLEAN
  /\ \A d \in Calls : JobOK(calls'[d], hist'.mixed)
  /\ \A d \in Calls : calls'[d] # calls[d] => Serves(calls'[d])

\* where a call bears on the session in memory or on disk
Hot == {"load_set", "refresh", "store_memory", "delete_session", "invalidate_memory",
        "invalidate_keyring", "invalidate_dpapi"}

\* what is remembered of sign-outs and refusals stays, but for further refusals
HistKept ==
  /\ hist'.out = hist.out /\ hist'.behind = hist.behind /\ hist'.taken = hist.taken
  /\ hist.refused \subseteq hist'.refused

\* a step that takes no call there
CallsCalm == \A d \in Calls : calls'[d] # calls[d] => calls'[d].pc \notin Hot

LEMMA JobMono ==
  ASSUME NEW job, NEW m \in BOOLEAN, NEW n \in BOOLEAN, m => n, JobOK(job, m)
  PROVE  JobOK(job, n)
<1>1. ASSUME NEW k, CacheSound(k, m) PROVE CacheSound(k, n)
  BY <1>1 DEF CacheSound
<1>2. Carries(job, n)
  BY <1>1 DEF JobOK, Carries
<1>. QED  BY <1>2 DEF JobOK

LEMMA PutGoes ==
  ASSUME Jobs, hist' \in HistType, hist.mixed => hist'.mixed,
         NEW new \in [Calls -> JobType], Put(new),
         \A d \in Calls : new[d] = calls[d] \/ (JobOK(new[d], hist'.mixed) /\ Serves(new[d]))
  PROVE  CallsGo
<1>1. hist.mixed \in BOOLEAN /\ hist'.mixed \in BOOLEAN
  BY DEF HistType, Jobs
<1>2. calls' = new /\ raced' \in BOOLEAN
  <2>1. raced \in BOOLEAN
    BY DEF Jobs
  <2>. QED  BY <2>1, Zenon DEF Put, Overlap
<1>3. ASSUME NEW d \in Calls PROVE JobOK(new[d], hist'.mixed)
  <2>1. CASE new[d] = calls[d]
    <3>1. JobOK(calls[d], hist.mixed)
      BY DEF Jobs
    <3>. QED  BY <1>1, <2>1, <3>1, JobMono
  <2>. QED  BY <2>1
<1>. QED  BY <1>2, <1>3 DEF CallsGo

LEMMA SetGoes ==
  ASSUME Jobs, hist' \in HistType, hist.mixed => hist'.mixed,
         NEW c \in Calls, NEW j, JobOK(j, hist'.mixed), Serves(j), Set(c, j)
  PROVE  CallsGo
<1>. DEFINE new == [calls EXCEPT ![c] = j]
<1>1. calls \in [Calls -> JobType] /\ j \in JobType
  BY DEF Jobs, JobOK
<1>2. new \in [Calls -> JobType] /\ Put(new)
  BY <1>1 DEF Set
<1>3. \A d \in Calls : new[d] = IF d = c THEN j ELSE calls[d]
  BY <1>1
<1>. HIDE DEF new
<1>4. \A d \in Calls : new[d] = calls[d] \/ (JobOK(new[d], hist'.mixed) /\ Serves(new[d]))
  BY <1>3
<1>. QED  BY <1>2, <1>4, PutGoes

LEMMA SetCalm ==
  ASSUME Jobs, NEW c \in Calls, NEW j, j.pc \notin Hot, Set(c, j) PROVE CallsCalm
<1>1. calls \in [Calls -> JobType]
  BY DEF Jobs
<1>2. \A d \in Calls : calls'[d] = IF d = c THEN j ELSE calls[d]
  BY <1>1 DEF Set, Put
<1>. QED  BY <1>2 DEF CallsCalm

LEMMA SpawnCalm ==
  ASSUME Jobs, NEW c \in Calls, NEW j, j.pc \notin Hot, NEW task, task.pc \notin Hot,
         Spawn(c, j, task)
  PROVE  CallsCalm
<1>1. CASE Free = {}
  <2>1. Set(c, j)
    BY <1>1 DEF Spawn
  <2>. QED  BY <2>1, SetCalm
<1>2. CASE Free # {}
  <2>. DEFINE f == CHOOSE d \in Free : TRUE
  <2>1. calls' = [calls EXCEPT ![c] = j, ![f] = task]
    BY <1>2 DEF Spawn, Put
  <2>2. f \in Calls
    BY <1>2 DEF Free
  <2>. HIDE DEF f
  <2>3. calls \in [Calls -> JobType]
    BY DEF Jobs
  <2>4. \A d \in Calls : calls'[d] \in {calls[d], j, task}
    BY <2>1, <2>2, <2>3
  <2>. QED  BY <2>4 DEF CallsCalm
<1>. QED  BY <1>1, <1>2

LEMMA SpawnGoes ==
  ASSUME Jobs, hist' = hist,
         NEW c \in Calls, NEW j, JobOK(j, hist.mixed), Serves(j),
         NEW task, JobOK(task, hist.mixed), Serves(task), Spawn(c, j, task)
  PROVE  CallsGo
<1>0. hist' \in HistType /\ hist'.mixed = hist.mixed
  BY DEF Jobs
<1>1. CASE Free = {}
  <2>1. Set(c, j)
    BY <1>1 DEF Spawn
  <2>. QED  BY <1>0, <2>1, SetGoes
<1>2. CASE Free # {}
  <2>. DEFINE f == CHOOSE d \in Free : TRUE
              new == [calls EXCEPT ![c] = j, ![f] = task]
  <2>1. Put(new)
    BY <1>2 DEF Spawn
  <2>2. f \in Calls
    BY <1>2 DEF Free
  <2>. HIDE DEF f
  <2>3. calls \in [Calls -> JobType] /\ j \in JobType /\ task \in JobType
    BY DEF Jobs, JobOK
  <2>4. new \in [Calls -> JobType]
    BY <2>2, <2>3
  <2>5. \A d \in Calls : new[d] \in {calls[d], j, task}
    BY <2>2, <2>3
  <2>. HIDE DEF new
  <2>6. \A d \in Calls : new[d] = calls[d] \/ (JobOK(new[d], hist'.mixed) /\ Serves(new[d]))
    BY <1>0, <2>5
  <2>. QED  BY <1>0, <2>1, <2>4, <2>6, PutGoes
<1>. QED  BY <1>1, <1>2

\* what a step leaves of the variables other than the calls
Vars ==
  /\ windows \in BOOLEAN /\ now \in 0 .. MaxNow
  /\ left \in [trouble : 0 .. MaxTrouble, commands : 0 .. MaxCommands]
  /\ memory \in Session \cup {None}
  /\ disk \in [keyring : Texts, dpapi : Texts]
  /\ server \in [good : SUBSET Pairs, next : 1 .. MaxPairs + 1]
  /\ \A p \in server.good : p < server.next
  /\ hist \in HistType
  /\ cache # None => CacheSound(cache, hist.mixed)

LEMMA JobsAre == Jobs => /\ Vars /\ raced \in BOOLEAN /\ calls \in [Calls -> JobType]
                         /\ \A c \in Calls : JobOK(calls[c], hist.mixed)
                         /\ hist.mixed \in BOOLEAN
BY DEF HistType, Jobs, Vars

LEMMA JobsGo == Vars' /\ CallsGo => Jobs'
BY DEF Jobs, Vars, CallsGo

LEMMA JobsStill ==
  Jobs /\ UNCHANGED <<windows, memory, disk, cache, now, server, left, hist>> => Vars'
BY DEF Jobs, Vars

LEMMA CallsUnchanged ==
  ASSUME Jobs, UNCHANGED <<calls, raced, hist>> PROVE CallsGo
BY DEF Jobs, CallsGo

LEMMA IdleServes == Serves(Idle) /\ Idle.pc = "idle"
BY DEF Serves, Serving, Idle

\* the job a command begins with
LEMMA BeginOK ==
  ASSUME NEW op \in Commands, NEW m \in BOOLEAN, NEW request \in Seq(Locations),
         Len(request) <= 3, op = "refresh_cached" => request = << >>,
         op = "ping" => request # << >>,
         NEW job, job = [Idle EXCEPT !.op = op, !.ids = request, !.pc = "load", !.back = "command"],
         NEW j, j = (CASE op = "sign_in" -> [job EXCEPT !.pc = "exchange"]
                       [] op = "refresh" -> Refresh(job)
                       [] op \in {"request", "logout"} -> Authorize(job)
                       [] OTHER -> job)
  PROVE  JobOK(j, m) /\ j.pc \in {"load", "exchange"}
<1>1. Idle \in JobType /\ Idle.lease = None
  BY IdleOK DEF JobOK, Idle
<1>2. job \in JobType
  <2>1. "load" \in Pcs /\ op \in Commands \cup {"none", "background"}
    BY DEF Pcs, Loading
  <2>. HIDE DEF Idle
  <2>. QED  BY <1>1, <2>1, ZenonT(60) DEF JobType
<1>3. /\ job.op = op /\ job.ids = request /\ job.pc = "load" /\ job.back = "command"
      /\ job.lease = None
  BY <1>1 DEF JobType
<1>4. Len(request) <= (IF op = "refresh_cached" THEN MaxEntries ELSE 3)
  <2>1. op = "refresh_cached" => Len(request) = 0
    OBVIOUS
  <2>. QED  BY <2>1, ConstantsAssumption
<1>5. CASE op = "sign_in"
  <2>1. j = [job EXCEPT !.pc = "exchange"]
    BY <1>5
  <2>2. "exchange" \in Pcs
    BY DEF Pcs, Changing
  <2>3. j \in JobType
    BY <1>2, <2>1, <2>2 DEF JobType
  <2>4. /\ j.op = op /\ j.ids = request /\ j.pc = "exchange" /\ j.back = "command"
        /\ j.lease = None
    BY <1>2, <1>3, <2>1, ZenonT(60) DEF JobType
  <2>. QED  BY <1>4, <1>5, <2>3, <2>4
            DEF JobOK, Returns, Carries, Loading, Leased, Leasing, Deleting, Invalidating
<1>6. CASE op = "refresh"
  <2>1. j = Refresh(job)
    BY <1>6
  <2>2. Going(job, m)
    BY <1>2, <1>3, <1>4, <1>6 DEF Going, Has, Leasing
  <2>. QED  BY <2>1, <2>2, RefreshOK
<1>7. CASE op \in {"request", "logout"}
  <2>1. j = Authorize(job)
    BY <1>7
  <2>. QED  BY <1>2, <1>3, <1>4, <1>7, <2>1, AuthorizeOK DEF Leasing
<1>8. CASE op \in {"status", "connect", "ping", "refresh_cached"}
  <2>1. j = job
    BY <1>8
  <2>. QED  BY <1>2, <1>3, <1>4, <1>8, <2>1
            DEF JobOK, Returns, Carries, Loading, Leased, Deleting, Invalidating
<1>. QED  BY <1>5, <1>6, <1>7, <1>8 DEF Commands

LEMMA BeginGoes ==
  ASSUME Jobs, NEW c \in Calls, NEW op \in Ops, Begin(c, op) PROVE Vars' /\ CallsGo /\ CallsCalm
<1>. DEFINE m == hist.mixed
            Asked == CASE op = "connect" -> {LocationIds(q) : q \in Requests}
                       [] op = "ping" -> {<<l>> : l \in Locations}
                       [] OTHER -> {<< >>}
            job(r) == [Idle EXCEPT !.op = op, !.ids = r, !.pc = "load", !.back = "command"]
            first(r) == CASE op = "sign_in" -> [job(r) EXCEPT !.pc = "exchange"]
                          [] op = "refresh" -> Refresh(job(r))
                          [] op \in {"request", "logout"} -> Authorize(job(r))
                          [] OTHER -> job(r)
<1>1. PICK request \in Asked : Set(c, first(request))
  BY Zenon DEF Begin
<1>2. /\ request \in Seq(Locations) /\ Len(request) <= 3
      /\ op = "refresh_cached" => request = << >>
      /\ op = "ping" => request # << >>
  <2>1. CASE op = "connect"
    <3>1. PICK q \in Requests : request = LocationIds(q)
      BY <1>1, <2>1
    <3>2. q \in Seq(Locations \cup {Blank})
      BY ConstantsAssumption
    <3>. QED  BY <2>1, <3>1, <3>2, LocationIdsOK
  <2>2. CASE op = "ping"
    <3>1. PICK l \in Locations : request = <<l>>
      BY <1>1, <2>2
    <3>. QED  BY <2>2, <3>1
  <2>3. CASE op # "connect" /\ op # "ping"
    <3>1. request = << >>
      BY <1>1, <2>3
    <3>. QED  BY <2>3, <3>1
  <2>. QED  BY <2>1, <2>2, <2>3
<1>3. op \in Commands /\ m \in BOOLEAN
  BY ConstantsAssumption, JobsAre
<1>4. JobOK(first(request), m) /\ first(request).pc \in {"load", "exchange"}
  <2>. DEFINE b == job(request)
              j == first(request)
  <2>1. /\ b = [Idle EXCEPT !.op = op, !.ids = request, !.pc = "load", !.back = "command"]
        /\ j = (CASE op = "sign_in" -> [b EXCEPT !.pc = "exchange"]
                  [] op = "refresh" -> Refresh(b)
                  [] op \in {"request", "logout"} -> Authorize(b)
                  [] OTHER -> b)
    OBVIOUS
  <2>2. JobOK(j, m) /\ j.pc \in {"load", "exchange"}
    <3>. HIDE DEF b, j, m
    <3>. QED  BY <1>2, <1>3, <2>1, BeginOK
  <2>. QED  BY <2>2
<1>5. hist' = hist /\ Vars'
  <2>1. left' \in [trouble : 0 .. MaxTrouble, commands : 0 .. MaxCommands]
    <3>1. left \in [trouble : 0 .. MaxTrouble, commands : 0 .. MaxCommands]
      BY DEF Jobs
    <3>2. left.commands > 0 /\ left' = [left EXCEPT !.commands = @ - 1]
      BY DEF Begin
    <3>. QED  BY <3>1, <3>2, ConstantsAssumption
  <2>2. UNCHANGED <<windows, memory, disk, cache, now, server, hist>>
    BY DEF Begin
  <2>. QED  BY <2>1, <2>2 DEF Jobs, Vars
<1>6. CallsGo /\ CallsCalm
  <2>. DEFINE j == first(request)
  <2>1. JobOK(j, hist'.mixed) /\ Set(c, j) /\ Serves(j) /\ j.pc \notin Hot
    <3>. HIDE DEF first
    <3>. QED  BY <1>1, <1>4, <1>5 DEF Serves, Serving, Hot
  <2>2. hist' \in HistType /\ (hist.mixed => hist'.mixed)
    BY <1>5 DEF Jobs
  <2>. HIDE DEF j
  <2>. QED  BY <1>5, <2>1, <2>2, SetGoes, SetCalm
<1>. QED  BY <1>5, <1>6

\* a step of c that changes nothing but its job
LEMMA JobGoes ==
  ASSUME Jobs, NEW c \in Calls, NEW j, JobOK(j, hist.mixed), j.pc \notin Serving \cup Hot,
         Set(c, j), UNCHANGED <<windows, memory, disk, cache, now, server, left, hist>>
  PROVE  Vars' /\ CallsGo /\ CallsCalm
<1>1. Vars'
  BY JobsStill
<1>2. hist' \in HistType /\ hist'.mixed = hist.mixed
  BY DEF Jobs
<1>3. CallsGo
  BY <1>2, SetGoes DEF Serves
<1>. QED  BY <1>1, <1>3, SetCalm

\* a step of c that may change the variables besides
LEMMA MoveGoes ==
  ASSUME Jobs, NEW c \in Calls, NEW j, JobOK(j, hist.mixed), j.pc \notin Serving, Set(c, j),
         hist' \in HistType, hist'.mixed = hist.mixed
  PROVE  CallsGo
BY SetGoes DEF Serves

LEMMA CallOK ==
  ASSUME Jobs, NEW c \in Calls
  PROVE  /\ calls[c] \in JobType /\ Returns(calls[c]) /\ Carries(calls[c], hist.mixed)
         /\ hist.mixed \in BOOLEAN
         /\ cache # None => cache \in Caches /\ Len(cache.entries) <= MaxEntries
BY DEF HistType, Jobs, JobOK, CacheSound

LEMMA LoadGoes ==
  ASSUME Jobs, NEW c \in Calls, Load(c) PROVE Vars' /\ CallsGo
<1>. DEFINE job == calls[c]
            m == hist.mixed
<1>1. /\ job \in JobType /\ Returns(job) /\ Carries(job, m) /\ m \in BOOLEAN
      /\ cache # None => cache \in Caches /\ Len(cache.entries) <= MaxEntries
  BY CallOK
<1>2. job.pc = "load" /\ UNCHANGED <<windows, memory, disk, cache, now, server, left, hist>>
  BY DEF Load, At
<1>5. Vars'
  BY <1>2, JobsStill
<1>6. hist' \in HistType /\ hist'.mixed = hist.mixed
  BY <1>2 DEF Jobs
<1>. HIDE DEF job, m
<1>3. CASE memory # None
  <2>. DEFINE j == Loaded(job, memory)
  <2>1. Set(c, j)
    BY <1>3 DEF Load, job
  <2>2. Loaden(job, m)
    BY <1>1, <1>2 DEF Loaden, Has, Returns, Carries, Loading, JobType
  <2>3. memory \in Session \cup {None}
    BY DEF Jobs
  <2>4. JobOK(j, m) /\ j.pc \notin Serving
    <3>1. JobOK(j, m) /\ j.pc \in {"idle", "send", "load", "refresh", "exchange", "location",
                                   "delete_memory"}
      BY <1>1, <2>2, <2>3, LoadedOK
    <3>. QED  BY <3>1 DEF Serving
  <2>. HIDE DEF j
  <2>. QED  BY <1>5, <1>6, <2>1, <2>4, MoveGoes DEF m
<1>4. CASE memory = None
  <2>. DEFINE j == [job EXCEPT !.pc = "load_disk"]
  <2>1. Set(c, j)
    BY <1>4 DEF Load, To, job
  <2>2. j \in JobType
    <3>1. "load_disk" \in Pcs
      BY DEF Pcs, Loading
    <3>. QED  BY <1>1, <3>1 DEF JobType
  <2>3. /\ j.pc = "load_disk" /\ j.op = job.op /\ j.back = job.back /\ j.own = job.own
        /\ j.ids = job.ids /\ j.lease = job.lease
    BY <1>1 DEF JobType
  <2>. HIDE DEF j
  <2>4. JobOK(j, m)
    BY <1>1, <1>2, <2>2, <2>3
       DEF JobOK, Returns, Carries, Loading, Leased, Deleting, Invalidating
  <2>. QED  BY <1>5, <1>6, <2>1, <2>3, <2>4, MoveGoes DEF m, Serving
<1>. QED  BY <1>3, <1>4

LEMMA ReadableOK ==
  ASSUME disk \in [keyring : Texts, dpapi : Texts]
  PROVE  /\ Readable \in Session \cup {None}
         /\ Readable # None => Readable.access = FALSE
<1>1. PICK text \in Texts : Readable = Decode(text)
  <2>1. disk.keyring \in Texts /\ disk.dpapi \in Texts
    OBVIOUS
  <2>2. CASE disk.keyring # None \/ ~windows
    BY <2>1, <2>2 DEF Readable
  <2>3. CASE ~(disk.keyring # None \/ ~windows)
    BY <2>1, <2>3 DEF Readable
  <2>. QED  BY <2>2, <2>3
<1>2. CASE text \in {None, Tombstone}
  BY <1>1, <1>2 DEF Decode
<1>3. CASE text \notin {None, Tombstone}
  <2>1. text \in Stored
    BY <1>3 DEF Texts
  <2>2. text.account \in Accounts /\ text.pair \in Pairs
    BY <2>1 DEF Stored
  <2>3. Readable = [account |-> text.account, pair |-> text.pair, access |-> FALSE]
    BY <1>1, <1>3 DEF Decode
  <2>. HIDE DEF Readable
  <2>. QED  BY <2>2, <2>3 DEF Session
<1>. QED  BY <1>2, <1>3

LEMMA LoadDiskGoes ==
  ASSUME Jobs, NEW c \in Calls, LoadDisk(c) PROVE Vars' /\ CallsGo
<1>. DEFINE job == calls[c]
            m == hist.mixed
<1>1. /\ job \in JobType /\ Returns(job) /\ Carries(job, m) /\ m \in BOOLEAN
      /\ cache # None => cache \in Caches /\ Len(cache.entries) <= MaxEntries
  BY CallOK
<1>2. job.pc = "load_disk" /\ UNCHANGED <<windows, memory, cache, now, server, left, hist>>
  BY DEF LoadDisk, At
<1>3. disk \in [keyring : Texts, dpapi : Texts]
  BY DEF Jobs
<1>4. disk' \in [keyring : Texts, dpapi : Texts]
  <2>1. disk' = (IF disk.keyring = None THEN [disk EXCEPT !.keyring = disk.dpapi] ELSE disk)
    BY DEF LoadDisk
  <2>. QED  BY <1>3, <2>1
<1>5. Vars'
  BY <1>2, <1>4 DEF Jobs, Vars
<1>. HIDE DEF job, m
<1>6. ASSUME NEW j, JobOK(j, m), j.pc \notin Serving, Set(c, j) PROVE CallsGo
  <2>1. hist' \in HistType /\ hist'.mixed = hist.mixed
    BY <1>2 DEF Jobs
  <2>. QED  BY <1>6, <2>1, SetGoes DEF Serves, m
<1>7. CASE Readable = None
  <2>. DEFINE s == None
              j == Loaded(job, s)
  <2>1. Set(c, j)
    BY <1>7 DEF LoadDisk, job
  <2>2. Loaden(job, m)
    BY <1>1, <1>2 DEF Loaden, Has, Returns, Carries, Loading, JobType
  <2>3. s \in Session \cup {None}
    OBVIOUS
  <2>. HIDE DEF s
  <2>4. JobOK(j, m) /\ j.pc \notin Serving
    <3>1. JobOK(j, m) /\ j.pc \in {"idle", "send", "load", "refresh", "exchange", "location",
                                   "delete_memory"}
      BY <1>1, <2>2, <2>3, LoadedOK
    <3>. QED  BY <3>1 DEF Serving
  <2>. HIDE DEF j
  <2>. QED  BY <1>5, <1>6, <2>1, <2>4
<1>8. CASE Readable # None
  <2>. DEFINE j == [job EXCEPT !.pc = "load_set", !.value = Readable]
  <2>1. Set(c, j)
    BY <1>8 DEF LoadDisk, job
  <2>2. /\ Readable \in Session \cup {None}
        /\ Readable.access = FALSE
    BY <1>3, <1>8, ReadableOK
  <2>. HIDE DEF Readable
  <2>3. j \in JobType
    <3>1. "load_set" \in Pcs
      BY DEF Pcs, Loading
    <3>. QED  BY <1>1, <2>2, <3>1 DEF JobType
  <2>4. /\ j.pc = "load_set" /\ j.value = Readable /\ j.op = job.op /\ j.back = job.back
        /\ j.own = job.own /\ j.ids = job.ids /\ j.lease = job.lease
    BY <1>1 DEF JobType
  <2>. HIDE DEF j
  <2>5. JobOK(j, m)
    BY <1>1, <1>2, <1>8, <2>2, <2>3, <2>4
       DEF JobOK, Returns, Carries, Loading, Leased, Deleting, Invalidating
  <2>. QED  BY <1>5, <1>6, <2>1, <2>4, <2>5 DEF Serving
<1>. QED  BY <1>7, <1>8

LEMMA LoadSetGoes ==
  ASSUME Jobs, NEW c \in Calls, LoadSet(c) PROVE Vars' /\ CallsGo
<1>. DEFINE job == calls[c]
            m == hist.mixed
            s == job.value
            b == [job EXCEPT !.value = None]
            j == Loaded(b, s)
<1>1. /\ job \in JobType /\ Returns(job) /\ Carries(job, m) /\ m \in BOOLEAN
      /\ cache # None => cache \in Caches /\ Len(cache.entries) <= MaxEntries
  BY CallOK
<1>2. /\ job.pc = "load_set" /\ UNCHANGED <<windows, cache, now, server, left>>
      /\ memory' = s /\ Set(c, j)
      /\ disk' = IF s.access THEN [disk EXCEPT !.keyring = Encode(s)] ELSE disk
  BY DEF LoadSet, At
<1>. HIDE DEF job, m
<1>3. s \in Session \cup {None} /\ s # None /\ s.access = FALSE
  BY <1>1, <1>2 DEF JobType, Carries
<1>8. hist' \in HistType /\ hist'.mixed = hist.mixed
  <2>. DEFINE no == FALSE
  <2>1. no \in BOOLEAN /\ hist' = [hist EXCEPT !.behind = no]
    BY DEF LoadSet
  <2>. HIDE DEF no
  <2>. QED  BY <2>1 DEF Jobs, HistType
<1>4. Vars'
  <2>1. disk' = disk
    BY <1>2, <1>3
  <2>. HIDE DEF s
  <2>. QED  BY <1>2, <1>3, <1>8, <2>1 DEF Jobs, Vars
<1>5. /\ b \in JobType /\ b.op = job.op /\ b.back = job.back /\ b.own = job.own
      /\ b.ids = job.ids /\ b.lease = job.lease
  BY <1>1 DEF JobType
<1>. HIDE DEF s, b
<1>6. Loaden(b, m)
  BY <1>1, <1>2, <1>5 DEF Loaden, Has, Returns, Carries, Loading, JobType
<1>7. JobOK(j, m) /\ j.pc \notin Serving
  <2>1. JobOK(j, m) /\ j.pc \in {"idle", "send", "load", "refresh", "exchange", "location",
                                 "delete_memory"}
    BY <1>1, <1>3, <1>6, LoadedOK
  <2>. QED  BY <2>1 DEF Serving
<1>. HIDE DEF j
<1>9. CallsGo
  BY <1>2, <1>7, <1>8, SetGoes DEF Serves, m
<1>. QED  BY <1>4, <1>9

LEMMA PcFields ==
  ASSUME NEW job \in JobType, NEW pc \in Pcs, NEW j, j = [job EXCEPT !.pc = pc]
  PROVE  /\ j \in JobType /\ j.pc = pc /\ j.op = job.op /\ j.back = job.back /\ j.own = job.own
         /\ j.with = job.with /\ j.value = job.value /\ j.ids = job.ids /\ j.lease = job.lease
         /\ j.read = job.read
<1>1. j \in JobType
  BY DEF JobType
<1>. QED  BY <1>1 DEF JobType

LEMMA GoingOn ==
  ASSUME NEW job \in JobType, NEW m, Returns(job), Carries(job, m),
         job.back \in {"auth", "refresh"}
  PROVE  Going(job, m)
BY DEF Going, Has, Returns, Carries

LEMMA SpendOK ==
  ASSUME Jobs, NEW n \in Nat, Spend(n)
  PROVE  left' \in [trouble : 0 .. MaxTrouble, commands : 0 .. MaxCommands]
<1>1. left \in [trouble : 0 .. MaxTrouble, commands : 0 .. MaxCommands]
  BY DEF Jobs
<1>2. left.trouble >= n /\ left' = [left EXCEPT !.trouble = @ - n]
  BY DEF Spend
<1>. QED  BY <1>1, <1>2, ConstantsAssumption

LEMMA TryOK ==
  ASSUME Jobs, NEW fails, Try(fails)
  PROVE  left' \in [trouble : 0 .. MaxTrouble, commands : 0 .. MaxCommands]
<1>. DEFINE n == IF fails = {} THEN 0 ELSE 1
<1>1. n \in Nat /\ Spend(n)
  BY DEF Try
<1>. HIDE DEF n
<1>. QED  BY <1>1, SpendOK

LEMMA EncodeOK ==
  ASSUME NEW s \in Session
  PROVE  /\ Encode(s) \in Texts /\ Encode(s) \notin {None, Tombstone}
         /\ Encode(s).account = s.account /\ Encode(s).pair = s.pair
<1>1. Encode(s) \in Stored
  BY DEF Encode, Session, Stored
<1>. QED  BY <1>1, ConstantsAssumption DEF Encode, Texts

LEMMA ExchangeGoes ==
  ASSUME Jobs, NEW c \in Calls, Exchange(c) PROVE Vars' /\ CallsGo /\ CallsCalm
<1>. DEFINE job == calls[c]
            m == hist.mixed
<1>1. job \in JobType /\ Returns(job) /\ Carries(job, m) /\ m \in BOOLEAN
  BY CallOK
<1>2. job.pc = "exchange" /\ UNCHANGED <<windows, memory, disk, cache, now, left, hist>>
  BY DEF Exchange, At
<1>. HIDE DEF job, m
<1>3. hist' \in HistType /\ hist'.mixed = m
  BY <1>2 DEF Jobs, m
<1>4. CASE Set(c, Idle) /\ UNCHANGED server
  BY <1>1, <1>2, <1>4, IdleOK, IdleServes, JobGoes DEF m, Serving, Hot
<1>5. ASSUME NEW a \in Accounts, Issue({}),
             Set(c, [job EXCEPT !.pc = "store",
                     !.value = [account |-> a, pair |-> server.next, access |-> TRUE]])
      PROVE  Vars' /\ CallsGo /\ CallsCalm
  <2>. DEFINE s == [account |-> a, pair |-> server.next, access |-> TRUE]
              j == [job EXCEPT !.pc = "store", !.value = s]
  <2>0. /\ server.next <= MaxPairs
        /\ server' = [good |-> (server.good \ {}) \cup {server.next}, next |-> server.next + 1]
    BY <1>5 DEF Issue
  <2>1. s \in Session
    BY <2>0, ConstantsAssumption DEF Jobs, Session, Pairs
  <2>. HIDE DEF s
  <2>2. s # None
    BY <2>1, ConstantsAssumption
  <2>3. j \in JobType
    <3>1. "store" \in Pcs
      BY DEF Pcs, Changing
    <3>. QED  BY <1>1, <2>1, <3>1 DEF JobType
  <2>4. /\ j.pc = "store" /\ j.value = s /\ j.op = job.op /\ j.back = job.back
        /\ j.own = job.own /\ j.ids = job.ids /\ j.lease = job.lease
    BY <1>1 DEF JobType
  <2>5. Set(c, j)
    BY <1>5 DEF s
  <2>. HIDE DEF j
  <2>6. JobOK(j, m)
    BY <1>1, <1>2, <2>2, <2>3, <2>4
       DEF JobOK, Returns, Carries, Loading, Leased, Deleting, Invalidating
  <2>7. CallsGo /\ CallsCalm
    <3>1. Serves(j) /\ j.pc \notin Hot
      BY <2>4 DEF Serves, Serving, Hot
    <3>. QED  BY <1>3, <2>5, <2>6, <3>1, SetGoes, SetCalm DEF m
  <2>8. Vars'
    <3>1. /\ server' \in [good : SUBSET Pairs, next : 1 .. MaxPairs + 1]
          /\ \A p \in server'.good : p < server'.next
      BY <2>0, ConstantsAssumption DEF Jobs, Pairs
    <3>. QED  BY <1>2, <3>1 DEF Jobs, Vars
  <2>. QED  BY <2>7, <2>8
<1>. QED  BY <1>2, <1>4, <1>5 DEF Exchange, job

LEMMA SendRefreshGoes ==
  ASSUME Jobs, NEW c \in Calls, SendRefresh(c) PROVE Vars' /\ CallsGo
<1>. DEFINE job == calls[c]
            m == hist.mixed
            s == job.with
            taken == s.pair \in server.good
<1>1. job \in JobType /\ Returns(job) /\ Carries(job, m) /\ m \in BOOLEAN
  BY CallOK
<1>2. job.pc = "refresh" /\ UNCHANGED <<windows, memory, disk, cache, now>>
  BY DEF SendRefresh, At
<1>3. \/ /\ Issue({s.pair})
         /\ Set(c, [job EXCEPT !.pc = "store",
                   !.value = [s EXCEPT !.pair = server.next, !.access = TRUE]])
         /\ UNCHANGED left
      \/ /\ Issue({s.pair}) /\ Spend(1)
         /\ \/ Set(c, [job EXCEPT !.again = TRUE])
            \/ Set(c, RefreshFailed(job))
      \/ \E status \in {"unavailable", "unauthorized"} :
           /\ Set(c, IF FatalRefresh(status) THEN [job EXCEPT !.pc = "invalidate_memory"]
                     ELSE RefreshFailed(job))
           /\ UNCHANGED <<server, left>>
  BY Zenon DEF SendRefresh
<1>. HIDE DEF job, m
<1>5. s \in Session /\ job.back = "refresh" /\ Going(job, m)
  <2>1. s \in Session /\ job.back = "refresh"
    BY <1>1, <1>2 DEF JobType, Returns, Carries
  <2>. QED  BY <1>1, <2>1, GoingOn
<1>4. hist' \in HistType /\ hist'.mixed = m
  <2>1. hist' = hist \/ hist' = [hist EXCEPT !.refused = @ \cup {s.pair}]
    BY Zenon DEF SendRefresh, job
  <2>2. s.pair \in Pairs
    BY <1>5, SessionFields
  <2>. HIDE DEF s
  <2>. QED  BY <2>1, <2>2 DEF Jobs, HistType, m
<1>6. ASSUME NEW j, JobOK(j, m), j.pc \notin Serving, Set(c, j) PROVE CallsGo
  BY <1>4, <1>6, SetGoes DEF Serves, m
<1>7. ASSUME Issue({s.pair}), left' \in [trouble : 0 .. MaxTrouble, commands : 0 .. MaxCommands]
      PROVE  Vars'
  <2>0. /\ server.next <= MaxPairs
        /\ server' = [good |-> (server.good \ {s.pair}) \cup {server.next},
                      next |-> server.next + 1]
    BY <1>7 DEF Issue
  <2>1. /\ server' \in [good : SUBSET Pairs, next : 1 .. MaxPairs + 1]
        /\ \A p \in server'.good : p < server'.next
    <3>. HIDE DEF s
    <3>. QED  BY <2>0, ConstantsAssumption DEF Jobs, Pairs
  <2>. QED  BY <1>2, <1>4, <1>7, <2>1 DEF Jobs, Vars, m
<1>8. JobOK(RefreshFailed(job), m) /\ RefreshFailed(job).pc \notin Serving
  <2>. DEFINE j == RefreshFailed(job)
  <2>1. JobOK(j, m) /\ j.pc \in {"idle", "location", "delete_memory"}
    BY <1>1, <1>5, RefreshFailedOK
  <2>. HIDE DEF j
  <2>2. j.pc \notin Serving
    BY <2>1 DEF Serving
  <2>. QED  BY <2>1, <2>2 DEF j
<1>9. CASE /\ Issue({s.pair})
           /\ Set(c, [job EXCEPT !.pc = "store",
                     !.value = [s EXCEPT !.pair = server.next, !.access = TRUE]])
           /\ UNCHANGED left
  <2>. DEFINE t == [s EXCEPT !.pair = server.next, !.access = TRUE]
              j == [job EXCEPT !.pc = "store", !.value = t]
  <2>1. server.next \in Pairs
    BY <1>9, ConstantsAssumption DEF Issue, Jobs, Pairs
  <2>2. t \in Session
    <3>. HIDE DEF s
    <3>. QED  BY <1>5, <2>1 DEF Session
  <2>3. t # None
    BY <2>2, ConstantsAssumption
  <2>4. Set(c, j)
    BY <1>9
  <2>. HIDE DEF s, t
  <2>5. j \in JobType
    <3>1. "store" \in Pcs
      BY DEF Pcs, Changing
    <3>. QED  BY <1>1, <2>2, <3>1 DEF JobType
  <2>6. /\ j.pc = "store" /\ j.value = t /\ j.op = job.op /\ j.back = job.back
        /\ j.own = job.own /\ j.ids = job.ids /\ j.lease = job.lease
    BY <1>1 DEF JobType
  <2>. HIDE DEF j
  <2>7. JobOK(j, m)
    BY <1>1, <1>2, <1>5, <2>3, <2>5, <2>6
       DEF JobOK, Returns, Carries, Loading, Leased, Deleting, Invalidating
  <2>8. CallsGo
    BY <1>6, <2>4, <2>6, <2>7 DEF Serving
  <2>9. Vars'
    <3>1. left' \in [trouble : 0 .. MaxTrouble, commands : 0 .. MaxCommands]
      BY <1>9 DEF Jobs
    <3>. QED  BY <1>7, <1>9, <3>1
  <2>. QED  BY <2>8, <2>9
<1>10. CASE /\ Issue({s.pair}) /\ Spend(1)
            /\ \/ Set(c, [job EXCEPT !.again = TRUE])
               \/ Set(c, RefreshFailed(job))
  <2>1. Vars'
    <3>1. left' \in [trouble : 0 .. MaxTrouble, commands : 0 .. MaxCommands]
      BY <1>10, SpendOK
    <3>. QED  BY <1>7, <1>10, <3>1
  <2>2. CASE Set(c, [job EXCEPT !.again = TRUE])
    <3>. DEFINE j == [job EXCEPT !.again = TRUE]
    <3>1. j \in JobType
      BY <1>1 DEF JobType
    <3>2. /\ j.pc = "refresh" /\ j.with = job.with /\ j.op = job.op /\ j.back = job.back
          /\ j.own = job.own /\ j.ids = job.ids /\ j.lease = job.lease
      BY <1>1, <1>2 DEF JobType
    <3>3. Set(c, j)
      BY <2>2
    <3>. HIDE DEF j
    <3>4. JobOK(j, m)
      BY <1>1, <1>2, <3>1, <3>2
         DEF JobOK, Returns, Carries, Loading, Leased, Deleting, Invalidating
    <3>. QED  BY <1>6, <2>1, <3>2, <3>3, <3>4 DEF Serving
  <2>3. CASE Set(c, RefreshFailed(job))
    BY <1>6, <1>8, <2>1, <2>3
  <2>. QED  BY <1>10, <2>2, <2>3
<1>11. ASSUME NEW status \in {"unavailable", "unauthorized"},
              Set(c, IF FatalRefresh(status) THEN [job EXCEPT !.pc = "invalidate_memory"]
                     ELSE RefreshFailed(job)),
              UNCHANGED <<server, left>>
       PROVE  Vars' /\ CallsGo
  <2>1. Vars'
    BY <1>2, <1>4, <1>11 DEF Jobs, Vars, m
  <2>2. CASE FatalRefresh(status)
    <3>. DEFINE j == [job EXCEPT !.pc = "invalidate_memory"]
    <3>1. Set(c, j)
      BY <1>11, <2>2
    <3>2. "invalidate_memory" \in Pcs
      BY DEF Pcs, Changing
    <3>3. /\ j \in JobType /\ j.pc = "invalidate_memory" /\ j.op = job.op /\ j.back = job.back
          /\ j.own = job.own /\ j.ids = job.ids /\ j.lease = job.lease
      BY <1>1, <3>2, PcFields
    <3>. HIDE DEF j
    <3>4. JobOK(j, m)
      BY <1>1, <1>2, <1>5, <3>3
         DEF JobOK, Returns, Carries, Loading, Leased, Deleting, Invalidating
    <3>. QED  BY <1>6, <2>1, <3>1, <3>3, <3>4 DEF Serving
  <2>3. CASE ~FatalRefresh(status)
    BY <1>6, <1>8, <1>11, <2>1, <2>3
  <2>. QED  BY <2>2, <2>3
<1>. QED  BY <1>3, <1>9, <1>10, <1>11

LEMMA HistOut ==
  ASSUME Jobs, NEW out \in BOOLEAN, hist' = [hist EXCEPT !.out = out]
  PROVE  hist' \in HistType /\ hist'.mixed = hist.mixed /\ hist'.out = out
BY DEF Jobs, HistType

LEMMA SetDiskOK ==
  ASSUME Jobs, NEW text \in Texts, NEW fails, SetDisk(text, fails)
  PROVE  disk' \in [keyring : Texts, dpapi : Texts]
<1>1. disk.keyring \in Texts /\ disk.dpapi \in Texts
  BY DEF Jobs
<1>2. disk' = [keyring |-> IF "keyring" \in fails THEN disk.keyring ELSE text,
               dpapi |-> IF windows /\ "dpapi" \notin fails THEN text ELSE disk.dpapi]
  BY DEF SetDisk
<1>. QED  BY <1>1, <1>2

\* a store that a backend took, and one that none took
LEMMA StoreDiskHist ==
  ASSUME Jobs, NEW fails, hist' = [hist EXCEPT !.out = FALSE, !.behind = "keyring" \in fails]
  PROVE  /\ hist' \in HistType /\ hist'.mixed = hist.mixed /\ hist'.out = FALSE
         /\ hist'.behind <=> "keyring" \in fails
<1>. DEFINE no == FALSE
            refused == "keyring" \in fails
<1>1. no \in BOOLEAN /\ refused \in BOOLEAN /\ no = FALSE /\ (refused <=> "keyring" \in fails)
  OBVIOUS
<1>2. hist' = [hist EXCEPT !.out = no, !.behind = refused]
  OBVIOUS
<1>. HIDE DEF no, refused
<1>3. hist' \in HistType /\ hist'.mixed = hist.mixed /\ hist'.out = no /\ hist'.behind = refused
  BY <1>1, <1>2 DEF Jobs, HistType
<1>. QED  BY <1>1, <1>3

LEMMA StoreDiskGoes ==
  ASSUME Jobs, NEW c \in Calls, StoreDisk(c) PROVE Vars' /\ CallsGo
<1>. DEFINE job == calls[c]
            m == hist.mixed
            kept == [job EXCEPT !.pc = "store_memory"]
            lost == IF job.op \in {"sign_in", "status"} THEN Idle ELSE RefreshFailed(job)
<1>1. job \in JobType /\ Returns(job) /\ Carries(job, m) /\ m \in BOOLEAN
  BY CallOK
<1>2. job.pc = "store" /\ UNCHANGED <<windows, memory, cache, now, server>>
  BY DEF StoreDisk, At
<1>3. PICK fails \in SUBSET Backends :
        /\ Try(fails) /\ SetDisk(Encode(job.value), fails)
        /\ IF fails = Backends THEN Set(c, lost) /\ UNCHANGED hist
           ELSE /\ To(c, "store_memory")
                /\ hist' = [hist EXCEPT !.out = FALSE, !.behind = "keyring" \in fails]
  BY Zenon DEF StoreDisk
<1>4. \/ Set(c, lost) /\ UNCHANGED hist
      \/ Set(c, kept) /\ hist' = [hist EXCEPT !.out = FALSE, !.behind = "keyring" \in fails]
  BY <1>3, Zenon DEF To
<1>. HIDE DEF job, m
<1>5. hist' \in HistType /\ hist'.mixed = m
  <2>1. CASE UNCHANGED hist
    BY <2>1 DEF Jobs, m
  <2>2. CASE hist' = [hist EXCEPT !.out = FALSE, !.behind = "keyring" \in fails]
    BY <2>2, StoreDiskHist DEF m
  <2>. QED  BY <1>4, <2>1, <2>2
<1>6. Vars'
  <2>1. job.value \in Session
    BY <1>1, <1>2 DEF JobType, Carries
  <2>2. Encode(job.value) \in Texts
    BY <2>1, EncodeOK
  <2>3. disk' \in [keyring : Texts, dpapi : Texts]
    BY <1>3, <2>2, SetDiskOK
  <2>4. left' \in [trouble : 0 .. MaxTrouble, commands : 0 .. MaxCommands]
    BY <1>3, TryOK
  <2>. QED  BY <1>2, <1>5, <2>3, <2>4 DEF Jobs, Vars, m
<1>7. CASE Set(c, kept)
  <2>1. "store_memory" \in Pcs
    BY DEF Pcs, Changing
  <2>2. /\ kept \in JobType /\ kept.pc = "store_memory" /\ kept.op = job.op
        /\ kept.back = job.back /\ kept.own = job.own /\ kept.value = job.value
        /\ kept.ids = job.ids /\ kept.lease = job.lease
    BY <1>1, <2>1, PcFields
  <2>. HIDE DEF kept
  <2>3. JobOK(kept, m)
    BY <1>1, <1>2, <2>2
       DEF JobOK, Returns, Carries, Loading, Leased, Deleting, Invalidating
  <2>. QED  BY <1>5, <1>6, <1>7, <2>2, <2>3, MoveGoes DEF m, Serving
<1>8. CASE Set(c, lost)
  <2>1. JobOK(lost, m) /\ lost.pc \notin Serving
    <3>1. CASE job.op \in {"sign_in", "status"}
      <4>1. lost = Idle
        BY <3>1
      <4>. HIDE DEF lost
      <4>. QED  BY <1>1, <4>1, IdleOK, IdleServes DEF Serving
    <3>2. CASE job.op \notin {"sign_in", "status"}
      <4>1. Going(job, m)
        <5>1. job.back = "refresh"
          BY <1>1, <1>2, <3>2 DEF Returns
        <5>. QED  BY <1>1, <5>1, GoingOn
      <4>2. lost = RefreshFailed(job)
        BY <3>2
      <4>. HIDE DEF lost
      <4>3. JobOK(lost, m) /\ lost.pc \in {"idle", "location", "delete_memory"}
        BY <1>1, <4>1, <4>2, RefreshFailedOK
      <4>. QED  BY <4>3 DEF Serving
    <3>. QED  BY <3>1, <3>2
  <2>. HIDE DEF lost
  <2>. QED  BY <1>5, <1>6, <1>8, <2>1, MoveGoes DEF m
<1>. QED  BY <1>4, <1>6, <1>7, <1>8

LEMMA StoreMemoryGoes ==
  ASSUME Jobs, NEW c \in Calls, StoreMemory(c) PROVE Vars' /\ CallsGo
<1>. DEFINE job == calls[c]
            m == hist.mixed
<1>1. job \in JobType /\ Returns(job) /\ Carries(job, m) /\ m \in BOOLEAN
  BY CallOK
<1>2. /\ job.pc = "store_memory" /\ UNCHANGED <<windows, disk, cache, now, server, left, hist>>
      /\ memory' = job.value
      /\ Set(c, IF job.op \in {"sign_in", "status", "refresh"} THEN Idle
                ELSE [job EXCEPT !.pc = "send", !.with = job.value, !.value = None])
  BY DEF StoreMemory, At
<1>. HIDE DEF job, m
<1>3. job.value \in Session
  BY <1>1, <1>2 DEF JobType, Carries
<1>4. Vars'
  BY <1>2, <1>3 DEF Jobs, Vars
<1>5. hist' \in HistType /\ hist'.mixed = m
  BY <1>2 DEF Jobs, m
<1>6. CASE job.op \in {"sign_in", "status", "refresh"}
  <2>1. Set(c, Idle)
    BY <1>2, <1>6
  <2>. QED  BY <1>1, <1>4, <1>5, <2>1, IdleOK, IdleServes, MoveGoes DEF m, Serving
<1>7. CASE job.op \notin {"sign_in", "status", "refresh"}
  <2>. DEFINE j == [job EXCEPT !.pc = "send", !.with = job.value, !.value = None]
  <2>1. Set(c, j)
    BY <1>2, <1>7
  <2>2. j \in JobType
    <3>1. "send" \in Pcs
      BY DEF Pcs
    <3>. QED  BY <1>1, <1>3, <3>1 DEF JobType
  <2>3. /\ j.pc = "send" /\ j.with = job.value /\ j.op = job.op /\ j.back = job.back
        /\ j.own = job.own /\ j.ids = job.ids /\ j.lease = job.lease
    BY <1>1 DEF JobType
  <2>. HIDE DEF j
  <2>4. job.back = "refresh" /\ job.value # None
    BY <1>1, <1>2, <1>7 DEF Returns, Carries
  <2>5. JobOK(j, m)
    BY <1>1, <1>2, <2>2, <2>3, <2>4
       DEF JobOK, Returns, Carries, Loading, Leased, Deleting, Invalidating
  <2>. QED  BY <1>4, <1>5, <2>1, <2>3, <2>5, MoveGoes DEF m, Serving
<1>. QED  BY <1>6, <1>7

\* from one step of an invalidation or a deletion to the next
LEMMA NextStageOK ==
  ASSUME NEW job \in JobType, NEW m \in BOOLEAN, Returns(job), Carries(job, m), NEW pc, NEW j,
         \/ job.pc \in Invalidating /\ pc \in Invalidating
         \/ job.pc \in Deleting /\ pc \in Deleting,
         j = [job EXCEPT !.pc = pc]
  PROVE  JobOK(j, m) /\ j.pc = pc /\ pc \notin Serving
<1>1. pc \in Pcs
  BY DEF Pcs, Deleting, Changing, Invalidating
<1>2. /\ j \in JobType /\ j.pc = pc /\ j.op = job.op /\ j.back = job.back /\ j.own = job.own
      /\ j.ids = job.ids /\ j.lease = job.lease
  BY <1>1, PcFields
<1>3. JobOK(j, m)
  BY <1>2 DEF JobOK, Returns, Carries, Loading, Leased, Deleting, Invalidating
<1>. QED  BY <1>2, <1>3 DEF Serving, Deleting, Invalidating

LEMMA InvalidateMemoryGoes ==
  ASSUME Jobs, NEW c \in Calls, InvalidateMemory(c) PROVE Vars' /\ CallsGo
<1>. DEFINE m == hist.mixed
            j == [calls[c] EXCEPT !.pc = "invalidate_keyring"]
<1>1. calls[c] \in JobType /\ Returns(calls[c]) /\ Carries(calls[c], m) /\ m \in BOOLEAN
  BY CallOK
<1>2. /\ calls[c].pc = "invalidate_memory" /\ memory' = None /\ Set(c, j)
      /\ UNCHANGED <<windows, disk, cache, now, server, left, hist>>
  BY DEF InvalidateMemory, At, To
<1>3. JobOK(j, m) /\ j.pc \notin Serving
  <2>1. calls[c].pc \in Invalidating /\ "invalidate_keyring" \in Invalidating
    BY <1>2 DEF Invalidating
  <2>. HIDE DEF m, j
  <2>. QED  BY <1>1, <2>1, NextStageOK DEF j
<1>. HIDE DEF j
<1>4. Vars'
  BY <1>2 DEF Jobs, Vars
<1>5. hist' \in HistType /\ hist'.mixed = m
  BY <1>2 DEF Jobs
<1>. QED  BY <1>2, <1>3, <1>4, <1>5, MoveGoes

LEMMA InvalidatedOK ==
  ASSUME NEW text \in Texts, NEW took \in BOOLEAN, NEW rest \in Invalidated(text, took)
  PROVE  rest \in Texts /\ (took \/ text \in Gone => rest \in Gone)
BY DEF Invalidated, Gone, Texts

LEMMA SpendRest ==
  ASSUME Jobs, NEW rest, Spend(IF rest = None THEN 0 ELSE 1)
  PROVE  left' \in [trouble : 0 .. MaxTrouble, commands : 0 .. MaxCommands]
<1>. DEFINE n == IF rest = None THEN 0 ELSE 1
<1>1. n \in Nat /\ Spend(n)
  OBVIOUS
<1>. HIDE DEF n
<1>. QED  BY <1>1, SpendOK

LEMMA InvalidateKeyringGoes ==
  ASSUME Jobs, NEW c \in Calls, InvalidateKeyring(c) PROVE Vars' /\ CallsGo
<1>. DEFINE m == hist.mixed
            j == [calls[c] EXCEPT !.pc = "invalidate_dpapi"]
<1>1. calls[c] \in JobType /\ Returns(calls[c]) /\ Carries(calls[c], m) /\ m \in BOOLEAN
  BY CallOK
<1>2. /\ calls[c].pc = "invalidate_keyring" /\ Set(c, j)
      /\ UNCHANGED <<windows, memory, cache, now, server>>
  BY DEF InvalidateKeyring, At, To
<1>3. JobOK(j, m) /\ j.pc \notin Serving
  <2>1. calls[c].pc \in Invalidating /\ "invalidate_dpapi" \in Invalidating
    BY <1>2 DEF Invalidating
  <2>. HIDE DEF m, j
  <2>. QED  BY <1>1, <2>1, NextStageOK DEF j
<1>. HIDE DEF j
<1>4. PICK took \in BOOLEAN : \E rest \in Invalidated(disk.keyring, took) :
        /\ disk' = [disk EXCEPT !.keyring = rest]
        /\ Spend(IF rest = None THEN 0 ELSE 1)
        /\ hist' = [hist EXCEPT !.taken = took]
  BY Zenon DEF InvalidateKeyring
<1>5. PICK rest \in Invalidated(disk.keyring, took) :
        /\ disk' = [disk EXCEPT !.keyring = rest]
        /\ Spend(IF rest = None THEN 0 ELSE 1)
  BY <1>4
<1>6. disk' \in [keyring : Texts, dpapi : Texts]
  <2>1. disk \in [keyring : Texts, dpapi : Texts]
    BY DEF Jobs
  <2>2. rest \in Texts
    BY <2>1, InvalidatedOK
  <2>. QED  BY <1>5, <2>1, <2>2
<1>7. hist' \in HistType /\ hist'.mixed = m
  BY <1>4 DEF Jobs, HistType
<1>8. Vars'
  BY <1>2, <1>5, <1>6, <1>7, SpendRest DEF Jobs, Vars
<1>. QED  BY <1>2, <1>3, <1>7, <1>8, MoveGoes

LEMMA InvalidateDpapiGoes ==
  ASSUME Jobs, NEW c \in Calls, InvalidateDpapi(c) PROVE Vars' /\ CallsGo
<1>. DEFINE m == hist.mixed
            job == calls[c]
            j == RefreshFailed(job)
<1>1. job \in JobType /\ Returns(job) /\ Carries(job, m) /\ m \in BOOLEAN
  BY CallOK
<1>2. /\ job.pc = "invalidate_dpapi" /\ Set(c, j) /\ cache' = None
      /\ UNCHANGED <<windows, memory, now, server>>
  BY DEF InvalidateDpapi, At
<1>. HIDE DEF job
<1>3. JobOK(j, m) /\ j.pc \notin Serving
  <2>1. Going(job, m)
    <3>1. job.back = "refresh"
      BY <1>1, <1>2 DEF Returns, Invalidating
    <3>. QED  BY <1>1, <3>1, GoingOn
  <2>2. JobOK(j, m) /\ j.pc \in {"idle", "location", "delete_memory"}
    BY <1>1, <2>1, RefreshFailedOK
  <2>. QED  BY <2>2 DEF Serving
<1>. HIDE DEF j
<1>4. PICK took \in BOOLEAN : \E rest \in Invalidated(disk.dpapi, took) :
        /\ disk' = [disk EXCEPT !.dpapi = rest]
        /\ Spend(IF rest = None THEN 0 ELSE 1)
        /\ hist' = [hist EXCEPT !.out = hist.taken /\ took, !.taken = FALSE]
  BY Zenon DEF InvalidateDpapi
<1>5. PICK rest \in Invalidated(disk.dpapi, took) :
        /\ disk' = [disk EXCEPT !.dpapi = rest]
        /\ Spend(IF rest = None THEN 0 ELSE 1)
  BY <1>4
<1>6. disk' \in [keyring : Texts, dpapi : Texts]
  <2>1. disk \in [keyring : Texts, dpapi : Texts]
    BY DEF Jobs
  <2>2. rest \in Texts
    BY <2>1, InvalidatedOK
  <2>. QED  BY <1>5, <2>1, <2>2
<1>7. hist' \in HistType /\ hist'.mixed = m
  <2>. DEFINE out == hist.taken /\ took
              no == FALSE
  <2>1. out \in BOOLEAN /\ no \in BOOLEAN /\ hist' = [hist EXCEPT !.out = out, !.taken = no]
    BY <1>4
  <2>. HIDE DEF out, no
  <2>. QED  BY <2>1 DEF Jobs, HistType
<1>8. Vars'
  BY <1>2, <1>5, <1>6, <1>7, SpendRest DEF Jobs, Vars
<1>. QED  BY <1>2, <1>3, <1>7, <1>8, MoveGoes

LEMMA DeleteMemoryGoes ==
  ASSUME Jobs, NEW c \in Calls, DeleteMemory(c) PROVE Vars' /\ CallsGo
<1>. DEFINE m == hist.mixed
            j == [calls[c] EXCEPT !.pc = "delete_session"]
<1>1. calls[c] \in JobType /\ Returns(calls[c]) /\ Carries(calls[c], m) /\ m \in BOOLEAN
  BY CallOK
<1>2. /\ calls[c].pc = "delete_memory" /\ memory' = None /\ Set(c, j)
      /\ UNCHANGED <<windows, disk, cache, now, server, left, hist>>
  BY DEF DeleteMemory, At, To
<1>3. JobOK(j, m) /\ j.pc \notin Serving
  <2>1. calls[c].pc \in Deleting /\ "delete_session" \in Deleting
    BY <1>2 DEF Deleting
  <2>. HIDE DEF m, j
  <2>. QED  BY <1>1, <2>1, NextStageOK DEF j
<1>. HIDE DEF j
<1>4. Vars'
  BY <1>2 DEF Jobs, Vars
<1>5. hist' \in HistType /\ hist'.mixed = m
  BY <1>2 DEF Jobs
<1>. QED  BY <1>2, <1>3, <1>4, <1>5, MoveGoes

LEMMA DeleteSessionGoes ==
  ASSUME Jobs, NEW c \in Calls, DeleteSession(c) PROVE Vars' /\ CallsGo
<1>. DEFINE m == hist.mixed
            j == [calls[c] EXCEPT !.pc = "delete_cache"]
<1>1. calls[c] \in JobType /\ Returns(calls[c]) /\ Carries(calls[c], m) /\ m \in BOOLEAN
  BY CallOK
<1>2. /\ calls[c].pc = "delete_session" /\ Set(c, j)
      /\ UNCHANGED <<windows, memory, cache, now, server>>
  BY DEF DeleteSession, At, To
<1>3. JobOK(j, m) /\ j.pc \notin Serving
  <2>1. calls[c].pc \in Deleting /\ "delete_cache" \in Deleting
    BY <1>2 DEF Deleting
  <2>. HIDE DEF m, j
  <2>. QED  BY <1>1, <2>1, NextStageOK DEF j
<1>. HIDE DEF j
<1>4. PICK fails \in SUBSET Backends :
        /\ disk' = [keyring |-> IF "keyring" \in fails THEN disk.keyring ELSE None,
                    dpapi |-> IF "dpapi" \in fails THEN disk.dpapi ELSE None]
        /\ Try(fails)
        /\ hist' = [hist EXCEPT !.out = (fails = {})]
  BY Zenon DEF DeleteSession
<1>5. left' \in [trouble : 0 .. MaxTrouble, commands : 0 .. MaxCommands]
  BY <1>4, TryOK
<1>6. disk' \in [keyring : Texts, dpapi : Texts]
  <2>1. disk.keyring \in Texts /\ disk.dpapi \in Texts /\ None \in Texts
    BY DEF Jobs, Texts
  <2>. QED  BY <1>4, <2>1
<1>7. hist' \in HistType /\ hist'.mixed = m
  <2>. DEFINE out == (fails = {})
  <2>1. out \in BOOLEAN /\ hist' = [hist EXCEPT !.out = out]
    BY <1>4
  <2>. HIDE DEF out
  <2>. QED  BY <2>1, HistOut
<1>8. Vars'
  BY <1>2, <1>5, <1>6, <1>7 DEF Jobs, Vars
<1>. QED  BY <1>2, <1>3, <1>7, <1>8, MoveGoes

LEMMA DeleteCacheGoes ==
  ASSUME Jobs, NEW c \in Calls, DeleteCache(c) PROVE Vars' /\ CallsGo /\ CallsCalm
<1>1. /\ cache' = None /\ Set(c, Idle)
      /\ UNCHANGED <<windows, memory, disk, now, server, left, hist>>
  BY DEF DeleteCache
<1>2. Vars'
  BY <1>1 DEF Jobs, Vars
<1>3. /\ hist' \in HistType /\ hist'.mixed = hist.mixed
      /\ hist.mixed \in BOOLEAN
  BY <1>1 DEF HistType, Jobs
<1>. QED  BY <1>1, <1>2, <1>3, IdleOK, IdleServes, MoveGoes, SetCalm DEF Serving, Hot

LEMMA SendRequestGoes ==
  ASSUME Jobs, NEW c \in Calls, SendRequest(c) PROVE Vars' /\ CallsGo /\ CallsCalm
<1>. DEFINE job == calls[c]
            m == hist.mixed
            yes == TRUE
            j == IF job.op = "logout" THEN Failed(job, yes) ELSE Idle
<1>1. job \in JobType /\ Returns(job) /\ Carries(job, m) /\ m \in BOOLEAN
  BY CallOK
<1>2. /\ job.pc = "send" /\ job.op \in {"request", "logout"} /\ Set(c, j)
      /\ UNCHANGED <<windows, memory, disk, cache, now, server, left, hist>>
  BY DEF SendRequest, At
<1>. HIDE DEF job, m
<1>3. JobOK(j, m) /\ j.pc \notin Serving \cup Hot
  <2>1. CASE job.op = "logout"
    <3>1. Going(job, m)
      <4>1. job.back \in {"auth", "refresh"}
        BY <1>1, <1>2 DEF Returns
      <4>. QED  BY <1>1, <4>1, GoingOn
    <3>2. j = Failed(job, yes) /\ yes \in BOOLEAN
      BY <2>1
    <3>. HIDE DEF j, yes
    <3>3. JobOK(j, m) /\ j.pc \in {"idle", "location", "delete_memory"}
      BY <1>1, <3>1, <3>2, FailedOK
    <3>. QED  BY <3>3 DEF Serving, Hot
  <2>2. CASE job.op # "logout"
    <3>1. j = Idle
      BY <2>2
    <3>. HIDE DEF j
    <3>. QED  BY <1>1, <3>1, IdleOK, IdleServes DEF Serving, Hot
  <2>. QED  BY <2>1, <2>2
<1>. HIDE DEF j
<1>. QED  BY <1>2, <1>3, JobGoes DEF m

LEMMA RejectedGoes ==
  ASSUME Jobs, NEW c \in Calls, Rejected(c) PROVE Vars' /\ CallsGo /\ CallsCalm
<1>. DEFINE job == calls[c]
            m == hist.mixed
<1>1. job \in JobType /\ Returns(job) /\ Carries(job, m) /\ m \in BOOLEAN
  BY CallOK
<1>2. /\ job.pc = "send"
      /\ UNCHANGED <<windows, memory, disk, cache, now, server, left, hist>>
  BY DEF Rejected, At
<1>3. PICK status \in {"unauthorized", "terminal", "unavailable"} :
        Set(c, IF status = "unauthorized" /\ ~job.retried THEN Refresh(job)
               ELSE Failed(job, status # "unavailable"))
  BY Zenon DEF Rejected
<1>. HIDE DEF job, m
<1>4. Going(job, m)
  <2>1. job.back \in {"auth", "refresh"}
    BY <1>1, <1>2 DEF Returns
  <2>. QED  BY <1>1, <2>1, GoingOn
<1>5. CASE status = "unauthorized" /\ ~job.retried
  <2>. DEFINE j == Refresh(job)
  <2>1. Set(c, j)
    BY <1>3, <1>5
  <2>. HIDE DEF j
  <2>2. JobOK(j, m) /\ j.pc = "load"
    BY <1>1, <1>4, RefreshOK DEF j
  <2>. QED  BY <1>2, <2>1, <2>2, JobGoes DEF m, Serving, Hot
<1>6. CASE ~(status = "unauthorized" /\ ~job.retried)
  <2>. DEFINE terminal == (status # "unavailable")
              j == Failed(job, terminal)
  <2>1. Set(c, j)
    BY <1>3, <1>6
  <2>2. terminal \in BOOLEAN
    OBVIOUS
  <2>. HIDE DEF terminal
  <2>3. JobOK(j, m) /\ j.pc \in {"idle", "location", "delete_memory"}
    BY <1>1, <1>4, <2>2, FailedOK
  <2>. HIDE DEF j
  <2>. QED  BY <1>2, <2>1, <2>3, JobGoes DEF m, Serving, Hot
<1>. QED  BY <1>5, <1>6

LEMMA LocationGoes ==
  ASSUME Jobs, NEW c \in Calls, Location(c) PROVE Vars' /\ CallsGo /\ CallsCalm
<1>. DEFINE job == calls[c]
            m == hist.mixed
            cached == CachedLease(job.own, Head(job.ids))
<1>1. job \in JobType /\ Returns(job) /\ Carries(job, m) /\ m \in BOOLEAN
  BY CallOK
<1>2. /\ job.pc = "location"
      /\ UNCHANGED <<windows, memory, disk, cache, now, server, left, hist>>
      /\ Set(c, IF job.ids = << >> THEN Idle
                ELSE IF job.op = "connect" /\ cached # None
                     THEN [job EXCEPT !.pc = "bring_up_cached", !.lease = cached]
                ELSE Authorize(job))
  BY DEF Location, At
<1>3. cache # None => CacheSound(cache, m)
  BY DEF Jobs
<1>. HIDE DEF job, m
<1>4. job.own \in Accounts /\ job.own # None
  BY <1>1, <1>2 DEF JobType, Carries
<1>5. CASE job.ids = << >>
  <2>1. Set(c, Idle)
    BY <1>2, <1>5
  <2>. QED  BY <1>1, <1>2, <2>1, IdleOK, IdleServes, JobGoes DEF m, Serving, Hot
<1>6. CASE job.ids # << >> /\ job.op = "connect" /\ cached # None
  <2>. DEFINE j == [job EXCEPT !.pc = "bring_up_cached", !.lease = cached]
  <2>1. Set(c, j)
    BY <1>2, <1>6
  <2>2. /\ cached \in Lease /\ cached.loc = Head(job.ids) /\ Fresh(cached)
        /\ m \/ cached.for = job.own
    BY <1>1, <1>3, <1>4, <1>6, CachedLeaseOK
  <2>. HIDE DEF cached
  <2>3. j \in JobType
    <3>1. "bring_up_cached" \in Pcs
      BY DEF Pcs, Leased
    <3>. QED  BY <1>1, <2>2, <3>1 DEF JobType
  <2>4. /\ j.pc = "bring_up_cached" /\ j.lease = cached /\ j.op = job.op /\ j.back = job.back
        /\ j.own = job.own /\ j.ids = job.ids
    BY <1>1 DEF JobType
  <2>5. job.back # "command"
    BY <1>1, <1>2 DEF Returns
  <2>. HIDE DEF j
  <2>6. JobOK(j, m)
    BY <1>1, <1>2, <1>4, <1>6, <2>2, <2>3, <2>4, <2>5
       DEF JobOK, Returns, Carries, Loading, Leased, Leasing, Deleting, Invalidating
  <2>7. hist' \in HistType /\ hist'.mixed = m
    BY <1>2 DEF Jobs, m
  <2>8. Serves(j)
    BY <1>2, <2>2, <2>4, <2>7 DEF Serves, Fresh
  <2>9. CallsGo /\ CallsCalm
    <3>1. j.pc \notin Hot
      BY <2>4 DEF Hot
    <3>. QED  BY <2>1, <2>6, <2>7, <2>8, <3>1, SetGoes, SetCalm DEF m
  <2>10. Vars'
    BY <1>2, JobsStill
  <2>. QED  BY <2>9, <2>10
<1>7. CASE job.ids # << >> /\ ~(job.op = "connect" /\ cached # None)
  <2>. DEFINE j == Authorize(job)
  <2>1. Set(c, j)
    BY <1>2, <1>7
  <2>2. JobOK(j, m) /\ j.pc = "load"
    <3>1. job.op # "sign_in"
      BY <1>1, <1>2 DEF Returns
    <3>. QED  BY <1>1, <1>4, <1>7, <3>1, AuthorizeOK DEF Carries
  <2>. HIDE DEF j
  <2>. QED  BY <1>2, <2>1, <2>2, JobGoes DEF m, Serving, Hot
<1>. QED  BY <1>5, <1>6, <1>7

LEMMA LeaseCarried ==
  ASSUME NEW j, NEW m \in BOOLEAN, j.pc \in {"bring_up", "probe"}, j.op \in Leasing,
         Len(j.ids) <= (IF j.op = "refresh_cached" THEN MaxEntries ELSE 3),
         j.own # None, j.ids # << >>, j.lease # None, m \/ j.lease.for = j.own
  PROVE  Carries(j, m)
BY DEF Carries, Leased

LEMMA SendProfileGoes ==
  ASSUME Jobs, NEW c \in Calls, SendProfile(c) PROVE Vars' /\ CallsGo /\ CallsCalm
<1>. DEFINE job == calls[c]
            m == hist.mixed
            n == m \/ job.with.account # job.own
            pc == IF job.op = "connect" THEN "bring_up" ELSE "probe"
            lease == [loc |-> Head(job.ids), for |-> job.with.account, exp |-> now + 1]
            a == Answered(job, pc)
            j == [a EXCEPT !.lease = lease]
<1>1. job \in JobType /\ Returns(job) /\ Carries(job, m) /\ m \in BOOLEAN
  BY CallOK
<1>2. /\ job.pc = "send" /\ job.op \in {"connect", "ping", "background", "refresh_cached"}
      /\ UNCHANGED <<windows, memory, disk, cache, now, server, left>>
      /\ Set(c, j)
      /\ hist' = [hist EXCEPT !.mixed = n]
  BY DEF SendProfile, At
<1>3. n \in BOOLEAN /\ (m => n)
  OBVIOUS
<1>4. hist' \in HistType /\ hist'.mixed = n
  <2>. HIDE DEF n, j
  <2>. QED  BY <1>2, <1>3 DEF HistType, Jobs
<1>5. ~n => job.with.account = job.own
  OBVIOUS
<1>. HIDE DEF n, job
<1>6. job.with \in Session /\ job.own # None /\ job.ids # << >> /\ job.back \in {"auth", "refresh"}
  BY <1>1, <1>2 DEF JobType, Returns, Carries, Leasing
<1>7. lease \in Lease /\ lease.exp > now /\ lease.loc = Head(job.ids)
      /\ lease.for = job.with.account
  <2>1. Head(job.ids) \in Locations
    <3>1. job.ids \in Seq(Locations)
      BY <1>1 DEF JobType
    <3>. QED  BY <1>6, <3>1
  <2>2. job.with.account \in Accounts
    BY <1>6, SessionFields
  <2>3. now \in 0 .. MaxNow /\ MaxNow \in Nat
    BY ConstantsAssumption DEF Jobs
  <2>4. now + 1 \in 0 .. MaxNow + 1 /\ now + 1 > now
    BY <2>3
  <2>. QED  BY <2>1, <2>2, <2>4 DEF Lease
<1>. HIDE DEF lease
<1>8. lease # None
  BY <1>7, ConstantsAssumption
<1>9. pc \in {"bring_up", "probe"} /\ (pc = "bring_up" => job.op = "connect")
  OBVIOUS
<1>. HIDE DEF pc
<1>10. /\ a \in JobType /\ a.pc = pc /\ a.back = "none" /\ a.op = job.op /\ a.own = job.own
       /\ a.ids = job.ids
  BY <1>1, <1>9, AnsweredFields
<1>. HIDE DEF a
<1>11. j \in JobType
  BY <1>7, <1>10 DEF JobType
<1>12. /\ j.pc = pc /\ j.back = "none" /\ j.op = job.op /\ j.own = job.own /\ j.ids = job.ids
       /\ j.lease = lease
  BY <1>10 DEF JobType
<1>. HIDE DEF j
<1>13. n \/ j.lease.for = j.own
  BY <1>5, <1>7, <1>12
<1>14. JobOK(j, n)
  <2>1. Returns(j)
    BY <1>9, <1>12 DEF Returns, Loading, Deleting, Invalidating
  <2>2. Len(j.ids) <= (IF j.op = "refresh_cached" THEN MaxEntries ELSE 3)
    BY <1>1, <1>12 DEF Carries
  <2>3. Carries(j, n)
    <3>1. j.lease # None /\ j.own # None /\ j.ids # << >> /\ j.op \in Leasing
      BY <1>2, <1>6, <1>8, <1>12 DEF Leasing
    <3>2. j.pc \in {"bring_up", "probe"}
      BY <1>9, <1>12
    <3>. QED  BY <1>3, <1>13, <2>2, <3>1, <3>2, LeaseCarried
  <2>. QED  BY <1>11, <2>1, <2>3 DEF JobOK
<1>15. Serves(j)
  BY <1>4, <1>7, <1>12, <1>13 DEF Serves
<1>16. CallsGo /\ CallsCalm
  <2>1. j.pc \notin Hot
    BY <1>9, <1>12 DEF Hot
  <2>. QED  BY <1>2, <1>3, <1>4, <1>14, <1>15, <2>1, SetGoes, SetCalm DEF m
<1>17. Vars'
  <2>1. cache # None => CacheSound(cache, n)
    <3>1. cache # None => CacheSound(cache, m)
      BY DEF Jobs
    <3>. QED  BY <1>1, <1>3, <3>1 DEF CacheSound
  <2>2. cache' # None => CacheSound(cache', hist'.mixed)
    BY <1>2, <1>4, <2>1
  <2>. QED  BY <1>2, <1>4, <2>2 DEF Jobs, Vars
<1>. QED  BY <1>16, <1>17

\* what a bring-up leaves to be cached
LEMMA CachingOK ==
  ASSUME NEW job \in JobType, NEW m \in BOOLEAN, Returns(job), Carries(job, m),
         job.pc \in {"bring_up", "probe"}, cache # None => CacheSound(cache, m),
         NEW j, j = Caching(job)
  PROVE  JobOK(j, m) /\ j.pc = "cache_write"
<1>1. /\ job.own \in Accounts /\ job.own # None /\ job.lease \in Lease
      /\ m \/ job.lease.for = job.own
  BY DEF JobType, Carries, Leased
<1>. DEFINE k == LoadCache(job.own)
            read == Insert(k, job.own, job.lease)
<1>2. CacheSound(k, m) /\ k.owner = job.own
  BY <1>1, LoadCacheOK
<1>. HIDE DEF k
<1>3. CacheSound(read, m)
  BY <1>1, <1>2, InsertOK
<1>4. j = [job EXCEPT !.pc = "cache_write", !.lease = None, !.read = read]
  BY DEF Caching, k
<1>. HIDE DEF read
<1>5. read \in Caches /\ read # None
  BY <1>3, ConstantsAssumption DEF CacheSound
<1>6. j \in JobType
  <2>1. "cache_write" \in Pcs
    BY DEF Pcs, Leased
  <2>. QED  BY <1>4, <1>5, <2>1 DEF JobType
<1>7. /\ j.pc = "cache_write" /\ j.read = read /\ j.lease = None /\ j.op = job.op
      /\ j.back = job.back /\ j.own = job.own /\ j.ids = job.ids
  BY <1>4 DEF JobType
<1>8. Returns(j)
  BY <1>7 DEF Returns, Loading, Deleting, Invalidating
<1>9. Carries(j, m)
  BY <1>3, <1>5, <1>7 DEF Carries, Leased
<1>. QED  BY <1>6, <1>7, <1>8, <1>9 DEF JobOK

\* the tasks a connect leaves behind
LEMMA BackgroundOK ==
  ASSUME NEW job \in JobType, NEW m \in BOOLEAN, job.own # None, job.ids # << >>
  PROVE  JobOK(Background(job), m) /\ Background(job).pc = "load"
<1>. DEFINE i == <<Head(job.ids)>>
            b == [Idle EXCEPT !.op = "background", !.own = job.own, !.ids = i]
            j == Background(job)
<1>1. Idle \in JobType
  BY IdleOK DEF JobOK
<1>2. i \in Seq(Locations) /\ Len(i) = 1 /\ i # << >>
  <2>1. job.ids \in Seq(Locations)
    BY DEF JobType
  <2>2. Head(job.ids) \in Locations
    BY <2>1
  <2>. QED  BY <2>2
<1>3. j = Authorize(b)
  BY DEF Background
<1>. HIDE DEF i, Idle
<1>4. b \in JobType
  <2>1. "background" \in Commands \cup {"none", "background"}
    OBVIOUS
  <2>. QED  BY <1>1, <1>2, <2>1 DEF JobType
<1>5. b.op = "background" /\ b.own = job.own /\ b.ids = i
  BY <1>1 DEF JobType
<1>. HIDE DEF b, j
<1>6. Len(b.ids) <= (IF b.op = "refresh_cached" THEN MaxEntries ELSE 3)
  <2>1. b.op # "refresh_cached"
    BY <1>5
  <2>2. Len(b.ids) = 1
    BY <1>2, <1>5
  <2>3. Len(b.ids) <= 3
    BY <2>2
  <2>. QED  BY <2>1, <2>3
<1>7. JobOK(j, m) /\ j.pc = "load"
  BY <1>2, <1>3, <1>4, <1>5, <1>6, AuthorizeOK
<1>. QED  BY <1>7 DEF j

LEMMA TelemetryOK ==
  ASSUME NEW m \in BOOLEAN PROVE JobOK(Telemetry, m) /\ Telemetry.pc = "load"
<1>. DEFINE b == [Idle EXCEPT !.op = "request"]
            j == Telemetry
<1>1. Idle \in JobType /\ Idle.ids = << >>
  BY IdleOK DEF JobOK, Idle
<1>2. j = Authorize(b)
  BY DEF Telemetry
<1>. HIDE DEF Idle
<1>3. b \in JobType
  <2>1. "request" \in Commands \cup {"none", "background"}
    BY DEF Commands
  <2>. QED  BY <1>1, <2>1 DEF JobType
<1>4. b.op = "request" /\ b.ids = << >>
  BY <1>1 DEF JobType
<1>. HIDE DEF b, j
<1>5. Len(b.ids) <= (IF b.op = "refresh_cached" THEN MaxEntries ELSE 3)
  BY <1>4
<1>6. JobOK(j, m) /\ j.pc = "load"
  BY <1>2, <1>3, <1>4, <1>5, AuthorizeOK DEF Leasing
<1>. QED  BY <1>6 DEF j

\* a job that holds a lease knows its account and its location
LEMMA LeasedOK ==
  ASSUME NEW job \in JobType, NEW m, Carries(job, m), job.pc \in Leased
  PROVE  /\ job.op \in Leasing /\ job.own # None /\ job.ids # << >>
         /\ Len(job.ids) <= (IF job.op = "refresh_cached" THEN MaxEntries ELSE 3)
BY DEF Carries

LEMMA BringUpCachedGoes ==
  ASSUME Jobs, NEW c \in Calls, BringUpCached(c) PROVE Vars' /\ CallsGo /\ CallsCalm
<1>. DEFINE job == calls[c]
            m == hist.mixed
            task == Background(job)
            j == Authorize(job)
<1>1. job \in JobType /\ Returns(job) /\ Carries(job, m) /\ m \in BOOLEAN
  BY CallOK
<1>2. /\ job.pc = "bring_up_cached"
      /\ UNCHANGED <<windows, memory, disk, cache, now, server, left, hist>>
      /\ Spawn(c, Idle, task) \/ Set(c, j)
  BY DEF BringUpCached, At
<1>. HIDE DEF job, m
<1>3. /\ job.op \in Leasing /\ job.own # None /\ job.ids # << >>
      /\ Len(job.ids) <= (IF job.op = "refresh_cached" THEN MaxEntries ELSE 3)
  BY <1>1, <1>2, LeasedOK DEF Leased
<1>4. CASE Spawn(c, Idle, task)
  <2>1. JobOK(task, m) /\ task.pc = "load"
    BY <1>1, <1>3, BackgroundOK
  <2>. HIDE DEF task
  <2>2. Serves(task) /\ Serves(Idle) /\ JobOK(Idle, m)
    BY <1>1, <2>1, IdleOK, IdleServes DEF Serves, Serving
  <2>3. CallsGo /\ CallsCalm
    <3>1. task.pc \notin Hot /\ Idle.pc \notin Hot
      BY <2>1, IdleServes DEF Hot
    <3>. QED  BY <1>2, <1>4, <2>1, <2>2, <3>1, SpawnGoes, SpawnCalm DEF m
  <2>. QED  BY <1>2, <2>3, JobsStill
<1>5. CASE Set(c, j)
  <2>1. job.op # "sign_in"
    BY <1>3 DEF Leasing
  <2>2. JobOK(j, m) /\ j.pc = "load"
    BY <1>1, <1>3, <2>1, AuthorizeOK
  <2>. HIDE DEF j
  <2>. QED  BY <1>2, <1>5, <2>2, JobGoes DEF m, Serving, Hot
<1>. QED  BY <1>2, <1>4, <1>5

LEMMA BringUpGoes ==
  ASSUME Jobs, NEW c \in Calls, BringUp(c) PROVE Vars' /\ CallsGo /\ CallsCalm
<1>. DEFINE job == calls[c]
            m == hist.mixed
            task == Telemetry
<1>1. job \in JobType /\ Returns(job) /\ Carries(job, m) /\ m \in BOOLEAN
  BY CallOK
<1>2. /\ job.pc = "bring_up"
      /\ UNCHANGED <<windows, memory, disk, cache, now, server, left, hist>>
  BY DEF BringUp, At
<1>3. PICK up \in BOOLEAN : Spawn(c, IF up THEN Caching(job) ELSE NextLocation(job), task)
  BY Zenon DEF BringUp
<1>4. cache # None => CacheSound(cache, m)
  BY DEF Jobs
<1>. HIDE DEF job, m
<1>5. /\ job.op = "connect" /\ job.own # None /\ job.ids # << >>
      /\ Len(job.ids) <= (IF job.op = "refresh_cached" THEN MaxEntries ELSE 3)
  BY <1>1, <1>2, LeasedOK DEF Leased, Returns
<1>6. JobOK(task, m) /\ Serves(task) /\ task.pc \notin Hot
  <2>1. JobOK(task, m) /\ task.pc = "load"
    BY <1>1, TelemetryOK
  <2>. HIDE DEF task
  <2>. QED  BY <2>1 DEF Serves, Serving, Hot
<1>. HIDE DEF task
<1>7. ASSUME NEW j, JobOK(j, m), j.pc \in {"cache_write", "location"}, Spawn(c, j, task)
      PROVE  Vars' /\ CallsGo /\ CallsCalm
  <2>1. Serves(j) /\ j.pc \notin Hot
    BY <1>7 DEF Serves, Serving, Hot
  <2>2. CallsGo /\ CallsCalm
    BY <1>2, <1>6, <1>7, <2>1, SpawnGoes, SpawnCalm DEF m
  <2>. QED  BY <1>2, <2>2, JobsStill
<1>8. CASE up
  <2>. DEFINE j == Caching(job)
  <2>1. Spawn(c, j, task)
    BY <1>3, <1>8
  <2>2. JobOK(j, m) /\ j.pc = "cache_write"
    BY <1>1, <1>2, <1>4, CachingOK
  <2>. HIDE DEF j
  <2>. QED  BY <1>7, <2>1, <2>2
<1>9. CASE ~up
  <2>. DEFINE j == NextLocation(job)
  <2>1. Spawn(c, j, task)
    BY <1>3, <1>9
  <2>2. JobOK(j, m) /\ j.pc = "location"
    BY <1>1, <1>5, NextLocationOK
  <2>. HIDE DEF j
  <2>. QED  BY <1>7, <2>1, <2>2
<1>. QED  BY <1>8, <1>9

\* what follows a location whose lease was probed
LEMMA ProbedOK ==
  ASSUME NEW job \in JobType, NEW m \in BOOLEAN, job.own # None, job.ids # << >>,
         Len(job.ids) <= (IF job.op = "refresh_cached" THEN MaxEntries ELSE 3),
         NEW j, j = Probed(job)
  PROVE  JobOK(j, m) /\ j.pc \notin Serving \cup Hot
<1>1. CASE job.op = "refresh_cached"
  <2>1. j = NextLocation(job)
    BY <1>1 DEF Probed
  <2>2. JobOK(j, m) /\ j.pc = "location"
    BY <1>1, <2>1, NextLocationOK
  <2>. QED  BY <2>2 DEF Serving, Hot
<1>2. CASE job.op # "refresh_cached"
  <2>1. j = Idle
    BY <1>2 DEF Probed
  <2>. QED  BY <2>1, IdleOK, IdleServes DEF Serving, Hot
<1>. QED  BY <1>1, <1>2

LEMMA ProbeGoes ==
  ASSUME Jobs, NEW c \in Calls, Probe(c) PROVE Vars' /\ CallsGo /\ CallsCalm
<1>. DEFINE job == calls[c]
            m == hist.mixed
<1>1. job \in JobType /\ Returns(job) /\ Carries(job, m) /\ m \in BOOLEAN
  BY CallOK
<1>2. /\ job.pc = "probe"
      /\ UNCHANGED <<windows, memory, disk, cache, now, server, left, hist>>
      /\ Set(c, Caching(job)) \/ Set(c, Probed(job))
  BY DEF Probe, At
<1>3. cache # None => CacheSound(cache, m)
  BY DEF Jobs
<1>. HIDE DEF job, m
<1>4. CASE Set(c, Caching(job))
  <2>. DEFINE j == Caching(job)
  <2>1. JobOK(j, m) /\ j.pc = "cache_write"
    BY <1>1, <1>2, <1>3, CachingOK
  <2>2. Set(c, j)
    BY <1>4
  <2>. HIDE DEF j
  <2>. QED  BY <1>2, <2>1, <2>2, JobGoes DEF m, Serving, Hot
<1>5. CASE Set(c, Probed(job))
  <2>. DEFINE j == Probed(job)
  <2>1. /\ job.own # None /\ job.ids # << >>
        /\ Len(job.ids) <= (IF job.op = "refresh_cached" THEN MaxEntries ELSE 3)
    BY <1>1, <1>2, LeasedOK DEF Leased
  <2>2. JobOK(j, m) /\ j.pc \notin Serving \cup Hot
    BY <1>1, <2>1, ProbedOK
  <2>3. Set(c, j)
    BY <1>5
  <2>. HIDE DEF j
  <2>. QED  BY <1>2, <2>2, <2>3, JobGoes DEF m
<1>. QED  BY <1>2, <1>4, <1>5

LEMMA CacheWriteGoes ==
  ASSUME Jobs, NEW c \in Calls, CacheWrite(c) PROVE Vars' /\ CallsGo /\ CallsCalm
<1>. DEFINE job == calls[c]
            m == hist.mixed
            b == [job EXCEPT !.read = None]
            j == Probed(b)
<1>1. job \in JobType /\ Returns(job) /\ Carries(job, m) /\ m \in BOOLEAN
  BY CallOK
<1>2. /\ job.pc = "cache_write" /\ cache' = job.read /\ Set(c, j)
      /\ UNCHANGED <<windows, memory, disk, now, server, left, hist>>
  BY DEF CacheWrite, At
<1>. HIDE DEF job
<1>3. /\ job.own # None /\ job.ids # << >> /\ CacheSound(job.read, m)
      /\ Len(job.ids) <= (IF job.op = "refresh_cached" THEN MaxEntries ELSE 3)
  BY <1>1, <1>2 DEF Carries, Leased
<1>4. b \in JobType /\ b.own = job.own /\ b.ids = job.ids /\ b.op = job.op
  BY <1>1 DEF JobType
<1>. HIDE DEF b
<1>5. JobOK(j, m) /\ j.pc \notin Serving \cup Hot
  BY <1>1, <1>3, <1>4, ProbedOK
<1>. HIDE DEF j
<1>6. hist' \in HistType /\ hist'.mixed = m
  BY <1>2 DEF Jobs
<1>7. Vars'
  BY <1>2, <1>3, <1>6 DEF Jobs, Vars
<1>. QED  BY <1>2, <1>5, <1>6, <1>7, MoveGoes, SetCalm

LEMMA TickGoes ==
  ASSUME Jobs, Tick PROVE Vars' /\ CallsGo
<1>1. now' \in 0 .. MaxNow
  BY ConstantsAssumption DEF Jobs, Tick
<1>2. UNCHANGED <<windows, memory, disk, cache, server, calls, left, hist, raced>>
  BY DEF Tick
<1>3. Vars'
  BY <1>1, <1>2 DEF Jobs, Vars
<1>. QED  BY <1>2, <1>3, CallsUnchanged

LEMMA RevokeGoes ==
  ASSUME Jobs, NEW p \in Pairs, Revoke(p) PROVE Vars' /\ CallsGo
<1>1. left' \in [trouble : 0 .. MaxTrouble, commands : 0 .. MaxCommands]
  BY SpendOK DEF Revoke
<1>2. /\ server' = [server EXCEPT !.good = @ \ {p}]
      /\ UNCHANGED <<windows, memory, disk, cache, now, calls, hist, raced>>
  BY DEF Revoke
<1>3. /\ server' \in [good : SUBSET Pairs, next : 1 .. MaxPairs + 1]
      /\ \A q \in server'.good : q < server'.next
  <2>1. /\ server \in [good : SUBSET Pairs, next : 1 .. MaxPairs + 1]
        /\ \A q \in server.good : q < server.next
    BY DEF Jobs
  <2>2. server'.good = server.good \ {p} /\ server'.next = server.next
    BY <1>2, <2>1
  <2>3. server' \in [good : SUBSET Pairs, next : 1 .. MaxPairs + 1]
    BY <1>2, <2>1
  <2>. QED  BY <2>1, <2>2, <2>3
<1>4. Vars'
  BY <1>1, <1>2, <1>3 DEF Jobs, Vars
<1>. QED  BY <1>2, <1>4, CallsUnchanged

LEMMA RestartGoes ==
  ASSUME Jobs, Restart PROVE Vars' /\ CallsGo
<1>1. left' \in [trouble : 0 .. MaxTrouble, commands : 0 .. MaxCommands]
  BY SpendOK DEF Restart
<1>2. /\ memory' = None /\ calls' = [c \in Calls |-> Idle]
      /\ UNCHANGED <<windows, disk, now, server, hist, raced>>
  BY DEF Restart
<1>3. hist' = hist /\ hist.mixed \in BOOLEAN /\ (cache # None => CacheSound(cache, hist.mixed))
  BY <1>2 DEF HistType, Jobs
<1>4. cache' # None => CacheSound(cache', hist'.mixed)
  <2>1. \/ cache' = cache
        \/ cache # None /\ cache' = [cache EXCEPT !.current = FALSE]
    BY DEF Restart
  <2>2. ASSUME cache # None, cache' = [cache EXCEPT !.current = FALSE]
        PROVE  CacheSound(cache', hist.mixed)
    <3>1. cache \in Caches
      BY <1>3, <2>2 DEF CacheSound
    <3>2. cache' \in Caches /\ cache'.entries = cache.entries /\ cache'.owner = cache.owner
      BY <2>2, <3>1 DEF Caches
    <3>. QED  BY <1>3, <2>2, <3>2 DEF CacheSound
  <2>. QED  BY <1>3, <2>1, <2>2
<1>5. Vars'
  BY <1>1, <1>2, <1>4 DEF Jobs, Vars
<1>6. CallsGo
  <2>1. JobOK(Idle, hist.mixed) /\ Serves(Idle)
    BY <1>3, IdleOK, IdleServes
  <2>2. Idle \in JobType
    BY <2>1 DEF JobOK
  <2>. HIDE DEF Idle
  <2>3. calls' \in [Calls -> JobType] /\ \A c \in Calls : calls'[c] = Idle
    BY <1>2, <2>2
  <2>4. raced' \in BOOLEAN
    BY <1>2 DEF Jobs
  <2>. QED  BY <1>3, <2>1, <2>3, <2>4 DEF CallsGo
<1>. QED  BY <1>5, <1>6

LEMMA JobsNext ==
  ASSUME Jobs, Next PROVE Jobs' /\ CallsGo
<1>1. ASSUME NEW c \in Calls, Step(c) PROVE Vars' /\ CallsGo
  <2>1. ASSUME NEW op \in Ops, Begin(c, op) PROVE Vars' /\ CallsGo
    BY <2>1, BeginGoes
  <2>. QED  BY <1>1, <2>1, LoadGoes, LoadDiskGoes, LoadSetGoes, ExchangeGoes, SendRefreshGoes,
               StoreDiskGoes, StoreMemoryGoes, InvalidateMemoryGoes, InvalidateKeyringGoes,
               InvalidateDpapiGoes, DeleteMemoryGoes, DeleteSessionGoes, DeleteCacheGoes,
               SendRequestGoes, SendProfileGoes, RejectedGoes, LocationGoes, BringUpCachedGoes,
               BringUpGoes, ProbeGoes, CacheWriteGoes, Zenon
            DEF Step
<1>2. Vars' /\ CallsGo
  BY <1>1, TickGoes, RevokeGoes, RestartGoes, Zenon DEF Next
<1>. QED  BY <1>2, JobsGo

LEMMA JobsInit == Init => Jobs
<1>. SUFFICES ASSUME Init PROVE Jobs
  OBVIOUS
<1>1. calls \in [Calls -> JobType] /\ \A c \in Calls : JobOK(calls[c], hist.mixed)
  <2>1. calls = [c \in Calls |-> Idle] /\ hist.mixed \in BOOLEAN
    BY DEF Init
  <2>2. JobOK(Idle, hist.mixed) /\ Idle \in JobType
    BY <2>1, IdleOK DEF JobOK
  <2>. HIDE DEF Idle
  <2>. QED  BY <2>1, <2>2
<1>2. cache # None => CacheSound(cache, hist.mixed)
  <2>. SUFFICES ASSUME NEW a \in Accounts, NEW l \in Locations,
                       cache = [owner |-> a, current |-> TRUE,
                                entries |-> <<[loc |-> l, for |-> a, exp |-> 1]>>]
                PROVE  CacheSound(cache, hist.mixed)
    <3>1. cache \in {None} \cup {[owner |-> a, current |-> TRUE,
                                 entries |-> <<[loc |-> l, for |-> a, exp |-> 1]>>] :
                                 a \in Accounts, l \in Locations}
      BY DEF Init
    <3>. QED  BY <3>1
  <2>. DEFINE e == [loc |-> l, for |-> a, exp |-> 1]
  <2>1. e \in Lease /\ e.for = a
    BY ConstantsAssumption DEF Lease
  <2>2. cache = [owner |-> a, current |-> TRUE, entries |-> <<e>>]
    OBVIOUS
  <2>. HIDE DEF e
  <2>3. cache \in Caches /\ cache.entries = <<e>> /\ cache.owner = a
    BY <2>1, <2>2 DEF Caches
  <2>4. Len(cache.entries) = 1 /\ DOMAIN cache.entries = {1} /\ cache.entries[1] = e
    BY <2>3
  <2>5. Len(cache.entries) <= MaxEntries
    BY <2>4, ConstantsAssumption
  <2>. QED  BY <2>1, <2>3, <2>4, <2>5 DEF CacheSound
<1>3. disk \in [keyring : Texts, dpapi : Texts]
      /\ server \in [good : SUBSET Pairs, next : 1 .. MaxPairs + 1]
      /\ \A p \in server.good : p < server.next
  <2>1. CASE /\ disk = [keyring |-> None, dpapi |-> None]
             /\ server = [good |-> {}, next |-> 1]
    <3>1. 1 \in 1 .. MaxPairs + 1
      BY ConstantsAssumption
    <3>. QED  BY <2>1, <3>1 DEF Texts
  <2>2. ASSUME NEW text \in Stored, text.pair = 1,
               disk = [keyring |-> text, dpapi |-> IF windows THEN text ELSE None],
               server \in {[good |-> g, next |-> 2] : g \in {{}, {1}}}
        PROVE  /\ disk \in [keyring : Texts, dpapi : Texts]
               /\ server \in [good : SUBSET Pairs, next : 1 .. MaxPairs + 1]
               /\ \A p \in server.good : p < server.next
    <3>1. 1 \in Pairs
      BY <2>2 DEF Stored
    <3>2. 2 \in 1 .. MaxPairs + 1
      BY <3>1, ConstantsAssumption DEF Pairs
    <3>3. disk \in [keyring : Texts, dpapi : Texts]
      BY <2>2 DEF Texts
    <3>4. PICK g \in {{}, {1}} : server = [good |-> g, next |-> 2]
      BY <2>2
    <3>5. server.good = g /\ server.next = 2 /\ g \in SUBSET Pairs /\ \A p \in g : p < 2
      BY <3>1, <3>4
    <3>6. server \in [good : SUBSET Pairs, next : 1 .. MaxPairs + 1]
      BY <3>2, <3>4, <3>5
    <3>. QED  BY <3>3, <3>5, <3>6
  <2>3. ASSUME NEW old \in Stored, NEW new \in Stored, old.pair = 1, new.pair = 2,
               disk = [keyring |-> old, dpapi |-> new],
               server \in {[good |-> g, next |-> 3] : g \in SUBSET {1, 2}}
        PROVE  /\ disk \in [keyring : Texts, dpapi : Texts]
               /\ server \in [good : SUBSET Pairs, next : 1 .. MaxPairs + 1]
               /\ \A p \in server.good : p < server.next
    <3>1. 1 \in Pairs /\ 2 \in Pairs
      BY <2>3 DEF Stored
    <3>2. 3 \in 1 .. MaxPairs + 1
      BY <3>1, ConstantsAssumption DEF Pairs
    <3>3. disk \in [keyring : Texts, dpapi : Texts]
      BY <2>3 DEF Texts
    <3>4. PICK g \in SUBSET {1, 2} : server = [good |-> g, next |-> 3]
      BY <2>3
    <3>5. server.good = g /\ server.next = 3 /\ g \in SUBSET Pairs /\ \A p \in g : p < 3
      BY <3>1, <3>4
    <3>6. server \in [good : SUBSET Pairs, next : 1 .. MaxPairs + 1]
      BY <3>2, <3>4, <3>5
    <3>. QED  BY <3>3, <3>5, <3>6
  <2>4. \/ /\ disk = [keyring |-> None, dpapi |-> None]
           /\ server = [good |-> {}, next |-> 1]
        \/ \E text \in Stored :
             /\ text.pair = 1
             /\ disk = [keyring |-> text, dpapi |-> IF windows THEN text ELSE None]
             /\ server \in {[good |-> g, next |-> 2] : g \in {{}, {1}}}
        \/ \E old, new \in Stored :
             /\ old.pair = 1 /\ new.pair = 2
             /\ disk = [keyring |-> old, dpapi |-> new]
             /\ server \in {[good |-> g, next |-> 3] : g \in SUBSET {1, 2}}
    <3>1. ASSUME NEW text \in Stored, text.pair = 1 /\ (text.full => Early),
                 disk = [keyring |-> text, dpapi |-> IF windows THEN text ELSE None],
                 server \in {[good |-> g, next |-> 2] : g \in {{}, {1}}}
          PROVE  \E t \in Stored :
                   /\ t.pair = 1
                   /\ disk = [keyring |-> t, dpapi |-> IF windows THEN t ELSE None]
                   /\ server \in {[good |-> g, next |-> 2] : g \in {{}, {1}}}
      BY <3>1, Zenon
    <3>2. ASSUME NEW old \in Stored, NEW new \in Stored,
                 windows /\ old.pair = 1 /\ new.pair = 2 /\ ~old.full /\ ~new.full,
                 disk = [keyring |-> old, dpapi |-> new],
                 server \in {[good |-> g, next |-> 3] : g \in SUBSET {1, 2}}
          PROVE  \E o, n \in Stored :
                   /\ o.pair = 1 /\ n.pair = 2
                   /\ disk = [keyring |-> o, dpapi |-> n]
                   /\ server \in {[good |-> g, next |-> 3] : g \in SUBSET {1, 2}}
      BY <3>2, Zenon
    <3>3. \/ /\ disk = [keyring |-> None, dpapi |-> None]
             /\ server = [good |-> {}, next |-> 1]
          \/ \E text \in Stored :
               /\ text.pair = 1 /\ (text.full => Early)
               /\ disk = [keyring |-> text, dpapi |-> IF windows THEN text ELSE None]
               /\ server \in {[good |-> g, next |-> 2] : g \in {{}, {1}}}
          \/ \E old, new \in Stored :
               /\ windows /\ old.pair = 1 /\ new.pair = 2 /\ ~old.full /\ ~new.full
               /\ disk = [keyring |-> old, dpapi |-> new]
               /\ server \in {[good |-> g, next |-> 3] : g \in SUBSET {1, 2}}
      BY SMT DEF Init
    <3>. QED  BY <3>1, <3>2, <3>3, Zenon
  <2>. QED  BY <2>1, <2>2, <2>3, <2>4
<1>4. /\ windows \in BOOLEAN /\ now \in 0 .. MaxNow
      /\ left \in [trouble : 0 .. MaxTrouble, commands : 0 .. MaxCommands]
      /\ memory \in Session \cup {None}
      /\ hist \in HistType /\ raced \in BOOLEAN
  <2>1. 0 \in 0 .. MaxNow /\ MaxTrouble \in 0 .. MaxTrouble /\ MaxCommands \in 0 .. MaxCommands
    BY ConstantsAssumption
  <2>2. /\ windows \in BOOLEAN /\ memory = None /\ now = 0
        /\ left = [trouble |-> MaxTrouble, commands |-> MaxCommands]
        /\ hist = [mixed |-> FALSE, out |-> FALSE, taken |-> FALSE, refused |-> {},
                   behind |-> FALSE]
        /\ raced = FALSE
    BY DEF Init
  <2>3. hist \in HistType
    BY <2>2 DEF HistType
  <2>. QED  BY <2>1, <2>2, <2>3
<1>. QED  BY <1>1, <1>2, <1>3, <1>4 DEF Jobs

LEMMA JobsAlways == Spec => []Jobs
<1>1. Jobs /\ UNCHANGED vars => Jobs'
  BY DEF Jobs, vars
<1>2. Jobs /\ [Next]_vars => Jobs'
  BY <1>1, JobsNext
<1>. QED  BY <1>2, JobsInit, PTL DEF Spec

\* Every variable keeps its type, a call its shape, a cache its bound.
THEOREM SessionTypes == Spec => []TypeOK
<1>1. Jobs => TypeOK
  <2>. SUFFICES ASSUME Jobs PROVE TypeOK
    OBVIOUS
  <2>1. CacheTypeOK(cache)
    BY DEF Jobs, CacheTypeOK, CacheSound, Caches
  <2>2. ASSUME NEW c \in Calls PROVE JobTypeOK(calls[c])
    <3>. DEFINE job == calls[c]
    <3>1. job \in JobType /\ Carries(job, hist.mixed)
      BY CallOK
    <3>. HIDE DEF job
    <3>2. JobTypeOK(job)
      BY <3>1 DEF JobTypeOK, Carries, JobType
    <3>. QED  BY <3>2 DEF job
  <2>3. server.good \subseteq 1 .. server.next - 1 /\ server.next \in 1 .. MaxPairs + 1
    <3>1. /\ server.good \subseteq Pairs /\ server.next \in 1 .. MaxPairs + 1
          /\ \A p \in server.good : p < server.next
      BY DEF Jobs
    <3>2. ASSUME NEW p \in server.good PROVE p \in 1 .. server.next - 1
      <4>1. p \in 1 .. MaxPairs /\ p < server.next
        BY <3>1 DEF Pairs
      <4>. QED  BY <3>1, <4>1, ConstantsAssumption
    <3>. QED  BY <3>1, <3>2
  <2>. QED  BY <2>1, <2>2, <2>3 DEF Jobs, TypeOK
<1>. QED  BY <1>1, JobsAlways, PTL

\* The cached leases of an account are its own, one per location, at most MaxEntries: what
\* an insert writes keeps it, whatever two calls read and wrote in between.
THEOREM CacheStaysItsOwners == Spec => []CacheIsOwners
<1>1. Jobs => CacheIsOwners
  BY DEF Jobs, CacheSound, CacheIsOwners
<1>. QED  BY <1>1, JobsAlways, PTL

\* A lease handed to the connection is fresh, for the location being tried and for the
\* account the command began with.
THEOREM LeasesAreUsable == Spec => ServedLeaseIsUsable
<1>. DEFINE Usable == \A c \in Calls :
                        calls'[c].pc \in {"bring_up", "bring_up_cached"} /\ calls'[c] # calls[c]
                          => /\ calls'[c].lease.exp > now
                             /\ calls'[c].lease.loc = Head(calls'[c].ids)
                             /\ hist'.mixed \/ calls'[c].lease.for = calls'[c].own
<1>1. Jobs /\ [Next]_vars => [Usable]_vars
  <2>. SUFFICES ASSUME Jobs, Next PROVE Usable
    OBVIOUS
  <2>1. CallsGo
    BY JobsNext
  <2>. QED  BY <2>1 DEF CallsGo, Serves, Serving
<1>. QED  BY <1>1, JobsAlways, PTL DEF Spec, ServedLeaseIsUsable

-----------------------------------------------------------------------------
(* A step changes the job of its call, and perhaps an idle slot; without a   *)
(* race the calls do not overlap on the session.                             *)

Clean == ~raced' => ~raced /\ ~Overlap(calls) /\ ~Overlap(calls')

\* a step of c that changes its call alone, or spawns a task into a free slot
Only(c) == Clean /\ \A d \in Calls \ {c} : calls'[d] # calls[d] => At(d, "idle")

LEMMA PutClean ==
  ASSUME Quiet, NEW new, Put(new) PROVE Clean
<1>1. calls' = new /\ raced' = (raced \/ Overlap(new))
  BY DEF Put
<1>2. Overlap(calls') = Overlap(new)
  BY <1>1 DEF Overlap
<1>. QED  BY <1>1, <1>2, Zenon DEF Clean, Quiet

LEMMA SetAlone ==
  ASSUME Jobs, Quiet, NEW c \in Calls, NEW j, Set(c, j)
  PROVE  Clean /\ calls'[c] = j /\ \A d \in Calls \ {c} : calls'[d] = calls[d]
<1>1. calls \in [Calls -> JobType]
  BY DEF Jobs
<1>2. Put([calls EXCEPT ![c] = j])
  BY DEF Set
<1>3. calls' = [calls EXCEPT ![c] = j]
  BY <1>2 DEF Put
<1>. QED  BY <1>1, <1>2, <1>3, PutClean

LEMMA SetOnly ==
  ASSUME Jobs, Quiet, NEW c \in Calls, NEW j, Set(c, j) PROVE Only(c)
BY SetAlone DEF Only

LEMMA SpawnOnly ==
  ASSUME Jobs, Quiet, NEW c \in Calls, NEW j, NEW task, Spawn(c, j, task) PROVE Only(c)
<1>1. CASE Free = {}
  <2>1. Set(c, j)
    BY <1>1 DEF Spawn
  <2>. QED  BY <2>1, SetOnly
<1>2. CASE Free # {}
  <2>. DEFINE f == CHOOSE d \in Free : TRUE
              new == [calls EXCEPT ![c] = j, ![f] = task]
  <2>1. Put(new)
    BY <1>2 DEF Spawn
  <2>2. f \in Calls /\ At(f, "idle")
    BY <1>2 DEF Free
  <2>. HIDE DEF f
  <2>3. calls \in [Calls -> JobType]
    BY DEF Jobs
  <2>4. calls' = new
    BY <2>1 DEF Put
  <2>5. \A d \in Calls \ {c} : d # f => calls'[d] = calls[d]
    BY <2>2, <2>3, <2>4
  <2>. HIDE DEF new
  <2>6. \A d \in Calls \ {c} : calls'[d] # calls[d] => At(d, "idle")
    BY <2>2, <2>5
  <2>. QED  BY <2>1, <2>6, PutClean DEF Only
<1>. QED  BY <1>1, <1>2

-----------------------------------------------------------------------------
(* No step of a call breaks what the others know of the session.             *)

LEMMA SameReadable ==
  ASSUME UNCHANGED <<windows, disk>>
  PROVE  Readable' = Readable /\ (hist'.behind = hist.behind => Newest' = Newest)
<1>1. Readable' = Readable
  BY DEF Readable, Decode
<1>2. Decode(disk.dpapi)' = Decode(disk.dpapi)
  BY DEF Decode
<1>. QED  BY <1>1, <1>2 DEF Newest

LEMMA GoneIsUnread ==
  ASSUME disk.keyring \in Gone, disk.dpapi \in Gone PROVE Readable = None
BY DEF Readable, Decode, Gone

\* who changes the session is alone with it
LEMMA Alone ==
  ASSUME ~Overlap(calls), NEW c \in Calls, calls[c].pc \in Changing, NEW d \in Calls, d # c
  PROVE  calls[d].pc \notin Hot
<1>1. calls[d].pc \notin Changing \cup Reading
  BY Zenon DEF Overlap
<1>. QED  BY <1>1 DEF Hot, Changing, Reading

\* who reads it meets nobody that changes it
LEMMA Reader ==
  ASSUME ~Overlap(calls), NEW c \in Calls, calls[c].pc \in Reading, NEW d \in Calls
  PROVE  calls[d].pc \notin Changing
<1>1. CASE d = c
  BY <1>1 DEF Reading, Changing
<1>2. CASE d # c
  BY <1>2, Zenon DEF Overlap
<1>. QED  BY <1>1, <1>2

LEMMA ColdFits ==
  ASSUME NEW job, job.pc \notin Hot PROVE Fits(job)
BY DEF Fits, Hot, Invalidating

\* the session stays as it is, and no call that is about to store it goes elsewhere
LEMMA CalmStep ==
  ASSUME Jobs, Quiet, Clean, UNCHANGED <<windows, memory, disk>>, HistKept,
         \A d \in Calls : calls'[d] # calls[d] =>
           /\ calls[d].pc # "store_memory"
           /\ calls'[d].pc \in Hot =>
                \/ calls'[d].pc = "refresh" /\ (~raced' => Kept(calls'[d].with))
                \/ /\ calls'[d].pc = "invalidate_memory"
                   /\ calls'[d].with # None /\ calls'[d].with.pair \in hist'.refused
  PROVE  Quiet'
<1>1. Readable' = Readable /\ Newest' = Newest
  BY SameReadable DEF HistKept
<1>2. ASSUME ~raced' PROVE ~Overlap(calls') /\ Agrees' /\ (hist'.out => SignedOut')
  <2>1. ~raced /\ ~Overlap(calls) /\ Agrees /\ (hist.out => SignedOut) /\ ~Overlap(calls')
    BY <1>2 DEF Clean, Quiet
  <2>2. Agrees'
    <3>1. (\A d \in Calls : calls'[d].pc # "store_memory")
            => \A d \in Calls : calls[d].pc # "store_memory"
      OBVIOUS
    <3>. QED  BY <1>1, <2>1, <3>1 DEF Agrees, Kept, At
  <2>. QED  BY <2>1, <2>2 DEF SignedOut, HistKept
<1>3. ASSUME ~raced', NEW d \in Calls PROVE Fits(calls[d])'
  <2>1. ~raced /\ Fits(calls[d])
    BY <1>3 DEF Clean, Quiet
  <2>2. CASE calls'[d] = calls[d]
    BY <1>1, <2>1, <2>2 DEF Fits, Kept, Found, HistKept
  <2>3. CASE calls'[d] # calls[d] /\ calls'[d].pc = "refresh"
    <3>1. Kept(calls'[d].with)
      BY <1>3, <2>3 DEF Hot
    <3>. QED  BY <1>1, <2>3, <3>1 DEF Fits, Kept, Invalidating
  <2>4. CASE calls'[d] # calls[d] /\ calls'[d].pc = "invalidate_memory"
    BY <2>4 DEF Fits, Hot
  <2>5. CASE calls'[d] # calls[d] /\ calls'[d].pc \notin {"refresh", "invalidate_memory"}
    <3>1. calls'[d].pc \notin Hot
      BY <2>5
    <3>. QED  BY <3>1 DEF Fits, Hot, Invalidating
  <2>. QED  BY <2>2, <2>3, <2>4, <2>5
<1>. QED  BY <1>2, <1>3 DEF Quiet

LEMMA CallsCalmStep ==
  ASSUME Jobs, Quiet, NEW c \in Calls, calls[c].pc # "store_memory", Only(c), CallsCalm,
         UNCHANGED <<windows, memory, disk>>, HistKept
  PROVE  Quiet'
<1>1. \A d \in Calls : calls'[d] # calls[d] =>
        calls[d].pc # "store_memory" /\ calls'[d].pc \notin Hot
  BY DEF Only, CallsCalm, At
<1>. QED  BY <1>1, CalmStep DEF Only

LEMMA HistSame == hist' = hist => HistKept
BY DEF HistKept

LEMMA BeginKeeps ==
  ASSUME Jobs, Quiet, NEW c \in Calls, NEW op \in Ops, Begin(c, op) PROVE Quiet'
<1>1. CallsCalm
  BY BeginGoes
<1>2. calls[c].pc = "idle" /\ UNCHANGED <<windows, memory, disk, hist>>
  BY DEF Begin, At
<1>3. \E j : Set(c, j)
  BY Zenon DEF Begin
<1>. QED  BY <1>1, <1>2, <1>3, SetOnly, CallsCalmStep, HistSame

LEMMA ExchangeKeeps ==
  ASSUME Jobs, Quiet, NEW c \in Calls, Exchange(c) PROVE Quiet'
<1>1. CallsCalm
  BY ExchangeGoes
<1>2. calls[c].pc = "exchange" /\ UNCHANGED <<windows, memory, disk, hist>>
  BY DEF Exchange, At
<1>3. \E j : Set(c, j)
  BY Zenon DEF Exchange
<1>. QED  BY <1>1, <1>2, <1>3, SetOnly, CallsCalmStep, HistSame

LEMMA DeleteCacheKeeps ==
  ASSUME Jobs, Quiet, NEW c \in Calls, DeleteCache(c) PROVE Quiet'
<1>1. Set(c, Idle) /\ calls[c].pc = "delete_cache" /\ UNCHANGED <<windows, memory, disk, hist>>
  BY DEF DeleteCache, At
<1>2. CallsCalm
  BY <1>1, SetCalm, IdleServes DEF Hot
<1>. QED  BY <1>1, <1>2, SetOnly, CallsCalmStep, HistSame

LEMMA SendRequestKeeps ==
  ASSUME Jobs, Quiet, NEW c \in Calls, SendRequest(c) PROVE Quiet'
<1>1. CallsCalm
  BY SendRequestGoes
<1>2. calls[c].pc = "send" /\ UNCHANGED <<windows, memory, disk, hist>>
  BY DEF SendRequest, At
<1>3. \E j : Set(c, j)
  BY Zenon DEF SendRequest
<1>. QED  BY <1>1, <1>2, <1>3, SetOnly, CallsCalmStep, HistSame

LEMMA SendProfileKeeps ==
  ASSUME Jobs, Quiet, NEW c \in Calls, SendProfile(c) PROVE Quiet'
<1>1. CallsCalm
  BY SendProfileGoes
<1>2. calls[c].pc = "send" /\ UNCHANGED <<windows, memory, disk>>
  BY DEF SendProfile, At
<1>3. HistKept
  <2>. DEFINE n == hist.mixed \/ calls[c].with.account # calls[c].own
  <2>1. hist' = [hist EXCEPT !.mixed = n] /\ hist \in HistType
    BY DEF SendProfile, Jobs
  <2>. HIDE DEF n
  <2>. QED  BY <2>1 DEF HistType, HistKept
<1>4. \E j : Set(c, j)
  BY Zenon DEF SendProfile
<1>. QED  BY <1>1, <1>2, <1>3, <1>4, SetOnly, CallsCalmStep

LEMMA RejectedKeeps ==
  ASSUME Jobs, Quiet, NEW c \in Calls, Rejected(c) PROVE Quiet'
<1>1. CallsCalm
  BY RejectedGoes
<1>2. calls[c].pc = "send" /\ UNCHANGED <<windows, memory, disk, hist>>
  BY DEF Rejected, At
<1>3. \E j : Set(c, j)
  BY Zenon DEF Rejected
<1>. QED  BY <1>1, <1>2, <1>3, SetOnly, CallsCalmStep, HistSame

LEMMA LocationKeeps ==
  ASSUME Jobs, Quiet, NEW c \in Calls, Location(c) PROVE Quiet'
<1>1. CallsCalm
  BY LocationGoes
<1>2. calls[c].pc = "location" /\ UNCHANGED <<windows, memory, disk, hist>>
  BY DEF Location, At
<1>3. \E j : Set(c, j)
  BY Zenon DEF Location
<1>. QED  BY <1>1, <1>2, <1>3, SetOnly, CallsCalmStep, HistSame

LEMMA BringUpCachedKeeps ==
  ASSUME Jobs, Quiet, NEW c \in Calls, BringUpCached(c) PROVE Quiet'
<1>1. CallsCalm
  BY BringUpCachedGoes
<1>2. calls[c].pc = "bring_up_cached" /\ UNCHANGED <<windows, memory, disk, hist>>
  BY DEF BringUpCached, At
<1>3. \/ Spawn(c, Idle, Background(calls[c]))
      \/ Set(c, Authorize(calls[c]))
  BY DEF BringUpCached
<1>4. Only(c)
  BY <1>3, SetOnly, SpawnOnly, Zenon
<1>. QED  BY <1>1, <1>2, <1>4, CallsCalmStep, HistSame

LEMMA BringUpKeeps ==
  ASSUME Jobs, Quiet, NEW c \in Calls, BringUp(c) PROVE Quiet'
<1>1. CallsCalm
  BY BringUpGoes
<1>2. calls[c].pc = "bring_up" /\ UNCHANGED <<windows, memory, disk, hist>>
  BY DEF BringUp, At
<1>3. \E j, task : Spawn(c, j, task)
  BY Zenon DEF BringUp
<1>. QED  BY <1>1, <1>2, <1>3, SpawnOnly, CallsCalmStep, HistSame

LEMMA ProbeKeeps ==
  ASSUME Jobs, Quiet, NEW c \in Calls, Probe(c) PROVE Quiet'
<1>1. CallsCalm
  BY ProbeGoes
<1>2. calls[c].pc = "probe" /\ UNCHANGED <<windows, memory, disk, hist>>
  BY DEF Probe, At
<1>3. \E j : Set(c, j)
  BY Zenon DEF Probe
<1>. QED  BY <1>1, <1>2, <1>3, SetOnly, CallsCalmStep, HistSame

LEMMA CacheWriteKeeps ==
  ASSUME Jobs, Quiet, NEW c \in Calls, CacheWrite(c) PROVE Quiet'
<1>1. CallsCalm
  BY CacheWriteGoes
<1>2. calls[c].pc = "cache_write" /\ UNCHANGED <<windows, memory, disk, hist>>
  BY DEF CacheWrite, At
<1>3. \E j : Set(c, j)
  BY Zenon DEF CacheWrite
<1>. QED  BY <1>1, <1>2, <1>3, SetOnly, CallsCalmStep, HistSame

\* time, revocations and stuttering
LEMMA OutsideKeeps ==
  ASSUME Jobs, Quiet, UNCHANGED <<windows, memory, disk, calls, hist, raced>> PROVE Quiet'
<1>1. Clean
  <2>1. Overlap(calls') = Overlap(calls)
    BY DEF Overlap
  <2>. QED  BY <2>1 DEF Clean, Quiet
<1>. QED  BY <1>1, CalmStep, HistSame

LEMMA RestartKeeps ==
  ASSUME Jobs, Quiet, Restart PROVE Quiet'
<1>1. /\ memory' = None /\ calls' = [c \in Calls |-> Idle]
      /\ UNCHANGED <<windows, disk, now, server, hist, raced>>
  BY DEF Restart
<1>2. \A c \in Calls : calls'[c].pc = "idle"
  BY <1>1, IdleServes
<1>3. ~Overlap(calls') /\ \A c \in Calls : Fits(calls[c])'
  BY <1>2 DEF Overlap, Changing, Reading, Fits, Invalidating
<1>. QED  BY <1>1, <1>3 DEF Quiet, Agrees, SignedOut

\* a session found in memory is the stored one, unless a call is about to store another
LEMMA LoadKeeps ==
  ASSUME Jobs, Quiet, NEW c \in Calls, Load(c) PROVE Quiet'
<1>. DEFINE job == calls[c]
            m == hist.mixed
<1>1. /\ job \in JobType /\ Returns(job) /\ Carries(job, m) /\ m \in BOOLEAN
      /\ cache # None => cache \in Caches /\ Len(cache.entries) <= MaxEntries
  BY CallOK
<1>2. job.pc = "load" /\ UNCHANGED <<windows, memory, disk, cache, now, server, left, hist>>
  BY DEF Load, At
<1>3. ASSUME NEW j, Set(c, j), j.pc \in Hot => j.pc = "refresh" /\ memory # None /\ j.with = memory
      PROVE  Quiet'
  <2>1. Clean /\ calls'[c] = j /\ \A d \in Calls \ {c} : calls'[d] = calls[d]
    BY <1>3, SetAlone
  <2>2. ASSUME ~raced', j.pc = "refresh" PROVE Kept(j.with)
    <3>1. ~Overlap(calls') /\ ~raced
      BY <2>1, <2>2 DEF Clean
    <3>2. \A d \in Calls \ {c} : calls'[d].pc # "store_memory"
      BY <2>1, <2>2, <3>1 DEF Overlap, Changing
    <3>3. \A d \in Calls : calls[d].pc # "store_memory"
      BY <1>2, <2>1, <3>2
    <3>4. Agrees /\ memory # None /\ j.with = memory
      BY <1>3, <2>2, <3>1 DEF Quiet, Hot
    <3>. QED  BY <3>3, <3>4 DEF Agrees, At
  <2>3. \A d \in Calls : calls'[d] # calls[d] =>
          /\ calls[d].pc # "store_memory"
          /\ calls'[d].pc \in Hot => calls'[d].pc = "refresh" /\ (~raced' => Kept(calls'[d].with))
    BY <1>2, <1>3, <2>1, <2>2
  <2>. QED  BY <1>2, <2>1, <2>3, CalmStep, HistSame
<1>. HIDE DEF job, m
<1>4. CASE memory # None
  <2>. DEFINE j == Loaded(job, memory)
  <2>1. Set(c, j)
    BY <1>4 DEF Load, job
  <2>2. Loaden(job, m)
    BY <1>1, <1>2 DEF Loaden, Has, Returns, Carries, Loading, JobType
  <2>3. memory \in Session \cup {None}
    BY DEF Jobs
  <2>4. /\ j.pc \in {"idle", "send", "load", "refresh", "exchange", "location", "delete_memory"}
        /\ j.pc = "refresh" => memory # None /\ j.with = memory
    BY <1>1, <2>2, <2>3, LoadedOK
  <2>. HIDE DEF j
  <2>. QED  BY <1>3, <2>1, <2>4 DEF Hot
<1>5. CASE memory = None
  <2>. DEFINE j == [job EXCEPT !.pc = "load_disk"]
  <2>1. Set(c, j)
    BY <1>5 DEF Load, To, job
  <2>2. j.pc = "load_disk"
    BY <1>1 DEF JobType
  <2>. HIDE DEF j
  <2>. QED  BY <1>3, <2>1, <2>2 DEF Hot
<1>. QED  BY <1>4, <1>5

\* LoadDisk: both backends end with the text of the mirror, and what a load finds stays
LEMMA LoadDiskReadable ==
  ASSUME Jobs, Quiet, NEW c \in Calls, LoadDisk(c)
  PROVE  /\ Readable' = Readable /\ Newest' = Newest /\ disk'.dpapi = disk.dpapi
         /\ disk.keyring \in Gone /\ disk.dpapi \in Gone => disk'.keyring \in Gone
<1>1. windows' = windows /\ hist' = hist /\ (~windows => disk.dpapi = None)
  BY DEF LoadDisk, Quiet
<1>2. CASE disk.keyring # None
  <2>1. disk' = disk
    BY <1>2 DEF LoadDisk
  <2>. QED  BY <1>1, <2>1, SameReadable
<1>3. CASE disk.keyring = None
  <2>1. disk' = [disk EXCEPT !.keyring = disk.dpapi]
    BY <1>3 DEF LoadDisk
  <2>2. disk'.keyring = disk.dpapi /\ disk'.dpapi = disk.dpapi
    BY <2>1 DEF Jobs
  <2>3. Readable = Decode(disk.dpapi) /\ Readable' = Decode(disk.dpapi)
    BY <1>1, <1>3, <2>2 DEF Readable, Decode
  <2>4. Newest' = Newest
    BY <1>1, <2>2, <2>3 DEF Newest, Decode
  <2>. QED  BY <2>2, <2>3, <2>4 DEF Gone
<1>. QED  BY <1>2, <1>3

LEMMA LoadDiskKeeps ==
  ASSUME Jobs, Quiet, NEW c \in Calls, LoadDisk(c) PROVE Quiet'
<1>. DEFINE job == calls[c]
            m == hist.mixed
<1>1. /\ job \in JobType /\ Returns(job) /\ Carries(job, m) /\ m \in BOOLEAN
      /\ cache # None => cache \in Caches /\ Len(cache.entries) <= MaxEntries
  BY CallOK
<1>2. calls[c].pc = "load_disk" /\ UNCHANGED <<windows, memory, hist>>
  BY DEF LoadDisk, At
<1>3. /\ Readable' = Readable /\ Newest' = Newest /\ disk'.dpapi = disk.dpapi
      /\ disk.keyring \in Gone /\ disk.dpapi \in Gone => disk'.keyring \in Gone
  BY LoadDiskReadable
<1>4. ASSUME NEW j, Set(c, j), j.pc \in Hot => j.pc = "load_set" /\ Readable # None /\ j.value = Readable
      PROVE  Quiet'
  <2>1. Clean /\ calls'[c] = j /\ \A d \in Calls \ {c} : calls'[d] = calls[d]
    BY <1>4, SetAlone
  <2>2. ASSUME ~raced' PROVE Quiet'
    <3>1. /\ ~Overlap(calls) /\ ~Overlap(calls') /\ Agrees /\ (hist.out => SignedOut)
          /\ \A d \in Calls : Fits(calls[d])
      BY <2>1, <2>2 DEF Clean, Quiet
    <3>2. \A d \in Calls : calls[d].pc \notin Changing
      BY <1>2, <3>1, Reader DEF Reading
    <3>3. Agrees'
      BY <1>2, <1>3, <3>1, <3>2 DEF Agrees, Kept, At, Changing
    <3>4. hist'.out => SignedOut'
      BY <1>2, <1>3, <3>1 DEF SignedOut
    <3>5. ASSUME NEW d \in Calls PROVE Fits(calls[d])'
      <4>1. CASE d = c /\ j.pc = "load_set"
        <5>1. j.value = Readable /\ Readable # None
          BY <1>4, <4>1 DEF Hot
        <5>2. ~hist.out
          BY <3>1, <5>1, GoneIsUnread DEF SignedOut
        <5>. QED  BY <1>2, <1>3, <2>1, <4>1, <5>1, <5>2 DEF Fits, Found, Invalidating
      <4>2. CASE d = c /\ j.pc # "load_set"
        BY <1>4, <2>1, <4>2 DEF Fits, Hot, Invalidating
      <4>3. CASE d # c
        <5>1. calls'[d] = calls[d] /\ Fits(calls[d]) /\ calls[d].pc \notin Changing
          BY <2>1, <3>1, <3>2, <4>3
        <5>. QED  BY <1>2, <1>3, <5>1 DEF Fits, Found, Changing, Invalidating
      <4>. QED  BY <4>1, <4>2, <4>3
    <3>. QED  BY <1>2, <1>3, <3>1, <3>3, <3>4, <3>5 DEF Quiet
  <2>. QED  BY <1>2, <1>3, <2>2 DEF Quiet
<1>. HIDE DEF job, m
<1>5. CASE Readable = None
  <2>. DEFINE s == None
              j == Loaded(job, s)
  <2>1. Set(c, j)
    BY <1>5 DEF LoadDisk, job
  <2>2. Loaden(job, m)
    BY <1>1, <1>2 DEF Loaden, Has, Returns, Carries, Loading, JobType, job
  <2>3. s \in Session \cup {None} /\ s = None
    OBVIOUS
  <2>. HIDE DEF s
  <2>4. j.pc \in {"idle", "send", "load", "exchange", "location", "delete_memory"}
    <3>1. /\ j.pc \in {"idle", "send", "load", "refresh", "exchange", "location", "delete_memory"}
          /\ j.pc = "refresh" => s # None
      BY <1>1, <2>2, <2>3, LoadedOK
    <3>. QED  BY <2>3, <3>1
  <2>. HIDE DEF j
  <2>. QED  BY <1>4, <2>1, <2>4 DEF Hot
<1>6. CASE Readable # None
  <2>. DEFINE r == Readable
              j == [job EXCEPT !.pc = "load_set", !.value = r]
  <2>1. Set(c, j)
    BY <1>6 DEF LoadDisk, job
  <2>2. r # None
    BY <1>6
  <2>3. r = Readable
    OBVIOUS
  <2>. HIDE DEF r
  <2>4. j.pc = "load_set" /\ j.value = r
    BY <1>1 DEF JobType
  <2>. HIDE DEF j
  <2>. QED  BY <1>4, <2>1, <2>2, <2>3, <2>4
<1>. QED  BY <1>5, <1>6

LEMMA LoadSetKeeps ==
  ASSUME Jobs, Quiet, NEW c \in Calls, LoadSet(c) PROVE Quiet'
<1>. DEFINE job == calls[c]
            m == hist.mixed
            s == job.value
            b == [job EXCEPT !.value = None]
            j == Loaded(b, s)
<1>1. /\ job \in JobType /\ Returns(job) /\ Carries(job, m) /\ m \in BOOLEAN
      /\ cache # None => cache \in Caches /\ Len(cache.entries) <= MaxEntries
  BY CallOK
<1>2. /\ calls[c].pc = "load_set" /\ job.pc = "load_set" /\ job = calls[c]
      /\ UNCHANGED <<windows, cache, now, server, left>>
      /\ memory' = s /\ Set(c, j)
      /\ disk' = IF s.access THEN [disk EXCEPT !.keyring = Encode(s)] ELSE disk
  BY DEF LoadSet, At
<1>. HIDE DEF job, m
<1>3. s \in Session \cup {None} /\ s # None /\ s.access = FALSE /\ s = calls[c].value
  BY <1>1, <1>2 DEF JobType, Carries
<1>4. disk' = disk
  BY <1>2, <1>3
<1>5. /\ b \in JobType /\ b.op = job.op /\ b.back = job.back /\ b.own = job.own
      /\ b.ids = job.ids /\ b.lease = job.lease
  BY <1>1 DEF JobType
<1>. HIDE DEF s, b
<1>6. Loaden(b, m)
  BY <1>1, <1>2, <1>5 DEF Loaden, Has, Returns, Carries, Loading, JobType
<1>7. /\ j.pc \in {"idle", "send", "load", "refresh", "exchange", "location", "delete_memory"}
      /\ j.pc = "refresh" => s # None /\ j.with = s
  BY <1>1, <1>3, <1>6, LoadedOK
<1>. HIDE DEF j
<1>8. Clean /\ calls'[c] = j /\ \A d \in Calls \ {c} : calls'[d] = calls[d]
  BY <1>2, SetAlone
<1>0. hist'.behind = FALSE /\ hist'.out = hist.out
  <2>. DEFINE no == FALSE
  <2>1. hist' = [hist EXCEPT !.behind = no] /\ hist \in HistType /\ no = FALSE
    BY DEF LoadSet, Jobs
  <2>. HIDE DEF no
  <2>. QED  BY <2>1 DEF HistType
<1>9. Readable' = Readable /\ Newest' = Readable
  <2>1. Readable' = Readable
    BY <1>2, <1>4, SameReadable
  <2>. QED  BY <1>0, <2>1 DEF Newest
<1>10. ASSUME ~raced'
       PROVE  /\ ~Overlap(calls') /\ Agrees' /\ (hist'.out => SignedOut')
              /\ \A d \in Calls : Fits(calls[d])'
  <2>1. /\ ~Overlap(calls) /\ ~Overlap(calls')
        /\ \A d \in Calls : Fits(calls[d])
    BY <1>8, <1>10 DEF Clean, Quiet
  <2>2. \A d \in Calls : calls[d].pc \notin Changing
    BY <1>2, <2>1, Reader DEF Reading
  <2>3. Found(s) /\ ~hist.out
    BY <1>2, <1>3, <2>1 DEF Fits
  <2>4. Agrees'
    BY <1>2, <1>9, <2>3 DEF Agrees, Kept, Found
  <2>5. ASSUME NEW d \in Calls PROVE Fits(calls[d])'
    <3>1. CASE d = c
      BY <1>2, <1>7, <1>8, <1>9, <2>3, <3>1 DEF Fits, Kept, Found, Invalidating
    <3>2. CASE d # c
      <4>1. calls'[d] = calls[d] /\ Fits(calls[d]) /\ calls[d].pc \notin Changing
        BY <1>8, <2>1, <2>2, <3>2
      <4>. QED  BY <1>0, <1>2, <1>9, <4>1 DEF Fits, Found, Changing, Invalidating
    <3>. QED  BY <3>1, <3>2
  <2>. QED  BY <1>0, <2>1, <2>3, <2>4, <2>5
<1>. QED  BY <1>2, <1>4, <1>10 DEF Quiet

\* a step of a call that changes the session: without a race no other call is near it
LEMMA AloneStep ==
  ASSUME Jobs, Quiet, NEW c \in Calls, NEW j, Set(c, j), calls[c].pc \in Changing,
         (~windows => disk.dpapi = None)',
         ~raced' /\ ~raced =>
           /\ memory' # None /\ j.pc # "store_memory" => Kept(memory)'
           /\ Fits(calls[c])' /\ (hist'.out => SignedOut')
  PROVE  Quiet'
<1>1. Clean /\ calls'[c] = j /\ \A d \in Calls \ {c} : calls'[d] = calls[d]
  BY SetAlone
<1>2. ASSUME ~raced'
      PROVE  /\ ~Overlap(calls') /\ Agrees' /\ (hist'.out => SignedOut')
             /\ \A d \in Calls : Fits(calls[d])'
  <2>1. ~raced /\ ~Overlap(calls) /\ ~Overlap(calls')
    BY <1>1, <1>2 DEF Clean
  <2>2. /\ memory' # None /\ j.pc # "store_memory" => Kept(memory)'
        /\ Fits(calls[c])' /\ (hist'.out => SignedOut')
    BY <1>2, <2>1
  <2>3. Agrees'
    BY <1>1, <2>2 DEF Agrees, At
  <2>4. ASSUME NEW d \in Calls, d # c PROVE Fits(calls[d])'
    <3>1. calls[d].pc \notin Hot
      BY <2>1, <2>4, Alone
    <3>2. calls'[d].pc \notin Hot
      BY <1>1, <2>4, <3>1
    <3>. QED  BY <3>2 DEF Fits, Hot, Invalidating
  <2>. QED  BY <2>1, <2>2, <2>3, <2>4
<1>. QED  BY <1>2 DEF Quiet

\* what a refresh leaves of its call: refused for good only where the service refused the
\* pair
Refreshed(c) ==
  \E j : /\ Set(c, j)
         /\ j.pc \in Hot => \/ j.pc = "refresh" /\ j.with = calls[c].with
                           \/ /\ j.pc = "invalidate_memory" /\ j.with = calls[c].with
                              /\ j.with # None /\ j.with.pair \in hist'.refused

LEMMA SendRefreshJob ==
  ASSUME Jobs, NEW c \in Calls, SendRefresh(c)
  PROVE  HistKept /\ Refreshed(c)
<1>. DEFINE job == calls[c]
            m == hist.mixed
            s == job.with
            Outcome(j) == /\ Set(c, j)
                          /\ j.pc \in Hot => \/ j.pc = "refresh" /\ j.with = s
                                            \/ /\ j.pc = "invalidate_memory" /\ j.with = s
                                               /\ j.with # None /\ j.with.pair \in hist'.refused
            failed == RefreshFailed(job)
            refused == [job EXCEPT !.pc = "invalidate_memory"]
            again == [job EXCEPT !.again = TRUE]
            new == [s EXCEPT !.pair = server.next, !.access = TRUE]
            stored == [job EXCEPT !.pc = "store", !.value = new]
            noted == [hist EXCEPT !.refused = @ \cup {s.pair}]
<1>1. job \in JobType /\ Returns(job) /\ Carries(job, m) /\ m \in BOOLEAN
  BY CallOK
<1>2. job.pc = "refresh"
  BY DEF SendRefresh, At
<1>3. \/ hist' = hist /\ (Set(c, stored) \/ Set(c, again) \/ Set(c, failed))
      \/ \E status \in {"unavailable", "unauthorized"} :
           /\ Set(c, IF FatalRefresh(status) THEN refused ELSE failed)
           /\ hist' = IF status = "unauthorized" THEN noted ELSE hist
  BY Zenon DEF SendRefresh
<1>4. \/ hist' = hist /\ (Set(c, stored) \/ Set(c, again) \/ Set(c, failed))
      \/ Set(c, refused) /\ hist' = noted
  <2>1. FatalRefresh("unauthorized") /\ ~FatalRefresh("unavailable")
        /\ "unavailable" # "unauthorized"
    BY DEF FatalRefresh
  <2>. HIDE DEF stored, again, failed, refused, noted
  <2>. QED  BY <1>3, <2>1
<1>. HIDE DEF job, m
<1>5. s # None /\ Going(job, m)
  <2>1. job.back = "refresh" /\ s # None
    BY <1>1, <1>2 DEF Returns, Carries
  <2>. QED  BY <1>1, <2>1, GoingOn
<1>6. hist' = noted => HistKept /\ s.pair \in hist'.refused
  <2>. HIDE DEF s
  <2>. QED  BY DEF Jobs, HistType, HistKept
<1>7. failed.pc \in {"idle", "location", "delete_memory"}
  <2>1. JobOK(failed, m) /\ failed.pc \in {"idle", "location", "delete_memory"}
    <3>1. failed = RefreshFailed(job)
      OBVIOUS
    <3>. HIDE DEF failed
    <3>. QED  BY <1>1, <1>5, <3>1, RefreshFailedOK
  <2>. QED  BY <2>1
<1>8. /\ refused.pc = "invalidate_memory" /\ refused.with = s
      /\ again.pc = "refresh" /\ again.with = s
  BY <1>1, <1>2 DEF JobType
<1>. HIDE DEF new
<1>9. stored.pc = "store"
  BY <1>1 DEF JobType
<1>. HIDE DEF failed, refused, again, stored, noted
<1>10. ASSUME Set(c, stored) PROVE Outcome(stored)
  BY <1>9, <1>10 DEF Hot
<1>11. ASSUME Set(c, again) PROVE Outcome(again)
  BY <1>8, <1>11
<1>12. ASSUME Set(c, failed) PROVE Outcome(failed)
  BY <1>7, <1>12 DEF Hot
<1>13. ASSUME Set(c, refused), hist' = noted PROVE Outcome(refused)
  BY <1>5, <1>6, <1>8, <1>13
<1>14. \E j : Outcome(j)
  <2>. HIDE DEF Outcome
  <2>. QED  BY <1>4, <1>10, <1>11, <1>12, <1>13
<1>15. HistKept
  BY <1>4, <1>6, HistSame
<1>16. Refreshed(c)
  BY <1>14 DEF Refreshed, job
<1>. QED  BY <1>15, <1>16

LEMMA SendRefreshKeeps ==
  ASSUME Jobs, Quiet, NEW c \in Calls, SendRefresh(c) PROVE Quiet'
<1>0. Refreshed(c)
  BY SendRefreshJob
<1>1. PICK j : /\ Set(c, j)
               /\ j.pc \in Hot => \/ j.pc = "refresh" /\ j.with = calls[c].with
                                 \/ /\ j.pc = "invalidate_memory" /\ j.with = calls[c].with
                                    /\ j.with # None /\ j.with.pair \in hist'.refused
  BY <1>0, Zenon DEF Refreshed
<1>2. calls[c].pc = "refresh" /\ UNCHANGED <<windows, memory, disk>> /\ HistKept
  BY SendRefreshJob DEF SendRefresh, At
<1>3. Clean /\ calls'[c] = j /\ \A d \in Calls \ {c} : calls'[d] = calls[d]
  BY <1>1, SetAlone
<1>4. ~raced' => Kept(calls[c].with)
  <2>1. ~raced' => Fits(calls[c])
    BY <1>3 DEF Clean, Quiet
  <2>. QED  BY <1>2, <2>1 DEF Fits
<1>5. \A d \in Calls : calls'[d] # calls[d] =>
        /\ calls[d].pc # "store_memory"
        /\ calls'[d].pc \in Hot =>
             \/ calls'[d].pc = "refresh" /\ (~raced' => Kept(calls'[d].with))
             \/ /\ calls'[d].pc = "invalidate_memory"
                /\ calls'[d].with # None /\ calls'[d].with.pair \in hist'.refused
  BY <1>1, <1>2, <1>3, <1>4
<1>. QED  BY <1>2, <1>3, <1>5, CalmStep

\* what was written is read back
LEMMA DecodeEncode ==
  ASSUME NEW s \in Session
  PROVE  Decode(Encode(s)) # None /\ Decode(Encode(s)).pair = s.pair
<1>. DEFINE t == Encode(s)
            r == Decode(t)
<1>1. t \notin {None, Tombstone} /\ t.account = s.account /\ t.pair = s.pair
  BY EncodeOK
<1>2. t.account \in Accounts /\ t.pair \in Pairs
  BY <1>1 DEF Session
<1>. HIDE DEF t
<1>3. r = [account |-> t.account, pair |-> t.pair, access |-> FALSE]
  BY <1>1 DEF Decode
<1>. HIDE DEF r
<1>4. r \in Session /\ r.pair = t.pair
  BY <1>2, <1>3 DEF Session
<1>5. r # None
  BY <1>4, ConstantsAssumption
<1>. QED  BY <1>1, <1>4, <1>5 DEF r, t

\* what a store leaves of the disk
LEMMA SetDiskIs ==
  ASSUME Jobs, NEW text, NEW fails, SetDisk(text, fails)
  PROVE  /\ disk'.keyring = IF "keyring" \in fails THEN disk.keyring ELSE text
         /\ disk'.dpapi = IF windows /\ "dpapi" \notin fails THEN text ELSE disk.dpapi
BY DEF SetDisk

\* the session just written is the newest, in the keyring or, where it refused, in the mirror
LEMMA StoredIsNewest ==
  ASSUME Jobs, NEW s \in Session, NEW fails \in SUBSET Backends, fails # Backends,
         SetDisk(Encode(s), fails), windows' = windows, hist'.behind <=> "keyring" \in fails
  PROVE  Newest' # None /\ Newest'.pair = s.pair
<1>. DEFINE t == Encode(s)
<1>1. t # None /\ Decode(t) # None /\ Decode(t).pair = s.pair
  BY EncodeOK, DecodeEncode
<1>2. /\ disk'.keyring = IF "keyring" \in fails THEN disk.keyring ELSE t
      /\ disk'.dpapi = IF windows /\ "dpapi" \notin fails THEN t ELSE disk.dpapi
  BY SetDiskIs
<1>. HIDE DEF t
<1>3. CASE "keyring" \notin fails
  <2>1. disk'.keyring = t /\ disk'.keyring # None
    BY <1>1, <1>2, <1>3
  <2>2. Readable' = Decode(t)
    BY <2>1 DEF Readable, Decode
  <2>3. Newest' = Readable'
    BY <1>3 DEF Newest
  <2>. QED  BY <1>1, <2>2, <2>3
<1>4. CASE "keyring" \in fails
  <2>1. windows /\ "dpapi" \notin fails
    BY <1>4 DEF Backends
  <2>2. disk'.dpapi = t
    BY <1>2, <2>1
  <2>3. Newest' = Decode(t)
    BY <1>4, <2>2 DEF Newest, Decode
  <2>. QED  BY <1>1, <2>3
<1>. QED  BY <1>3, <1>4

\* a store takes nothing away
LEMMA StoredIsFound ==
  ASSUME Jobs, Quiet, NEW s \in Session, NEW fails \in SUBSET Backends,
         SetDisk(Encode(s), fails), windows' = windows, Readable # None
  PROVE  Readable' # None
<1>. DEFINE t == Encode(s)
<1>1. t # None /\ Decode(t) # None
  BY EncodeOK, DecodeEncode
<1>2. /\ disk'.keyring = IF "keyring" \in fails THEN disk.keyring ELSE t
      /\ disk'.dpapi = IF windows /\ "dpapi" \notin fails THEN t ELSE disk.dpapi
  BY SetDiskIs
<1>. HIDE DEF t
<1>3. CASE disk'.keyring = t
  <2>1. Readable' = Decode(t)
    BY <1>1, <1>3 DEF Readable, Decode
  <2>. QED  BY <1>1, <2>1
<1>4. CASE disk'.keyring = disk.keyring /\ disk'.dpapi = disk.dpapi
  <2>1. Readable' = Readable
    BY <1>4 DEF Readable, Decode
  <2>. QED  BY <2>1
<1>5. CASE disk'.keyring = disk.keyring /\ disk'.dpapi = t
  <2>1. Readable' \in {Readable, Decode(t)}
    BY <1>1, <1>5 DEF Readable, Decode
  <2>. QED  BY <1>1, <2>1
<1>. QED  BY <1>2, <1>3, <1>4, <1>5

LEMMA StoreDiskKeeps ==
  ASSUME Jobs, Quiet, NEW c \in Calls, StoreDisk(c) PROVE Quiet'
<1>. DEFINE job == calls[c]
            m == hist.mixed
            s == job.value
            kept == [job EXCEPT !.pc = "store_memory"]
            lost == IF job.op \in {"sign_in", "status"} THEN Idle ELSE RefreshFailed(job)
<1>1. job \in JobType /\ Returns(job) /\ Carries(job, m) /\ m \in BOOLEAN
  BY CallOK
<1>2. job = calls[c] /\ job.pc = "store" /\ UNCHANGED <<windows, memory>>
      /\ calls[c].pc \in Changing
  BY DEF StoreDisk, At, Changing
<1>3. PICK fails \in SUBSET Backends :
        /\ SetDisk(Encode(s), fails)
        /\ IF fails = Backends THEN Set(c, lost) /\ UNCHANGED hist
           ELSE /\ To(c, "store_memory")
                /\ hist' = [hist EXCEPT !.out = FALSE, !.behind = "keyring" \in fails]
  BY Zenon DEF StoreDisk
<1>4. \/ fails = Backends /\ Set(c, lost) /\ UNCHANGED hist
      \/ /\ fails # Backends /\ Set(c, kept)
         /\ hist' = [hist EXCEPT !.out = FALSE, !.behind = "keyring" \in fails]
  BY <1>3, Zenon DEF To
<1>. HIDE DEF job, m
<1>5. s \in Session
  BY <1>1, <1>2 DEF JobType, Carries
<1>6. (~windows => disk.dpapi = None)'
  <2>1. disk'.dpapi = IF windows /\ "dpapi" \notin fails THEN Encode(s) ELSE disk.dpapi
    BY <1>3, SetDiskIs
  <2>. QED  BY <1>2, <2>1 DEF Quiet
<1>7. ASSUME fails # Backends, Set(c, kept),
             hist' = [hist EXCEPT !.out = FALSE, !.behind = "keyring" \in fails]
      PROVE  Quiet'
  <2>1. kept.pc = "store_memory" /\ kept.value = s
    BY <1>1 DEF JobType
  <2>. HIDE DEF kept
  <2>2. hist'.out = FALSE /\ (hist'.behind <=> "keyring" \in fails)
    BY <1>7, StoreDiskHist
  <2>. HIDE DEF s
  <2>3. Newest' # None /\ Newest'.pair = s.pair
    BY <1>2, <1>3, <1>5, <1>7, <2>2, StoredIsNewest
  <2>4. calls'[c] = kept
    BY <1>7, SetAlone
  <2>5. Fits(calls[c])'
    BY <2>1, <2>2, <2>3, <2>4 DEF Fits, Kept, Invalidating
  <2>. QED  BY <1>2, <1>6, <1>7, <2>1, <2>2, <2>5, AloneStep
<1>8. ASSUME fails = Backends, Set(c, lost), UNCHANGED hist PROVE Quiet'
  <2>1. lost.pc \in {"idle", "location", "delete_memory"}
    <3>1. CASE job.op \in {"sign_in", "status"}
      BY <3>1, IdleServes
    <3>2. CASE job.op \notin {"sign_in", "status"}
      <4>. DEFINE j == RefreshFailed(job)
      <4>1. Going(job, m)
        <5>1. job.back = "refresh"
          BY <1>1, <1>2, <3>2 DEF Returns
        <5>. QED  BY <1>1, <5>1, GoingOn
      <4>2. j = RefreshFailed(job)
        OBVIOUS
      <4>. HIDE DEF j
      <4>3. j.pc \in {"idle", "location", "delete_memory"}
        BY <1>1, <4>1, <4>2, RefreshFailedOK
      <4>. QED  BY <3>2, <4>3 DEF j
    <3>. QED  BY <3>1, <3>2
  <2>. HIDE DEF lost
  <2>2. calls'[c] = lost /\ Clean
    BY <1>8, SetAlone
  <2>3. Fits(calls[c])'
    BY <2>1, <2>2, ColdFits DEF Fits, Invalidating
  <2>4. disk'.keyring = disk.keyring /\ disk'.dpapi = disk.dpapi
    <3>1. "keyring" \in fails /\ (windows => "dpapi" \in fails)
      BY <1>8 DEF Backends
    <3>. QED  BY <1>3, <3>1, SetDiskIs
  <2>5. Newest' = Newest
    BY <1>2, <1>8, <2>4 DEF Newest, Readable, Decode
  <2>6. ASSUME ~raced, memory # None PROVE Kept(memory)'
    <3>1. ~Overlap(calls) /\ Agrees
      BY <2>6 DEF Quiet
    <3>2. \A d \in Calls : calls[d].pc # "store_memory"
      BY <1>2, <3>1, Alone DEF Hot
    <3>3. Kept(memory)
      BY <2>6, <3>1, <3>2 DEF Agrees, At
    <3>. QED  BY <1>2, <2>5, <3>3 DEF Kept
  <2>7. ~raced => (hist'.out => SignedOut')
    BY <1>2, <1>8, <2>4 DEF Quiet, SignedOut
  <2>. QED  BY <1>2, <1>6, <1>8, <2>3, <2>6, <2>7, AloneStep
<1>. QED  BY <1>4, <1>7, <1>8

LEMMA StoreMemoryKeeps ==
  ASSUME Jobs, Quiet, NEW c \in Calls, StoreMemory(c) PROVE Quiet'
<1>. DEFINE job == calls[c]
            next == [job EXCEPT !.pc = "send", !.with = job.value, !.value = None]
<1>1. job \in JobType
  BY CallOK
<1>2. /\ calls[c].pc = "store_memory" /\ memory' = calls[c].value
      /\ UNCHANGED <<windows, disk, hist>> /\ calls[c].pc \in Changing
      /\ Set(c, Idle) \/ Set(c, next)
  BY DEF StoreMemory, At, Changing
<1>3. next.pc = "send"
  BY <1>1 DEF JobType
<1>. HIDE DEF next, job
<1>4. ASSUME NEW j, Set(c, j), j.pc \notin Hot PROVE Quiet'
  <2>1. calls'[c] = j /\ Clean
    BY <1>4, SetAlone
  <2>2. Fits(calls[c])'
    BY <1>4, <2>1 DEF Fits, Hot, Invalidating
  <2>3. ~raced => Kept(calls[c].value) /\ ~hist.out
    <3>1. ~raced => Fits(calls[c])
      BY DEF Quiet
    <3>. QED  BY <1>2, <3>1 DEF Fits
  <2>4. ~raced => Kept(memory)' /\ ~hist'.out
    BY <1>2, <2>3, SameReadable DEF Kept
  <2>. QED  BY <1>2, <1>4, <2>2, <2>4, AloneStep DEF Quiet
<1>. QED  BY <1>2, <1>3, <1>4, IdleServes DEF Hot

LEMMA InvalidateMemoryKeeps ==
  ASSUME Jobs, Quiet, NEW c \in Calls, InvalidateMemory(c) PROVE Quiet'
<1>. DEFINE j == [calls[c] EXCEPT !.pc = "invalidate_keyring"]
<1>1. /\ calls[c].pc = "invalidate_memory" /\ memory' = None /\ Set(c, j)
      /\ UNCHANGED <<windows, disk, hist>> /\ calls[c].pc \in Changing
  BY DEF InvalidateMemory, At, To, Changing
<1>2. j.pc = "invalidate_keyring" /\ j.with = calls[c].with
  BY CallOK DEF JobType
<1>. HIDE DEF j
<1>3. calls'[c] = j
  BY <1>1, SetAlone
<1>4. ~raced => Fits(calls[c])'
  <2>1. ~raced => calls[c].with # None /\ calls[c].with.pair \in hist.refused
    BY <1>1 DEF Quiet, Fits, Invalidating
  <2>. QED  BY <1>1, <1>2, <1>3, <2>1 DEF Fits
<1>5. ~raced => (hist'.out => SignedOut')
  BY <1>1 DEF Quiet, SignedOut
<1>. QED  BY <1>1, <1>4, <1>5, AloneStep DEF Quiet

LEMMA InvalidateKeyringKeeps ==
  ASSUME Jobs, Quiet, NEW c \in Calls, InvalidateKeyring(c) PROVE Quiet'
<1>. DEFINE j == [calls[c] EXCEPT !.pc = "invalidate_dpapi"]
<1>1. /\ calls[c].pc = "invalidate_keyring" /\ Set(c, j)
      /\ UNCHANGED <<windows, memory>> /\ calls[c].pc \in Changing
  BY DEF InvalidateKeyring, At, To, Changing
<1>2. PICK took \in BOOLEAN : \E rest \in Invalidated(disk.keyring, took) :
        disk' = [disk EXCEPT !.keyring = rest] /\ hist' = [hist EXCEPT !.taken = took]
  BY Zenon DEF InvalidateKeyring
<1>3. /\ disk'.dpapi = disk.dpapi
      /\ took \/ disk.keyring \in Gone => disk'.keyring \in Gone
  <2>1. PICK rest \in Invalidated(disk.keyring, took) : disk' = [disk EXCEPT !.keyring = rest]
    BY <1>2
  <2>2. disk \in [keyring : Texts, dpapi : Texts]
    BY DEF Jobs
  <2>3. took \/ disk.keyring \in Gone => rest \in Gone
    BY <2>2, InvalidatedOK
  <2>. QED  BY <2>1, <2>2, <2>3
<1>4. hist'.out = hist.out /\ hist'.refused = hist.refused /\ hist'.taken = took
  BY <1>2 DEF Jobs, HistType
<1>5. j.pc = "invalidate_dpapi" /\ j.with = calls[c].with
  BY CallOK DEF JobType
<1>. HIDE DEF j
<1>6. calls'[c] = j
  BY <1>1, SetAlone
<1>7. ~raced => /\ memory = None
                /\ calls[c].with # None /\ calls[c].with.pair \in hist.refused
  BY <1>1 DEF Quiet, Fits, Invalidating
<1>8. ~raced => Fits(calls[c])'
  BY <1>1, <1>3, <1>4, <1>5, <1>6, <1>7 DEF Fits
<1>9. ~raced => (hist'.out => SignedOut')
  BY <1>1, <1>3, <1>4 DEF Quiet, SignedOut
<1>10. (~windows => disk.dpapi = None)'
  BY <1>1, <1>3 DEF Quiet
<1>. QED  BY <1>1, <1>7, <1>8, <1>9, <1>10, AloneStep

LEMMA InvalidateDpapiKeeps ==
  ASSUME Jobs, Quiet, NEW c \in Calls, InvalidateDpapi(c) PROVE Quiet'
<1>. DEFINE job == calls[c]
            m == hist.mixed
            j == RefreshFailed(job)
<1>0. job \in JobType /\ Returns(job) /\ Carries(job, m) /\ m \in BOOLEAN
  BY CallOK
<1>1. /\ calls[c].pc = "invalidate_dpapi" /\ job.pc = "invalidate_dpapi" /\ Set(c, j)
      /\ UNCHANGED <<windows, memory>> /\ calls[c].pc \in Changing
  BY DEF InvalidateDpapi, At, Changing
<1>2. PICK took \in BOOLEAN : \E rest \in Invalidated(disk.dpapi, took) :
        /\ windows \/ (took /\ rest = None)
        /\ disk' = [disk EXCEPT !.dpapi = rest]
        /\ hist' = [hist EXCEPT !.out = hist.taken /\ took, !.taken = FALSE]
  BY Zenon DEF InvalidateDpapi
<1>3. /\ disk'.keyring = disk.keyring /\ (~windows => disk'.dpapi = None)
      /\ took => disk'.dpapi \in Gone
  <2>1. PICK rest \in Invalidated(disk.dpapi, took) :
          (windows \/ (took /\ rest = None)) /\ disk' = [disk EXCEPT !.dpapi = rest]
    BY <1>2
  <2>2. disk \in [keyring : Texts, dpapi : Texts]
    BY DEF Jobs
  <2>3. took => rest \in Gone
    BY <2>2, InvalidatedOK
  <2>. QED  BY <2>1, <2>2, <2>3
<1>4. hist'.out => hist.taken /\ took
  <2>. DEFINE out == hist.taken /\ took
              no == FALSE
  <2>1. out \in BOOLEAN /\ hist' = [hist EXCEPT !.out = out, !.taken = no] /\ hist \in HistType
    BY <1>2 DEF Jobs
  <2>2. out => hist.taken /\ took
    OBVIOUS
  <2>. HIDE DEF out, no
  <2>3. hist'.out = out
    BY <2>1 DEF HistType
  <2>. QED  BY <2>2, <2>3
<1>. HIDE DEF job, m
<1>5. j.pc \notin Hot
  <2>1. job.back = "refresh"
    BY <1>0, <1>1 DEF Returns, Invalidating
  <2>2. Going(job, m)
    BY <1>0, <2>1, GoingOn
  <2>3. j = RefreshFailed(job)
    OBVIOUS
  <2>. HIDE DEF j
  <2>4. j.pc \in {"idle", "location", "delete_memory"}
    BY <1>0, <2>2, <2>3, RefreshFailedOK
  <2>. QED  BY <2>4 DEF Hot
<1>. HIDE DEF j
<1>6. calls'[c] = j
  BY <1>1, SetAlone
<1>7. Fits(calls[c])'
  BY <1>5, <1>6 DEF Fits, Hot, Invalidating
<1>8. ~raced => memory' = None /\ (hist.taken => disk.keyring \in Gone)
  BY <1>1 DEF Quiet, Fits
<1>9. ~raced => (hist'.out => SignedOut')
  BY <1>3, <1>4, <1>8 DEF SignedOut
<1>10. (~windows => disk.dpapi = None)'
  BY <1>1, <1>3
<1>. QED  BY <1>1, <1>7, <1>8, <1>9, <1>10, AloneStep

LEMMA DeleteMemoryKeeps ==
  ASSUME Jobs, Quiet, NEW c \in Calls, DeleteMemory(c) PROVE Quiet'
<1>. DEFINE j == [calls[c] EXCEPT !.pc = "delete_session"]
<1>1. /\ calls[c].pc = "delete_memory" /\ memory' = None /\ Set(c, j)
      /\ UNCHANGED <<windows, disk, hist>> /\ calls[c].pc \in Changing
  BY DEF DeleteMemory, At, To, Changing
<1>2. j.pc = "delete_session"
  BY CallOK DEF JobType
<1>. HIDE DEF j
<1>3. calls'[c] = j
  BY <1>1, SetAlone
<1>4. Fits(calls[c])'
  BY <1>1, <1>2, <1>3 DEF Fits, Invalidating
<1>5. ~raced => (hist'.out => SignedOut')
  BY <1>1 DEF Quiet, SignedOut
<1>. QED  BY <1>1, <1>4, <1>5, AloneStep DEF Quiet

LEMMA DeleteSessionKeeps ==
  ASSUME Jobs, Quiet, NEW c \in Calls, DeleteSession(c) PROVE Quiet'
<1>. DEFINE j == [calls[c] EXCEPT !.pc = "delete_cache"]
<1>1. /\ calls[c].pc = "delete_session" /\ Set(c, j)
      /\ UNCHANGED <<windows, memory>> /\ calls[c].pc \in Changing
  BY DEF DeleteSession, At, To, Changing
<1>2. PICK fails \in SUBSET Backends :
        /\ disk' = [keyring |-> IF "keyring" \in fails THEN disk.keyring ELSE None,
                    dpapi |-> IF "dpapi" \in fails THEN disk.dpapi ELSE None]
        /\ hist' = [hist EXCEPT !.out = (fails = {})]
  BY Zenon DEF DeleteSession
<1>3. hist'.out => disk'.keyring = None /\ disk'.dpapi = None
  <2>. DEFINE none == fails = {}
  <2>1. hist' = [hist EXCEPT !.out = none] /\ hist \in HistType
    BY <1>2 DEF Jobs
  <2>2. none => disk'.keyring = None /\ disk'.dpapi = None
    BY <1>2
  <2>. HIDE DEF none
  <2>3. hist'.out = none
    BY <2>1 DEF HistType
  <2>. QED  BY <2>2, <2>3
<1>4. j.pc = "delete_cache"
  BY CallOK DEF JobType
<1>. HIDE DEF j
<1>5. calls'[c] = j
  BY <1>1, SetAlone
<1>6. Fits(calls[c])'
  BY <1>4, <1>5 DEF Fits, Invalidating
<1>7. ~raced => memory' = None
  BY <1>1 DEF Quiet, Fits
<1>8. ~raced => (hist'.out => SignedOut')
  BY <1>3, <1>7 DEF SignedOut, Gone
<1>9. (~windows => disk.dpapi = None)'
  BY <1>1, <1>2 DEF Quiet
<1>. QED  BY <1>1, <1>6, <1>7, <1>8, <1>9, AloneStep

LEMMA QuietNext ==
  ASSUME Jobs, Quiet, Next PROVE Quiet'
<1>1. ASSUME NEW c \in Calls, Step(c) PROVE Quiet'
  <2>1. ASSUME NEW op \in Ops, Begin(c, op) PROVE Quiet'
    BY <2>1, BeginKeeps
  <2>. QED  BY <1>1, <2>1, LoadKeeps, LoadDiskKeeps, LoadSetKeeps, ExchangeKeeps, SendRefreshKeeps,
               StoreDiskKeeps, StoreMemoryKeeps, InvalidateMemoryKeeps, InvalidateKeyringKeeps,
               InvalidateDpapiKeeps, DeleteMemoryKeeps, DeleteSessionKeeps, DeleteCacheKeeps,
               SendRequestKeeps, SendProfileKeeps, RejectedKeeps, LocationKeeps,
               BringUpCachedKeeps, BringUpKeeps, ProbeKeeps, CacheWriteKeeps, Zenon
            DEF Step
<1>2. ASSUME NEW p \in Pairs, Revoke(p) PROVE Quiet'
  BY <1>2, OutsideKeeps DEF Revoke
<1>3. CASE Tick
  BY <1>3, OutsideKeeps DEF Tick
<1>4. CASE Restart
  BY <1>4, RestartKeeps
<1>. QED  BY <1>1, <1>2, <1>3, <1>4, Zenon DEF Next

LEMMA QuietInit == Init => Quiet
<1>. SUFFICES ASSUME Init PROVE Quiet
  OBVIOUS
<1>1. memory = None /\ calls = [c \in Calls |-> Idle] /\ hist.out = FALSE
  BY DEF Init
<1>2. ~windows => disk.dpapi = None
  BY DEF Init
<1>3. \A c \in Calls : calls[c].pc = "idle"
  BY <1>1, IdleServes
<1>4. ~Overlap(calls) /\ \A c \in Calls : Fits(calls[c])
  BY <1>3 DEF Overlap, Changing, Reading, Fits, Invalidating
<1>. QED  BY <1>1, <1>2, <1>4 DEF Quiet, Agrees

LEMMA QuietAlways == Spec => [](Jobs /\ Quiet)
<1>1. ASSUME Jobs, Quiet, [Next]_vars PROVE Quiet'
  <2>1. CASE Next
    BY <1>1, <2>1, QuietNext
  <2>2. CASE UNCHANGED vars
    BY <1>1, <2>2, OutsideKeeps DEF vars
  <2>. QED  BY <1>1, <2>1, <2>2
<1>. QED  BY <1>1, JobsAlways, QuietInit, PTL DEF Spec

LEMMA StepOnly ==
  ASSUME Jobs, Quiet, NEW c \in Calls, Step(c) PROVE Only(c)
<1>1. (\E j : Set(c, j)) \/ (\E j, task : Spawn(c, j, task))
  <2>1. ASSUME NEW op \in Ops, Begin(c, op) PROVE \E j : Set(c, j)
    BY <2>1, Zenon DEF Begin
  <2>2. Load(c) \/ LoadDisk(c) \/ LoadSet(c) \/ Exchange(c) => \E j : Set(c, j)
    BY Zenon DEF Load, LoadDisk, LoadSet, Exchange, To
  <2>3. ASSUME SendRefresh(c) PROVE \E j : Set(c, j)
    <3>1. Refreshed(c)
      BY <2>3, SendRefreshJob
    <3>. QED  BY <3>1, Zenon DEF Refreshed
  <2>4. StoreDisk(c) \/ StoreMemory(c) => \E j : Set(c, j)
    BY Zenon DEF StoreDisk, StoreMemory, To
  <2>5. InvalidateMemory(c) \/ InvalidateKeyring(c) \/ InvalidateDpapi(c) => \E j : Set(c, j)
    BY Zenon DEF InvalidateMemory, InvalidateKeyring, InvalidateDpapi, To
  <2>6. DeleteMemory(c) \/ DeleteSession(c) \/ DeleteCache(c) => \E j : Set(c, j)
    BY Zenon DEF DeleteMemory, DeleteSession, DeleteCache, To
  <2>7. SendRequest(c) \/ SendProfile(c) \/ Rejected(c) \/ Location(c) => \E j : Set(c, j)
    BY Zenon DEF SendRequest, SendProfile, Rejected, Location
  <2>8. Probe(c) \/ CacheWrite(c) => \E j : Set(c, j)
    BY Zenon DEF Probe, CacheWrite
  <2>9. BringUpCached(c) => (\E j : Set(c, j)) \/ (\E j, task : Spawn(c, j, task))
    BY Zenon DEF BringUpCached
  <2>10. BringUp(c) => \E j, task : Spawn(c, j, task)
    BY Zenon DEF BringUp
  <2>. QED  BY <2>1, <2>2, <2>3, <2>4, <2>5, <2>6, <2>7, <2>8, <2>9, <2>10, Zenon DEF Step
<1>. QED  BY <1>1, SetOnly, SpawnOnly, Zenon

\* only an invalidation or a logout takes away what a restart would load
LEMMA Dropping ==
  ASSUME Jobs, Quiet, Next, ~raced', Readable # None, Readable' = None
  PROVE  \E c \in Calls : \/ calls[c].pc \in Invalidating /\ calls[c].with.pair \in hist.refused
                          \/ calls[c].op = "logout" /\ At(c, "delete_session")
<1>1. ~UNCHANGED <<windows, disk>>
  BY SameReadable
<1>2. PICK c \in Calls : Step(c)
  BY <1>1, Zenon DEF Next, Revoke, Tick, Restart
<1>3. \/ LoadDisk(c) \/ LoadSet(c) \/ StoreDisk(c)
      \/ InvalidateKeyring(c) \/ InvalidateDpapi(c) \/ DeleteSession(c)
  BY <1>1, <1>2, Zenon
     DEF Step, Begin, Load, Exchange, SendRefresh, StoreMemory, InvalidateMemory, DeleteMemory,
         DeleteCache, SendRequest, SendProfile, Rejected, Location, BringUpCached, BringUp, Probe,
         CacheWrite
<1>4. CASE LoadDisk(c)
  BY <1>4, LoadDiskReadable
<1>5. CASE LoadSet(c)
  <2>1. calls[c].value.access = FALSE
    BY <1>5, CallOK DEF LoadSet, At, Carries
  <2>. QED  BY <1>1, <1>5, <2>1 DEF LoadSet
<1>6. CASE StoreDisk(c)
  <2>1. PICK fails \in SUBSET Backends : SetDisk(Encode(calls[c].value), fails)
    BY <1>6, Zenon DEF StoreDisk
  <2>2. calls[c].value \in Session /\ windows' = windows
    BY <1>6, CallOK DEF StoreDisk, At, Carries, JobType
  <2>. QED  BY <2>1, <2>2, StoredIsFound
<1>7. CASE InvalidateKeyring(c) \/ InvalidateDpapi(c)
  <2>1. calls[c].pc \in Invalidating
    BY <1>7 DEF InvalidateKeyring, InvalidateDpapi, At, Invalidating
  <2>2. ~raced
    BY <1>2, StepOnly DEF Only, Clean
  <2>. QED  BY <2>1, <2>2 DEF Quiet, Fits
<1>8. CASE DeleteSession(c)
  <2>1. calls[c].pc = "delete_session"
    BY <1>8 DEF DeleteSession, At
  <2>2. calls[c].op = "logout"
    BY <2>1, CallOK DEF Returns, Deleting
  <2>. QED  BY <2>1, <2>2 DEF At
<1>. QED  BY <1>3, <1>4, <1>5, <1>6, <1>7, <1>8

\* a refresh ends in an invalidation only when the service refused the pair, and that was
\* the pair stored last
LEMMA Refusing ==
  ASSUME Jobs, Quiet, Next, ~raced', NEW c \in Calls, At(c, "refresh"),
         calls'[c].pc \in Invalidating
  PROVE  /\ calls[c].with.pair \in hist'.refused
         /\ Newest # None /\ Newest.pair = calls[c].with.pair
<1>1. calls[c].pc = "refresh" /\ calls'[c] # calls[c]
  BY DEF At, Invalidating
<1>2. PICK d \in Calls : Step(d)
  <2>1. ~Restart
    <3>1. Restart => calls'[c].pc = "idle"
      BY IdleServes DEF Restart
    <3>. QED  BY <3>1 DEF Invalidating
  <2>. QED  BY <1>1, <2>1, Zenon DEF Next, Revoke, Tick
<1>3. d = c /\ ~raced
  BY <1>1, <1>2, StepOnly DEF Only, Clean, At
<1>4. SendRefresh(c)
  BY <1>1, <1>2, <1>3
     DEF Step, At, Begin, Load, LoadDisk, LoadSet, Exchange, StoreDisk, StoreMemory,
         InvalidateMemory, InvalidateKeyring, InvalidateDpapi, DeleteMemory, DeleteSession,
         DeleteCache, SendRequest, SendProfile, Rejected, Location, BringUpCached, BringUp, Probe,
         CacheWrite
<1>5. PICK j : /\ Set(c, j)
               /\ j.pc \in Hot => \/ j.pc = "refresh" /\ j.with = calls[c].with
                                 \/ /\ j.pc = "invalidate_memory" /\ j.with = calls[c].with
                                    /\ j.with # None /\ j.with.pair \in hist'.refused
  <2>1. Refreshed(c)
    BY <1>4, SendRefreshJob
  <2>. QED  BY <2>1, Zenon DEF Refreshed
<1>6. calls'[c] = j
  BY <1>5, SetAlone
<1>7. calls[c].with.pair \in hist'.refused
  BY <1>5, <1>6 DEF Invalidating, Hot
<1>8. Kept(calls[c].with)
  BY <1>1, <1>3 DEF Quiet, Fits
<1>. QED  BY <1>7, <1>8 DEF Kept

\* As long as no two calls overlap on the session, the session in memory is the one stored
\* last, which a load finds unless the keyring refused that store.
THEOREM MemoryIsOnDisk == Spec => []DiskFollowsMemory
<1>1. Quiet => DiskFollowsMemory
  BY DEF Quiet, Agrees, Kept, At, Changing, DiskFollowsMemory
<1>. QED  BY <1>1, QuietAlways, PTL

\* After a refused refresh or a logout that every backend took nothing brings the session
\* back: no restart, no lease request, not a backend that refused only the deletion.
THEOREM SignOutIsFinal == Spec => []SignedOutStaysOut
<1>1. Quiet => SignedOutStaysOut
  BY GoneIsUnread DEF Quiet, SignedOut, SignedOutStaysOut
<1>. QED  BY <1>1, QuietAlways, PTL

\* Only a logout or the service's refusal of a pair, which is then the one stored last,
\* removes what a restart would load; lost answers and failures of the network or the
\* storage keep it.
THEOREM OnlyRefusalsDrop == Spec => OnlyRefusedIsDropped
<1>. DEFINE Dropped == Readable # None /\ Readable' = None =>
              \E c \in Calls :
                \/ calls[c].pc \in Invalidating /\ calls[c].with.pair \in hist.refused
                \/ calls[c].op = "logout" /\ At(c, "delete_session")
            Refused == \A c \in Calls : At(c, "refresh") /\ calls'[c].pc \in Invalidating =>
                         /\ calls[c].with.pair \in hist'.refused
                         /\ Newest # None /\ Newest.pair = calls[c].with.pair
            Right == ~raced' => Dropped /\ Refused
<1>1. Jobs /\ Quiet /\ [Next]_vars => [Right]_vars
  <2>. SUFFICES ASSUME Jobs, Quiet, Next, ~raced' PROVE Dropped /\ Refused
    OBVIOUS
  <2>1. Dropped
    BY Dropping
  <2>2. Refused
    BY Refusing
  <2>. QED  BY <2>1, <2>2
<1>. QED  BY <1>1, QuietAlways, PTL DEF Spec, OnlyRefusedIsDropped
=============================================================================
