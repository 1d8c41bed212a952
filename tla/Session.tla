------------------------------- MODULE Session -------------------------------
(***************************************************************************)
(* The account session, the leases and their cache                         *)
(* (src-tauri/src/control_plane/mod.rs).                                   *)
(*                                                                         *)
(* The session lives in memory (APP_API_MEMORY_SESSION) and, without its   *)
(* access token, in the secure storage; the profile cache only in the      *)
(* latter. Commands and the tasks they spawn run concurrently and hold no  *)
(* lock: between a load and the store that answers it lies an HTTP round   *)
(* trip. The service exchanges a refresh token for a new pair once.        *)
(***************************************************************************)
EXTENDS Naturals, Sequences, FiniteSets, Lists

CONSTANTS
  Accounts, Locations,
  Requests,     \* the sequences of locations a connect may ask for
  Calls,        \* slots for commands and background tasks
  Ops,          \* the commands the renderer issues
  None, Blank,  \* nothing; an empty location id
  Tombstone,    \* APP_API_SESSION_TOMBSTONE
  MaxPairs,     \* bound on the token pairs the service issues
  Early,        \* whether an early release may have stored the session it finds
  Blocked,      \* the pairs issued with device_allowed = false
  MaxEntries,   \* APP_API_PROFILE_CACHE_MAX_ENTRIES
  MaxNow,       \* bound on the clock
  MaxCommands,  \* bound on the commands the renderer issues
  MaxTrouble    \* bound on lost answers, storage faults, restarts and revocations

VARIABLES
  windows,  \* the platform mirrors the credential store in DPAPI files
  memory,   \* APP_API_MEMORY_SESSION
  disk,     \* the stored session, by backend
  cache,    \* the stored profile cache
  now,      \* the clock leases expire by
  server,   \* external: the pairs whose refresh token is still good, the next pair
  calls,    \* what each slot is doing
  left,     \* how many more commands may come, how much more may go wrong
  hist,     \* history: a lease asked for under another account (mixed), a sign-out that
            \* every backend took (out) or the keyring has taken so far, the pairs refused,
            \* and whether the keyring refused the newest session (behind)
  raced     \* history: two calls were changing the session, or changing and loading it

vars == <<windows, memory, disk, cache, now, server, calls, left, hist, raced>>

Pairs == 1 .. MaxPairs
Session == [account : Accounts, pair : Pairs, access : BOOLEAN]
Stored == [account : Accounts, pair : Pairs, full : BOOLEAN]  \* full: an early release wrote the access token too
Texts == Stored \cup {None, Tombstone}
Lease == [loc : Locations, for : Accounts, exp : 0 .. MaxNow + 1]
Caches == [owner : Accounts, current : BOOLEAN, entries : Seq(Lease)]

Commands == {"sign_in", "status", "refresh", "connect", "ping", "refresh_cached", "request",
             "logout"}

ASSUME ConstantsAssumption ==
  /\ Ops \subseteq Commands /\ Requests \subseteq Seq(Locations \cup {Blank}) /\ Blank \notin Locations
  /\ None \notin Accounts \cup Locations \cup Session \cup Lease \cup {Tombstone}
  /\ {None, Tombstone} \cap Stored = {} /\ None \notin Caches
  /\ MaxPairs \in Nat /\ Early \in BOOLEAN /\ Blocked \subseteq 1 .. MaxPairs
  /\ MaxEntries \in Nat \ {0} /\ MaxNow \in Nat /\ MaxTrouble \in Nat
  /\ MaxCommands \in Nat

-----------------------------------------------------------------------------
(* The stored session.                                                     *)

Encode(s) == [account |-> s.account, pair |-> s.pair, full |-> FALSE]

\* AppApiStoredSession accepts the text of a full response too and drops the access token
Decode(text) ==
  IF text \in {None, Tombstone} THEN None
  ELSE [account |-> text.account, pair |-> text.pair, access |-> FALSE]

\* what a load finds when no backend fails
Readable == Decode(IF disk.keyring # None \/ ~windows THEN disk.keyring ELSE disk.dpapi)

Spend(n) == left.trouble >= n /\ left' = [left EXCEPT !.trouble = @ - n]

Backends == IF windows THEN {"keyring", "dpapi"} ELSE {"keyring"}

\* one call of the storage, in which some backends may fail
Try(fails) == Spend(IF fails = {} THEN 0 ELSE 1)

\* a backend that cannot be written keeps its old text
SetDisk(text, fails) ==
  disk' = [keyring |-> IF "keyring" \in fails THEN disk.keyring ELSE text,
           dpapi |-> IF windows /\ "dpapi" \notin fails THEN text ELSE disk.dpapi]

-----------------------------------------------------------------------------
(* The profile cache.                                                      *)

ForSession(a) == [owner |-> a, current |-> TRUE, entries |-> << >>]

\* mutant: the account is not compared
ScopeIsCurrent(k, a) == k.current

ScopeMatches(k, a) == k.current /\ k.owner = a
Fresh(lease) == lease.exp > now

LoadCache(a) == IF cache # None /\ ScopeMatches(cache, a) THEN cache ELSE ForSession(a)

Insert(k, a, lease) ==
  IF ~Fresh(lease) THEN k
  ELSE LET kept == IF ScopeMatches(k, a) THEN k.entries ELSE << >>
           others == Retain(kept, {e \in Lease : Fresh(e) /\ e.loc # lease.loc})
           all == <<lease>> \o others
       IN [ForSession(a) EXCEPT !.entries =
             SubSeq(all, 1, IF Len(all) < MaxEntries THEN Len(all) ELSE MaxEntries)]

\* mutant: the expiry is not looked at
CachedAnyLease(a, loc) ==
  LET found == Retain(LoadCache(a).entries, {e \in Lease : e.loc = loc})
  IN IF found = << >> THEN None ELSE found[1]

CachedLease(a, loc) ==
  LET found == Retain(LoadCache(a).entries, {e \in Lease : e.loc = loc /\ Fresh(e)})
  IN IF found = << >> THEN None ELSE found[1]

CachedIds(a) ==
  LET found == Retain(LoadCache(a).entries, {e \in Lease : Fresh(e)})
  IN [i \in 1 .. Len(found) |-> found[i].loc]

\* mutant: the request's locations as they come
LocationIdsRaw(request) == request

\* at most three different locations, blanks left out
LocationIds(request) ==
  LET new(ids, id) == IF id = Blank \/ Len(ids) = 3 \/ (\E i \in DOMAIN ids : ids[i] = id)
                      THEN ids ELSE Append(ids, id)
      f[i \in 0 .. Len(request)] == IF i = 0 THEN << >> ELSE new(f[i - 1], request[i])
  IN f[Len(request)]

-----------------------------------------------------------------------------
(* Calls.                                                                  *)

Idle == [op |-> "none", pc |-> "idle", back |-> "none", own |-> None, with |-> None,
         value |-> None, retried |-> FALSE, again |-> FALSE, ids |-> << >>, lease |-> None,
         read |-> None]

\* calls that will still write or remove the session, and calls that are reading it
Changing == {"exchange", "refresh", "store", "store_memory", "invalidate_memory",
             "invalidate_keyring", "invalidate_dpapi", "delete_memory", "delete_session"}
Reading == {"load_disk", "load_set"}
Overlap(jobs) == \E c, d \in Calls : /\ c # d /\ jobs[c].pc \in Changing
                                     /\ jobs[d].pc \in Changing \cup Reading

At(c, pc) == calls[c].pc = pc
Put(new) == calls' = new /\ raced' = (raced \/ Overlap(new))
Set(c, job) == Put([calls EXCEPT ![c] = job])
To(c, pc) == Set(c, [calls[c] EXCEPT !.pc = pc])
Free == {c \in Calls : At(c, "idle")}

\* app_api_authorized_json_http, from its load
Answered(job, pc) == [job EXCEPT !.pc = pc, !.back = "none", !.with = None, !.retried = FALSE,
                                 !.again = FALSE]
Authorize(job) == [Answered(job, "load") EXCEPT !.back = "auth", !.lease = None]
Refresh(job) == [Answered(job, "load") EXCEPT !.back = "refresh", !.retried = TRUE]
NextLocation(job) == [Answered(job, "location") EXCEPT !.ids = Tail(@), !.lease = None]

\* the slot a task is spawned into, if one is free
Spawn(c, job, task) ==
  IF Free = {} THEN Set(c, job)
  ELSE Put([calls EXCEPT ![c] = job, ![CHOOSE d \in Free : TRUE] = task])

\* an authorised request has failed
Failed(job, terminal) ==
  CASE job.op = "logout" -> Answered(job, "delete_memory")
    [] job.op = "connect" /\ ~terminal -> NextLocation(job)
    [] job.op = "refresh_cached" -> NextLocation(job)
    [] OTHER -> Idle

\* a load has returned s
Loaded(job, s) ==
  IF job.back = "auth"
  THEN IF s = None THEN Failed(job, TRUE)
       ELSE IF s.access THEN [job EXCEPT !.pc = "send", !.with = s]
       ELSE Refresh(job)
  ELSE IF job.back = "refresh"
  THEN IF s # None THEN [job EXCEPT !.pc = "refresh", !.with = s]
       ELSE IF job.op = "refresh" THEN Idle ELSE Failed(job, FALSE)
  ELSE IF job.op = "status"
  THEN IF s = None THEN [job EXCEPT !.pc = "exchange"] ELSE Idle
  ELSE IF s = None \/ s.pair \in Blocked THEN Idle
  ELSE CASE job.op = "connect" -> [Answered(job, "location") EXCEPT !.own = s.account]
         [] job.op = "ping" -> Authorize([job EXCEPT !.own = s.account])
         [] OTHER -> [Answered(job, "location") EXCEPT !.own = s.account,
                                                       !.ids = CachedIds(s.account)]

-----------------------------------------------------------------------------
(* Loading the session.                                                    *)

Begin(c, op) ==
  /\ At(c, "idle") /\ op \in Ops
  /\ left.commands > 0 /\ left' = [left EXCEPT !.commands = @ - 1]
  /\ \E request \in (CASE op = "connect" -> {LocationIds(q) : q \in Requests}
                       [] op = "ping" -> {<<l>> : l \in Locations}
                       [] OTHER -> {<< >>}) :
       LET job == [Idle EXCEPT !.op = op, !.ids = request, !.pc = "load", !.back = "command"]
       IN Set(c, CASE op = "sign_in" -> [job EXCEPT !.pc = "exchange"]
                   [] op = "refresh" -> Refresh(job)
                   [] op \in {"request", "logout"} -> Authorize(job)
                   [] OTHER -> job)
  /\ UNCHANGED <<windows, memory, disk, cache, now, server, hist>>

Load(c) ==
  /\ At(c, "load")
  /\ IF memory # None THEN Set(c, Loaded(calls[c], memory)) ELSE To(c, "load_disk")
  /\ UNCHANGED <<windows, memory, disk, cache, now, server, left, hist>>

\* a value found in the mirror only is written back to both backends
LoadDisk(c) ==
  /\ At(c, "load_disk")
  /\ IF Readable = None THEN Set(c, Loaded(calls[c], None))
     ELSE Set(c, [calls[c] EXCEPT !.pc = "load_set", !.value = Readable])
  /\ disk' = IF disk.keyring = None THEN [disk EXCEPT !.keyring = disk.dpapi] ELSE disk
  /\ UNCHANGED <<windows, memory, cache, now, server, left, hist>>

\* Decode never yields an access token, so the disk keeps the text it has
LoadSet(c) ==
  LET s == calls[c].value IN
  /\ At(c, "load_set")
  /\ memory' = s
  /\ disk' = IF s.access THEN [disk EXCEPT !.keyring = Encode(s)] ELSE disk
  /\ Set(c, Loaded([calls[c] EXCEPT !.value = None], s))
  /\ hist' = [hist EXCEPT !.behind = FALSE]
  /\ UNCHANGED <<windows, cache, now, server, left>>

-----------------------------------------------------------------------------
(* Signing in, refreshing and signing out.                                 *)

Issue(gone) ==
  /\ server.next <= MaxPairs
  /\ server' = [good |-> (server.good \ gone) \cup {server.next}, next |-> server.next + 1]

\* a code, or the subscription an early release left behind
Exchange(c) ==
  /\ At(c, "exchange")
  /\ \/ \E a \in Accounts :
          /\ Issue({})
          /\ Set(c, [calls[c] EXCEPT !.pc = "store",
                    !.value = [account |-> a, pair |-> server.next, access |-> TRUE]])
     \/ Set(c, Idle) /\ UNCHANGED server
  /\ UNCHANGED <<windows, memory, disk, cache, now, left, hist>>

\* what a refresh that brought no session leaves of its call
RefreshFailed(job) == IF job.op = "refresh" THEN Idle ELSE Failed(job, FALSE)

\* mutant: every failure ends the session
FatalAny(status) == TRUE

FatalRefresh(status) == status \in {"unauthorized", "forbidden"}

SendRefresh(c) ==
  LET job == calls[c]  s == job.with
      taken == s.pair \in server.good
  IN /\ At(c, "refresh")
     /\ \/ /\ taken /\ Issue({s.pair})
           /\ Set(c, [job EXCEPT !.pc = "store",
                     !.value = [s EXCEPT !.pair = server.next, !.access = TRUE]])
           /\ UNCHANGED <<left, hist>>
        \* the answer is lost; a host with a proxy sends the request again
        \/ /\ taken /\ Issue({s.pair}) /\ Spend(1)
           /\ \/ ~job.again /\ Set(c, [job EXCEPT !.again = TRUE])
              \/ Set(c, RefreshFailed(job))
           /\ UNCHANGED hist
        \* a refusal ends the session whatever its cause: the pair may still be good
        \/ \E status \in {"unavailable", "unauthorized"} :
              /\ Set(c, IF FatalRefresh(status) THEN [job EXCEPT !.pc = "invalidate_memory"]
                        ELSE RefreshFailed(job))
              /\ hist' = IF status = "unauthorized" THEN [hist EXCEPT !.refused = @ \cup {s.pair}]
                         ELSE hist
              /\ UNCHANGED <<server, left>>
     /\ UNCHANGED <<windows, memory, disk, cache, now>>

\* mutant: a session that could not be stored is used all the same
StoreDiskBestEffort(c) ==
  /\ At(c, "store") /\ To(c, "store_memory")
  /\ \E fails \in SUBSET Backends :
       /\ Try(fails) /\ SetDisk(Encode(calls[c].value), fails)
       /\ hist' = [hist EXCEPT !.out = FALSE, !.behind = "keyring" \in fails]
  /\ UNCHANGED <<windows, memory, cache, now, server>>

\* the disk first: a session that no backend could store is not used
StoreDisk(c) ==
  /\ At(c, "store")
  /\ \E fails \in SUBSET Backends :
       /\ Try(fails) /\ SetDisk(Encode(calls[c].value), fails)
       /\ IF fails = Backends
          THEN /\ Set(c, IF calls[c].op \in {"sign_in", "status"} THEN Idle
                         ELSE RefreshFailed(calls[c]))
               /\ UNCHANGED hist
          ELSE /\ To(c, "store_memory")
               /\ hist' = [hist EXCEPT !.out = FALSE, !.behind = "keyring" \in fails]
  /\ UNCHANGED <<windows, memory, cache, now, server>>

StoreMemory(c) ==
  LET job == calls[c] IN
  /\ At(c, "store_memory")
  /\ memory' = job.value
  /\ Set(c, IF job.op \in {"sign_in", "status", "refresh"} THEN Idle
            ELSE [job EXCEPT !.pc = "send", !.with = job.value, !.value = None])
  /\ UNCHANGED <<windows, disk, cache, now, server, left, hist>>

InvalidateMemory(c) ==
  /\ At(c, "invalidate_memory") /\ memory' = None /\ To(c, "invalidate_keyring")
  /\ UNCHANGED <<windows, disk, cache, now, server, left, hist>>

Gone == {None, Tombstone}

\* mutant: no tombstone where the deletion fails
InvalidatedOrKept(text, took) == IF took THEN {None, text} ELSE {text}

\* what is left of a text in a backend that took the sign-out, deleting it or overwriting
\* it with a tombstone, and in one that refused both
Invalidated(text, took) == IF took THEN {None, Tombstone} ELSE {text}

InvalidateKeyring(c) ==
  /\ At(c, "invalidate_keyring")
  /\ \E took \in BOOLEAN : \E rest \in Invalidated(disk.keyring, took) :
       /\ disk' = [disk EXCEPT !.keyring = rest]
       /\ Spend(IF rest = None THEN 0 ELSE 1)
       /\ hist' = [hist EXCEPT !.taken = took]
  /\ To(c, "invalidate_dpapi")
  /\ UNCHANGED <<windows, memory, cache, now, server>>

InvalidateDpapi(c) ==
  /\ At(c, "invalidate_dpapi")
  /\ \E took \in BOOLEAN : \E rest \in Invalidated(disk.dpapi, took) :
       /\ windows \/ (took /\ rest = None)
       /\ disk' = [disk EXCEPT !.dpapi = rest]
       /\ Spend(IF rest = None THEN 0 ELSE 1)
       /\ hist' = [hist EXCEPT !.out = hist.taken /\ took, !.taken = FALSE]
  /\ cache' = None
  /\ Set(c, RefreshFailed(calls[c]))
  /\ UNCHANGED <<windows, memory, now, server>>

DeleteMemory(c) ==
  /\ At(c, "delete_memory") /\ memory' = None /\ To(c, "delete_session")
  /\ UNCHANGED <<windows, disk, cache, now, server, left, hist>>

DeleteSession(c) ==
  /\ At(c, "delete_session")
  /\ \E fails \in SUBSET Backends :
       /\ Try(fails)
       /\ disk' = [keyring |-> IF "keyring" \in fails THEN disk.keyring ELSE None,
                   dpapi |-> IF "dpapi" \in fails THEN disk.dpapi ELSE None]
       /\ hist' = [hist EXCEPT !.out = (fails = {})]
  /\ To(c, "delete_cache")
  /\ UNCHANGED <<windows, memory, cache, now, server>>

DeleteCache(c) ==
  /\ At(c, "delete_cache") /\ cache' = None /\ Set(c, Idle)
  /\ UNCHANGED <<windows, memory, disk, now, server, left, hist>>

-----------------------------------------------------------------------------
(* Authorised requests and leases.                                         *)

\* /locations, /subscription/status, /diagnostics, /connection-result, /device/logout
SendRequest(c) ==
  LET job == calls[c] IN
  /\ At(c, "send") /\ job.op \in {"request", "logout"}
  /\ Set(c, IF job.op = "logout" THEN Failed(job, TRUE) ELSE Idle)
  /\ UNCHANGED <<windows, memory, disk, cache, now, server, left, hist>>

\* a lease lasts one tick; one of another location or already expired counts as unavailable
SendProfile(c) ==
  LET job == calls[c] IN
  /\ At(c, "send") /\ job.op \in {"connect", "ping", "background", "refresh_cached"}
  /\ Set(c, [Answered(job, IF job.op = "connect" THEN "bring_up" ELSE "probe") EXCEPT
                 !.lease = [loc |-> Head(job.ids), for |-> job.with.account, exp |-> now + 1]])
  /\ hist' = [hist EXCEPT !.mixed = @ \/ job.with.account # job.own]
  /\ UNCHANGED <<windows, memory, disk, cache, now, server, left>>

Rejected(c) ==
  LET job == calls[c] IN
  /\ At(c, "send")
  /\ \E status \in {"unauthorized", "terminal", "unavailable"} :
       Set(c, IF status = "unauthorized" /\ ~job.retried THEN Refresh(job)
              ELSE Failed(job, status # "unavailable"))
  /\ UNCHANGED <<windows, memory, disk, cache, now, server, left, hist>>

Location(c) ==
  LET job == calls[c]
      cached == CachedLease(job.own, Head(job.ids))
  IN /\ At(c, "location")
     /\ Set(c, IF job.ids = << >> THEN Idle
               ELSE IF job.op = "connect" /\ cached # None
                    THEN [job EXCEPT !.pc = "bring_up_cached", !.lease = cached]
               ELSE Authorize(job))
     /\ UNCHANGED <<windows, memory, disk, cache, now, server, left, hist>>

\* app_api_store_cached_profile up to its write: another call may write in between
Caching(job) == [job EXCEPT !.pc = "cache_write", !.lease = None,
                            !.read = Insert(LoadCache(job.own), job.own, job.lease)]

Background(job) == Authorize([Idle EXCEPT !.op = "background", !.own = job.own,
                                          !.ids = <<Head(job.ids)>>])
Telemetry == Authorize([Idle EXCEPT !.op = "request"])

BringUpCached(c) ==
  /\ At(c, "bring_up_cached")
  /\ \/ Spawn(c, Idle, Background(calls[c]))
     \/ Set(c, Authorize(calls[c]))
  /\ UNCHANGED <<windows, memory, disk, cache, now, server, left, hist>>

BringUp(c) ==
  /\ At(c, "bring_up")
  /\ \E up \in BOOLEAN :
       Spawn(c, IF up THEN Caching(calls[c]) ELSE NextLocation(calls[c]), Telemetry)
  /\ UNCHANGED <<windows, memory, disk, cache, now, server, left, hist>>

\* what follows a location whose lease was probed
Probed(job) == IF job.op = "refresh_cached" THEN NextLocation(job) ELSE Idle

Probe(c) ==
  /\ At(c, "probe")
  /\ Set(c, Caching(calls[c])) \/ Set(c, Probed(calls[c]))
  /\ UNCHANGED <<windows, memory, disk, cache, now, server, left, hist>>

CacheWrite(c) ==
  /\ At(c, "cache_write") /\ cache' = calls[c].read
  /\ Set(c, Probed([calls[c] EXCEPT !.read = None]))
  /\ UNCHANGED <<windows, memory, disk, now, server, left, hist>>

-----------------------------------------------------------------------------
(* The world around.                                                       *)

Tick ==
  /\ now < MaxNow /\ now' = now + 1
  /\ UNCHANGED <<windows, memory, disk, cache, server, calls, left, hist, raced>>

\* the account's owner removes the device
Revoke(p) ==
  /\ p \in server.good /\ Spend(1)
  /\ server' = [server EXCEPT !.good = @ \ {p}]
  /\ UNCHANGED <<windows, memory, disk, cache, now, calls, hist, raced>>

\* the process ends anywhere; an update changes the version the cache is scoped by
Restart ==
  /\ Spend(1)
  /\ memory' = None /\ calls' = [c \in Calls |-> Idle]
  /\ \E updated \in BOOLEAN :
       cache' = IF cache # None /\ updated THEN [cache EXCEPT !.current = FALSE] ELSE cache
  /\ UNCHANGED <<windows, disk, now, server, hist, raced>>

Init ==
  /\ windows \in BOOLEAN /\ memory = None /\ now = 0
  /\ \/ /\ disk = [keyring |-> None, dpapi |-> None]
        /\ server = [good |-> {}, next |-> 1]
     \/ \E text \in Stored :
          /\ text.pair = 1 /\ (text.full => Early)
          /\ disk = [keyring |-> text, dpapi |-> IF windows THEN text ELSE None]
          /\ server \in {[good |-> g, next |-> 2] : g \in {{}, {1}}}
     \/ \E old, new \in Stored :  \* the keyring refused the newer session before
          /\ windows /\ old.pair = 1 /\ new.pair = 2 /\ ~old.full /\ ~new.full
          /\ disk = [keyring |-> old, dpapi |-> new]
          /\ server \in {[good |-> g, next |-> 3] : g \in SUBSET {1, 2}}
  /\ cache \in {None} \cup {[owner |-> a, current |-> TRUE,
                            entries |-> <<[loc |-> l, for |-> a, exp |-> 1]>>] :
                            a \in Accounts, l \in Locations}
  /\ calls = [c \in Calls |-> Idle]
  /\ left = [trouble |-> MaxTrouble, commands |-> MaxCommands]
  /\ hist = [mixed |-> FALSE, out |-> FALSE, taken |-> FALSE, refused |-> {}, behind |-> FALSE]
  /\ raced = FALSE

Step(c) ==
  \/ \E op \in Ops : Begin(c, op)
  \/ Load(c) \/ LoadDisk(c) \/ LoadSet(c)
  \/ Exchange(c) \/ SendRefresh(c) \/ StoreDisk(c) \/ StoreMemory(c)
  \/ InvalidateMemory(c) \/ InvalidateKeyring(c) \/ InvalidateDpapi(c)
  \/ DeleteMemory(c) \/ DeleteSession(c) \/ DeleteCache(c)
  \/ SendRequest(c) \/ SendProfile(c) \/ Rejected(c) \/ Location(c)
  \/ BringUpCached(c) \/ BringUp(c) \/ Probe(c) \/ CacheWrite(c)

Next ==
  \/ \E c \in Calls : Step(c)
  \/ \E p \in Pairs : Revoke(p)
  \/ Tick \/ Restart

Spec == Init /\ [][Next]_vars

-----------------------------------------------------------------------------
(* Properties.                                                             *)

\* Every variable keeps its type; a cache never exceeds its bound.
JobTypeOK(job) ==
  /\ job.own \in Accounts \cup {None} /\ job.with \in Session \cup {None}
  /\ job.value \in Session \cup {None} /\ job.lease \in Lease \cup {None}
  /\ job.ids \in Seq(Locations) /\ Len(job.ids) <= (IF job.op = "refresh_cached" THEN MaxEntries ELSE 3)
  /\ job.pc \in {"bring_up", "bring_up_cached", "probe"} => job.lease # None
CacheTypeOK(k) ==
  k # None => /\ k.owner \in Accounts /\ k.current \in BOOLEAN
              /\ k.entries \in Seq(Lease) /\ Len(k.entries) <= MaxEntries
TypeOK ==
  /\ windows \in BOOLEAN /\ now \in 0 .. MaxNow /\ left \in [trouble : 0 .. MaxTrouble, commands : 0 .. MaxCommands]
  /\ memory \in Session \cup {None}
  /\ disk \in [keyring : Texts, dpapi : Texts]
  /\ server.good \subseteq 1 .. server.next - 1 /\ server.next \in 1 .. MaxPairs + 1
  /\ CacheTypeOK(cache)
  /\ \A c \in Calls : JobTypeOK(calls[c])

Invalidating == {"invalidate_memory", "invalidate_keyring", "invalidate_dpapi"}

\* the stored session that was written last: a load prefers the keyring, which keeps an
\* older one where only the mirror could be written
Newest == IF hist.behind THEN Decode(disk.dpapi) ELSE Readable

\* The session in memory is on disk, where a restart loads it: storing to disk before
\* memory, and the order of the two backends, survive faults, lost answers and restarts
\* (app_api_store_session), as long as no two calls overlap on the session. Where the
\* Windows keyring refused it (app_api_native_secret_set reports that as stored) the
\* mirror has it, and the restart loads what the keyring has: see DiskIsMemory.
DiskFollowsMemory ==
  (memory # None /\ ~raced /\ \A c \in Calls : calls[c].pc \notin Changing)
    => Newest # None /\ Newest.pair = memory.pair

\* "logged in" after a restart as before it: false where the keyring refused the last
\* session and the mirror took it.
DiskIsMemory ==
  (memory # None /\ ~raced /\ \A c \in Calls : calls[c].pc \notin Changing)
    => Readable # None /\ Readable.pair = memory.pair

\* After a refused refresh, or a logout, that every backend took, by a deletion or a
\* tombstone, no restart and no lease request finds a session again: a tombstone in the
\* keyring hides what the mirror has (app_api_invalidate_session, app_api_delete_session).
SignedOutStaysOut ==
  hist.out /\ ~raced => memory = None /\ Readable = None

\* Network failures, lost answers and 5xx keep the session: nothing but a logout or the
\* service's refusal of a pair removes what a restart would load, and the pair refused is
\* then the session stored last, not one that an earlier load returned
\* (app_api_refresh_session).
OnlyRefusedIsDropped ==
  [][~raced' =>
       /\ Readable # None /\ Readable' = None =>
            \E c \in Calls :
              \/ calls[c].pc \in Invalidating /\ calls[c].with.pair \in hist.refused
              \/ calls[c].op = "logout" /\ At(c, "delete_session")
       /\ \A c \in Calls : At(c, "refresh") /\ calls'[c].pc \in Invalidating =>
            /\ calls[c].with.pair \in hist'.refused
            /\ Newest # None /\ Newest.pair = calls[c].with.pair]_vars

\* The cached leases of an account are its own, one per location, at most MaxEntries,
\* unless a request was authorised for another account than the command started with.
CacheIsOwners ==
  cache # None =>
    /\ Len(cache.entries) <= MaxEntries
    /\ \A i, j \in DOMAIN cache.entries :
         /\ i # j => cache.entries[i].loc # cache.entries[j].loc
         /\ hist.mixed \/ cache.entries[i].for = cache.owner

\* A lease handed to the connection is fresh at that moment, for the location being
\* tried and for the account the command began with (app_connect_location).
ServedLeaseIsUsable ==
  [][\A c \in Calls :
       calls'[c].pc \in {"bring_up", "bring_up_cached"} /\ calls'[c] # calls[c]
         => /\ calls'[c].lease.exp > now
            /\ calls'[c].lease.loc = Head(calls'[c].ids)
            /\ hist'.mixed \/ calls'[c].lease.for = calls'[c].own]_vars

\* "app_api_load_session rewrites the disk entry without" the access token an early
\* release stored (the comment in app_api_decode_session_from_disk).
LoadRewritesLegacy ==
  (memory # None /\ disk.keyring \in Stored
     /\ \A c \in Calls : calls[c].pc \notin Changing \cup Reading) => ~disk.keyring.full
=============================================================================
