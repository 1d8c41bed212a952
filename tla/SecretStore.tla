----------------------------- MODULE SecretStore -----------------------------
(***************************************************************************)
(* One key of the secure storage (src-tauri/src/storage/mod.rs).           *)
(*                                                                         *)
(* A value longer than SECURE_STORE_CHUNK_BYTES is stored as several       *)
(* entries and a manifest that counts them. On Windows every entry lives   *)
(* in the Credential Manager and, as a mirror, in a DPAPI file; on macOS   *)
(* in the data protection keychain, behind an older one. Older versions    *)
(* left a plaintext file (fallback), which is consumed once.               *)
(*                                                                         *)
(* An operation reads or writes one entry per step, and the process may be *)
(* killed between any two of them. No lock keeps two operations on a key   *)
(* apart: the renderer queues its own writes (app-store.ts,                *)
(* pendingSecureWrites), but not its reads, and the keys of the control    *)
(* plane are read and written by every command and task that needs them.   *)
(* job is the operation that takes the next step; the others wait, each    *)
(* between two of its steps, in paused, until Switch gives one its turn.   *)
(***************************************************************************)
EXTENDS Naturals, Sequences

CONSTANTS
  Values,       \* what is stored
  Pieces,       \* Pieces[v]: 0 if v fits one entry, else the number of its chunks
  LegacyValue,  \* the state an older version may have left behind
  None,         \* no entry, no value
  Slots,        \* places for operations that overlap the one whose turn it is
  MaxTurns,     \* bound on how often another operation gets the next turn
  Faulty,       \* "keyring", "dpapi": stores whose operations may fail now and then
  MaxFaults     \* bound on the calls in which one of them fails

\* what a get returns besides values: an error, a mixture, the text of a manifest, and
\* nothing yet
Error == "error"
Torn == "torn"
Raw == "manifest"
Unknown == "unknown"

ASSUME ConstantsAssumption ==
  /\ Pieces \in [Values -> Nat \ {1}]
  /\ \E v \in Values : \A w \in Values : Pieces[w] <= Pieces[v]   \* a largest value
  /\ LegacyValue \in Values /\ None \notin Values
  /\ {Error, Torn, Raw, Unknown} \cap (Values \cup {None}) = {}
  /\ Faulty \subseteq {"keyring", "dpapi"} /\ MaxFaults \in Nat /\ MaxTurns \in Nat

VARIABLES
  config,   \* platform, owner of the key, whether the keyring can be used at all, and
            \* whether what an older version left holds a subscription
  store,    \* keyring, dpapi, the older keychain, the plaintext fallback; faults left
  job,      \* the operation under way
  paused,   \* those that have begun, and wait for their next turn
  last,     \* history: what the last finished operation stored, None if deleted
  cut,      \* history: a set ended early where a mixture can be left
  seen,     \* history: what the last get returned
  turns     \* history: how often an operation has waited between two of its steps

vars == <<config, store, job, paused, last, cut, seen, turns>>

MaxPieces == CHOOSE n \in {Pieces[v] : v \in Values} : \A v \in Values : Pieces[v] <= n
Chunks == 1 .. MaxPieces
Entries == {0} \cup Chunks   \* 0 is the key itself, i its i-th chunk

Whole(v) == [kind |-> "whole", value |-> v, n |-> 0]
Chunk(v, i) == [kind |-> "chunk", value |-> v, n |-> i]
Manifest(n) == [kind |-> "manifest", value |-> None, n |-> n]
Absent == [kind |-> "absent", value |-> None, n |-> 0]
Contents == {Absent} \cup {Whole(v) : v \in Values} \cup {Manifest(n) : n \in Chunks}
              \cup {Chunk(v, i) : v \in Values, i \in Chunks}

Nothing == [e \in Entries |-> Absent]

Windows == config.platform = "windows"
Idle == job.pc = "idle"
Overlapped == turns > 0

NoJob == [pc |-> "idle", op |-> "none", value |-> None, raw |-> 0, i |-> 0, old |-> 0,
          acc |-> << >>, leftover |-> FALSE, then |-> "none"]

-----------------------------------------------------------------------------
(* One entry: outcomes of the platform's calls, as records of a result and   *)
(* the store afterwards.                                                     *)

Fails(s, which) == IF which \in Faulty /\ s.faults > 0 THEN {FALSE, TRUE} ELSE {FALSE}
KeyringFails(s) == IF config.keyring THEN Fails(s, "keyring") ELSE {TRUE}
Used(s, k, d) == IF d \/ (k /\ config.keyring) THEN [s EXCEPT !.faults = @ - 1] ELSE s

\* the entry in a store, unless the call fails
InKeyring(s, e, x, k) == [s EXCEPT !.keyring[e] = IF k THEN @ ELSE x]
InMirror(s, e, x, d) == [s EXCEPT !.dpapi[e] = IF d THEN @ ELSE x]
InOne(s, e, x, k) == InKeyring(Used(s, k, FALSE), e, x, k)
InBoth(s, e, x, k, d) == InMirror(InKeyring(Used(s, k, d), e, x, k), e, x, d)

\* both writes are tried; one that works is enough
WindowsSet(s, e, x) ==
  {[ok |-> ~k \/ ~d, store |-> InBoth(s, e, x, k, d)] :
   k \in KeyringFails(s), d \in Fails(s, "dpapi")}

MacSet(s, e, x) ==
  {[ok |-> ~k, store |-> InOne(s, e, x, k)] : k \in KeyringFails(s)}

NativeSet(s, e, x) == IF Windows THEN WindowsSet(s, e, x) ELSE MacSet(s, e, x)

\* both deletes must work
WindowsDelete(s, e) ==
  {[ok |-> ~k /\ ~d, store |-> InBoth(s, e, Absent, k, d)] :
   k \in KeyringFails(s), d \in Fails(s, "dpapi")}

\* the entry of the older keychain goes as well
Forgotten(s, e) == [s EXCEPT !.legacy[e] = Absent]
MacDelete(s, e) ==
  {[ok |-> ~k, store |-> Forgotten(InOne(s, e, Absent, k), e)] :
   k \in KeyringFails(s)}

NativeDelete(s, e) == IF Windows THEN WindowsDelete(s, e) ELSE MacDelete(s, e)

\* mutant: the mirror is read before the keyring
WindowsReadMirrorFirst(s, e, k, d) ==
  IF ~d /\ s.dpapi[e] # Absent
  THEN {[ok |-> TRUE, x |-> s.dpapi[e], store |-> Used(s, FALSE, d)]}
  ELSE {[ok |-> TRUE, x |-> IF k THEN Absent ELSE s.keyring[e], store |-> Used(s, k, d)]}

\* an entry the keyring lacks, or cannot read, is looked up in its DPAPI file and
\* written back; a file that cannot be read is no entry
WindowsRead(s, e, k, d) ==
  IF ~k /\ s.keyring[e] # Absent
  THEN {[ok |-> TRUE, x |-> s.keyring[e], store |-> Used(s, k, FALSE)]}
  ELSE IF d \/ s.dpapi[e] = Absent
  THEN {[ok |-> TRUE, x |-> Absent, store |-> Used(s, k, d)]}
  ELSE {[ok |-> TRUE, x |-> s.dpapi[e], store |-> r.store] :
        r \in WindowsSet(Used(s, k, FALSE), e, s.dpapi[e])}

WindowsGet(s, e) ==
  UNION {WindowsRead(s, e, k, d) : k \in KeyringFails(s), d \in Fails(s, "dpapi")}

\* an entry of the older keychain moves to the new one
MacGet(s, e) ==
  UNION {IF k THEN {[ok |-> FALSE, x |-> Absent, store |-> Used(s, k, FALSE)]}
         ELSE IF s.keyring[e] # Absent \/ s.legacy[e] = Absent
         THEN {[ok |-> TRUE, x |-> s.keyring[e], store |-> s]}
         ELSE {[ok |-> r.ok, x |-> s.legacy[e],
                store |-> IF r.ok THEN Forgotten(r.store, e) ELSE r.store] :
               r \in MacSet(s, e, s.legacy[e])}
         : k \in KeyringFails(s)}

NativeGet(s, e) == IF Windows THEN WindowsGet(s, e) ELSE MacGet(s, e)

Count(x) == IF x.kind = "manifest" THEN x.n ELSE 0

\* the chunks of what is being written; the text of a manifest needs none
Size == IF job.value = Raw THEN 0 ELSE Pieces[job.value]
Parts(v) == [i \in 1 .. Pieces[v] |-> Chunk(v, i)]

\* the text put together from what was read
Text(acc) ==
  IF \E v \in Values : Pieces[v] > 0 /\ acc = Parts(v)
  THEN CHOOSE v \in Values : Pieces[v] > 0 /\ acc = Parts(v) ELSE Torn

-----------------------------------------------------------------------------
(* Set: remove the old chunks, write the new ones, then the key itself.      *)

At(pc) == job.pc = pc
Same == UNCHANGED <<config, last, cut, seen>>

\* the operation ends: a set that failed may leave a mixture
EndsEarly ==
  cut' = (cut \/ (job.pc \in {"chunk", "main"}
                    /\ ((job.old > 0 /\ Size > job.old) \/ job.leftover)))

Finish(result, shown) ==
  /\ job' = NoJob /\ last' = result /\ seen' = shown /\ UNCHANGED config

\* where a set under way goes on: its own end, or the operation it is part of
StepTo(pc) == job' = [job EXCEPT !.pc = pc]
Advance == IF job.then = "none" THEN (IF config.owner = "app" THEN "mirror" ELSE "forget")
           ELSE job.then
StartSet(v) ==
  /\ Idle /\ job' = [NoJob EXCEPT !.pc = "old", !.op = "set", !.value = v]
  /\ last' = Unknown /\ seen' = Unknown /\ UNCHANGED <<config, store, cut>>

\* an error of keyring_set: the app's own keys still have their DPAPI file
KeyringSetFails ==
  /\ EndsEarly
  /\ \/ /\ job.op = "set" /\ config.owner = "app" /\ Windows
        /\ StepTo("mirror_only") /\ UNCHANGED <<config, last, seen>>
     \/ /\ job.op = "restore" /\ StepTo("restored") /\ UNCHANGED <<config, last, seen>>
     \/ /\ job.op = "set" /\ ~(config.owner = "app" /\ Windows) /\ Finish(Unknown, Unknown)
     \/ /\ job.op \in {"consume", "migrate"} /\ Finish(Unknown, Error)

ReadOld ==
  /\ At("old")
  /\ \E r \in NativeGet(store, 0) :
       /\ store' = r.store
       /\ IF r.ok
          THEN /\ job' = [job EXCEPT !.pc = "unlink", !.i = 1, !.old = Count(r.x),
                                     !.leftover = r.store.faults < store.faults]
               /\ Same
          ELSE KeyringSetFails

\* mutant: the chunks of the new value are counted instead
UnlinkChunksOfNew ==
  /\ At("unlink")
  /\ IF job.i > Size
     THEN /\ job' = [job EXCEPT !.pc = IF Size = 0 THEN "main" ELSE "chunk", !.i = 1]
          /\ UNCHANGED store
     ELSE \E r \in NativeDelete(store, job.i) :
            store' = r.store /\ job' = [job EXCEPT !.i = @ + 1]
  /\ Same

\* delete_secure_store_chunks ignores errors
UnlinkChunks ==
  /\ At("unlink")
  /\ IF job.i > job.old
     THEN /\ job' = [job EXCEPT !.pc = IF Size = 0 THEN "main" ELSE "chunk", !.i = 1]
          /\ UNCHANGED store
     ELSE \E r \in NativeDelete(store, job.i) :
            /\ store' = r.store
            /\ job' = [job EXCEPT !.i = @ + 1, !.leftover = @ \/ ~r.ok]
  /\ Same

\* mutant: one chunk too many
WriteChunkTooMany ==
  /\ At("chunk")
  /\ \E r \in NativeSet(store, job.i, Chunk(job.value, job.i)) :
       /\ store' = r.store
       /\ IF r.ok
          THEN /\ job' = [job EXCEPT !.i = @ + 1,
                                     !.pc = IF job.i > Size THEN "main" ELSE @]
               /\ Same
          ELSE KeyringSetFails

WriteChunk ==
  /\ At("chunk")
  /\ \E r \in NativeSet(store, job.i, Chunk(job.value, job.i)) :
       /\ store' = r.store
       /\ IF r.ok
          THEN /\ job' = [job EXCEPT !.i = @ + 1,
                                     !.pc = IF job.i = Size THEN "main" ELSE @]
               /\ Same
          ELSE KeyringSetFails

WriteMain ==
  /\ At("main")
  /\ \E r \in NativeSet(store, 0, IF job.value = Raw THEN Manifest(job.raw)
                                   ELSE IF Size > 0 THEN Manifest(Size) ELSE Whole(job.value)) :
       /\ store' = r.store
       /\ IF r.ok THEN StepTo(Advance) /\ Same ELSE KeyringSetFails

\* app_api_native_secret_set: the whole value goes to the DPAPI file of the key too,
\* and is enough if that works
Mirror ==
  /\ At("mirror") \/ At("mirror_only")
  /\ \E d \in IF Windows THEN Fails(store, "dpapi") ELSE {TRUE} :
       /\ store' = IF d THEN Used(store, FALSE, Windows)
                   ELSE [store EXCEPT !.dpapi[0] = Whole(job.value)]
       /\ Finish(IF d /\ At("mirror_only") THEN Unknown ELSE job.value, Unknown)
  /\ cut' = (cut /\ At("mirror_only"))

\* secure_store_set: the plaintext file of an older version is removed
Forget ==
  /\ At("forget")
  /\ store' = [store EXCEPT !.fallback = None]
  /\ Finish(job.value, Unknown) /\ cut' = FALSE

-----------------------------------------------------------------------------
(* Get.                                                                      *)

StartGet ==
  /\ Idle /\ job' = [NoJob EXCEPT !.pc = IF config.owner = "renderer" THEN "legacy" ELSE "read",
                                  !.op = "get"]
  /\ seen' = Unknown /\ UNCHANGED <<config, store, last, cut>>

\* mutant: the plaintext state is removed as soon as it has been read
ConsumeLegacyFirst ==
  /\ At("legacy")
  /\ job' = IF store.fallback # None /\ config.subscribed
            THEN [job EXCEPT !.pc = "old", !.op = "consume", !.value = store.fallback,
                             !.then = "consumed"]
            ELSE [job EXCEPT !.pc = "read"]
  /\ store' = [store EXCEPT !.fallback = IF config.subscribed THEN None ELSE @] /\ Same

\* a plaintext state with a subscription replaces whatever the keyring holds
ConsumeLegacy ==
  /\ At("legacy")
  /\ job' = IF store.fallback # None /\ config.subscribed
            THEN [job EXCEPT !.pc = "old", !.op = "consume", !.value = store.fallback,
                             !.then = "consumed"]
            ELSE [job EXCEPT !.pc = "read"]
  /\ UNCHANGED store /\ Same

Consumed ==
  /\ At("consumed")
  /\ store' = [store EXCEPT !.fallback = None]
  /\ Finish(job.value, job.value) /\ cut' = FALSE

\* a keyring that fails: an error for the renderer, the DPAPI file for the app
ReadFails ==
  IF config.owner = "app" /\ Windows THEN StepTo("dpapi") /\ Same
  ELSE Finish(last, Error) /\ UNCHANGED cut

\* nothing in the keyring: the DPAPI file, or the plaintext file of an older version
NothingRead ==
  CASE config.owner = "app" /\ Windows -> StepTo("dpapi") /\ Same
    [] config.owner = "renderer" /\ store.fallback # None ->
         /\ job' = [job EXCEPT !.pc = "old", !.op = "migrate", !.value = store.fallback,
                               !.then = "consumed"]
         /\ Same
    [] OTHER -> Finish(last, None) /\ UNCHANGED cut

\* a value that was read makes the plaintext file superfluous
Shown(s, v) ==
  /\ store' = IF config.owner = "renderer" THEN [s EXCEPT !.fallback = None] ELSE s
  /\ Finish(last, v) /\ UNCHANGED cut

ReadMain ==
  /\ At("read")
  /\ \E r \in NativeGet(store, 0) :
       CASE ~r.ok -> store' = r.store /\ ReadFails
         [] r.ok /\ r.x = Absent -> store' = r.store /\ NothingRead
         [] r.ok /\ r.x.kind = "whole" -> Shown(r.store, r.x.value)
         [] OTHER -> /\ job' = [job EXCEPT !.pc = "parts", !.i = 1, !.old = Count(r.x)]
                     /\ store' = r.store /\ Same

\* a chunk that is missing is an error
ReadPart ==
  /\ At("parts") /\ job.i <= job.old
  /\ \E r \in NativeGet(store, job.i) :
       /\ store' = r.store
       /\ IF r.ok /\ r.x # Absent
          THEN job' = [job EXCEPT !.i = @ + 1, !.acc = Append(@, r.x)] /\ Same
          ELSE ReadFails

ReadDone ==
  /\ At("parts") /\ job.i > job.old
  /\ Shown(store, Text(job.acc))

\* the DPAPI file of an app key, whose value is put back into the keyring; a manifest
\* is returned as it stands
ReadMirror ==
  /\ At("dpapi")
  /\ \E d \in Fails(store, "dpapi") :
       /\ store' = Used(store, FALSE, d)
       /\ LET x == store.dpapi[0]
          IN CASE d \/ x = Absent -> Finish(last, None) /\ UNCHANGED cut
               [] OTHER -> /\ job' = [job EXCEPT !.pc = "old", !.op = "restore",
                                                 !.value = IF x.kind = "manifest" THEN Raw ELSE x.value,
                                                 !.raw = x.n, !.then = "restored"]
                           /\ Same

\* put back or not, the value is returned
Restored ==
  /\ At("restored") /\ Finish(last, job.value) /\ UNCHANGED <<store, cut>>

-----------------------------------------------------------------------------
(* Delete.                                                                   *)

StartDelete ==
  /\ Idle /\ job' = [NoJob EXCEPT !.pc = "find", !.op = "delete"]
  /\ last' = Unknown /\ seen' = Unknown /\ UNCHANGED <<config, store, cut>>

FindOld ==
  /\ At("find")
  /\ \E r \in NativeGet(store, 0) :
       /\ store' = r.store
       /\ job' = IF r.ok THEN [job EXCEPT !.pc = "drop", !.i = 1, !.old = Count(r.x)]
                 ELSE [job EXCEPT !.pc = "drop_mirror", !.leftover = TRUE]
  /\ Same

DropChunk ==
  /\ At("drop") /\ job.i <= job.old
  /\ \E r \in NativeDelete(store, job.i) :
       store' = r.store /\ job' = [job EXCEPT !.i = @ + 1]
  /\ Same

\* mutant: an entry that could not be deleted is taken for deleted
DropMainIgnored ==
  /\ At("drop") /\ job.i > job.old
  /\ \E r \in NativeDelete(store, 0) :
       store' = r.store /\ job' = [job EXCEPT !.pc = "drop_mirror"]
  /\ Same

DropMain ==
  /\ At("drop") /\ job.i > job.old
  /\ \E r \in NativeDelete(store, 0) :
       store' = r.store /\ job' = [job EXCEPT !.pc = "drop_mirror", !.leftover = ~r.ok]
  /\ Same

\* the last part: the renderer's plaintext file, or the DPAPI file of an app key, whose
\* success is enough there
DropMirror ==
  /\ At("drop_mirror")
  /\ \E d \in IF config.owner = "app" /\ Windows THEN Fails(store, "dpapi") ELSE {FALSE} :
       LET mirrored == config.owner = "app" /\ Windows
           ok == IF mirrored THEN ~d ELSE ~job.leftover
       IN /\ store' = IF config.owner = "renderer" THEN [store EXCEPT !.fallback = None]
                      ELSE [Used(store, FALSE, d) EXCEPT !.dpapi[0] = IF d \/ ~Windows THEN @ ELSE Absent]
          /\ Finish(IF ok THEN None ELSE Unknown, Unknown)
  /\ UNCHANGED cut

-----------------------------------------------------------------------------

\* another operation takes the next step, or a new one can begin; the bound leaves a turn
\* to the one that is paused
Switch(s) ==
  /\ job # paused[s] /\ turns + (IF Idle THEN 0 ELSE 1) < MaxTurns
  /\ job' = paused[s] /\ paused' = [paused EXCEPT ![s] = job] /\ turns' = turns + 1
  /\ UNCHANGED <<config, store, last, cut, seen>>

\* the process is killed between two steps
Crash ==
  /\ ~Idle \/ \E s \in Slots : paused[s] # NoJob
  /\ EndsEarly
  /\ job' = NoJob /\ paused' = [s \in Slots |-> NoJob] /\ seen' = Unknown
  /\ last' = IF job.op = "get" /\ ~Overlapped THEN last ELSE Unknown
  /\ UNCHANGED <<config, store, turns>>

\* an older version may have left its plaintext file or an entry of the older keychain
Init ==
  /\ config \in [platform : {"windows", "macos"}, owner : {"renderer", "app"},
                keyring : BOOLEAN, subscribed : BOOLEAN]
  /\ config.platform = "macos" => config.keyring
  /\ config.subscribed => config.owner = "renderer"
  /\ store \in {[keyring |-> Nothing, dpapi |-> Nothing, legacy |-> l, fallback |-> f,
                 faults |-> MaxFaults] :
                l \in {Nothing, [Nothing EXCEPT ![0] = Whole(LegacyValue)]},
                f \in {None, LegacyValue}}
  /\ config.platform = "windows" => store.legacy = Nothing
  /\ config.owner = "app" => store.fallback = None
  /\ job = NoJob /\ paused = [s \in Slots |-> NoJob] /\ turns = 0
  /\ last = Unknown /\ cut = FALSE /\ seen = Unknown

Call == StartGet \/ StartDelete \/ \E v \in Values : StartSet(v)

Step ==
  \/ ReadOld \/ UnlinkChunks \/ WriteChunk \/ WriteMain \/ Mirror \/ Forget
  \/ ConsumeLegacy \/ Consumed \/ ReadMain \/ ReadPart \/ ReadDone
  \/ ReadMirror \/ Restored
  \/ FindOld \/ DropChunk \/ DropMain \/ DropMirror

Next ==
  \/ (Call \/ Step) /\ UNCHANGED <<paused, turns>>
  \/ \E s \in Slots : Switch(s)
  \/ Crash

Spec == Init /\ [][Next]_vars

-----------------------------------------------------------------------------
(* Properties.                                                               *)

\* The variables keep their types.
TypeOK ==
  /\ store.keyring \in [Entries -> Contents] /\ store.dpapi \in [Entries -> Contents]
  /\ store.fallback \in {None, LegacyValue} /\ store.faults \in 0 .. MaxFaults
  /\ job.i \in 0 .. MaxPieces + 1 /\ Len(job.acc) <= MaxPieces
  /\ \A s \in Slots : paused[s].i \in 0 .. MaxPieces + 1 /\ Len(paused[s].acc) <= MaxPieces
  /\ last \in Values \cup {None, Unknown} /\ cut \in BOOLEAN
  /\ seen \in Values \cup {None, Unknown, Error, Torn, Raw}

\* Nothing but LegacySurvives is promised once operations on the key have overlapped: two
\* sets mix their chunks under one manifest, and a get or a delete beside a set finds half
\* of each value. The three properties that follow are for operations one after another.

\* A get never returns a mixture of two values or a part of one, whatever was cut short
\* between two entries, except after a set of more chunks than before, or one that could
\* not see or remove the old chunks, has been cut short (storage/mod.rs:318).
ReadsAreWhole == seen = Torn => cut \/ Overlapped

\* What an operation that succeeded has stored is what the next get returns, across
\* shorter and longer values, a keyring that cannot be used and a restart.
SetIsRead == last \in Values /\ seen \in Values /\ ~Overlapped => seen = last

\* What has been deleted with success does not come back, from no mirror or older store.
DeleteIsFinal == last = None /\ ~Overlapped => seen \notin Values

\* The state an older version left behind is not lost in its migration: until somebody
\* sets or deletes the key, its file goes only when a value is shown that the keyring
\* holds, whatever fails or is killed on the way, and whatever runs beside it.
LegacySurvives == [][store.fallback # None /\ store'.fallback = None =>
                       job.op \in {"set", "delete"} \/ seen' \in Values \cup {Torn}]_vars

-----------------------------------------------------------------------------
(* What the code does not do.                                                *)

\* Only a set that is cut short leaves a mixture to be read: two sets that overlap do, too
\* (control_plane/mod.rs:697, a profile cache stored by two requests at once).
OnlyCutsMix == seen = Torn => cut
=============================================================================
