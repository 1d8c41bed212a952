------------------------- MODULE OrchestratorProofs -------------------------
(***************************************************************************)
(* What the connection commands keep true, for every number of threads,    *)
(* every set of requests and every choice of inputs and builds.            *)
(*                                                                         *)
(* The argument has three layers.  TypeInv: the variables keep their       *)
(* types, a step belongs to one build and one branch of                    *)
(* vpn_connect_direct, and RUNTIME_OP_LOCK works -- only its holder is     *)
(* past its first step.  EngineInv and Tracked: what the holder knows to   *)
(* run, and to have taken over, at each step.  WishInv: after a disconnect *)
(* either nothing runs, or a disconnect is still to come and every connect *)
(* that has not begun is before it in the queue.                           *)
(***************************************************************************)
EXTENDS Orchestrator, FiniteSetTheorems, TLAPS

-----------------------------------------------------------------------------
(* Labels and types.                                                         *)

\* where a command waits for the lock
Waiting == {"connect", "disconnect", "ne_stop", "repair", "update"}

\* the steps of a connect that starts engines, and of one of the App Store build
LocalSteps == {"stop", "restore", "ports", "start", "wait_port", "commit_local",
  "apply_proxy", "rules", "bridge", "service_start", "service_poll", "compat", "commit_tun"}
ExtensionSteps == {"ne_start", "ne_wait", "ne_verify", "ne_stop", "ne_stopping"}

\* where a command is that waits for the lock or holds it, and where one does not
Queued == Waiting \cup LocalSteps \cup ExtensionSteps \cup
            {"return_proxy", "commit_down", "repair_down", "stuck"}
Beside == {"idle", "verify", "flagged", "status", "status_write", "compat_apply",
  "compat_managed"}

RequestType == [engine : {"xray", "singbox"}, tun : BOOLEAN,
                proxy : {"set", "clear", "unchanged"}, rules : BOOLEAN]
LocalsType == [req : RequestType \cup {NoRequest}, ret : Returns, active : BOOLEAN]
MemoryType == [connected : BOOLEAN, engine : Engines, managed : BOOLEAN, cancelled : BOOLEAN]
SystemType == [local : SUBSET LocalEngines, orphans : SUBSET LocalEngines, bridge : BOOLEAN,
  svc : ServiceStates, transient : BOOLEAN, late : BOOLEAN,
  ne : ExtensionStates, proxy : {"user", "app"}, guardian : BOOLEAN,
  dropped : BOOLEAN, sweep : BOOLEAN, faulted : BOOLEAN]

\* a connect knows its request, and its steps belong to one build and one branch
LabelOK(p, l) ==
  /\ p \in LocalSteps \cup {"connect"} => l.req \in RequestType
  /\ p \in LocalSteps \cup {"disconnect", "return_proxy", "commit_down", "verify"} => ~AppStore
  /\ p \in ExtensionSteps => AppStore
  /\ p \in {"service_start", "service_poll", "compat_apply", "compat_managed", "repair",
            "repair_down"} => Windows
  /\ p \in {"commit_local", "apply_proxy", "rules"} => l.ret = "rules"
  /\ p \in {"start", "wait_port"} /\ l.ret = "tun" => ~Windows /\ l.req.engine = "xray"
  /\ p = "bridge" => ~Windows
  /\ p \in {"compat", "commit_tun"} => l.ret = "tun"

ThreadsOK == \A t \in Threads : LabelOK(pc[t], loc[t])

\* what of the service, the extension and the proxy there can be in each build
Sound(o) ==
  /\ o \in SystemType
  /\ ~Windows => o.svc = "Disconnected" /\ ~o.transient /\ ~o.late /\ o.proxy = "user"
  /\ ~AppStore => o.ne = "disconnected"
  /\ AppStore => o.local = {}
  /\ o.late => o.faulted

\* a process that has ended runs no command
DownOK == ~up => os.local = {} /\ queue = << >> /\ \A t \in Threads : pc[t] = "idle"

\* every command that waits for the lock or holds it is in the queue once, and only
\* the one that holds it is past its first step
LockOK ==
  /\ \A i, j \in 1 .. Len(queue) : queue[i] = queue[j] => i = j
  /\ \A i \in 1 .. Len(queue) :
       pc[queue[i]] \in Queued /\ (i > 1 => pc[queue[i]] \in Waiting)
  /\ \A t \in Threads : pc[t] \in Queued => \E i \in 1 .. Len(queue) : queue[i] = t

TypeInv == TypeOK /\ ThreadsOK /\ LockOK /\ Sound(os) /\ DownOK

LEMMA RequestTypes == ASSUME NEW r \in Requests PROVE r \in RequestType
  BY ConstantsAssumption DEF RequestType

LEMMA LocalTypes ==
  TypeOK <=> /\ platform \in Platforms /\ mem \in MemoryType /\ os \in SystemType
             /\ queue \in Seq(Threads) /\ guard \in Threads \cup {Nobody}
             /\ app \in {"running", "cleaned", "down"}
             /\ pc \in [Threads -> Labels] /\ loc \in [Threads -> LocalsType]
             /\ wish \in {"none", "connect", "disconnect"} /\ connects \in 0 .. MaxConnects
<1>1. Requests \cup {NoRequest} \cup RequestType = RequestType \cup {NoRequest}
  BY RequestTypes
<1>. QED  BY <1>1 DEF TypeOK, MemoryType, SystemType, LocalsType, RequestType

LEMMA LabelSets ==
  Queued \subseteq Labels /\ Beside \subseteq Labels /\ Labels \subseteq Queued \cup Beside
  /\ Queued \cap Beside = {}
  BY DEF Queued, Beside, Labels, Waiting, LocalSteps, ExtensionSteps

-----------------------------------------------------------------------------
(* The operators on the state of the system.                                 *)

\* nothing of a connection runs, nor is about to
IsDown(o) == o.local = {} /\ ~ServiceActive(o) /\ ~o.transient /\ ~ExtensionActive(o)

\* s comes from o by an operation that starts nothing and takes over no proxy
Quieter(o, s) ==
  /\ s.local \subseteq o.local
  /\ ServiceActive(s) => ServiceActive(o)
  /\ s.transient => o.transient
  /\ ExtensionActive(s) => ExtensionActive(o)
  /\ s.proxy = "app" => o.proxy = "app" /\ (o.dropped => s.dropped)
  /\ o.faulted => s.faulted

\* what is known of a state o that was sound, and of s that comes from it
Stops(o, s) == Sound(s) /\ Quieter(o, s)

LEMMA Platform == Windows => ~AppStore /\ ~MacOS
  BY DEF Windows, AppStore, MacOS

LEMMA QuieterSelf == ASSUME NEW o, Sound(o) PROVE Stops(o, o)
  BY DEF Stops, Quieter

LEMMA QuieterTwice ==
  ASSUME NEW o, NEW r, NEW s, Stops(o, r), Stops(r, s) PROVE Stops(o, s)
  BY DEF Stops, Quieter

LEMMA QuieterDown ==
  ASSUME NEW o, NEW s, Stops(o, s), IsDown(o) PROVE IsDown(s)
  BY DEF Stops, Quieter, IsDown

LEMMA StopEngines ==
  ASSUME NEW o, Sound(o)
  PROVE /\ Stops(o, StopXray(o)) /\ StopXray(o).local = o.local \ {"xray"}
        /\ Stops(o, StopSingbox(o)) /\ StopSingbox(o).local = o.local \ {"singbox"}
  BY DEF Sound, SystemType, Stops, Quieter, StopXray, StopSingbox, LocalEngines,
     ServiceActive, ExtensionActive

LEMMA StopTunStops ==
  ASSUME NEW o, Sound(o), NEW s \in StopTun(o) PROVE Stops(o, s) /\ s.local = o.local
<1>1. CASE s = o
  BY <1>1, QuieterSelf
<1>2. CASE s = [o EXCEPT !.bridge = FALSE] \/ s = [o EXCEPT !.faulted = TRUE]
  BY <1>2 DEF Sound, SystemType, Stops, Quieter, ServiceActive, ExtensionActive
<1>. QED  BY <1>1, <1>2 DEF StopTun

LEMMA StartBridgeStops ==
  ASSUME NEW o, Sound(o), NEW s \in StartBridge(o)
  PROVE Stops(o, s.os) /\ s.os.local = o.local
<1>1. PICK r \in StopTun(o) :
        \/ s = [ok |-> TRUE, os |-> [r EXCEPT !.bridge = TRUE]]
        \/ s = [ok |-> FALSE, os |-> [r EXCEPT !.bridge = FALSE]]
        \/ s = [ok |-> FALSE, os |-> [r EXCEPT !.bridge = TRUE, !.faulted = TRUE]]
  BY DEF StartBridge
<1>2. Stops(o, r) /\ r.local = o.local
  BY StopTunStops
<1>3. ASSUME NEW x, x = [r EXCEPT !.bridge = TRUE] PROVE Stops(r, x) /\ x.local = r.local
  BY <1>2, <1>3 DEF Sound, SystemType, Stops, Quieter, ServiceActive, ExtensionActive
<1>4. ASSUME NEW x, x = [r EXCEPT !.bridge = FALSE] PROVE Stops(r, x) /\ x.local = r.local
  BY <1>2, <1>4 DEF Sound, SystemType, Stops, Quieter, ServiceActive, ExtensionActive
<1>5. ASSUME NEW x, x = [r EXCEPT !.bridge = TRUE, !.faulted = TRUE]
      PROVE Stops(r, x) /\ x.local = r.local
  BY <1>2, <1>5 DEF Sound, SystemType, Stops, Quieter, ServiceActive, ExtensionActive
<1>6. Stops(r, s.os) /\ s.os.local = r.local
  BY <1>1, <1>3, <1>4, <1>5
<1>7. Stops(o, s.os)
  BY <1>2, <1>6, QuieterTwice
<1>. QED  BY <1>2, <1>6, <1>7

LEMMA StopServiceStops ==
  ASSUME NEW o, Sound(o), NEW s \in StopService(o)
  PROVE /\ Stops(o, s) /\ s.local = o.local /\ s.ne = o.ne
        /\ ~s.faulted => ~ServiceActive(s) /\ ~s.transient
<1>1. CASE ~Windows
  BY <1>1, QuieterSelf DEF StopService, Sound, ServiceActive
<1>2. CASE Windows
  <2>1. CASE s = [o EXCEPT !.svc = "Disconnected", !.transient = FALSE]
    BY <1>2, <2>1
       DEF Sound, SystemType, Stops, Quieter, ServiceActive, ExtensionActive, ServiceStates
  <2>2. CASE s = [o EXCEPT !.faulted = TRUE]
    BY <1>2, <2>2 DEF Sound, SystemType, Stops, Quieter, ServiceActive, ExtensionActive
  <2>. QED  BY <1>2, <2>1, <2>2 DEF StopService
<1>. QED  BY <1>1, <1>2

LEMMA SweepStops ==
  ASSUME NEW o, Sound(o) PROVE Stops(o, Sweep(o)) /\ Sweep(o).local = {}
  BY DEF Sound, SystemType, Stops, Quieter, Sweep, ServiceActive, ExtensionActive

LEMMA GiveBackStops ==
  ASSUME NEW o, Sound(o)
  PROVE Stops(o, GiveBack(o)) /\ GiveBack(o).local = o.local /\ GiveBack(o).proxy = "user"
  BY DEF Sound, SystemType, Stops, Quieter, GiveBack, ServiceActive, ExtensionActive

LEMMA RepairStaleStops ==
  ASSUME NEW o, Sound(o), NEW s \in RepairStale(o)
  PROVE Stops(o, s) /\ s.local = o.local /\ (s.proxy = "user" \/ s.dropped)
<1>1. CASE s = GiveBack(o)
  BY <1>1, GiveBackStops
<1>2. CASE s = [o EXCEPT !.dropped = o.proxy = "app"]
  BY <1>2 DEF Sound, SystemType, Stops, Quieter, ServiceActive, ExtensionActive
<1>. QED  BY <1>1, <1>2 DEF RepairStale

LEMMA RestoreIfOwnedStops ==
  ASSUME NEW o, NEW m, Sound(o), NEW s \in RestoreIfOwned(m, o)
  PROVE /\ Stops(o, s) /\ s.local = o.local
        /\ m.managed => s.proxy = "user" \/ s.dropped
  BY RepairStaleStops, QuieterSelf DEF RestoreIfOwned

LEMMA ApplyFailsFields ==
  ASSUME NEW o, Sound(o), Windows, NEW s \in ApplyFails(o)
  PROVE /\ Sound(s) /\ s.local = o.local
        /\ IsDown(o) => IsDown(s)
        /\ o.faulted => s.faulted
        /\ s.proxy = "app" => s.dropped \/ o.proxy = "app"
        /\ s.proxy = "app" /\ o.dropped => s.dropped
<1>1. CASE s = o
  BY <1>1
<1>2. CASE s = [o EXCEPT !.guardian = FALSE]
  BY <1>2 DEF Sound, SystemType, IsDown, ServiceActive, ExtensionActive
<1>3. CASE s = [o EXCEPT !.proxy = "app", !.guardian = FALSE, !.dropped = TRUE]
  BY <1>3 DEF Sound, SystemType, IsDown, ServiceActive, ExtensionActive
<1>. QED  BY <1>1, <1>2, <1>3 DEF ApplyFails

LEMMA TakeOverFields ==
  ASSUME NEW o, Sound(o), Windows
  PROVE /\ Sound(TakeOver(o)) /\ TakeOver(o).local = o.local
        /\ IsDown(o) => IsDown(TakeOver(o))
        /\ o.faulted => TakeOver(o).faulted
  BY DEF Sound, SystemType, TakeOver, IsDown, ServiceActive, ExtensionActive

LEMMA SendStartFields ==
  ASSUME NEW o, Sound(o), Windows, NEW s \in SendStart(o)
  PROVE /\ Sound(s.os) /\ s.os.local = o.local
        /\ s.os.proxy = o.proxy /\ s.os.dropped = o.dropped
        /\ o.faulted => s.os.faulted
<1>1. CASE s = [ok |-> TRUE, os |-> [o EXCEPT !.svc = "Connecting"]]
  BY <1>1 DEF Sound, SystemType, ServiceStates
<1>2. CASE s = [ok |-> FALSE, os |-> o]
  BY <1>2
<1>3. ASSUME NEW b \in BOOLEAN,
             s = [ok |-> b, os |-> [o EXCEPT !.svc = IF b THEN "Connecting" ELSE @,
                                             !.late = TRUE, !.faulted = TRUE]]
      PROVE /\ Sound(s.os) /\ s.os.local = o.local
            /\ s.os.proxy = o.proxy /\ s.os.dropped = o.dropped
            /\ o.faulted => s.os.faulted
  BY <1>3 DEF Sound, SystemType, ServiceStates
<1>. QED  BY <1>1, <1>2, <1>3 DEF SendStart

\* an engine is started: it runs, or it does not
Started(e, o) ==
  {[ok |-> TRUE, os |-> [o EXCEPT !.local = @ \cup {e}]],
   [ok |-> FALSE, os |-> [o EXCEPT !.local = @ \ {e}]]}

LEMMA StartsAre ==
  ASSUME NEW o PROVE StartXray(o) = Started("xray", o) /\ StartSingbox(o) = Started("singbox", o)
  BY DEF StartXray, StartSingbox, StopXray, StopSingbox, Started

LEMMA StartedFields ==
  ASSUME NEW o, Sound(o), ~AppStore, NEW e \in LocalEngines, NEW s \in Started(e, o)
  PROVE /\ Sound(s.os)
        /\ s.ok => s.os.local = o.local \cup {e}
        /\ ~s.ok => s.os.local = o.local \ {e}
        /\ s.os.proxy = o.proxy /\ s.os.dropped = o.dropped
        /\ o.faulted => s.os.faulted
<1>1. CASE s = [ok |-> TRUE, os |-> [o EXCEPT !.local = @ \cup {e}]]
  BY <1>1 DEF Sound, SystemType
<1>2. CASE s = [ok |-> FALSE, os |-> [o EXCEPT !.local = @ \ {e}]]
  BY <1>2 DEF Sound, SystemType
<1>. QED  BY <1>1, <1>2 DEF Started

-----------------------------------------------------------------------------
(* The lock.                                                                 *)

\* t moves, alone: it goes on with or without the lock, waits for it or gives it up
Turn(t) ==
  /\ pc' \in [Threads -> Labels] /\ loc' \in [Threads -> LocalsType]
  /\ \A u \in Threads \ {t} : pc'[u] = pc[u] /\ loc'[u] = loc[u]
  /\ \/ queue' = queue /\ Holds(t) /\ pc[t] \in Queued /\ pc'[t] \in Queued
     \/ queue' = queue /\ pc[t] \in Beside /\ pc'[t] \in Beside
     \/ queue' = Append(queue, t) /\ pc[t] \in Beside /\ pc'[t] \in Waiting
     \/ queue' = Tail(queue) /\ Holds(t) /\ pc[t] \in Queued /\ pc'[t] \in Beside

LEMMA HolderIsFirst ==
  ASSUME TypeInv, NEW t \in Threads
  PROVE /\ Holds(t) => Len(queue) \in Nat \ {0} /\ queue[1] = t
        /\ pc[t] \in Queued \ Waiting => Holds(t)
        /\ Holds(t) => \A u \in Threads \ {t} : pc[u] \in Beside \cup Waiting
<1>1. queue \in Seq(Threads) /\ pc \in [Threads -> Labels] /\ LockOK
  BY DEF TypeInv, TypeOK
<1>2. Holds(t) => Len(queue) \in Nat \ {0} /\ queue[1] = t
  BY <1>1 DEF Holds
<1>3. ASSUME NEW u \in Threads, pc[u] \in Queued \ Waiting
      PROVE queue # << >> /\ Head(queue) = u
  <2>1. PICK i \in 1 .. Len(queue) : queue[i] = u
    BY <1>1, <1>3 DEF LockOK
  <2>2. i = 1
    BY <1>1, <1>3, <2>1 DEF LockOK
  <2>. QED  BY <1>1, <2>1, <2>2
<1>4. ASSUME NEW u \in Threads PROVE pc[u] \in Queued \cup Beside
  BY <1>1, LabelSets
<1>. QED  BY <1>2, <1>3, <1>4 DEF Holds

LEMMA TurnKeepsLock == ASSUME TypeInv, NEW t \in Threads, Turn(t) PROVE LockOK'
<1>. DEFINE n == Len(queue)
<1>1. /\ queue \in Seq(Threads) /\ n \in Nat /\ pc \in [Threads -> Labels]
      /\ \A i \in 1 .. n : queue[i] \in Threads
  BY DEF TypeInv, TypeOK
<1>2. /\ \A i, j \in 1 .. n : queue[i] = queue[j] => i = j
      /\ \A i \in 1 .. n : pc[queue[i]] \in Queued /\ (i > 1 => pc[queue[i]] \in Waiting)
      /\ \A u \in Threads : pc[u] \in Queued => \E i \in 1 .. n : queue[i] = u
  BY DEF TypeInv, LockOK
<1>3. Queued \cap Beside = {} /\ Waiting \subseteq Queued
  BY LabelSets DEF Queued
<1>4. \A u \in Threads \ {t} : pc'[u] = pc[u]
  BY DEF Turn
<1>5. CASE queue' = queue /\ Holds(t) /\ pc'[t] \in Queued
  <2>1. n > 0 /\ queue[1] = t
    BY <1>5, HolderIsFirst
  <2>2. \A i \in 1 .. n : i > 1 => queue[i] \in Threads \ {t}
    BY <1>1, <1>2, <2>1
  <2>. HIDE DEF n
  <2>3. /\ \A i, j \in 1 .. n : queue'[i] = queue'[j] => i = j
        /\ \A i \in 1 .. n : pc'[queue'[i]] \in Queued /\ (i > 1 => pc'[queue'[i]] \in Waiting)
        /\ \A u \in Threads : pc'[u] \in Queued => \E i \in 1 .. n : queue'[i] = u
    BY <1>1, <1>2, <1>4, <1>5, <2>1, <2>2
  <2>. QED  BY <2>3, <1>5 DEF LockOK, n
<1>6. CASE queue' = queue /\ pc[t] \in Beside /\ pc'[t] \in Beside
  <2>1. \A i \in 1 .. n : queue[i] \in Threads \ {t}
    BY <1>1, <1>2, <1>3, <1>6
  <2>. HIDE DEF n
  <2>2. /\ \A i, j \in 1 .. n : queue'[i] = queue'[j] => i = j
        /\ \A i \in 1 .. n : pc'[queue'[i]] \in Queued /\ (i > 1 => pc'[queue'[i]] \in Waiting)
        /\ \A u \in Threads : pc'[u] \in Queued => \E i \in 1 .. n : queue'[i] = u
    BY <1>1, <1>2, <1>3, <1>4, <1>6, <2>1
  <2>. QED  BY <2>2, <1>6 DEF LockOK, n
<1>7. CASE queue' = Append(queue, t) /\ pc[t] \in Beside /\ pc'[t] \in Waiting
  <2>1. \A i \in 1 .. n : queue[i] \in Threads \ {t}
    BY <1>1, <1>2, <1>3, <1>7
  <2>2. Len(queue') = n + 1 /\ queue'[n + 1] = t /\ \A i \in 1 .. n : queue'[i] = queue[i]
    BY <1>1, <1>7
  <2>. HIDE DEF n
  <2>3. \A i, j \in 1 .. n + 1 : queue'[i] = queue'[j] => i = j
    BY <1>1, <1>2, <2>1, <2>2
  <2>4. \A i \in 1 .. n + 1 : pc'[queue'[i]] \in Queued /\ (i > 1 => pc'[queue'[i]] \in Waiting)
    BY <1>1, <1>2, <1>3, <1>4, <1>7, <2>1, <2>2
  <2>5. \A u \in Threads : pc'[u] \in Queued => \E i \in 1 .. n + 1 : queue'[i] = u
    <3>1. ASSUME NEW u \in Threads \ {t}, pc'[u] \in Queued
          PROVE \E i \in 1 .. n + 1 : queue'[i] = u
      <4>1. PICK i \in 1 .. n : queue[i] = u
        BY <3>1, <1>2, <1>4
      <4>. QED  BY <4>1, <1>1, <2>2
    <3>. QED  BY <3>1, <1>1, <2>2
  <2>. QED  BY <2>2, <2>3, <2>4, <2>5 DEF LockOK
<1>8. CASE queue' = Tail(queue) /\ Holds(t) /\ pc'[t] \in Beside
  <2>1. n > 0 /\ queue[1] = t
    BY <1>8, HolderIsFirst
  <2>2. \A i \in 2 .. n : queue[i] \in Threads \ {t}
    BY <1>1, <1>2, <2>1
  <2>3. Len(queue') = n - 1 /\ \A i \in 1 .. n - 1 : queue'[i] = queue[i + 1]
    BY <1>1, <1>8, <2>1
  <2>. HIDE DEF n
  <2>4. \A i, j \in 1 .. n - 1 : queue'[i] = queue'[j] => i = j
    BY <1>1, <1>2, <2>3
  <2>5. \A i \in 1 .. n - 1 : pc'[queue'[i]] \in Waiting
    BY <1>1, <1>2, <1>4, <2>2, <2>3
  <2>6. \A u \in Threads : pc'[u] \in Queued => \E i \in 1 .. n - 1 : queue'[i] = u
    <3>1. ASSUME NEW u \in Threads \ {t}, pc'[u] \in Queued
          PROVE \E i \in 1 .. n - 1 : queue'[i] = u
      <4>1. PICK i \in 1 .. n : queue[i] = u
        BY <3>1, <1>2, <1>4
      <4>2. i - 1 \in 1 .. n - 1 /\ queue'[i - 1] = u
        BY <4>1, <1>1, <2>1, <2>3
      <4>. QED  BY <4>2
    <3>. QED  BY <3>1, <1>3, <1>8
  <2>. QED  BY <1>3, <2>3, <2>4, <2>5, <2>6 DEF LockOK
<1>. QED  BY <1>5, <1>6, <1>7, <1>8 DEF Turn

-----------------------------------------------------------------------------
(* The moves of a thread, as the actions write them.                         *)

Arrives(t, p, l) == Turn(t) /\ pc'[t] = p /\ loc'[t] = l

LEMMA NoLocalsType == NoLocals \in LocalsType
  BY DEF NoLocals, LocalsType, Returns

LEMMA Stays ==
  ASSUME TypeInv, NEW t \in Threads, NEW at, NEW p, Step(t, at), Goto(t, p),
         at \in Queued, p \in Queued, UNCHANGED <<loc, queue>>
  PROVE Arrives(t, p, loc[t])
  BY LabelSets, LocalTypes DEF TypeInv, Step, Goto, Arrives, Turn

LEMMA StaysWith ==
  ASSUME TypeInv, NEW t \in Threads, NEW at, NEW p, Step(t, at), Goto(t, p),
         at \in Queued, p \in Queued, UNCHANGED queue,
         NEW l \in LocalsType, loc' = [loc EXCEPT ![t] = l]
  PROVE Arrives(t, p, l)
  BY LabelSets, LocalTypes DEF TypeInv, Step, Goto, Arrives, Turn

LEMMA Fails ==
  ASSUME TypeInv, NEW t \in Threads, NEW at, Step(t, at), at \in Queued, Fail(t)
  PROVE Arrives(t, "idle", NoLocals)
  BY LabelSets, LocalTypes, NoLocalsType
     DEF TypeInv, Step, Fail, Return, Done, Release, Goto, Arrives, Turn, Beside

LEMMA Succeeds ==
  ASSUME TypeInv, NEW t \in Threads, NEW at, Step(t, at), at \in Queued, Succeed(t)
  PROVE Arrives(t, "verify", loc[t])
  BY LabelSets, LocalTypes
     DEF TypeInv, Step, Succeed, Return, Release, Goto, Arrives, Turn, Beside

LEMMA Joins ==
  ASSUME TypeInv, NEW t \in Threads, NEW p, pc[t] \in Beside, p \in Waiting,
         Wait(t), Goto(t, p), NEW l \in LocalsType, loc' = [loc EXCEPT ![t] = l]
  PROVE Arrives(t, p, l)
  BY LabelSets, LocalTypes DEF TypeInv, Wait, Goto, Arrives, Turn, Queued

LEMMA MovesBeside ==
  ASSUME TypeInv, NEW t \in Threads, NEW p, pc[t] \in Beside, p \in Beside,
         UNCHANGED queue, Goto(t, p), NEW l \in LocalsType, loc' = [loc EXCEPT ![t] = l]
  PROVE Arrives(t, p, l)
  BY LabelSets, LocalTypes DEF TypeInv, Goto, Arrives, Turn

LEMMA SameLocals ==
  ASSUME TypeInv, NEW t \in Threads, UNCHANGED loc
  PROVE loc[t] \in LocalsType /\ loc' = [loc EXCEPT ![t] = loc[t]]
  BY LocalTypes DEF TypeInv

-----------------------------------------------------------------------------
(* What one step of a command may do.                                        *)

\* where a command is on its way to start something
Launches == LocalSteps \cup {"connect", "ne_start", "ne_wait", "ne_verify"}

\* where a disconnect waits to stop everything
Asks(p, l) == p = "disconnect" \/ (p = "ne_stop" /\ l.ret = "disconnect")

\* the step asks for a disconnect, or starts nothing that was not on its way to start;
\* and the step that answers a disconnect leaves nothing running
Calm(t) ==
  /\ os.faulted => os'.faulted
  /\ wish' = "disconnect" =>
       \/ pc'[t] = "flagged"
       \/ Asks(pc'[t], loc'[t]) /\ queue' = Append(queue, t)
       \/ /\ wish = "disconnect" /\ pc[t] # "flagged" /\ pc'[t] # "connect"
          /\ pc'[t] \in Launches => pc[t] \in Launches
          /\ pc[t] \notin Launches /\ IsDown(os) => IsDown(os') \/ os'.faulted
          /\ Asks(pc[t], loc[t]) => IsDown(os') \/ os'.faulted

\* the step takes over no proxy without telling
Tracks(t) ==
  os'.proxy = "app" =>
    \/ mem'.managed
    \/ pc'[t] = "compat_managed"
    \/ os'.dropped
    \/ /\ os.proxy = "app" /\ ~os.dropped /\ pc[t] # "compat_managed"
       /\ mem.managed => mem'.managed

Lawful(t) ==
  /\ up /\ UNCHANGED <<platform, app>>
  /\ Turn(t) /\ LabelOK(pc'[t], loc'[t])
  /\ mem' \in MemoryType /\ Sound(os') /\ guard' \in Threads \cup {Nobody}
  /\ wish' \in {"none", "connect", "disconnect"} /\ connects' \in 0 .. MaxConnects
  /\ Calm(t) /\ Tracks(t)

LEMMA Knows ==
  ASSUME TypeInv, NEW t \in Threads
  PROVE /\ LabelOK(pc[t], loc[t]) /\ loc[t] \in LocalsType
        /\ mem \in MemoryType /\ Sound(os) /\ guard \in Threads \cup {Nobody}
        /\ wish \in {"none", "connect", "disconnect"} /\ connects \in 0 .. MaxConnects
  BY LocalTypes DEF TypeInv, ThreadsOK

\* a step that only stops things, or changes nothing outside
LEMMA QuietStep ==
  ASSUME TypeInv, NEW t \in Threads, NEW p, NEW l, up, Alone, Arrives(t, p, l), LabelOK(p, l),
         guard' \in Threads \cup {Nobody}, mem' \in MemoryType, Stops(os, os'),
         pc[t] \notin {"flagged", "disconnect", "ne_stop", "compat_managed"},
         p # "connect", p \in Launches => pc[t] \in Launches,
         os'.proxy = "app" /\ mem.managed => mem'.managed \/ os'.dropped
  PROVE Lawful(t)
<1>1. Calm(t)
  BY QuieterDown, Knows DEF Calm, Stops, Quieter, Alone, Arrives, Asks
<1>2. Tracks(t)
  BY DEF Tracks, Stops, Quieter
<1>. QED  BY <1>1, <1>2, Knows DEF Lawful, Arrives, Stops, Alone

LEMMA LabelRest == ASSUME NEW l PROVE LabelOK("idle", l) /\ (~AppStore => LabelOK("verify", l))
  BY DEF LabelOK, LocalSteps, ExtensionSteps

\* the labels that QuietStep is for
Ordinary == Queued \ {"disconnect", "ne_stop"}

LEMMA QuietStay ==
  ASSUME TypeInv, NEW t \in Threads, NEW at \in Ordinary, NEW p \in Queued \ {"connect"},
         Step(t, at), Goto(t, p), UNCHANGED loc, Locked, LabelOK(p, loc[t]),
         p \in Launches => at \in Launches,
         mem' \in MemoryType, Stops(os, os'), os'.proxy = "app" /\ mem.managed => mem'.managed \/ os'.dropped
  PROVE Lawful(t)
<1>1. Arrives(t, p, loc[t])
  BY Stays DEF Ordinary, Locked
<1>2. at \notin {"flagged", "disconnect", "ne_stop", "compat_managed"}
  BY LabelSets DEF Ordinary, Beside
<1>. QED  BY <1>1, <1>2, QuietStep, Knows DEF Step, Locked

LEMMA QuietStayWith ==
  ASSUME TypeInv, NEW t \in Threads, NEW at \in Ordinary, NEW p \in Queued \ {"connect"},
         NEW l \in LocalsType,
         Step(t, at), Goto(t, p), loc' = [loc EXCEPT ![t] = l], Locked, LabelOK(p, l),
         p \in Launches => at \in Launches,
         mem' \in MemoryType, Stops(os, os'), os'.proxy = "app" /\ mem.managed => mem'.managed \/ os'.dropped
  PROVE Lawful(t)
<1>1. Arrives(t, p, l)
  BY StaysWith DEF Ordinary, Locked
<1>2. at \notin {"flagged", "disconnect", "ne_stop", "compat_managed"}
  BY LabelSets DEF Ordinary, Beside
<1>. QED  BY <1>1, <1>2, QuietStep, Knows DEF Step, Locked

LEMMA QuietFail ==
  ASSUME TypeInv, NEW t \in Threads, NEW at \in Ordinary, Step(t, at), Fail(t),
         mem' \in MemoryType, Stops(os, os'), os'.proxy = "app" /\ mem.managed => mem'.managed \/ os'.dropped
  PROVE Lawful(t)
<1>1. Arrives(t, "idle", NoLocals)
  BY Fails DEF Ordinary
<1>2. at \notin {"flagged", "disconnect", "ne_stop", "compat_managed"}
  BY LabelSets DEF Ordinary, Beside
<1>3. "idle" \notin Launches /\ Alone /\ guard' = Nobody
  BY DEF Launches, LocalSteps, Fail, Return
<1>. QED  BY <1>1, <1>2, <1>3, QuietStep, LabelRest DEF Step

LEMMA QuietSucceed ==
  ASSUME TypeInv, NEW t \in Threads, NEW at \in Ordinary, Step(t, at), Succeed(t), ~AppStore,
         mem' \in MemoryType, Stops(os, os'), os'.proxy = "app" /\ mem.managed => mem'.managed \/ os'.dropped
  PROVE Lawful(t)
<1>1. Arrives(t, "verify", loc[t])
  BY Succeeds DEF Ordinary
<1>2. at \notin {"flagged", "disconnect", "ne_stop", "compat_managed"}
  BY LabelSets DEF Ordinary, Beside
<1>3. "verify" \notin Launches /\ Alone /\ guard' = Nobody
  BY DEF Launches, LocalSteps, Succeed, Return
<1>. QED  BY <1>1, <1>2, <1>3, QuietStep, LabelRest DEF Step

-----------------------------------------------------------------------------
(* Every step of a connect.                                                  *)

LEMMA ConnectBeginLawful ==
  ASSUME TypeInv, NEW t \in Threads, ConnectBegin(t) PROVE Lawful(t)
<1>1. mem' \in MemoryType /\ mem'.managed = mem.managed
  BY Knows DEF ConnectBegin, MemoryType
<1>2. Stops(os, os')
  BY Knows, QuieterSelf DEF ConnectBegin
<1>3. Step(t, "connect") /\ "connect" \in Ordinary
  BY DEF ConnectBegin, Ordinary, Queued, Waiting
<1>4. CASE Goto(t, "stop") /\ UNCHANGED loc /\ Locked
  <2>1. LabelOK("stop", loc[t]) /\ "stop" \in Queued /\ "connect" \in Launches
    BY <1>3, Knows DEF ConnectBegin, Step, LabelOK, Queued, LocalSteps, ExtensionSteps, Launches
  <2>. QED  BY <1>1, <1>2, <1>3, <1>4, <2>1, QuietStay
<1>5. CASE Fail(t)
  BY <1>1, <1>2, <1>3, <1>5, QuietFail
<1>. QED  BY <1>4, <1>5 DEF ConnectBegin

LEMMA StopEngineStops ==
  ASSUME NEW o, Sound(o), NEW e, NEW s \in StopEngine(e, o)
  PROVE /\ Stops(o, s) /\ s.local \subseteq o.local
        /\ NamesXray(e) => s.local = o.local \ {"xray"}
<1>1. \A x \in StopTun(StopXray(o)) : Stops(o, x) /\ x.local = o.local \ {"xray"}
  BY StopEngines, StopTunStops, QuieterTwice DEF Stops
<1>2. \A x \in StopService(o) : /\ Stops(o, x) /\ x.local = o.local
                                /\ Stops(o, StopXray(x)) /\ StopXray(x).local = o.local \ {"xray"}
  BY StopEngines, StopServiceStops, QuieterTwice DEF Stops
<1>3. \A x \in StopService(o) : \A y \in StopTun(StopXray(x)) :
         Stops(o, y) /\ y.local = o.local \ {"xray"}
  BY <1>2, StopTunStops, QuieterTwice DEF Stops
<1>4. \A x \in StopService(o) : \A y \in StopTun(x) : Stops(o, y) /\ y.local = o.local
  BY <1>2, StopTunStops, QuieterTwice DEF Stops
<1>5. CASE e \in {"xray", "xray+app-proxy"}
  BY <1>5, StopEngines DEF StopEngine
<1>6. CASE e = "xray+tun"
  BY <1>6, <1>3 DEF StopEngine
<1>7. CASE e = "xray+app-proxy-service"
  BY <1>7, <1>2 DEF StopEngine
<1>8. CASE e \in {"xray+tun-service", "singbox-tun-service", "singbox+app-proxy-service"}
  BY <1>8, <1>2 DEF StopEngine, NamesXray
<1>9. CASE e = "singbox-tun"
  BY <1>9, <1>4 DEF StopEngine, NamesXray
<1>10. CASE e \in {"singbox", "singbox+app-proxy"}
  BY <1>10, QuieterSelf DEF StopEngine, NamesXray
<1>11. CASE e \notin {"xray", "xray+app-proxy", "xray+tun", "xray+app-proxy-service",
                      "xray+tun-service", "singbox-tun-service", "singbox+app-proxy-service",
                      "singbox-tun", "singbox", "singbox+app-proxy"}
  BY <1>11, <1>1 DEF StopEngine
<1>. QED  BY <1>5, <1>6, <1>7, <1>8, <1>9, <1>10, <1>11

LEMMA StopPreviousLawful ==
  ASSUME TypeInv, NEW t \in Threads, StopPrevious(t)
  PROVE Lawful(t)
<1>1. Step(t, "stop") /\ "stop" \in Ordinary /\ "restore" \in Queued \ {"connect"}
      /\ Goto(t, "restore") /\ UNCHANGED <<mem, loc>> /\ Locked
  BY DEF StopPrevious, Ordinary, Queued, LocalSteps
<1>2. Stops(os, StopSingbox(os)) /\ os' \in StopEngine(mem.engine, StopSingbox(os))
  BY Knows, StopEngines DEF StopPrevious
<1>3. Stops(os, os')
  BY <1>2, StopEngineStops, QuieterTwice DEF Stops
<1>4. LabelOK("restore", loc[t]) /\ "stop" \in Launches
  BY <1>1, Knows DEF Step, LabelOK, LocalSteps, ExtensionSteps, Launches
<1>. QED  BY <1>1, <1>3, <1>4, QuietStay, Knows

LEMMA RestorePreviousLawful ==
  ASSUME TypeInv, NEW t \in Threads, RestorePrevious(t)
  PROVE Lawful(t)
<1>. DEFINE r == loc[t].req
            l == [loc[t] EXCEPT !.req.proxy = ModeLeft(r)]
<1>1. Step(t, "restore") /\ "restore" \in Ordinary /\ "ports" \in Queued \ {"connect"}
      /\ Goto(t, "ports") /\ Locked
  BY DEF RestorePrevious, Ordinary, Queued, LocalSteps
<1>2. /\ LabelOK("restore", loc[t]) /\ loc[t] \in LocalsType /\ r \in RequestType
      /\ "restore" \in Launches
  BY <1>1, Knows DEF Step, LabelOK, LocalSteps, Launches
<1>3. l \in LocalsType /\ l.req \in RequestType /\ loc' = [loc EXCEPT ![t] = l]
  <2>1. ModeLeft(r) \in {"set", "clear", "unchanged"}
    BY <1>2 DEF ModeLeft, RequestType
  <2>2. l = [loc[t] EXCEPT !.req = [r EXCEPT !.proxy = ModeLeft(r)]]
    OBVIOUS
  <2>3. [r EXCEPT !.proxy = ModeLeft(r)] \in RequestType
    BY <1>2, <2>1 DEF RequestType
  <2>4. loc' = [loc EXCEPT ![t] = l]
    BY DEF RestorePrevious
  <2>. QED  BY <1>2, <2>2, <2>3, <2>4 DEF LocalsType
<1>4. LabelOK("ports", l)
  BY <1>2, <1>3 DEF LabelOK, LocalSteps, ExtensionSteps
<1>5. Stops(os, os') /\ (mem.managed => os'.proxy = "user" \/ os'.dropped)
  BY Knows, RepairStaleStops, RestoreIfOwnedStops DEF RestorePrevious
<1>6. mem' \in MemoryType
  BY Knows DEF RestorePrevious, MemoryType
<1>. HIDE DEF l
<1>. QED  BY <1>1, <1>2, <1>3, <1>4, <1>5, <1>6, QuietStayWith

LEMMA FreePortsStops ==
  ASSUME NEW o, Sound(o), NEW e, NEW freed \in {{}, o.orphans},
         NEW s \in RetryStop(e, [o EXCEPT !.orphans = @ \ freed])
  PROVE Stops(o, s) /\ s.local = o.local
<1>. DEFINE r == [o EXCEPT !.orphans = @ \ freed]
<1>1. Stops(o, r) /\ r.local = o.local
  BY DEF Stops, Quieter, Sound, SystemType, ServiceActive, ExtensionActive
<1>. HIDE DEF r
<1>2. Stops(r, s) /\ s.local = r.local
  BY <1>1, StopTunStops, QuieterSelf DEF RetryStop, Stops, r
<1>. QED  BY <1>1, <1>2, QuieterTwice

LEMMA FreePortsLawful ==
  ASSUME TypeInv, NEW t \in Threads, FreePorts(t)
  PROVE Lawful(t)
<1>. DEFINE r == loc[t].req
            l == [loc[t] EXCEPT !.ret = IF r.tun THEN "tun" ELSE "rules"]
<1>1. Step(t, "ports") /\ "ports" \in Ordinary /\ UNCHANGED mem
  BY DEF FreePorts, Ordinary, Queued, LocalSteps
<1>2. /\ LabelOK("ports", loc[t]) /\ loc[t] \in LocalsType /\ r \in RequestType /\ ~AppStore
      /\ "ports" \in Launches /\ mem \in MemoryType
  BY <1>1, Knows DEF Step, LabelOK, LocalSteps, Launches
<1>3. Stops(os, os')
  BY Knows, FreePortsStops DEF FreePorts
<1>4. CASE Goto(t, Branch(r)) /\ Locked /\ loc' = [loc EXCEPT ![t] = l]
  <2>1. l \in LocalsType /\ l.req = r /\ l.ret = IF r.tun THEN "tun" ELSE "rules"
    BY <1>2 DEF LocalsType, Returns
  <2>. HIDE DEF l, r
  <2>2. LabelOK(Branch(r), l) /\ Branch(r) \in Queued \ {"connect"}
    BY <1>2, <2>1 DEF LabelOK, LocalSteps, ExtensionSteps, Branch, Queued, RequestType
  <2>. QED  BY <1>1, <1>2, <1>3, <1>4, <2>1, <2>2, QuietStayWith
<1>5. CASE Fail(t)
  BY <1>1, <1>2, <1>3, <1>5, QuietFail
<1>6. \/ Fail(t)
      \/ Goto(t, Branch(r)) /\ Locked /\ loc' = [loc EXCEPT ![t] = l]
  BY DEF FreePorts
<1>. QED  BY <1>4, <1>5, <1>6

\* a step that may start things, of a thread that was on its way to
LEMMA LaunchStep ==
  ASSUME TypeInv, NEW t \in Threads, NEW p, NEW l, up, Alone, Arrives(t, p, l), LabelOK(p, l),
         guard' \in Threads \cup {Nobody}, mem' \in MemoryType, Sound(os'),
         pc[t] \in Launches, p # "connect", os.faulted => os'.faulted, Tracks(t)
  PROVE Lawful(t)
<1>1. Calm(t)
  BY Knows DEF Calm, Alone, Arrives, Asks, Launches, LocalSteps
<1>. QED  BY <1>1, Knows DEF Lawful, Arrives, Alone

LEMMA StartOwnLawful ==
  ASSUME TypeInv, NEW t \in Threads, NEW e \in LocalEngines,
         StartOwn(t, Started(e, os))
  PROVE Lawful(t)
<1>1. Step(t, "start") /\ "start" \in Queued \cap Launches /\ UNCHANGED mem
  BY DEF StartOwn, Queued, LocalSteps, Launches
<1>2. /\ LabelOK("start", loc[t]) /\ loc[t] \in LocalsType /\ ~AppStore /\ Sound(os)
      /\ mem \in MemoryType /\ guard \in Threads \cup {Nobody}
  BY <1>1, Knows DEF Step, LabelOK, LocalSteps
<1>3. PICK s \in Started(e, os) :
        /\ os' = s.os
        /\ IF s.ok THEN Goto(t, "wait_port") /\ UNCHANGED loc /\ Locked ELSE Fail(t)
  BY DEF StartOwn
<1>4. /\ Sound(os') /\ os'.proxy = os.proxy /\ os'.dropped = os.dropped
      /\ os.faulted => os'.faulted
  BY <1>2, <1>3, StartedFields
<1>5. Tracks(t)
  BY <1>1, <1>4 DEF Tracks, Step
<1>6. CASE Goto(t, "wait_port") /\ UNCHANGED loc /\ Locked
  <2>1. Arrives(t, "wait_port", loc[t])
    BY <1>1, <1>6, Stays DEF Locked, Queued, LocalSteps
  <2>2. LabelOK("wait_port", loc[t])
    BY <1>2 DEF LabelOK, LocalSteps, ExtensionSteps
  <2>. QED  BY <1>1, <1>2, <1>4, <1>5, <1>6, <2>1, <2>2, LaunchStep DEF Step, Locked
<1>7. CASE Fail(t)
  <2>1. Arrives(t, "idle", NoLocals)
    BY <1>1, <1>7, Fails
  <2>. QED
    BY <1>1, <1>2, <1>4, <1>5, <1>7, <2>1, LaunchStep, LabelRest DEF Step, Fail, Return
<1>. QED  BY <1>3, <1>6, <1>7

LEMMA WaitPortLawful ==
  ASSUME TypeInv, NEW t \in Threads, NEW e, NEW next \in {"bridge", "commit_local"},
         WaitPort(t, e, next), next = "bridge" => ~Windows, next = "commit_local" => loc[t].ret = "rules"
  PROVE Lawful(t)
<1>1. Step(t, "wait_port") /\ "wait_port" \in Ordinary /\ UNCHANGED mem
      /\ "wait_port" \in Launches /\ next \in Queued \ {"connect"}
  BY DEF WaitPort, Ordinary, Queued, LocalSteps, Launches
<1>2. Sound(os) /\ mem \in MemoryType /\ LabelOK("wait_port", loc[t])
  BY <1>1, Knows DEF Step
<1>3. LabelOK(next, loc[t])
  BY <1>2 DEF LabelOK, LocalSteps, ExtensionSteps
<1>4. CASE UNCHANGED <<os, loc>> /\ Locked /\ Goto(t, next)
  BY <1>1, <1>2, <1>3, <1>4, QuieterSelf, QuietStay
<1>5. CASE os' = StopOwn(e, os) /\ Fail(t)
  BY <1>1, <1>2, <1>5, StopEngines, QuietFail DEF StopOwn
<1>. QED  BY <1>4, <1>5 DEF WaitPort

LEMMA CommitLocalLawful ==
  ASSUME TypeInv, NEW t \in Threads, CommitLocal(t)
  PROVE Lawful(t)
<1>1. Step(t, "commit_local") /\ "commit_local" \in Queued \cap Launches /\ "apply_proxy" \in Queued
      /\ Goto(t, "apply_proxy") /\ UNCHANGED <<os, loc, queue>> /\ Alone /\ guard' = t
  BY DEF CommitLocal, Queued, LocalSteps, Launches
<1>2. /\ LabelOK("commit_local", loc[t]) /\ loc[t].req \in RequestType /\ Sound(os)
      /\ mem \in MemoryType
  BY <1>1, Knows DEF Step, LabelOK, LocalSteps
<1>3. mem' \in MemoryType /\ mem'.managed = mem.managed
  <2>1. loc[t].req.engine \in Engines
    BY <1>2 DEF RequestType, Engines
  <2>. QED  BY <1>2, <2>1 DEF CommitLocal, MemoryType
<1>4. LabelOK("apply_proxy", loc[t])
  BY <1>2 DEF LabelOK, LocalSteps, ExtensionSteps
<1>5. Arrives(t, "apply_proxy", loc[t])
  BY <1>1, Stays
<1>6. "commit_local" \notin {"flagged", "disconnect", "ne_stop", "compat_managed"}
  OBVIOUS
<1>. QED  BY <1>1, <1>2, <1>3, <1>4, <1>5, <1>6, QuietStep, QuieterSelf DEF Step

LEMMA ApplyProxyLawful ==
  ASSUME TypeInv, NEW t \in Threads, NEW stopped, Stops(os, stopped), ApplyProxy(t, stopped)
  PROVE Lawful(t)
<1>1. Step(t, "apply_proxy") /\ "apply_proxy" \in Queued \cap Launches
      /\ {"stuck", "rules"} \subseteq Queued /\ UNCHANGED loc /\ Locked
  BY DEF ApplyProxy, Queued, LocalSteps, Launches
<1>2. /\ LabelOK("apply_proxy", loc[t]) /\ Sound(os) /\ mem \in MemoryType
      /\ guard \in Threads \cup {Nobody}
  BY <1>1, Knows DEF Step
<1>3. PICK outcome \in ProxyOutcomes(loc[t].req.proxy) :
       /\ Goto(t, IF outcome = "error" THEN "stuck" ELSE "rules")
       /\ os' \in CASE outcome = "set" -> {TakeOver(os)}
                    [] outcome = "error" -> IF Windows THEN ApplyFails(stopped) ELSE {stopped}
                    [] OTHER -> {os}
       /\ mem' = [mem EXCEPT !.managed = outcome = "set" \/ @]
  BY DEF ApplyProxy
<1>4. outcome = "set" => Windows
  BY <1>3 DEF ProxyOutcomes
<1>5. mem' \in MemoryType /\ (outcome = "set" \/ mem.managed => mem'.managed)
  BY <1>2, <1>3 DEF MemoryType
<1>6. Sound(os') /\ (os.faulted => os'.faulted) /\ Tracks(t)
  <2>1. CASE outcome = "set"
    BY <1>2, <1>3, <1>4, <1>5, <2>1, TakeOverFields DEF Tracks
  <2>2. CASE outcome = "error"
    <3>1. os' \in IF Windows THEN ApplyFails(stopped) ELSE {stopped}
      BY <1>3, <2>2
    <3>2. /\ Sound(os') /\ (os.faulted => os'.faulted)
          /\ os'.proxy = "app" => os'.dropped \/ (os.proxy = "app" /\ ~os.dropped)
      <4>1. CASE Windows
        BY <3>1, <4>1, ApplyFailsFields DEF Stops, Quieter
      <4>2. CASE ~Windows
        BY <3>1, <4>2 DEF Stops, Quieter
      <4>. QED  BY <4>1, <4>2
    <3>. QED  BY <1>1, <1>5, <3>2 DEF Tracks, Step
  <2>3. CASE outcome # "set" /\ outcome # "error"
    BY <1>1, <1>2, <1>3, <1>5, <2>3 DEF Tracks, Step
  <2>. QED  BY <2>1, <2>2, <2>3
<1>7. LabelOK("stuck", loc[t]) /\ LabelOK("rules", loc[t])
  BY <1>2 DEF LabelOK, LocalSteps, ExtensionSteps
<1>8. ASSUME NEW p \in {"stuck", "rules"}, Goto(t, p) PROVE Lawful(t)
  <2>1. Arrives(t, p, loc[t])
    BY <1>1, <1>8, Stays DEF Locked
  <2>. QED
    BY <1>1, <1>2, <1>5, <1>6, <1>7, <1>8, <2>1, LaunchStep DEF Step, Locked
<1>. QED  BY <1>3, <1>8

LEMMA AppRulesLawful ==
  ASSUME TypeInv, NEW t \in Threads, NEW name \in Engines, AppRules(t, name)
  PROVE Lawful(t)
<1>1. Step(t, "rules") /\ "rules" \in Ordinary /\ "rules" \in Launches /\ UNCHANGED os
      /\ {"service_start", "bridge"} \subseteq Queued \ {"connect"}
  BY DEF AppRules, Ordinary, Queued, LocalSteps, Launches
<1>2. /\ LabelOK("rules", loc[t]) /\ Sound(os) /\ mem \in MemoryType /\ ~AppStore
      /\ Stops(os, os')
  BY <1>1, Knows, QuieterSelf DEF Step, LabelOK, LocalSteps
<1>3. [mem EXCEPT !.engine = name] \in MemoryType
      /\ [mem EXCEPT !.engine = name].managed = mem.managed
  BY <1>2 DEF MemoryType
<1>4. CASE Succeed(t) /\ mem' \in {mem, [mem EXCEPT !.engine = name]}
  BY <1>1, <1>2, <1>3, <1>4, QuietSucceed
<1>5. CASE Windows /\ Goto(t, "service_start") /\ UNCHANGED <<mem, loc>> /\ Locked
  <2>1. LabelOK("service_start", loc[t])
    BY <1>2, <1>5 DEF LabelOK, LocalSteps, ExtensionSteps
  <2>. QED  BY <1>1, <1>2, <1>5, <2>1, QuietStay
<1>6. CASE ~Windows /\ Goto(t, "bridge") /\ UNCHANGED <<mem, loc>> /\ Locked
  <2>1. LabelOK("bridge", loc[t])
    BY <1>2, <1>6 DEF LabelOK, LocalSteps, ExtensionSteps
  <2>. QED  BY <1>1, <1>2, <1>6, <2>1, QuietStay
<1>. QED  BY <1>4, <1>5, <1>6 DEF AppRules

LEMMA AppBridgeLawful ==
  ASSUME TypeInv, NEW t \in Threads, NEW name \in Engines, AppBridge(t, name)
  PROVE Lawful(t)
<1>1. Step(t, "bridge") /\ "bridge" \in Ordinary /\ Succeed(t)
  BY DEF AppBridge, Ordinary, Queued, LocalSteps
<1>2. /\ LabelOK("bridge", loc[t]) /\ Sound(os) /\ mem \in MemoryType /\ ~AppStore
  BY <1>1, Knows DEF Step, LabelOK, LocalSteps
<1>3. Stops(os, os')
  BY <1>2, StartBridgeStops DEF AppBridge
<1>4. mem' \in MemoryType /\ mem'.managed = mem.managed
  BY <1>2 DEF AppBridge, MemoryType
<1>. QED  BY <1>1, <1>2, <1>3, <1>4, QuietSucceed

LEMMA XrayTunBridgeLawful ==
  ASSUME TypeInv, NEW t \in Threads, XrayTunBridge(t) \/ SingboxTun(t)
  PROVE Lawful(t)
<1>1. Step(t, "bridge") /\ "bridge" \in Ordinary /\ "compat" \in Queued \ {"connect"}
      /\ "bridge" \in Launches /\ UNCHANGED mem /\ loc[t].ret = "tun"
  BY DEF XrayTunBridge, SingboxTun, At, Ordinary, Queued, LocalSteps, Launches
<1>2. /\ LabelOK("bridge", loc[t]) /\ Sound(os) /\ mem \in MemoryType
  BY <1>1, Knows DEF Step
<1>3. PICK s \in StartBridge(os) :
        \/ os' = s.os /\ Goto(t, "compat") /\ UNCHANGED loc /\ Locked
        \/ os' \in {s.os, StopXray(s.os)} /\ Fail(t)
  BY DEF XrayTunBridge, SingboxTun
<1>4. Stops(os, s.os) /\ Stops(os, StopXray(s.os))
  BY <1>2, StartBridgeStops, StopEngines, QuieterTwice DEF Stops
<1>5. LabelOK("compat", loc[t])
  BY <1>1, <1>2 DEF LabelOK, LocalSteps, ExtensionSteps
<1>. QED  BY <1>1, <1>2, <1>3, <1>4, <1>5, QuietStay, QuietFail

LEMMA ServiceStartLawful ==
  ASSUME TypeInv, NEW t \in Threads, ServiceStart(t)
  PROVE Lawful(t)
<1>1. Step(t, "service_start") /\ "service_start" \in Queued \cap Launches /\ UNCHANGED mem
  BY DEF ServiceStart, Queued, LocalSteps, Launches
<1>2. /\ LabelOK("service_start", loc[t]) /\ Windows /\ Sound(os)
      /\ mem \in MemoryType /\ guard \in Threads \cup {Nobody}
  BY <1>1, Knows DEF Step, LabelOK, LocalSteps
<1>3. PICK s \in SendStart(os) :
        /\ os' = s.os
        /\ IF s.ok THEN Goto(t, "service_poll") /\ UNCHANGED loc /\ Locked ELSE Fail(t)
  BY DEF ServiceStart
<1>4. /\ Sound(os') /\ os'.proxy = os.proxy /\ os'.dropped = os.dropped
      /\ os.faulted => os'.faulted
  BY <1>2, <1>3, SendStartFields
<1>5. Tracks(t)
  BY <1>1, <1>4 DEF Tracks, Step
<1>6. CASE Goto(t, "service_poll") /\ UNCHANGED loc /\ Locked
  <2>1. Arrives(t, "service_poll", loc[t])
    BY <1>1, <1>6, Stays DEF Locked, Queued, LocalSteps
  <2>2. LabelOK("service_poll", loc[t])
    BY <1>2 DEF LabelOK, LocalSteps, ExtensionSteps
  <2>. QED  BY <1>1, <1>2, <1>4, <1>5, <1>6, <2>1, <2>2, LaunchStep DEF Step, Locked
<1>7. CASE Fail(t)
  <2>1. Arrives(t, "idle", NoLocals)
    BY <1>1, <1>7, Fails
  <2>. QED
    BY <1>1, <1>2, <1>4, <1>5, <1>7, <2>1, LaunchStep, LabelRest DEF Step, Fail, Return
<1>. QED  BY <1>3, <1>6, <1>7

LEMMA ServicePollLawful ==
  ASSUME TypeInv, NEW t \in Threads, ServicePoll(t)
  PROVE Lawful(t)
<1>1. Step(t, "service_poll") /\ "service_poll" \in Ordinary /\ "service_poll" \in Launches
      /\ "compat" \in Queued \ {"connect"}
  BY DEF ServicePoll, Ordinary, Queued, LocalSteps, Launches
<1>2. /\ LabelOK("service_poll", loc[t]) /\ Windows /\ ~AppStore /\ Sound(os)
      /\ mem \in MemoryType
  BY <1>1, Knows DEF Step, LabelOK, LocalSteps
<1>3. CASE Fail(t) /\ UNCHANGED mem /\ (os' \in StopService(os) \/ UNCHANGED os)
  BY <1>1, <1>2, <1>3, StopServiceStops, QuieterSelf, QuietFail
<1>4. CASE Fail(t) /\ UNCHANGED mem /\ os' = [os EXCEPT !.faulted = TRUE]
  <2>1. Stops(os, os')
    BY <1>2, <1>4 DEF Sound, SystemType, Stops, Quieter, ServiceActive, ExtensionActive
  <2>. QED  BY <1>1, <1>2, <1>4, <2>1, QuietFail
<1>5. CASE UNCHANGED os /\ loc[t].ret = "tun" /\ Goto(t, "compat") /\ UNCHANGED <<mem, loc>>
           /\ Locked
  <2>1. LabelOK("compat", loc[t])
    BY <1>2, <1>5 DEF LabelOK, LocalSteps, ExtensionSteps
  <2>. QED  BY <1>1, <1>2, <1>5, <2>1, QuieterSelf, QuietStay
<1>6. CASE /\ UNCHANGED os /\ Succeed(t)
           /\ mem' = [mem EXCEPT !.engine = IF loc[t].req.engine = "xray"
                                            THEN "xray+app-proxy-service"
                                            ELSE "singbox+app-proxy-service"]
  <2>1. mem' \in MemoryType /\ mem'.managed = mem.managed
    BY <1>2, <1>6 DEF MemoryType, Engines
  <2>. QED  BY <1>1, <1>2, <1>6, <2>1, QuieterSelf, QuietSucceed
<1>. QED  BY <1>3, <1>4, <1>5, <1>6 DEF ServicePoll, ServiceUp

LEMMA CompatAfterTunLawful ==
  ASSUME TypeInv, NEW t \in Threads, CompatAfterTun(t)
  PROVE Lawful(t)
<1>1. Step(t, "compat") /\ "compat" \in Ordinary /\ "commit_tun" \in Queued \ {"connect"}
      /\ "compat" \in Launches /\ Goto(t, "commit_tun") /\ UNCHANGED loc /\ Locked
  BY DEF CompatAfterTun, Ordinary, Queued, LocalSteps, Launches
<1>2. /\ LabelOK("compat", loc[t]) /\ Sound(os) /\ mem \in MemoryType
  BY <1>1, Knows DEF Step
<1>3. Stops(os, os') /\ (os'.proxy = "user" \/ os'.dropped) /\ mem' \in MemoryType
  BY <1>2, RepairStaleStops DEF CompatAfterTun, MemoryType
<1>4. LabelOK("commit_tun", loc[t])
  BY <1>2 DEF LabelOK, LocalSteps, ExtensionSteps
<1>. QED  BY <1>1, <1>3, <1>4, QuietStay

LEMMA CommitTunLawful ==
  ASSUME TypeInv, NEW t \in Threads, NEW name \in Engines, CommitTun(t, name)
  PROVE Lawful(t)
<1>1. Step(t, "commit_tun") /\ "commit_tun" \in Ordinary /\ UNCHANGED os /\ Succeed(t)
  BY DEF CommitTun, Ordinary, Queued, LocalSteps
<1>2. /\ LabelOK("commit_tun", loc[t]) /\ ~AppStore /\ Sound(os) /\ mem \in MemoryType
  BY <1>1, Knows DEF Step, LabelOK, LocalSteps
<1>3. mem' \in MemoryType /\ mem'.managed = mem.managed
  BY <1>2 DEF CommitTun, MemoryType
<1>. QED  BY <1>1, <1>2, <1>3, QuieterSelf, QuietSucceed

LEMMA VerifyLawful ==
  ASSUME TypeInv, NEW t \in Threads, Verify(t)
  PROVE Lawful(t)
<1>1. up /\ pc[t] = "verify" /\ UNCHANGED <<mem, os, guard>> /\ Alone /\ "verify" \in Beside
  BY DEF Verify, Beside
<1>2. /\ LabelOK("verify", loc[t]) /\ ~AppStore /\ loc[t] \in LocalsType /\ Sound(os)
      /\ mem \in MemoryType /\ guard \in Threads \cup {Nobody}
      /\ wish \in {"none", "connect", "disconnect"} /\ connects \in 0 .. MaxConnects
  BY <1>1, Knows DEF LabelOK
<1>3. CASE Done(t) /\ UNCHANGED queue
  <2>1. Arrives(t, "idle", NoLocals)
    BY <1>1, <1>3, MovesBeside, NoLocalsType DEF Done, Beside
  <2>2. "idle" \notin Launches
    BY DEF Launches, LocalSteps
  <2>. QED  BY <1>1, <1>2, <2>1, <2>2, QuietStep, QuieterSelf, LabelRest
<1>4. CASE Wait(t) /\ Goto(t, "disconnect") /\ UNCHANGED loc
  <2>1. Arrives(t, "disconnect", loc[t])
    BY <1>1, <1>2, <1>4, Joins, SameLocals DEF Waiting
  <2>2. LabelOK("disconnect", loc[t])
    BY <1>2 DEF LabelOK, LocalSteps, ExtensionSteps
  <2>3. Calm(t)
    BY <1>1, <1>4, <2>1 DEF Calm, Asks, Arrives, Wait
  <2>4. Tracks(t)
    BY <1>1 DEF Tracks
  <2>. QED  BY <1>1, <1>2, <2>1, <2>2, <2>3, <2>4 DEF Lawful, Arrives, Alone
<1>. QED  BY <1>3, <1>4 DEF Verify

LEMMA ConnectStepLawful ==
  ASSUME TypeInv, NEW t \in Threads, ConnectStep(t) PROVE Lawful(t)
<1>1. {"xray", "singbox"} = LocalEngines
  BY DEF LocalEngines
<1>2. CASE ConnectBegin(t) \/ StopPrevious(t) \/ RestorePrevious(t) \/ FreePorts(t)
  BY <1>2, ConnectBeginLawful, StopPreviousLawful, RestorePreviousLawful, FreePortsLawful
<1>3. CASE StartXrayBridged(t) \/ StartXrayProxy(t)
  BY <1>1, <1>3, StartsAre, StartOwnLawful DEF StartXrayBridged, StartXrayProxy
<1>4. CASE StartSingboxProxy(t)
  BY <1>1, <1>4, StartsAre, StartOwnLawful DEF StartSingboxProxy
<1>5. CASE WaitXrayBridged(t)
  <2>1. ~Windows
    BY <1>5, Knows DEF WaitXrayBridged, At, LabelOK
  <2>. QED  BY <1>5, <2>1, WaitPortLawful DEF WaitXrayBridged
<1>6. CASE WaitXrayProxy(t) \/ WaitSingboxProxy(t)
  BY <1>6, WaitPortLawful DEF WaitXrayProxy, WaitSingboxProxy, At
<1>7. CASE ApplyXrayProxy(t) \/ ApplySingboxProxy(t)
  BY <1>7, ApplyProxyLawful, StopEngines, Knows DEF ApplyXrayProxy, ApplySingboxProxy
<1>8. CASE XrayAppRules(t) \/ SingboxAppRules(t)
  BY <1>8, AppRulesLawful DEF XrayAppRules, SingboxAppRules, Engines
<1>9. CASE XrayAppBridge(t) \/ SingboxAppBridge(t)
  BY <1>9, AppBridgeLawful DEF XrayAppBridge, SingboxAppBridge, Engines
<1>10. CASE \/ XrayTunBridge(t) \/ SingboxTun(t) \/ ServiceStart(t) \/ ServicePoll(t)
            \/ CommitLocal(t) \/ CompatAfterTun(t) \/ Verify(t)
  BY <1>10, XrayTunBridgeLawful, ServiceStartLawful, ServicePollLawful, CommitLocalLawful,
     CompatAfterTunLawful, VerifyLawful
<1>11. CASE CommitXrayService(t) \/ CommitXrayTun(t) \/ CommitSingboxTun(t)
  BY <1>11, CommitTunLawful DEF CommitXrayService, CommitXrayTun, CommitSingboxTun, Engines
<1>. QED
  BY <1>2, <1>3, <1>4, <1>5, <1>6, <1>7, <1>8, <1>9, <1>10, <1>11 DEF ConnectStep

-----------------------------------------------------------------------------
(* Every step of a disconnect.                                               *)

LEMMA QueueDisconnectLawful ==
  ASSUME TypeInv, NEW t \in Threads, QueueDisconnect(t) PROVE Lawful(t)
<1>. DEFINE p == IF AppStore THEN "ne_stop" ELSE "disconnect"
            l == [loc[t] EXCEPT !.ret = IF AppStore THEN "disconnect" ELSE @]
<1>1. /\ up /\ pc[t] = "flagged" /\ Wait(t) /\ Goto(t, p) /\ loc' = [loc EXCEPT ![t] = l]
      /\ UNCHANGED <<mem, os, guard>> /\ Alone /\ "flagged" \in Beside /\ p \in Waiting
  BY DEF QueueDisconnect, Beside, Waiting
<1>2. /\ loc[t] \in LocalsType /\ Sound(os) /\ mem \in MemoryType
      /\ guard \in Threads \cup {Nobody}
      /\ wish \in {"none", "connect", "disconnect"} /\ connects \in 0 .. MaxConnects
  BY Knows
<1>3. l \in LocalsType /\ Asks(p, l)
  BY <1>2 DEF LocalsType, Returns, Asks
<1>4. LabelOK(p, l)
  BY DEF LabelOK, LocalSteps, ExtensionSteps
<1>. HIDE DEF p, l
<1>5. Arrives(t, p, l)
  BY <1>1, <1>3, Joins
<1>6. Calm(t)
  BY <1>1, <1>3, <1>5 DEF Calm, Arrives, Wait
<1>7. Tracks(t)
  BY <1>1 DEF Tracks
<1>. QED  BY <1>1, <1>2, <1>4, <1>5, <1>6, <1>7 DEF Lawful, Arrives, Alone

\* what StopAll does to a state of the system
LEMMA StopAllStops ==
  ASSUME NEW o, Sound(o), ~AppStore, NEW e,
         NEW s \in StopService(StopXray(StopSingbox(o))),
         NEW r \in IF HadTun(e) THEN UNION {StopTun(x) : x \in StopTun(s)} ELSE {s},
         NEW y, y = [r EXCEPT !.sweep = @ \/ Windows]
  PROVE Stops(o, y) /\ y.local = {} /\ (IsDown(y) \/ y.faulted)
<1>1. Stops(o, StopXray(StopSingbox(o))) /\ StopXray(StopSingbox(o)).local = {}
  <2>1. Stops(o, StopSingbox(o)) /\ StopSingbox(o).local = o.local \ {"singbox"}
    BY StopEngines
  <2>2. /\ Stops(StopSingbox(o), StopXray(StopSingbox(o)))
        /\ StopXray(StopSingbox(o)).local = StopSingbox(o).local \ {"xray"}
    BY <2>1, StopEngines DEF Stops
  <2>3. o.local \subseteq {"xray", "singbox"}
    BY DEF Sound, SystemType, LocalEngines
  <2>. QED  BY <2>1, <2>2, <2>3, QuieterTwice
<1>2. /\ Stops(o, s) /\ s.local = {}
      /\ ~s.faulted => ~ServiceActive(s) /\ ~s.transient
  BY <1>1, StopServiceStops, QuieterTwice DEF Stops
<1>3. Stops(s, r)
  <2>1. \A x \in StopTun(s) : Stops(s, x) /\ \A z \in StopTun(x) : Stops(s, z)
    BY <1>2, StopTunStops, QuieterTwice DEF Stops
  <2>. QED  BY <1>2, <2>1, QuieterSelf DEF Stops
<1>4. Stops(r, y)
  BY <1>3 DEF Stops, Quieter, Sound, SystemType, ServiceActive, ExtensionActive
<1>5. Stops(s, y) /\ Stops(o, y)
  BY <1>2, <1>3, <1>4, QuieterTwice
<1>6. IsDown(y) \/ y.faulted
  <2>1. y.local = {} /\ ~ExtensionActive(y)
    BY <1>2, <1>5 DEF Stops, Quieter, Sound, ExtensionActive
  <2>2. ~y.faulted => ~ServiceActive(y) /\ ~y.transient
    BY <1>2, <1>5 DEF Stops, Quieter
  <2>. QED  BY <2>1, <2>2 DEF IsDown
<1>. QED  BY <1>2, <1>5, <1>6 DEF Stops, Quieter

\* a step that answers a disconnect
LEMMA AnswerStep ==
  ASSUME TypeInv, NEW t \in Threads, NEW at \in {"disconnect", "ne_stop"},
         NEW p \in {"return_proxy", "ne_stopping"},
         Step(t, at), Goto(t, p), UNCHANGED <<mem, loc>>, Locked, LabelOK(p, loc[t]),
         Stops(os, os'), IsDown(os') \/ os'.faulted
  PROVE Lawful(t)
<1>1. at \in Queued /\ p \in Queued /\ p \notin Launches
  BY DEF Queued, Waiting, ExtensionSteps, Launches, LocalSteps
<1>2. Arrives(t, p, loc[t])
  BY <1>1, Stays DEF Locked
<1>3. Calm(t)
  BY <1>1, <1>2 DEF Calm, Step, Locked, Alone, Arrives, Asks, Stops, Quieter
<1>4. Tracks(t)
  BY DEF Tracks, Stops, Quieter, Step
<1>. QED  BY <1>2, <1>3, <1>4, Knows DEF Lawful, Arrives, Alone, Locked, Step, Stops

LEMMA StopAllLawful ==
  ASSUME TypeInv, NEW t \in Threads, StopAll(t)
  PROVE Lawful(t) /\ os'.local = {}
<1>1. Step(t, "disconnect") /\ Goto(t, "return_proxy") /\ UNCHANGED <<mem, loc>> /\ Locked
  BY DEF StopAll
<1>2. /\ LabelOK("disconnect", loc[t]) /\ ~AppStore /\ Sound(os)
  BY <1>1, Knows DEF Step, LabelOK
<1>3. Stops(os, os') /\ os'.local = {} /\ (IsDown(os') \/ os'.faulted)
  <2>1. PICK s \in StopService(StopXray(StopSingbox(os))) :
          \E r \in IF HadTun(mem.engine) THEN UNION {StopTun(x) : x \in StopTun(s)} ELSE {s} :
            os' = [r EXCEPT !.sweep = @ \/ Windows]
    BY DEF StopAll
  <2>2. PICK r \in IF HadTun(mem.engine) THEN UNION {StopTun(x) : x \in StopTun(s)} ELSE {s} :
          os' = [r EXCEPT !.sweep = @ \/ Windows]
    BY <2>1, Zenon
  <2>. QED  BY <1>2, <2>2, StopAllStops, Zenon
<1>4. LabelOK("return_proxy", loc[t])
  BY <1>2 DEF LabelOK, LocalSteps, ExtensionSteps
<1>. QED  BY <1>1, <1>3, <1>4, AnswerStep

LEMMA ReturnProxyLawful ==
  ASSUME TypeInv, NEW t \in Threads, ReturnProxy(t) PROVE Lawful(t)
<1>1. Step(t, "return_proxy") /\ "return_proxy" \in Ordinary /\ "commit_down" \in Queued \ {"connect"}
      /\ Goto(t, "commit_down") /\ UNCHANGED loc /\ Locked /\ "commit_down" \notin Launches
  BY DEF ReturnProxy, Ordinary, Queued, LocalSteps, Launches
<1>2. LabelOK("commit_down", loc[t])
  BY <1>1, Knows DEF Step, LabelOK, LocalSteps, ExtensionSteps
<1>3. Stops(os, os') /\ (mem.managed => os'.proxy = "user" \/ os'.dropped)
  BY Knows, RestoreIfOwnedStops DEF ReturnProxy
<1>4. mem' \in MemoryType
  BY Knows DEF ReturnProxy, MemoryType
<1>. QED  BY <1>1, <1>2, <1>3, <1>4, QuietStay

LEMMA CommitDownLawful ==
  ASSUME TypeInv, NEW t \in Threads, CommitDown(t) PROVE Lawful(t)
<1>1. Step(t, "commit_down") /\ "commit_down" \in Ordinary /\ Fail(t) /\ UNCHANGED os
  BY DEF CommitDown, Ordinary, Queued
<1>2. mem' \in MemoryType /\ mem'.managed = mem.managed
  BY Knows DEF CommitDown, MemoryType, Engines, NoEngine
<1>. QED  BY <1>1, <1>2, Knows, QuieterSelf, QuietFail

LEMMA DisconnectStepLawful ==
  ASSUME TypeInv, NEW t \in Threads, DisconnectStep(t) PROVE Lawful(t)
  BY QueueDisconnectLawful, StopAllLawful, ReturnProxyLawful, CommitDownLawful
     DEF DisconnectStep

-----------------------------------------------------------------------------
(* Every step of the App Store build.                                        *)

LEMMA ReturnsTo ==
  ASSUME TypeInv, NEW t \in Threads, NEW r \in {"abort", "teardown"}
  PROVE /\ [loc[t] EXCEPT !.ret = r] \in LocalsType
        /\ AppStore => LabelOK("ne_stop", [loc[t] EXCEPT !.ret = r])
<1>1. [loc[t] EXCEPT !.ret = r] \in LocalsType
  BY Knows DEF LocalsType, Returns
<1>2. ASSUME NEW l, AppStore PROVE LabelOK("ne_stop", l)
  BY <1>2 DEF LabelOK, LocalSteps, ExtensionSteps
<1>. QED  BY <1>1, <1>2

LEMMA ExtensionBeginLawful ==
  ASSUME TypeInv, NEW t \in Threads, ExtensionBegin(t) PROVE Lawful(t)
<1>1. Step(t, "connect") /\ "connect" \in Ordinary /\ "connect" \in Launches /\ AppStore
      /\ "ne_start" \in Queued \ {"connect"} /\ UNCHANGED os
      /\ Goto(t, "ne_start") /\ UNCHANGED loc /\ Locked
  BY DEF ExtensionBegin, Ordinary, Queued, Waiting, ExtensionSteps, Launches
<1>2. LabelOK("ne_start", loc[t])
  BY <1>1 DEF LabelOK, LocalSteps, ExtensionSteps
<1>3. mem' \in MemoryType /\ mem'.managed = mem.managed
  BY Knows DEF ExtensionBegin, MemoryType
<1>. QED  BY <1>1, <1>2, <1>3, Knows, QuieterSelf, QuietStay

LEMMA ExtensionStartLawful ==
  ASSUME TypeInv, NEW t \in Threads, ExtensionStart(t) PROVE Lawful(t)
<1>1. Step(t, "ne_start") /\ "ne_start" \in Ordinary \cap Launches /\ "ne_start" \in Queued
      /\ {"ne_wait", "ne_stop"} \subseteq Queued \ {"connect"} /\ UNCHANGED mem
      /\ "ne_stop" \notin Launches
  BY DEF ExtensionStart, Ordinary, Queued, ExtensionSteps, Launches, LocalSteps
<1>2. /\ AppStore /\ Sound(os) /\ mem \in MemoryType /\ guard \in Threads \cup {Nobody}
  BY <1>1, Knows DEF Step, LabelOK, ExtensionSteps
<1>3. CASE UNCHANGED os /\ Fail(t)
  BY <1>1, <1>2, <1>3, QuieterSelf, QuietFail
<1>4. CASE os' = [os EXCEPT !.ne = "connecting"] /\ Goto(t, "ne_wait") /\ UNCHANGED loc /\ Locked
  <2>1. /\ Sound(os') /\ os'.proxy = os.proxy /\ os'.dropped = os.dropped
        /\ os.faulted => os'.faulted
    BY <1>2, <1>4 DEF Sound, SystemType, ExtensionStates
  <2>2. Tracks(t)
    BY <1>1, <2>1 DEF Tracks, Step
  <2>3. Arrives(t, "ne_wait", loc[t])
    BY <1>1, <1>4, Stays DEF Locked
  <2>4. LabelOK("ne_wait", loc[t])
    BY <1>2 DEF LabelOK, LocalSteps, ExtensionSteps
  <2>. QED  BY <1>1, <1>2, <1>4, <2>1, <2>2, <2>3, <2>4, LaunchStep DEF Step, Locked
<1>5. CASE UNCHANGED os /\ Goto(t, "ne_stop") /\ loc' = [loc EXCEPT ![t].ret = "abort"] /\ Locked
  <2>. DEFINE l == [loc[t] EXCEPT !.ret = "abort"]
  <2>1. loc' = [loc EXCEPT ![t] = l] /\ l \in LocalsType /\ LabelOK("ne_stop", l)
    BY <1>2, <1>5, ReturnsTo
  <2>. HIDE DEF l
  <2>. QED  BY <1>1, <1>2, <1>5, <2>1, QuieterSelf, QuietStayWith
<1>. QED  BY <1>3, <1>4, <1>5 DEF ExtensionStart

LEMMA ExtensionWaitLawful ==
  ASSUME TypeInv, NEW t \in Threads, ExtensionWait(t) PROVE Lawful(t)
<1>1. Step(t, "ne_wait") /\ "ne_wait" \in Ordinary /\ "ne_wait" \in Launches
      /\ {"ne_verify", "ne_stop"} \subseteq Queued \ {"connect"} /\ UNCHANGED <<mem, os>>
      /\ "ne_stop" \notin Launches /\ Locked
  BY DEF ExtensionWait, Ordinary, Queued, ExtensionSteps, Launches, LocalSteps
<1>2. /\ AppStore /\ Sound(os) /\ mem \in MemoryType
  BY <1>1, Knows DEF Step, LabelOK, ExtensionSteps
<1>3. CASE Goto(t, "ne_verify") /\ UNCHANGED loc
  <2>1. LabelOK("ne_verify", loc[t])
    BY <1>2 DEF LabelOK, LocalSteps, ExtensionSteps
  <2>. QED  BY <1>1, <1>2, <1>3, <2>1, QuieterSelf, QuietStay
<1>4. CASE Goto(t, "ne_stop") /\ loc' = [loc EXCEPT ![t].ret = "abort"]
  <2>. DEFINE l == [loc[t] EXCEPT !.ret = "abort"]
  <2>1. loc' = [loc EXCEPT ![t] = l] /\ l \in LocalsType /\ LabelOK("ne_stop", l)
    BY <1>2, <1>4, ReturnsTo
  <2>. HIDE DEF l
  <2>. QED  BY <1>1, <1>2, <1>4, <2>1, QuieterSelf, QuietStayWith
<1>. QED  BY <1>3, <1>4 DEF ExtensionWait

LEMMA ExtensionVerifyLawful ==
  ASSUME TypeInv, NEW t \in Threads, ExtensionVerify(t) PROVE Lawful(t)
<1>1. Step(t, "ne_verify") /\ "ne_verify" \in Ordinary /\ "ne_stop" \in Queued \ {"connect"}
      /\ "ne_stop" \notin Launches /\ UNCHANGED os
  BY DEF ExtensionVerify, Ordinary, Queued, ExtensionSteps, Launches, LocalSteps
<1>2. /\ AppStore /\ Sound(os) /\ mem \in MemoryType
  BY <1>1, Knows DEF Step, LabelOK, ExtensionSteps
<1>3. CASE /\ mem' = [mem EXCEPT !.connected = TRUE, !.engine = "xray+network-extension"]
           /\ Fail(t)
  <2>1. mem' \in MemoryType /\ mem'.managed = mem.managed
    BY <1>2, <1>3 DEF MemoryType, Engines
  <2>. QED  BY <1>1, <1>2, <1>3, <2>1, QuieterSelf, QuietFail
<1>4. CASE /\ UNCHANGED mem /\ Locked
           /\ Goto(t, "ne_stop") /\ loc' = [loc EXCEPT ![t].ret = "teardown"]
  <2>. DEFINE l == [loc[t] EXCEPT !.ret = "teardown"]
  <2>1. loc' = [loc EXCEPT ![t] = l] /\ l \in LocalsType /\ LabelOK("ne_stop", l)
    BY <1>2, <1>4, ReturnsTo
  <2>. HIDE DEF l
  <2>. QED  BY <1>1, <1>2, <1>4, <2>1, QuieterSelf, QuietStayWith
<1>. QED  BY <1>3, <1>4 DEF ExtensionVerify

LEMMA ExtensionStopLawful ==
  ASSUME TypeInv, NEW t \in Threads, ExtensionStop(t) PROVE Lawful(t)
<1>1. Step(t, "ne_stop") /\ Goto(t, "ne_stopping") /\ UNCHANGED <<mem, loc>> /\ Locked
  BY DEF ExtensionStop
<1>2. AppStore /\ ~Windows /\ Sound(os)
  BY <1>1, Knows, Platform DEF Step, LabelOK, ExtensionSteps
<1>3. Stops(os, os') /\ (IsDown(os') \/ os'.faulted)
  <2>1. CASE os' = [os EXCEPT !.ne = IF ExtensionActive(os) THEN "disconnecting" ELSE @]
    BY <1>2, <2>1 DEF Stops, Quieter, Sound, SystemType, ServiceActive, ExtensionActive,
       ExtensionStates, IsDown
  <2>2. CASE os' = [os EXCEPT !.faulted = TRUE]
    BY <1>2, <2>2 DEF Stops, Quieter, Sound, SystemType, ServiceActive, ExtensionActive
  <2>. QED  BY <2>1, <2>2 DEF ExtensionStop
<1>4. LabelOK("ne_stopping", loc[t])
  BY <1>2 DEF LabelOK, LocalSteps, ExtensionSteps
<1>. QED  BY <1>1, <1>3, <1>4, AnswerStep

LEMMA ExtensionStoppedLawful ==
  ASSUME TypeInv, NEW t \in Threads, ExtensionStopped(t) PROVE Lawful(t)
<1>1. Step(t, "ne_stopping") /\ "ne_stopping" \in Ordinary /\ Fail(t) /\ UNCHANGED os
  BY DEF ExtensionStopped, Ordinary, Queued, ExtensionSteps
<1>2. mem' \in MemoryType /\ mem'.managed = mem.managed
  BY Knows DEF ExtensionStopped, MemoryType, Engines, NoEngine
<1>. QED  BY <1>1, <1>2, Knows, QuieterSelf, QuietFail

LEMMA ExtensionCommandLawful ==
  ASSUME TypeInv, NEW t \in Threads, ExtensionCommand(t) PROVE Lawful(t)
  BY ExtensionBeginLawful, ExtensionStartLawful, ExtensionWaitLawful, ExtensionVerifyLawful,
     ExtensionStopLawful, ExtensionStoppedLawful DEF ExtensionCommand

-----------------------------------------------------------------------------
(* Every step of the other commands.                                         *)

LEMMA StatusLawful ==
  ASSUME TypeInv, NEW t \in Threads, StatusRead(t) \/ StatusWrite(t) PROVE Lawful(t)
<1>1. up /\ pc[t] \in {"status", "status_write"} /\ UNCHANGED <<os, queue, guard>> /\ Alone
      /\ pc[t] \in Beside /\ {"idle", "status_write"} \subseteq Beside \ Launches
  BY DEF StatusRead, StatusWrite, Beside, Launches, LocalSteps
<1>2. /\ Sound(os) /\ mem \in MemoryType /\ guard \in Threads \cup {Nobody}
      /\ loc[t] \in LocalsType /\ Stops(os, os')
  BY <1>1, Knows, QuieterSelf
<1>3. CASE StatusRead(t)
  <2>. DEFINE l == [loc[t] EXCEPT !.active = StatusActive]
  <2>1. StatusActive \in BOOLEAN
    <3>1. ExtensionActive(os) \in BOOLEAN
      BY DEF ExtensionActive
    <3>2. (Windows /\ ServiceActive(os)) \in BOOLEAN
      OBVIOUS
    <3>. QED  BY <3>1, <3>2, Zenon DEF StatusActive
  <2>2. l \in LocalsType
    <3>1. /\ l = [req |-> loc[t].req, ret |-> loc[t].ret, active |-> StatusActive]
          /\ loc[t].req \in RequestType \cup {NoRequest} /\ loc[t].ret \in Returns
      BY <1>2 DEF LocalsType
    <3>2. [req |-> loc[t].req, ret |-> loc[t].ret, active |-> StatusActive] \in LocalsType
      BY <2>1, <3>1, Zenon DEF LocalsType
    <3>. QED  BY <3>1, <3>2
  <2>a. loc' = [loc EXCEPT ![t] = l] /\ UNCHANGED mem
    BY <1>3 DEF StatusRead
  <2>. HIDE DEF l
  <2>3. Arrives(t, "status_write", l)
    BY <1>1, <1>3, <2>2, <2>a, MovesBeside DEF StatusRead
  <2>4. LabelOK("status_write", l)
    BY DEF LabelOK, LocalSteps, ExtensionSteps
  <2>. QED  BY <1>1, <1>2, <2>a, <2>3, <2>4, QuietStep
<1>4. CASE StatusWrite(t)
  <2>1. loc[t].active \in BOOLEAN /\ mem.connected \in BOOLEAN
    BY <1>2 DEF LocalsType, MemoryType
  <2>2. (IF AppStore THEN loc[t].active ELSE loc[t].active \/ mem.connected) \in BOOLEAN
    BY <2>1
  <2>3. mem' \in MemoryType /\ mem'.managed = mem.managed
    BY <1>2, <1>4, <2>2 DEF StatusWrite, MemoryType
  <2>4. Arrives(t, "idle", NoLocals)
    BY <1>1, <1>4, MovesBeside, NoLocalsType DEF StatusWrite, Done
  <2>. QED  BY <1>1, <1>2, <2>3, <2>4, QuietStep, LabelRest
<1>. QED  BY <1>3, <1>4

LEMMA RepairProxyApplyLawful ==
  ASSUME TypeInv, NEW t \in Threads, RepairProxyApply(t) PROVE Lawful(t)
<1>1. up /\ pc[t] = "compat_apply" /\ UNCHANGED <<mem, queue, guard>> /\ Alone
      /\ pc[t] \in Beside /\ {"idle", "compat_managed"} \subseteq Beside \ Launches
  BY DEF RepairProxyApply, Beside, Launches, LocalSteps
<1>2. /\ Sound(os) /\ mem \in MemoryType /\ guard \in Threads \cup {Nobody}
      /\ loc[t] \in LocalsType /\ Windows
  BY <1>1, Knows DEF LabelOK
<1>3. CASE os' = TakeOver(os) /\ Goto(t, "compat_managed") /\ UNCHANGED loc
  <2>1. /\ Sound(os') /\ (os.faulted => os'.faulted) /\ (IsDown(os) => IsDown(os'))
    BY <1>2, <1>3, TakeOverFields
  <2>2. Arrives(t, "compat_managed", loc[t])
    BY <1>1, <1>2, <1>3, MovesBeside, SameLocals
  <2>3. LabelOK("compat_managed", loc[t])
    BY <1>2, Platform DEF LabelOK, LocalSteps, ExtensionSteps
  <2>4. Calm(t)
    BY <1>1, <2>1, <2>2 DEF Calm, Arrives, Alone, Asks
  <2>5. Tracks(t)
    BY <2>2 DEF Tracks, Arrives
  <2>. QED  BY <1>1, <1>2, <2>1, <2>2, <2>3, <2>4, <2>5, Knows DEF Lawful, Arrives, Alone
<1>4. CASE UNCHANGED os /\ Done(t)
  <2>1. Arrives(t, "idle", NoLocals)
    BY <1>1, <1>4, MovesBeside, NoLocalsType DEF Done
  <2>. QED  BY <1>1, <1>2, <1>4, <2>1, QuietStep, QuieterSelf, LabelRest
<1>5. CASE os' \in ApplyFails(os) /\ Done(t)
  <2>1. /\ Sound(os') /\ (os.faulted => os'.faulted) /\ (IsDown(os) => IsDown(os'))
        /\ os'.proxy = "app" => os'.dropped \/ (os.proxy = "app" /\ ~os.dropped)
    BY <1>2, <1>5, ApplyFailsFields
  <2>2. Arrives(t, "idle", NoLocals)
    BY <1>1, <1>5, MovesBeside, NoLocalsType DEF Done
  <2>3. Calm(t)
    BY <1>1, <2>1, <2>2 DEF Calm, Arrives, Alone, Asks
  <2>4. Tracks(t)
    BY <1>1, <2>1 DEF Tracks
  <2>. QED  BY <1>1, <1>2, <2>1, <2>2, <2>3, <2>4, Knows, LabelRest DEF Lawful, Arrives, Alone
<1>. QED  BY <1>3, <1>4, <1>5 DEF RepairProxyApply

LEMMA RepairProxyManagedLawful ==
  ASSUME TypeInv, NEW t \in Threads, RepairProxyManaged(t) PROVE Lawful(t)
<1>1. up /\ pc[t] = "compat_managed" /\ UNCHANGED <<os, queue, guard>> /\ Alone
      /\ pc[t] \in Beside /\ "idle" \in Beside \ Launches
  BY DEF RepairProxyManaged, Beside, Launches, LocalSteps
<1>2. /\ Sound(os) /\ guard \in Threads \cup {Nobody} /\ mem' \in MemoryType /\ mem'.managed
  BY <1>1, Knows DEF RepairProxyManaged, MemoryType
<1>3. Arrives(t, "idle", NoLocals)
  BY <1>1, MovesBeside, NoLocalsType DEF RepairProxyManaged, Done
<1>4. Calm(t)
  BY <1>1, <1>3 DEF Calm, Arrives, Alone, Asks
<1>5. Tracks(t)
  BY <1>2 DEF Tracks
<1>. QED  BY <1>1, <1>2, <1>3, <1>4, <1>5, Knows, LabelRest DEF Lawful, Arrives, Alone

LEMMA RepairRuntimeStateLawful ==
  ASSUME TypeInv, NEW t \in Threads, RepairRuntimeState(t) PROVE Lawful(t)
<1>1. Step(t, "repair") /\ "repair" \in Ordinary /\ "repair_down" \in Queued \ {"connect"}
      /\ "repair_down" \notin Launches
      /\ \/ Fail(t)
         \/ Goto(t, "repair_down") /\ UNCHANGED loc /\ Locked
  BY DEF RepairRuntimeState, Ordinary, Queued, Waiting, Launches, LocalSteps
<1>2. /\ LabelOK("repair", loc[t]) /\ Windows /\ Sound(os) /\ mem \in MemoryType
  BY <1>1, Knows DEF Step, LabelOK
<1>3. Stops(os, os')
  BY <1>2, RepairStaleStops, QuieterSelf DEF RepairRuntimeState
<1>4. mem' \in MemoryType /\ mem'.managed = mem.managed
  <2>1. (mem.connected \/ ServiceActive(os)) \in BOOLEAN
    OBVIOUS
  <2>. QED  BY <1>2, <2>1 DEF RepairRuntimeState, MemoryType
<1>5. LabelOK("repair_down", loc[t])
  BY <1>2, Platform DEF LabelOK, LocalSteps, ExtensionSteps
<1>. QED  BY <1>1, <1>3, <1>4, <1>5, QuietStay, QuietFail

LEMMA RepairRuntimeDownLawful ==
  ASSUME TypeInv, NEW t \in Threads, RepairRuntimeDown(t) PROVE Lawful(t)
<1>1. Step(t, "repair_down") /\ "repair_down" \in Ordinary /\ Fail(t) /\ UNCHANGED mem
  BY DEF RepairRuntimeDown, Ordinary, Queued
<1>2. Stops(os, os')
  BY Knows, StopServiceStops, SweepStops, QuieterTwice DEF RepairRuntimeDown, Stops
<1>. QED  BY <1>1, <1>2, Knows, QuietFail

\* what an update or a quitting application stops, before it returns the proxy
LEMMA StopKnownStops ==
  ASSUME NEW o, Sound(o), NEW s \in StopService(StopXray(StopSingbox(o))), NEW r \in StopTun(s)
  PROVE Stops(o, r)
<1>1. Stops(o, StopSingbox(o)) /\ Stops(StopSingbox(o), StopXray(StopSingbox(o)))
  BY StopEngines DEF Stops
<1>2. Stops(o, StopXray(StopSingbox(o)))
  BY <1>1, QuieterTwice
<1>3. Stops(o, s)
  BY <1>2, StopServiceStops, QuieterTwice DEF Stops
<1>. QED  BY <1>3, StopTunStops, QuieterTwice DEF Stops

LEMMA PrepareUpdateStopLawful ==
  ASSUME TypeInv, NEW t \in Threads, PrepareUpdateStop(t) PROVE Lawful(t)
<1>1. Step(t, "update") /\ "update" \in Ordinary /\ Fail(t)
  BY DEF PrepareUpdateStop, Ordinary, Queued, Waiting
<1>2. PICK s \in StopService(StopXray(StopSingbox(os))) :
        \E r \in StopTun(s) : os' \in RestoreIfOwned(mem, r)
  BY DEF PrepareUpdateStop
<1>3. PICK r \in StopTun(s) : os' \in RestoreIfOwned(mem, r)
  BY <1>2
<1>4. Stops(os, r)
  BY Knows, StopKnownStops
<1>5. Stops(os, os') /\ (mem.managed => os'.proxy = "user" \/ os'.dropped)
  BY <1>3, <1>4, RestoreIfOwnedStops, QuieterTwice DEF Stops
<1>6. mem' \in MemoryType
  BY Knows DEF PrepareUpdateStop, MemoryType
<1>. QED  BY <1>1, <1>5, <1>6, QuietFail

LEMMA BesideStepLawful ==
  ASSUME TypeInv, NEW t \in Threads, BesideStep(t) PROVE Lawful(t)
  BY StatusLawful, RepairProxyApplyLawful, RepairProxyManagedLawful, RepairRuntimeStateLawful,
     RepairRuntimeDownLawful, PrepareUpdateStopLawful DEF BesideStep

-----------------------------------------------------------------------------
(* Every call.                                                               *)

LEMMA ConnectLawful ==
  ASSUME TypeInv, NEW t \in Threads, NEW r \in Requests, Connect(t, r) PROVE Lawful(t)
<1>. DEFINE l == [NoLocals EXCEPT !.req = r]
<1>1. /\ up /\ pc[t] = "idle" /\ Wait(t) /\ Goto(t, "connect") /\ loc' = [loc EXCEPT ![t] = l]
      /\ UNCHANGED <<mem, os, guard, platform, app>> /\ "idle" \in Beside /\ "connect" \in Waiting
      /\ wish' = "connect" /\ connects < MaxConnects /\ connects' = connects + 1
  BY DEF Connect, Beside, Waiting
<1>2. /\ Sound(os) /\ mem \in MemoryType /\ guard \in Threads \cup {Nobody}
      /\ connects \in 0 .. MaxConnects
  BY Knows
<1>3. l \in LocalsType /\ l.req \in RequestType
  BY RequestTypes, NoLocalsType DEF LocalsType
<1>4. LabelOK("connect", l)
  BY <1>3 DEF LabelOK, LocalSteps, ExtensionSteps
<1>. HIDE DEF l
<1>5. Arrives(t, "connect", l)
  BY <1>1, <1>3, Joins
<1>6. Calm(t)
  BY <1>1 DEF Calm
<1>7. Tracks(t)
  BY <1>1 DEF Tracks
<1>8. connects' \in 0 .. MaxConnects
  BY <1>1, <1>2, ConstantsAssumption
<1>. QED  BY <1>1, <1>2, <1>4, <1>5, <1>6, <1>7, <1>8 DEF Lawful, Arrives

LEMMA DisconnectLawful ==
  ASSUME TypeInv, NEW t \in Threads, Disconnect(t) PROVE Lawful(t)
<1>1. /\ up /\ pc[t] = "idle" /\ Goto(t, "flagged") /\ wish' = "disconnect"
      /\ UNCHANGED <<os, queue, guard, loc, platform, app, connects>>
      /\ {"idle", "flagged"} \subseteq Beside
  BY DEF Disconnect, Beside
<1>2. /\ Sound(os) /\ mem \in MemoryType /\ guard \in Threads \cup {Nobody}
      /\ connects \in 0 .. MaxConnects /\ loc[t] \in LocalsType
  BY Knows
<1>3. mem' \in MemoryType /\ mem'.managed = mem.managed
  BY <1>2 DEF Disconnect, MemoryType
<1>4. Arrives(t, "flagged", loc[t])
  BY <1>1, <1>2, MovesBeside, SameLocals
<1>5. LabelOK("flagged", loc[t])
  BY DEF LabelOK, LocalSteps, ExtensionSteps
<1>6. Calm(t)
  BY <1>1, <1>4 DEF Calm, Arrives
<1>7. Tracks(t)
  BY <1>1, <1>3 DEF Tracks
<1>. QED  BY <1>1, <1>2, <1>3, <1>4, <1>5, <1>6, <1>7 DEF Lawful, Arrives

\* a call that changes nothing yet
LEMMA OtherCallLawful ==
  ASSUME TypeInv, NEW t \in Threads, Status(t) \/ RepairProxy(t) \/ RepairRuntime(t) \/ PrepareUpdate(t)
  PROVE Lawful(t)
<1>1. /\ up /\ pc[t] = "idle" /\ UNCHANGED <<mem, os, guard, loc>> /\ Alone
      /\ {"idle", "status", "compat_apply"} \subseteq Beside
      /\ {"repair", "update"} \subseteq Waiting
      /\ {"status", "compat_apply", "repair", "update"} \cap Launches = {}
  BY DEF Status, RepairProxy, RepairRuntime, PrepareUpdate, Beside, Waiting, Launches, LocalSteps
<1>2. /\ Sound(os) /\ mem \in MemoryType /\ guard \in Threads \cup {Nobody}
      /\ loc[t] \in LocalsType /\ loc' = [loc EXCEPT ![t] = loc[t]] /\ Stops(os, os')
  BY <1>1, Knows, SameLocals, QuieterSelf
<1>3. PICK p \in {"status", "compat_apply", "repair", "update"} :
         /\ Goto(t, p)
         /\ IF p \in Waiting THEN Wait(t) ELSE UNCHANGED queue
         /\ p \in {"compat_apply", "repair"} => Windows
  BY DEF Status, RepairProxy, RepairRuntime, PrepareUpdate, Waiting
<1>4. LabelOK(p, loc[t])
  BY <1>3, Platform DEF LabelOK, LocalSteps, ExtensionSteps
<1>5. Arrives(t, p, loc[t])
  <2>1. CASE p \in Waiting
    BY <1>1, <1>2, <1>3, <2>1, Joins
  <2>2. CASE p \notin Waiting
    BY <1>1, <1>2, <1>3, <2>2, MovesBeside
  <2>. QED  BY <2>1, <2>2
<1>. QED  BY <1>1, <1>2, <1>4, <1>5, QuietStep

LEMMA ThreadLawful ==
  ASSUME TypeInv, NEW t \in Threads, Call(t) \/ Progress(t) PROVE Lawful(t)
  BY ConnectLawful, DisconnectLawful, OtherCallLawful, ConnectStepLawful, DisconnectStepLawful,
     ExtensionCommandLawful, BesideStepLawful DEF Call, Progress

-----------------------------------------------------------------------------
(* The life of the process, and what happens around it.                      *)

\* s comes from o while no command moves
Drifts(o, s) ==
  /\ Sound(s) /\ s.local \subseteq o.local
  /\ o.faulted => s.faulted
  /\ IsDown(o) => IsDown(s) \/ s.faulted
  /\ s.proxy = "app" => o.proxy = "app" /\ (o.dropped => s.dropped)

LEMMA StopsDrifts == ASSUME NEW o, NEW s, Stops(o, s) PROVE Drifts(o, s)
  BY QuieterDown DEF Drifts, Stops, Quieter

LEMMA ServiceStepDrifts == ASSUME TypeInv, ServiceStep PROVE Drifts(os, os')
<1>1. Sound(os)
  BY DEF TypeInv
<1>2. CASE os.svc = "Connecting"
  <2>1. ASSUME NEW x \in {"Connected", "Failed"},
               os' = [os EXCEPT !.svc = x, !.transient = FALSE]
        PROVE Drifts(os, os')
    BY <1>1, <1>2, <2>1 DEF Drifts, Sound, SystemType, ServiceStates, IsDown, ServiceActive
  <2>2. CASE os' = [os EXCEPT !.svc = "Disconnected", !.transient = TRUE]
    BY <1>1, <1>2, <2>2 DEF Drifts, Sound, SystemType, ServiceStates, IsDown, ServiceActive
  <2>3. CASE os.late /\ os' = [os EXCEPT !.svc = "Connecting", !.late = FALSE]
    BY <1>1, <1>2, <2>3 DEF Drifts, Sound, SystemType, ServiceStates, IsDown, ServiceActive
  <2>. QED  BY <1>2, <2>1, <2>2, <2>3 DEF ServiceStep
<1>3. CASE os.svc = "Disconnected" /\ os.transient
  <2>1. ASSUME NEW x \in {"Connecting", "Failed"},
               os' = [os EXCEPT !.svc = x, !.transient = FALSE]
        PROVE Drifts(os, os')
    BY <1>1, <1>3, <2>1 DEF Drifts, Sound, SystemType, ServiceStates, IsDown, ServiceActive
  <2>2. CASE os.late /\ os' = [os EXCEPT !.svc = "Connecting", !.late = FALSE]
    BY <1>1, <1>3, <2>2 DEF Drifts, Sound, SystemType, ServiceStates, IsDown, ServiceActive
  <2>. QED  BY <1>3, <2>1, <2>2 DEF ServiceStep
<1>4. CASE os.late /\ os' = [os EXCEPT !.svc = "Connecting", !.late = FALSE]
  <2>1. os.faulted /\ Windows
    BY <1>1, <1>4 DEF Sound
  <2>. QED
    BY <1>1, <1>4, <2>1 DEF Drifts, Sound, SystemType, ServiceStates
<1>. QED  BY <1>2, <1>3, <1>4 DEF ServiceStep

LEMMA ExternalDrifts ==
  ASSUME TypeInv, \/ RunSweep \/ EngineExit \/ ServiceStep \/ ServiceFails \/ ExtensionStep
                  \/ ExtensionDrops \/ GuardianHeals
  PROVE External /\ Drifts(os, os')
<1>1. Sound(os)
  BY DEF TypeInv
<1>2. CASE RunSweep
  <2>1. Stops(os, Sweep(os)) /\ os' = [Sweep(os) EXCEPT !.sweep = FALSE]
    BY <1>1, <1>2, SweepStops DEF RunSweep
  <2>2. Stops(Sweep(os), os')
    BY <2>1 DEF Stops, Quieter, Sound, SystemType, ServiceActive, ExtensionActive
  <2>. QED  BY <1>2, <2>1, <2>2, QuieterTwice, StopsDrifts DEF RunSweep, External
<1>3. CASE EngineExit
  <2>1. Stops(os, os')
    BY <1>1, <1>3
       DEF EngineExit, Stops, Quieter, Sound, SystemType, ServiceActive, ExtensionActive
  <2>. QED  BY <1>3, <2>1, StopsDrifts DEF EngineExit
<1>4. CASE ServiceStep
  BY <1>4, ServiceStepDrifts DEF ServiceStep
<1>5. CASE ServiceFails
  <2>1. Windows
    BY <1>1, <1>5 DEF ServiceFails, Sound
  <2>2. Stops(os, os')
    BY <1>1, <1>5, <2>1
       DEF ServiceFails, Stops, Quieter, Sound, SystemType, ServiceActive, ExtensionActive,
           ServiceStates
  <2>. QED  BY <1>5, <2>2, StopsDrifts DEF ServiceFails
<1>6. CASE ExtensionStep \/ ExtensionDrops
  <2>1. External
    BY <1>6 DEF ExtensionStep, ExtensionDrops
  <2>2. AppStore
    BY <1>1, <1>6 DEF ExtensionStep, ExtensionDrops, Sound
  <2>3. PICK x \in ExtensionStates :
           /\ os' = [os EXCEPT !.ne = x]
           /\ x \in {"connecting", "connected"} => ExtensionActive(os)
    BY <1>6 DEF ExtensionStep, ExtensionDrops, ExtensionStates, ExtensionActive
  <2>4. Stops(os, os')
    BY <1>1, <2>2, <2>3 DEF Stops, Quieter, Sound, SystemType, ServiceActive, ExtensionActive
  <2>. QED  BY <2>1, <2>4, StopsDrifts
<1>7. CASE GuardianHeals
  BY <1>1, <1>7, GiveBackStops, StopsDrifts DEF GuardianHeals
<1>. QED  BY <1>2, <1>3, <1>4, <1>5, <1>6, <1>7

LEMMA QuitStops ==
  ASSUME TypeInv, Quit
  PROVE /\ Stops(os, os') /\ (mem.managed => os'.proxy = "user" \/ os'.dropped)
        /\ mem' \in MemoryType /\ mem'.engine = mem.engine
<1>1. Sound(os) /\ mem \in MemoryType
  BY LocalTypes DEF TypeInv
<1>2. PICK s \in StopService(StopXray(StopSingbox(os))) : \E r \in StopTun(s) :
        os' \in LET o == IF Windows THEN Sweep(r) ELSE r
                    x == IF AppStore /\ ExtensionActive(o) THEN [o EXCEPT !.ne = "disconnecting"] ELSE o
                IN RestoreIfOwned(mem, x)
  BY DEF Quit
<1>3. PICK r \in StopTun(s) :
        os' \in LET o == IF Windows THEN Sweep(r) ELSE r
                    x == IF AppStore /\ ExtensionActive(o) THEN [o EXCEPT !.ne = "disconnecting"] ELSE o
                IN RestoreIfOwned(mem, x)
  BY <1>2
<1>. DEFINE o == IF Windows THEN Sweep(r) ELSE r
            x == IF AppStore /\ ExtensionActive(o) THEN [o EXCEPT !.ne = "disconnecting"] ELSE o
<1>4. Stops(os, r)
  BY <1>1, StopKnownStops
<1>5. Stops(r, o)
  BY <1>4, SweepStops, QuieterSelf DEF Stops
<1>6. os' \in RestoreIfOwned(mem, x)
  BY <1>3
<1>. HIDE DEF o
<1>7. Stops(o, x)
  <2>1. CASE AppStore /\ ExtensionActive(o)
    BY <1>5, <2>1 DEF Stops, Quieter, Sound, SystemType, ServiceActive, ExtensionActive,
       ExtensionStates
  <2>2. CASE ~(AppStore /\ ExtensionActive(o))
    BY <1>5, <2>2, QuieterSelf DEF Stops
  <2>. QED  BY <2>1, <2>2
<1>. HIDE DEF x
<1>8. Stops(x, os') /\ (mem.managed => os'.proxy = "user" \/ os'.dropped)
  BY <1>6, <1>7, RestoreIfOwnedStops DEF Stops
<1>9. mem' \in MemoryType /\ mem'.engine = mem.engine
  BY <1>1 DEF Quit, MemoryType
<1>. QED  BY <1>4, <1>5, <1>7, <1>8, <1>9, QuieterTwice

\* the start of the process: a proxy that is preserved is no longer known
LEMMA StartShape ==
  ASSUME TypeInv, Start
  PROVE Sound(os') /\ os'.local = {} /\ (os'.proxy = "app" => os'.dropped)
<1>1. Sound(os) /\ os.local = {}
  BY DEF TypeInv, DownOK, Start, up
<1>2. PICK kept \in IF Windows /\ ServiceActive(os) THEN {os}
                    ELSE UNION {StopTun(s) : s \in StopService(os)} :
       LET o == [kept EXCEPT !.guardian = @ /\ ~Windows,
                             !.dropped = @ \/ (Windows /\ kept.proxy = "app")]
       IN os' \in IF AppStore THEN {os}
                  ELSE IF Windows /\ ~ServiceActive(os) THEN RepairStale(Sweep(o)) ELSE {o}
  BY DEF Start
<1>. DEFINE o == [kept EXCEPT !.guardian = @ /\ ~Windows,
                              !.dropped = @ \/ (Windows /\ kept.proxy = "app")]
<1>3. Stops(os, kept)
  BY <1>1, StopServiceStops, StopTunStops, QuieterTwice, QuieterSelf DEF Stops
<1>4. Sound(o) /\ o.local = {} /\ (o.proxy = "app" => o.dropped)
  <2>1. (kept.guardian /\ ~Windows) \in BOOLEAN
        /\ (kept.dropped \/ (Windows /\ kept.proxy = "app")) \in BOOLEAN
    OBVIOUS
  <2>2. kept \in SystemType /\ Sound(kept) /\ kept.local = {}
    BY <1>1, <1>3 DEF Sound, Stops, Quieter
  <2>3. o \in SystemType
    BY <2>1, <2>2 DEF SystemType
  <2>4. /\ o.local = kept.local /\ o.svc = kept.svc /\ o.transient = kept.transient
        /\ o.late = kept.late /\ o.ne = kept.ne /\ o.proxy = kept.proxy
        /\ o.faulted = kept.faulted /\ (o.proxy = "app" /\ Windows => o.dropped)
    BY <2>2 DEF SystemType
  <2>. HIDE DEF o
  <2>. QED  BY <2>2, <2>3, <2>4 DEF Sound
<1>5. os' \in IF AppStore THEN {os}
              ELSE IF Windows /\ ~ServiceActive(os) THEN RepairStale(Sweep(o)) ELSE {o}
  BY <1>2
<1>. HIDE DEF o
<1>6. CASE AppStore
  <2>1. os.proxy = "user"
    BY <1>1, <1>6, Platform DEF Sound
  <2>. QED  BY <1>1, <1>5, <1>6, <2>1
<1>7. CASE ~AppStore /\ Windows /\ ~ServiceActive(os)
  <2>1. os' \in RepairStale(Sweep(o))
    BY <1>5, <1>7
  <2>. QED  BY <1>4, <2>1, SweepStops, RepairStaleStops DEF Stops
<1>8. CASE ~AppStore /\ ~(Windows /\ ~ServiceActive(os))
  BY <1>4, <1>5, <1>8
<1>. QED  BY <1>6, <1>7, <1>8

LEMMA GoneShape == ASSUME TypeInv, Gone PROVE Sound(os') /\ os'.local = {}
<1>1. Sound(os) /\ os \in SystemType
  BY DEF TypeInv, Sound
<1>2. os' = [os EXCEPT !.orphans = @ \cup os.local, !.local = {}]
  BY DEF Gone
<1>3. os.orphans \cup os.local \in SUBSET LocalEngines
  BY <1>1 DEF SystemType
<1>4. os' \in SystemType /\ os'.local = {}
  BY <1>1, <1>2, <1>3 DEF SystemType
<1>. QED  BY <1>1, <1>2, <1>4 DEF Sound, SystemType

-----------------------------------------------------------------------------
(* Types.                                                                    *)

LEMMA TypeOKPrimed ==
  ASSUME platform' \in Platforms, mem' \in MemoryType, os' \in SystemType,
         queue' \in Seq(Threads), guard' \in Threads \cup {Nobody},
         app' \in {"running", "cleaned", "down"},
         pc' \in [Threads -> Labels], loc' \in [Threads -> LocalsType],
         wish' \in {"none", "connect", "disconnect"}, connects' \in 0 .. MaxConnects
  PROVE TypeOK'
<1>1. Requests \cup {NoRequest} \cup RequestType = RequestType \cup {NoRequest}
  BY RequestTypes
<1>. QED  BY <1>1 DEF TypeOK, MemoryType, SystemType, LocalsType, RequestType

LEMMA SoundPrimed == ASSUME Sound(os'), UNCHANGED platform PROVE Sound(os)'
  BY DEF Sound, Windows, AppStore

LEMMA LabelPrimed ==
  ASSUME UNCHANGED platform, \A t \in Threads : LabelOK(pc'[t], loc'[t]) PROVE ThreadsOK'
  BY DEF ThreadsOK, LabelOK, Windows, AppStore

LEMMA LawfulType == ASSUME TypeInv, NEW t \in Threads, Lawful(t) PROVE TypeInv'
<1>1. TypeOK'
  <2>1. queue' \in Seq(Threads)
    <3>1. queue \in Seq(Threads) /\ queue' \in {queue, Append(queue, t), Tail(queue)}
          /\ (queue' = Tail(queue) => queue # << >> \/ queue' \in {queue, Append(queue, t)})
      BY DEF TypeInv, TypeOK, Lawful, Turn, Holds
    <3>. QED  BY <3>1
  <2>. QED  BY <2>1, TypeOKPrimed, LocalTypes DEF Lawful, TypeInv, Turn, Sound
<1>2. ThreadsOK'
  <2>1. \A u \in Threads : LabelOK(pc'[u], loc'[u])
    BY DEF TypeInv, ThreadsOK, Lawful, Turn
  <2>. QED  BY <2>1, LabelPrimed DEF Lawful
<1>3. Sound(os)'
  BY SoundPrimed DEF Lawful
<1>4. DownOK'
  BY DEF DownOK, Lawful, up
<1>. QED  BY <1>1, <1>2, <1>3, <1>4, TurnKeepsLock DEF TypeInv, Lawful

\* commands stay where they are while the system drifts
LEMMA SameType ==
  ASSUME TypeInv, Sound(os'), os'.local \subseteq os.local, mem' \in MemoryType,
         UNCHANGED <<platform, queue, guard, pc, loc>>,
         app' \in {"running", "cleaned", "down"}, up' = up,
         wish' \in {"none", "connect", "disconnect"}, connects' \in 0 .. MaxConnects
  PROVE TypeInv'
<1>1. TypeOK'
  BY TypeOKPrimed, LocalTypes DEF TypeInv, Sound
<1>2. ThreadsOK' /\ LockOK'
  BY LabelPrimed DEF TypeInv, ThreadsOK, LockOK
<1>3. Sound(os)'
  BY SoundPrimed
<1>4. DownOK'
  BY DEF TypeInv, DownOK
<1>. QED  BY <1>1, <1>2, <1>3, <1>4 DEF TypeInv

LEMMA GoneType == ASSUME TypeInv, Gone PROVE TypeInv'
<1>1. Sound(os') /\ os'.local = {}
  BY GoneShape
<1>2. /\ app' = "down" /\ queue' = << >> /\ guard' = Nobody /\ mem' = FreshMemory
      /\ pc' = [t \in Threads |-> "idle"] /\ loc' = [t \in Threads |-> NoLocals]
      /\ UNCHANGED <<platform, wish, connects>>
  BY DEF Gone
<1>3. FreshMemory \in MemoryType
  BY DEF FreshMemory, MemoryType, Engines, NoEngine
<1>4. TypeOK'
  <2>1. pc' \in [Threads -> Labels] /\ loc' \in [Threads -> LocalsType]
    BY <1>2, NoLocalsType DEF Labels
  <2>2. queue' \in Seq(Threads)
    BY <1>2
  <2>. QED  BY <1>1, <1>2, <1>3, <2>1, <2>2, TypeOKPrimed, LocalTypes DEF TypeInv, Sound
<1>5. ThreadsOK'
  BY <1>2, LabelRest, LabelPrimed
<1>6. LockOK'
  BY <1>2 DEF LockOK, Queued, Waiting, LocalSteps, ExtensionSteps
<1>7. Sound(os)'
  BY <1>1, <1>2, SoundPrimed
<1>8. DownOK'
  BY <1>1, <1>2 DEF DownOK, up
<1>. QED  BY <1>4, <1>5, <1>6, <1>7, <1>8 DEF TypeInv

LEMMA StartType == ASSUME TypeInv, Start PROVE TypeInv'
<1>1. Sound(os') /\ os'.local = {}
  BY StartShape
<1>2. /\ UNCHANGED <<platform, mem, queue, guard, pc, loc, connects>>
      /\ app' = "running" /\ wish' = "none"
  BY DEF Start
<1>3. TypeOK'
  BY <1>1, <1>2, TypeOKPrimed, LocalTypes DEF TypeInv, Sound
<1>4. ThreadsOK' /\ LockOK'
  BY <1>2, LabelPrimed DEF TypeInv, ThreadsOK, LockOK
<1>5. Sound(os)'
  BY <1>1, <1>2, SoundPrimed
<1>6. DownOK'
  BY <1>2 DEF DownOK, up
<1>. QED  BY <1>3, <1>4, <1>5, <1>6 DEF TypeInv

LEMMA TypeInit == Init => TypeInv
<1>. SUFFICES ASSUME Init PROVE TypeInv
  OBVIOUS
<1>1. os.local = {} /\ queue = << >> /\ pc = [t \in Threads |-> "idle"]
      /\ loc = [t \in Threads |-> NoLocals] /\ app = "running"
  BY DEF Init
<1>2. Sound(os)
  BY DEF Init, Sound, SystemType, ServiceStates, ExtensionStates
<1>3. TypeOK
  <2>1. mem \in MemoryType
    BY DEF Init, FreshMemory, MemoryType, Engines, NoEngine
  <2>2. pc \in [Threads -> Labels] /\ loc \in [Threads -> LocalsType]
    BY <1>1, NoLocalsType DEF Labels
  <2>3. queue \in Seq(Threads) /\ connects \in 0 .. MaxConnects
    BY <1>1, ConstantsAssumption DEF Init
  <2>. QED  BY <1>1, <1>2, <2>1, <2>2, <2>3, LocalTypes DEF Init, Sound
<1>4. ThreadsOK
  BY <1>1, LabelRest DEF ThreadsOK
<1>5. LockOK
  BY <1>1 DEF LockOK, Queued, Waiting, LocalSteps, ExtensionSteps
<1>6. DownOK
  BY <1>1 DEF DownOK, up
<1>. QED  BY <1>2, <1>3, <1>4, <1>5, <1>6 DEF TypeInv

LEMMA ExternalType == ASSUME TypeInv, External, Drifts(os, os') PROVE TypeInv'
  BY SameType, LocalTypes DEF External, Drifts, TypeInv, up

LEMMA QuitType == ASSUME TypeInv, Quit PROVE TypeInv'
  BY SameType, LocalTypes, QuitStops DEF Quit, TypeInv, up, Stops, Quieter

LEMMA TypeNext == TypeInv /\ [Next]_vars => TypeInv'
<1>. SUFFICES ASSUME TypeInv, [Next]_vars PROVE TypeInv'
  OBVIOUS
<1>1. CASE \E t \in Threads : Call(t) \/ Progress(t)
  BY <1>1, ThreadLawful, LawfulType
<1>2. CASE \/ RunSweep \/ EngineExit \/ ServiceStep \/ ServiceFails \/ ExtensionStep
           \/ ExtensionDrops \/ GuardianHeals
  BY <1>2, ExternalDrifts, ExternalType
<1>3. CASE Quit \/ Exit \/ Crash \/ Start
  BY <1>3, QuitType, GoneType, StartType DEF Exit, Crash
<1>4. CASE UNCHANGED vars
  <2>1. UNCHANGED <<platform, queue, guard, pc, loc, mem, os, app, wish, connects>> /\ up' = up
    BY <1>4 DEF vars, up
  <2>. QED  BY <2>1, SameType, LocalTypes DEF TypeInv
<1>. QED  BY <1>1, <1>2, <1>3, <1>4 DEF Next, System

\* The variables of the connection commands keep their types in every run.
THEOREM OrchestratorTypes == Spec => []TypeOK
<1>1. TypeInv => TypeOK
  BY DEF TypeInv
<1>. QED  BY <1>1, TypeInit, TypeNext, PTL DEF Spec

-----------------------------------------------------------------------------
(* A proxy in force is known to the application, or about to be.             *)

Tracked ==
  up /\ os.proxy = "app" => \/ mem.managed \/ os.dropped
                            \/ \E t \in Threads : pc[t] = "compat_managed"

LEMMA TrackedInit == Init => Tracked
  BY DEF Init, Tracked

LEMMA TrackedLawful ==
  ASSUME TypeInv, Tracked, NEW t \in Threads, Lawful(t) PROVE Tracked'
<1>. SUFFICES ASSUME os'.proxy = "app"
              PROVE mem'.managed \/ os'.dropped \/ \E u \in Threads : pc'[u] = "compat_managed"
  BY DEF Tracked
<1>1. CASE mem'.managed \/ pc'[t] = "compat_managed" \/ os'.dropped
  BY <1>1
<1>2. CASE /\ os.proxy = "app" /\ ~os.dropped /\ pc[t] # "compat_managed"
           /\ mem.managed => mem'.managed
  <2>1. \A u \in Threads : pc[u] = "compat_managed" => pc'[u] = "compat_managed"
    BY <1>2 DEF Lawful, Turn
  <2>. QED  BY <1>2, <2>1 DEF Tracked, Lawful
<1>. QED  BY <1>1, <1>2 DEF Lawful, Tracks

LEMMA TrackedSame ==
  ASSUME Tracked, UNCHANGED pc, up' => up,
         os'.proxy = "app" => os.proxy = "app" /\ (os.dropped => os'.dropped),
         os'.proxy = "app" /\ mem.managed => mem'.managed \/ os'.dropped
  PROVE Tracked'
  BY DEF Tracked

LEMMA TrackedNext == ASSUME TypeInv, Tracked, [Next]_vars PROVE Tracked'
<1>1. CASE \E t \in Threads : Call(t) \/ Progress(t)
  BY <1>1, ThreadLawful, TrackedLawful
<1>2. CASE \/ RunSweep \/ EngineExit \/ ServiceStep \/ ServiceFails \/ ExtensionStep
           \/ ExtensionDrops \/ GuardianHeals
  BY <1>2, ExternalDrifts, TrackedSame DEF External, Drifts, up
<1>3. CASE Quit
  BY <1>3, QuitStops, TrackedSame DEF Quit, Stops, Quieter, up
<1>4. CASE Exit \/ Crash
  BY <1>4 DEF Exit, Crash, Gone, Tracked, up
<1>5. CASE Start
  BY <1>5, StartShape DEF Tracked
<1>6. CASE UNCHANGED vars
  BY <1>6, TrackedSame DEF vars, up
<1>. QED  BY <1>1, <1>2, <1>3, <1>4, <1>5, <1>6 DEF Next, System

\* In every run a proxy in force between commands is one the application knows that it
\* manages (lib.rs:1763, SYSTEM_PROXY_MANAGED), or one it let go of in one of three ways:
\* a start preserved it, a restore failed, an apply failed with its value in force.
THEOREM ProxyStaysTracked == Spec => []ProxyIsTracked
<1>1. Tracked => ProxyIsTracked
  BY DEF Tracked, ProxyIsTracked, Rest, up
<1>2. TypeInv /\ Tracked /\ [Next]_vars => TypeInv' /\ Tracked'
  BY TypeNext, TrackedNext
<1>. QED  BY <1>1, <1>2, TypeInit, TrackedInit, PTL DEF Spec

-----------------------------------------------------------------------------
(* A disconnect wins.                                                        *)

\* nothing runs and no command is on its way to start something
Down == IsDown(os) /\ \A t \in Threads : pc[t] \notin Launches

\* a disconnect is still to come, and every connect that has not begun is before it
Ahead ==
  \/ \E t \in Threads : pc[t] = "flagged"
  \/ \E i \in 1 .. Len(queue) :
       /\ Asks(pc[queue[i]], loc[queue[i]])
       /\ \A j \in 1 .. Len(queue) : j > i => pc[queue[j]] # "connect"

WishInv == up /\ wish = "disconnect" /\ ~os.faulted => Ahead \/ Down

LEMMA WishInit == Init => WishInv
  BY DEF Init, WishInv

\* where the disconnect waits, if the thread that moves is another one
LEMMA AheadKept ==
  ASSUME TypeInv, NEW t \in Threads, Turn(t), pc'[t] # "connect",
         NEW i \in 1 .. Len(queue), queue[i] # t, Asks(pc[queue[i]], loc[queue[i]]),
         \A j \in 1 .. Len(queue) : j > i => pc[queue[j]] # "connect"
  PROVE Ahead'
<1>. DEFINE n == Len(queue)
<1>1. /\ queue \in Seq(Threads) /\ n \in Nat
      /\ \A j \in 1 .. n : queue[j] \in Threads
  BY DEF TypeInv, TypeOK
<1>2. /\ \A u \in Threads \ {t} : pc'[u] = pc[u] /\ loc'[u] = loc[u]
  BY DEF Turn
<1>3. \A j \in 1 .. n : j > i => pc'[queue[j]] # "connect"
  BY <1>1, <1>2
<1>4. Asks(pc'[queue[i]], loc'[queue[i]])
  BY <1>1, <1>2
<1>5. CASE queue' = queue
  BY <1>3, <1>4, <1>5 DEF Ahead, Asks
<1>6. CASE queue' = Append(queue, t)
  <2>1. Len(queue') = n + 1 /\ queue'[n + 1] = t /\ \A j \in 1 .. n : queue'[j] = queue[j]
    BY <1>1, <1>6
  <2>2. i \in 1 .. n + 1 /\ queue'[i] = queue[i]
    BY <1>1, <2>1
  <2>. HIDE DEF n
  <2>3. \A j \in 1 .. n + 1 : j > i => pc'[queue'[j]] # "connect"
    BY <1>1, <1>3, <2>1
  <2>. QED  BY <1>4, <2>1, <2>2, <2>3 DEF Ahead, Asks
<1>7. CASE queue' = Tail(queue) /\ Holds(t)
  <2>1. n > 0 /\ queue[1] = t
    BY <1>7, HolderIsFirst
  <2>2. Len(queue') = n - 1 /\ \A j \in 1 .. n - 1 : queue'[j] = queue[j + 1]
    BY <1>1, <1>7, <2>1
  <2>. HIDE DEF n
  <2>3. i - 1 \in 1 .. n - 1 /\ queue'[i - 1] = queue[i]
    BY <1>1, <2>1, <2>2 DEF n
  <2>4. \A j \in 1 .. n - 1 : j > i - 1 => pc'[queue'[j]] # "connect"
    BY <1>1, <1>3, <2>2 DEF n
  <2>. QED  BY <1>4, <2>2, <2>3, <2>4 DEF Ahead, Asks
<1>. QED  BY <1>5, <1>6, <1>7 DEF Turn

\* nothing is on its way once the disconnect at the head of the queue is answered
LEMMA NobodyLaunches ==
  ASSUME TypeInv, NEW t \in Threads, Holds(t), Turn(t), pc'[t] \notin Launches,
         \A j \in 1 .. Len(queue) : j > 1 => pc[queue[j]] # "connect"
  PROVE \A u \in Threads : pc'[u] \notin Launches
<1>1. \A u \in Threads \ {t} : pc'[u] = pc[u] /\ pc[u] \in Beside \cup Waiting
  BY HolderIsFirst DEF Turn
<1>2. ASSUME NEW u \in Threads \ {t}, pc[u] = "connect" PROVE FALSE
  <2>1. pc[u] \in Queued
    BY <1>2 DEF Queued, Waiting
  <2>2. PICK j \in 1 .. Len(queue) : queue[j] = u
    BY <2>1 DEF TypeInv, LockOK
  <2>3. queue[1] = t /\ j \in Nat /\ j >= 1
    BY HolderIsFirst DEF TypeInv, TypeOK
  <2>4. j > 1
    BY <2>2, <2>3
  <2>. QED  BY <1>2, <2>2, <2>4
<1>3. (Beside \cup Waiting) \cap Launches = {"connect"}
  BY DEF Beside, Waiting, Launches, LocalSteps
<1>. QED  BY <1>1, <1>2, <1>3

LEMMA WishLawful == ASSUME TypeInv, WishInv, NEW t \in Threads, Lawful(t) PROVE WishInv'
<1>. SUFFICES ASSUME wish' = "disconnect", ~os'.faulted PROVE Ahead' \/ Down'
  BY DEF WishInv
<1>1. up /\ Turn(t) /\ ~os.faulted /\ queue \in Seq(Threads)
  BY DEF Lawful, Calm, TypeInv, TypeOK
<1>2. CASE pc'[t] = "flagged"
  BY <1>2 DEF Ahead
<1>3. CASE Asks(pc'[t], loc'[t]) /\ queue' = Append(queue, t)
  <2>1. Len(queue') \in Nat /\ Len(queue') = Len(queue) + 1 /\ Len(queue) \in Nat
        /\ queue'[Len(queue')] = t
    BY <1>1, <1>3
  <2>2. Len(queue') \in 1 .. Len(queue')
    BY <2>1
  <2>3. \A j \in 1 .. Len(queue') : ~(j > Len(queue'))
    BY <2>1
  <2>. QED  BY <1>3, <2>1, <2>2, <2>3 DEF Ahead, Asks
<1>4. CASE /\ wish = "disconnect" /\ pc[t] # "flagged" /\ pc'[t] # "connect"
           /\ pc'[t] \in Launches => pc[t] \in Launches
           /\ pc[t] \notin Launches /\ IsDown(os) => IsDown(os') \/ os'.faulted
           /\ Asks(pc[t], loc[t]) => IsDown(os') \/ os'.faulted
  <2>1. Ahead \/ Down
    BY <1>1, <1>4 DEF WishInv
  <2>2. CASE Down
    <3>1. IsDown(os') /\ \A u \in Threads : pc'[u] \notin Launches
      BY <1>1, <1>4, <2>2 DEF Down, Turn
    <3>. QED  BY <3>1 DEF Down, IsDown, ServiceActive, ExtensionActive, Launches, LocalSteps
  <2>3. CASE \E u \in Threads : pc[u] = "flagged"
    BY <1>1, <1>4, <2>3 DEF Ahead, Turn
  <2>4. ASSUME NEW i \in 1 .. Len(queue), Asks(pc[queue[i]], loc[queue[i]]),
               \A j \in 1 .. Len(queue) : j > i => pc[queue[j]] # "connect"
        PROVE Ahead' \/ Down'
    <3>1. CASE queue[i] # t
      BY <1>1, <1>4, <2>4, <3>1, AheadKept
    <3>2. CASE queue[i] = t
      <4>1. pc[t] \in Queued /\ Asks(pc[t], loc[t]) /\ pc[t] \notin Beside /\ pc[t] \notin Launches
        BY <2>4, <3>2, LabelSets DEF Asks, Queued, Waiting, Beside, Launches, LocalSteps
      <4>2. Holds(t)
        BY <1>1, <4>1 DEF Turn
      <4>3. i = 1
        <5>1. Len(queue) \in Nat \ {0} /\ queue[1] = t
          BY <4>2, HolderIsFirst
        <5>. QED  BY <3>2, <5>1 DEF TypeInv, LockOK
      <4>4. \A u \in Threads : pc'[u] \notin Launches
        BY <1>1, <1>4, <2>4, <4>1, <4>2, <4>3, NobodyLaunches
      <4>5. IsDown(os')
        BY <1>4, <4>1
      <4>. QED  BY <4>4, <4>5 DEF Down, IsDown, ServiceActive, ExtensionActive, Launches, LocalSteps
    <3>. QED  BY <3>1, <3>2
  <2>. QED  BY <2>1, <2>2, <2>3, <2>4 DEF Ahead
<1>. QED  BY <1>2, <1>3, <1>4 DEF Lawful, Calm

LEMMA WishSame ==
  ASSUME TypeInv, WishInv, UNCHANGED <<pc, loc, queue, wish>>, up' => up, Drifts(os, os')
  PROVE WishInv'
<1>. SUFFICES ASSUME up', wish' = "disconnect", ~os'.faulted PROVE Ahead' \/ Down'
  BY DEF WishInv
<1>1. Ahead \/ Down
  BY DEF WishInv, Drifts
<1>2. CASE Ahead
  BY <1>2 DEF Ahead, Asks
<1>3. CASE Down
  BY <1>3 DEF Down, Drifts, IsDown, ServiceActive, ExtensionActive, Launches, LocalSteps
<1>. QED  BY <1>1, <1>2, <1>3

LEMMA WishNext == ASSUME TypeInv, WishInv, [Next]_vars PROVE WishInv'
<1>1. CASE \E t \in Threads : Call(t) \/ Progress(t)
  BY <1>1, ThreadLawful, WishLawful
<1>2. CASE \/ RunSweep \/ EngineExit \/ ServiceStep \/ ServiceFails \/ ExtensionStep
           \/ ExtensionDrops \/ GuardianHeals
  BY <1>2, ExternalDrifts, WishSame DEF External, up
<1>3. CASE Quit
  BY <1>3, QuitStops, StopsDrifts, WishSame DEF Quit, up
<1>4. CASE Exit \/ Crash
  BY <1>4 DEF Exit, Crash, Gone, WishInv, up
<1>5. CASE Start
  BY <1>5 DEF Start, WishInv
<1>6. CASE UNCHANGED vars
  <2>1. Drifts(os, os')
    BY <1>6, QuieterSelf, StopsDrifts DEF TypeInv, vars
  <2>. QED  BY <1>6, <2>1, WishSame DEF vars, up
<1>. QED  BY <1>1, <1>2, <1>3, <1>4, <1>5, <1>6 DEF Next, System

\* In every run, once everything has come to rest after a disconnect, nothing of any
\* connection runs, unless a stop was refused or a start was left behind.
THEOREM DisconnectAlwaysWins == Spec => []DisconnectWins
<1>1. TypeInv /\ WishInv => DisconnectWins
  <2>. SUFFICES ASSUME TypeInv, WishInv, Rest, wish = "disconnect", ~os.faulted
                PROVE os.local = {} /\ ~ServiceActive(os) /\ ~ExtensionActive(os)
    BY DEF DisconnectWins
  <2>1. ~Ahead
    <3>1. \A i \in 1 .. Len(queue) : pc[queue[i]] = "idle"
      BY DEF TypeInv, TypeOK, Rest
    <3>. QED  BY <3>1 DEF Ahead, Asks, Rest
  <2>. QED  BY <2>1 DEF WishInv, Down, IsDown, Rest, up
<1>2. TypeInv /\ WishInv /\ [Next]_vars => TypeInv' /\ WishInv'
  BY TypeNext, WishNext
<1>. QED  BY <1>1, <1>2, TypeInit, WishInit, PTL DEF Spec

-----------------------------------------------------------------------------
(* An engine runs only under a name that says so.                            *)

Named(e, x) == IF x = "xray" THEN NamesXray(e) ELSE NamesSingbox(e)

\* between the start of an engine and the commit that names it
Launching(p, l) ==
  p \in {"wait_port", "commit_local", "compat", "commit_tun"} \/ (p = "bridge" /\ l.ret = "tun")

\* what of the local engines a thread at p with locals l knows to run
LaunchOK(p, l, local) ==
  /\ p \in {"restore", "ports", "start", "return_proxy", "commit_down"} => local = {}
  /\ p \in {"wait_port", "commit_local", "apply_proxy", "rules", "bridge", "compat",
            "commit_tun", "service_start", "service_poll"} => local \subseteq {l.req.engine}
  /\ p \in {"bridge", "compat", "commit_tun"} /\ l.ret = "tun" /\ l.req.engine = "singbox" =>
       local = {}
  /\ p \in {"service_start", "service_poll"} /\ l.ret = "tun" => local = {}
  /\ p \in {"compat", "commit_tun"} /\ Windows => local = {}

AllNamed(e, local) == \A x \in local : Named(e, x)

EngineInv ==
  /\ \A t \in Threads : LaunchOK(pc[t], loc[t], os.local)
  /\ AllNamed(mem.engine, os.local) \/ \E t \in Threads : Launching(pc[t], loc[t])

LEMMA EngineInit == Init => EngineInv
  BY DEF Init, EngineInv, LaunchOK, AllNamed

\* a thread beside the lock, or waiting for it, knows nothing of the engines
LEMMA BesideKnowsNothing ==
  ASSUME NEW p \in Beside \cup Waiting, NEW l, NEW local
  PROVE LaunchOK(p, l, local) /\ ~Launching(p, l)
  BY DEF Beside, Waiting, LaunchOK, Launching

LEMMA FewerEngines ==
  ASSUME NEW p, NEW l, NEW local, NEW fewer \in SUBSET local, LaunchOK(p, l, local)
  PROVE LaunchOK(p, l, fewer)
  BY DEF LaunchOK

\* what the holder of the lock leaves behind
Leaves(t) ==
  /\ LaunchOK(pc'[t], loc'[t], os'.local)
  /\ AllNamed(mem'.engine, os'.local) \/ Launching(pc'[t], loc'[t])

LEMMA HolderLeaves ==
  ASSUME TypeInv, NEW t \in Threads, Holds(t), Lawful(t), Leaves(t) PROVE EngineInv'
<1>1. \A u \in Threads \ {t} : /\ pc'[u] = pc[u] /\ loc'[u] = loc[u]
                               /\ pc[u] \in Beside \cup Waiting
  BY HolderIsFirst DEF Lawful, Turn
<1>2. \A u \in Threads : LaunchOK(pc'[u], loc'[u], os'.local)
  BY <1>1, BesideKnowsNothing DEF Leaves
<1>3. AllNamed(mem'.engine, os'.local) \/ \E u \in Threads : Launching(pc'[u], loc'[u])
  BY DEF Leaves
<1>. QED
  BY <1>2, <1>3 DEF EngineInv, Lawful, LaunchOK, AllNamed, Named, Launching, Windows,
     NamesXray, NamesSingbox

\* what the holder of the lock knows
LEMMA HolderKnows ==
  ASSUME TypeInv, EngineInv, NEW t \in Threads, NEW at, Step(t, at)
  PROVE /\ Holds(t) /\ pc[t] = at /\ LaunchOK(at, loc[t], os.local)
        /\ Launching(at, loc[t]) \/ AllNamed(mem.engine, os.local)
        /\ os.local \subseteq LocalEngines
<1>1. \A u \in Threads \ {t} : ~Launching(pc[u], loc[u])
  BY HolderIsFirst, BesideKnowsNothing DEF Step
<1>. QED  BY <1>1, Knows DEF EngineInv, Step, Sound, SystemType

\* no command knows less when an engine has ended
LEMMA EngineSame ==
  ASSUME TypeInv, EngineInv, UNCHANGED <<pc, loc, platform>>, mem'.engine = mem.engine,
         os'.local \subseteq os.local
  PROVE EngineInv'
<1>1. \A t \in Threads : LaunchOK(pc[t], loc[t], os'.local)
  BY FewerEngines DEF EngineInv
<1>2. AllNamed(mem.engine, os.local) => AllNamed(mem'.engine, os'.local)
  BY DEF AllNamed
<1>. QED
  BY <1>1, <1>2 DEF EngineInv, LaunchOK, AllNamed, Named, Launching, Windows,
     NamesXray, NamesSingbox

\* a step beside the lock starts no engine and names none
LEMMA BesideSame ==
  ASSUME TypeInv, EngineInv, NEW t \in Threads, Lawful(t),
         pc[t] \in Beside, mem'.engine = mem.engine, os'.local = os.local
  PROVE EngineInv'
<1>1. \A u \in Threads \ {t} : pc'[u] = pc[u] /\ loc'[u] = loc[u]
  BY DEF Lawful, Turn
<1>2. pc'[t] \in Beside \cup Waiting
  BY LabelSets DEF Lawful, Turn
<1>3. LaunchOK(pc'[t], loc'[t], os.local) /\ ~Launching(pc[t], loc[t])
  BY <1>2, BesideKnowsNothing
<1>4. \A u \in Threads : LaunchOK(pc'[u], loc'[u], os'.local)
  BY <1>1, <1>3 DEF EngineInv
<1>5. AllNamed(mem'.engine, os'.local) \/ \E u \in Threads : Launching(pc'[u], loc'[u])
  BY <1>1, <1>3 DEF EngineInv
<1>. QED
  BY <1>4, <1>5 DEF EngineInv, Lawful, LaunchOK, AllNamed, Named, Launching, Windows,
     NamesXray, NamesSingbox

\* the command ends, or gives the lock up, with no more engines than before
LEMMA Ends ==
  ASSUME NEW t \in Threads, pc'[t] \in Beside \cup Waiting,
         AllNamed(mem.engine, os.local), mem'.engine = mem.engine, os'.local \subseteq os.local
  PROVE Leaves(t)
  BY BesideKnowsNothing DEF Leaves, AllNamed

LEMMA EndsEmpty ==
  ASSUME NEW t \in Threads, pc'[t] \in Beside \cup Waiting, os'.local = {}
  PROVE Leaves(t)
  BY BesideKnowsNothing DEF Leaves, AllNamed

-----------------------------------------------------------------------------
(* Every step of the holder of the lock.                                     *)

LEMMA ConnectBeginLeaves ==
  ASSUME TypeInv, EngineInv, NEW t \in Threads, ConnectBegin(t) PROVE Leaves(t)
<1>1. Step(t, "connect") /\ UNCHANGED os /\ mem'.engine = mem.engine
  BY Knows DEF ConnectBegin, MemoryType
<1>2. AllNamed(mem.engine, os.local)
  BY <1>1, HolderKnows DEF Launching
<1>3. CASE pc'[t] = "stop"
  BY <1>1, <1>2, <1>3 DEF Leaves, LaunchOK
<1>4. CASE pc'[t] = "idle"
  BY <1>1, <1>2, <1>4, Ends DEF Beside
<1>5. pc'[t] \in {"stop", "idle"}
  BY DEF ConnectBegin, Goto, Fail, Done, TypeInv, TypeOK
<1>. QED  BY <1>3, <1>4, <1>5

LEMMA StopPreviousLeaves ==
  ASSUME TypeInv, EngineInv, NEW t \in Threads, StopPrevious(t) PROVE Leaves(t)
<1>1. Step(t, "stop") /\ pc'[t] = "restore" /\ mem \in MemoryType /\ Sound(os)
  BY Knows DEF StopPrevious, Goto, TypeInv, TypeOK
<1>2. AllNamed(mem.engine, os.local) /\ os.local \subseteq LocalEngines
  BY <1>1, HolderKnows DEF Launching
<1>3. Sound(StopSingbox(os)) /\ StopSingbox(os).local = os.local \ {"singbox"}
  BY <1>1, StopEngines DEF Stops
<1>4. /\ os'.local \subseteq os.local \ {"singbox"}
      /\ NamesXray(mem.engine) => os'.local = (os.local \ {"singbox"}) \ {"xray"}
  BY <1>3, StopEngineStops DEF StopPrevious
<1>5. os'.local = {}
  BY <1>2, <1>4 DEF AllNamed, Named, LocalEngines
<1>. QED  BY <1>1, <1>5 DEF Leaves, LaunchOK, AllNamed

LEMMA RestorePreviousLeaves ==
  ASSUME TypeInv, EngineInv, NEW t \in Threads, RestorePrevious(t) PROVE Leaves(t)
<1>1. Step(t, "restore") /\ pc'[t] = "ports" /\ Sound(os)
  BY Knows DEF RestorePrevious, Goto, TypeInv, TypeOK
<1>2. os.local = {}
  BY <1>1, HolderKnows DEF LaunchOK
<1>3. os'.local = {}
  BY <1>1, <1>2, RepairStaleStops, RestoreIfOwnedStops DEF RestorePrevious
<1>. QED  BY <1>1, <1>3 DEF Leaves, LaunchOK, AllNamed

LEMMA FreePortsLeaves ==
  ASSUME TypeInv, EngineInv, NEW t \in Threads, FreePorts(t) PROVE Leaves(t)
<1>1. Step(t, "ports") /\ Sound(os)
  BY Knows DEF FreePorts
<1>2. os.local = {}
  BY <1>1, HolderKnows DEF LaunchOK
<1>3. os'.local = {}
  BY <1>1, <1>2, FreePortsStops DEF FreePorts
<1>4. LaunchOK(pc'[t], loc'[t], {})
  BY DEF LaunchOK
<1>. QED  BY <1>3, <1>4 DEF Leaves, AllNamed

LEMMA StartOwnLeaves ==
  ASSUME TypeInv, EngineInv, NEW t \in Threads, NEW e \in LocalEngines,
         StartOwn(t, Started(e, os)), loc[t].req.engine = e
  PROVE Leaves(t)
<1>1. Step(t, "start") /\ ~AppStore /\ Sound(os)
  BY Knows DEF StartOwn, Step, LabelOK, LocalSteps
<1>2. os.local = {}
  BY <1>1, HolderKnows DEF LaunchOK
<1>3. PICK s \in Started(e, os) :
        /\ os' = s.os
        /\ IF s.ok THEN Goto(t, "wait_port") /\ UNCHANGED loc /\ Locked ELSE Fail(t)
  BY DEF StartOwn
<1>4. CASE s.ok
  <2>1. os'.local = {e}
    BY <1>1, <1>2, <1>3, <1>4, StartedFields
  <2>2. pc'[t] = "wait_port" /\ loc'[t] = loc[t]
    BY <1>3, <1>4 DEF Goto, TypeInv, TypeOK
  <2>. QED  BY <2>1, <2>2 DEF Leaves, LaunchOK, Launching
<1>5. CASE ~s.ok
  <2>1. os'.local = {}
    BY <1>1, <1>2, <1>3, <1>5, StartedFields
  <2>2. pc'[t] = "idle"
    BY <1>3, <1>5 DEF Fail, Done, Goto, TypeInv, TypeOK
  <2>. QED  BY <2>1, <2>2, EndsEmpty DEF Beside
<1>. QED  BY <1>4, <1>5

LEMMA WaitPortEnds ==
  ASSUME TypeInv, EngineInv, NEW t \in Threads, NEW e \in LocalEngines, NEW next,
         WaitPort(t, e, next), loc[t].req.engine = e,
         \/ next = "bridge" /\ loc[t].ret = "tun" /\ e = "xray"
         \/ next = "commit_local"
  PROVE Leaves(t)
<1>1. Step(t, "wait_port") /\ Sound(os)
  BY Knows DEF WaitPort
<1>2. os.local \subseteq {e}
  BY <1>1, HolderKnows DEF LaunchOK
<1>3. CASE UNCHANGED <<os, loc>> /\ Goto(t, next)
  <2>1. pc'[t] = next /\ loc'[t] = loc[t] /\ os'.local \subseteq {e}
    BY <1>2, <1>3 DEF Goto, TypeInv, TypeOK
  <2>. QED  BY <2>1 DEF Leaves, LaunchOK, Launching
<1>4. CASE os' = StopOwn(e, os) /\ Fail(t)
  <2>1. os'.local = {}
    BY <1>1, <1>2, <1>4, StopEngines DEF StopOwn, LocalEngines
  <2>2. pc'[t] = "idle"
    BY <1>4 DEF Fail, Done, Goto, TypeInv, TypeOK
  <2>. QED  BY <2>1, <2>2, EndsEmpty DEF Beside
<1>. QED  BY <1>3, <1>4 DEF WaitPort

LEMMA CommitLocalLeaves ==
  ASSUME TypeInv, EngineInv, NEW t \in Threads, CommitLocal(t) PROVE Leaves(t)
<1>1. Step(t, "commit_local") /\ pc'[t] = "apply_proxy" /\ loc'[t] = loc[t] /\ os' = os
  BY DEF CommitLocal, Goto, TypeInv, TypeOK
<1>2. os.local \subseteq {loc[t].req.engine} /\ os.local \subseteq LocalEngines
  BY <1>1, HolderKnows DEF LaunchOK
<1>3. mem'.engine = loc[t].req.engine
  BY Knows DEF CommitLocal, MemoryType
<1>4. AllNamed(mem'.engine, os'.local)
  BY <1>1, <1>2, <1>3 DEF AllNamed, Named, NamesXray, NamesSingbox, LocalEngines
<1>. QED  BY <1>1, <1>2, <1>4 DEF Leaves, LaunchOK

LEMMA ApplyProxyLeaves ==
  ASSUME TypeInv, EngineInv, NEW t \in Threads, NEW stopped, Stops(os, stopped),
         ApplyProxy(t, stopped)
  PROVE Leaves(t)
<1>1. Step(t, "apply_proxy") /\ pc'[t] \in {"stuck", "rules"} /\ loc'[t] = loc[t] /\ Sound(os)
  BY Knows DEF ApplyProxy, Goto, TypeInv, TypeOK
<1>2. /\ os.local \subseteq {loc[t].req.engine} /\ AllNamed(mem.engine, os.local)
  BY <1>1, HolderKnows DEF LaunchOK, Launching
<1>3. os'.local \subseteq os.local
  <2>1. TakeOver(os).local = os.local
    BY <1>1 DEF TakeOver, Sound, SystemType
  <2>2. stopped.local \subseteq os.local
    BY DEF Stops, Quieter
  <2>3. PICK outcome \in ProxyOutcomes(loc[t].req.proxy) :
          os' \in CASE outcome = "set" -> {TakeOver(os)}
                    [] outcome = "error" -> IF Windows THEN ApplyFails(stopped) ELSE {stopped}
                    [] OTHER -> {os}
    BY DEF ApplyProxy
  <2>4. os' \in {TakeOver(os), stopped, os} \/ (Windows /\ os' \in ApplyFails(stopped))
    BY <2>3
  <2>. QED  BY <2>1, <2>2, <2>4, ApplyFailsFields DEF Stops
<1>4. mem'.engine = mem.engine
  BY Knows DEF ApplyProxy, MemoryType
<1>5. AllNamed(mem'.engine, os'.local)
  BY <1>2, <1>3, <1>4 DEF AllNamed
<1>. QED  BY <1>1, <1>2, <1>3, <1>5 DEF Leaves, LaunchOK

\* a name of an engine that runs beside something else names it, too
NamesOf(e) == IF e = "xray" THEN {"xray", "xray+tun", "xray+app-proxy", "xray+app-proxy-service"}
              ELSE {"singbox", "singbox+app-proxy", "singbox+app-proxy-service"}

LEMMA NamesName ==
  ASSUME NEW e \in LocalEngines, NEW local, local \subseteq {e}, NEW name \in NamesOf(e)
  PROVE AllNamed(name, local)
  BY DEF NamesOf, AllNamed, Named, NamesXray, NamesSingbox, LocalEngines

LEMMA AppRulesLeaves ==
  ASSUME TypeInv, EngineInv, NEW t \in Threads, NEW e \in LocalEngines, NEW name \in NamesOf(e),
         AppRules(t, name), At(t, "rules", "rules", e)
  PROVE Leaves(t)
<1>1. Step(t, "rules") /\ os' = os /\ loc'[t] = loc[t]
      /\ pc'[t] \in {"verify", "service_start", "bridge"}
  BY DEF AppRules, Succeed, Goto, TypeInv, TypeOK
<1>2. os.local \subseteq {e} /\ AllNamed(mem.engine, os.local)
  BY <1>1, HolderKnows DEF LaunchOK, Launching, At
<1>3. mem' = mem \/ mem'.engine = name
  BY Knows DEF AppRules, MemoryType
<1>4. AllNamed(mem'.engine, os'.local)
  BY <1>1, <1>2, <1>3, NamesName
<1>5. loc[t].ret = "rules" /\ loc[t].req.engine = e
  BY DEF At
<1>. QED  BY <1>1, <1>2, <1>4, <1>5 DEF Leaves, LaunchOK

LEMMA AppBridgeLeaves ==
  ASSUME TypeInv, EngineInv, NEW t \in Threads, NEW e \in LocalEngines, NEW name \in NamesOf(e),
         AppBridge(t, name), At(t, "bridge", "rules", e)
  PROVE Leaves(t)
<1>1. Step(t, "bridge") /\ pc'[t] = "verify" /\ Sound(os)
  BY Knows DEF AppBridge, Succeed, Goto, TypeInv, TypeOK
<1>2. os.local \subseteq {e} /\ AllNamed(mem.engine, os.local)
  BY <1>1, HolderKnows DEF LaunchOK, Launching, At
<1>3. os'.local = os.local /\ (mem' = mem \/ mem'.engine = name)
  BY <1>1, Knows, StartBridgeStops DEF AppBridge, MemoryType
<1>4. AllNamed(mem'.engine, os'.local)
  BY <1>2, <1>3, NamesName
<1>. QED  BY <1>1, <1>4 DEF Leaves, LaunchOK

LEMMA TunBridgeLeaves ==
  ASSUME TypeInv, EngineInv, NEW t \in Threads, XrayTunBridge(t) \/ SingboxTun(t)
  PROVE Leaves(t)
<1>1. Step(t, "bridge") /\ Sound(os) /\ ~Windows
  BY Knows DEF XrayTunBridge, SingboxTun, Step, LabelOK
<1>2. LaunchOK("bridge", loc[t], os.local)
  BY <1>1, HolderKnows
<1>3. PICK s \in StartBridge(os) :
        \/ os' = s.os /\ Goto(t, "compat") /\ UNCHANGED loc
        \/ XrayTunBridge(t) /\ os' = StopXray(s.os) /\ Fail(t)
        \/ SingboxTun(t) /\ os' = s.os /\ Fail(t)
  BY DEF XrayTunBridge, SingboxTun
<1>4. Sound(s.os) /\ s.os.local = os.local
  BY <1>1, StartBridgeStops DEF Stops
<1>5. CASE os' = s.os /\ Goto(t, "compat") /\ UNCHANGED loc
  <2>1. pc'[t] = "compat" /\ loc'[t] = loc[t] /\ os'.local = os.local
    BY <1>4, <1>5 DEF Goto, TypeInv, TypeOK
  <2>. QED  BY <1>1, <1>2, <2>1 DEF Leaves, LaunchOK, Launching
<1>6. CASE Fail(t) /\ os'.local = {}
  <2>1. pc'[t] = "idle"
    BY <1>6 DEF Fail, Done, Goto, TypeInv, TypeOK
  <2>. QED  BY <1>6, <2>1, EndsEmpty DEF Beside
<1>7. XrayTunBridge(t) => StopXray(s.os).local = {}
  BY <1>2, <1>4, StopEngines DEF XrayTunBridge, At, LaunchOK
<1>8. SingboxTun(t) => s.os.local = {}
  BY <1>2, <1>4 DEF SingboxTun, At, LaunchOK
<1>. QED  BY <1>3, <1>5, <1>6, <1>7, <1>8

LEMMA ServiceStartLeaves ==
  ASSUME TypeInv, EngineInv, NEW t \in Threads, ServiceStart(t) PROVE Leaves(t)
<1>1. Step(t, "service_start") /\ Sound(os) /\ Windows /\ UNCHANGED mem
  BY Knows DEF ServiceStart, Step, LabelOK
<1>2. LaunchOK("service_start", loc[t], os.local) /\ AllNamed(mem.engine, os.local)
  BY <1>1, HolderKnows DEF Launching
<1>3. os'.local = os.local
  BY <1>1, SendStartFields DEF ServiceStart
<1>4. pc'[t] \in {"service_poll", "idle"} /\ (pc'[t] = "service_poll" => loc'[t] = loc[t])
  BY DEF ServiceStart, Fail, Done, Goto, TypeInv, TypeOK
<1>5. CASE pc'[t] = "service_poll"
  BY <1>1, <1>2, <1>3, <1>4, <1>5 DEF Leaves, LaunchOK
<1>6. CASE pc'[t] = "idle"
  BY <1>1, <1>2, <1>3, <1>6, Ends DEF Beside
<1>. QED  BY <1>4, <1>5, <1>6

LEMMA ServicePollLeaves ==
  ASSUME TypeInv, EngineInv, NEW t \in Threads, ServicePoll(t) PROVE Leaves(t)
<1>1. Step(t, "service_poll") /\ Sound(os) /\ loc[t].req.engine \in LocalEngines
  BY Knows DEF ServicePoll, Step, LabelOK, LocalSteps, RequestType, LocalEngines
<1>2. LaunchOK("service_poll", loc[t], os.local) /\ AllNamed(mem.engine, os.local)
  BY <1>1, HolderKnows DEF Launching
<1>3. os'.local = os.local
  <2>1. [os EXCEPT !.faulted = TRUE].local = os.local
    BY <1>1 DEF Sound, SystemType
  <2>. QED  BY <1>1, <2>1, StopServiceStops DEF ServicePoll
<1>4. CASE Fail(t) /\ UNCHANGED mem
  <2>1. pc'[t] = "idle"
    BY <1>4 DEF Fail, Done, Goto, TypeInv, TypeOK
  <2>. QED  BY <1>2, <1>3, <1>4, <2>1, Ends DEF Beside
<1>5. CASE loc[t].ret = "tun" /\ Goto(t, "compat") /\ UNCHANGED <<mem, loc>>
  <2>1. pc'[t] = "compat" /\ loc'[t] = loc[t] /\ os.local = {}
    BY <1>2, <1>5 DEF Goto, TypeInv, TypeOK, LaunchOK
  <2>. QED  BY <1>3, <2>1 DEF Leaves, LaunchOK, Launching
<1>6. CASE /\ Succeed(t)
           /\ mem' = [mem EXCEPT !.engine = IF loc[t].req.engine = "xray"
                                            THEN "xray+app-proxy-service"
                                            ELSE "singbox+app-proxy-service"]
  <2>1. pc'[t] = "verify"
    BY <1>6 DEF Succeed, Goto, TypeInv, TypeOK
  <2>2. mem'.engine \in NamesOf(loc[t].req.engine)
    BY <1>1, <1>6, Knows DEF MemoryType, NamesOf, LocalEngines
  <2>3. os.local \subseteq {loc[t].req.engine}
    BY <1>2 DEF LaunchOK
  <2>4. AllNamed(mem'.engine, os'.local)
    BY <1>1, <1>3, <2>2, <2>3, NamesName
  <2>. QED  BY <2>1, <2>4, BesideKnowsNothing DEF Leaves, Beside
<1>. QED  BY <1>4, <1>5, <1>6 DEF ServicePoll, ServiceUp

LEMMA CompatAfterTunLeaves ==
  ASSUME TypeInv, EngineInv, NEW t \in Threads, CompatAfterTun(t) PROVE Leaves(t)
<1>1. Step(t, "compat") /\ Sound(os) /\ pc'[t] = "commit_tun" /\ loc'[t] = loc[t]
  BY Knows DEF CompatAfterTun, Goto, TypeInv, TypeOK
<1>2. LaunchOK("compat", loc[t], os.local)
  BY <1>1, HolderKnows
<1>3. os'.local = os.local
  BY <1>1, RepairStaleStops DEF CompatAfterTun
<1>. QED  BY <1>1, <1>2, <1>3 DEF Leaves, LaunchOK, Launching

LEMMA CommitTunLeaves ==
  ASSUME TypeInv, EngineInv, NEW t \in Threads,
         CommitXrayService(t) \/ CommitXrayTun(t) \/ CommitSingboxTun(t)
  PROVE Leaves(t)
<1>1. Step(t, "commit_tun") /\ os' = os /\ pc'[t] = "verify" /\ loc[t].ret = "tun"
  BY Knows DEF CommitXrayService, CommitXrayTun, CommitSingboxTun, CommitTun, Succeed, Goto,
     TypeInv, TypeOK, Step, LabelOK
<1>2. LaunchOK("commit_tun", loc[t], os.local)
  BY <1>1, HolderKnows
<1>3. CASE os.local = {}
  BY <1>1, <1>3, EndsEmpty DEF Beside
<1>4. CASE os.local # {}
  <2>1. ~Windows /\ loc[t].req.engine # "singbox"
    BY <1>1, <1>2, <1>4 DEF LaunchOK
  <2>2. loc[t].req.engine = "xray" /\ mem'.engine = "xray+tun"
    BY <2>1, Knows DEF CommitXrayService, CommitXrayTun, CommitSingboxTun, CommitTun, MemoryType
  <2>3. AllNamed(mem'.engine, os'.local)
    BY <1>1, <1>2, <2>2, NamesName DEF LaunchOK, NamesOf, LocalEngines
  <2>. QED  BY <1>1, <2>3, BesideKnowsNothing DEF Leaves, Beside
<1>. QED  BY <1>3, <1>4

LEMMA DisconnectLeaves ==
  ASSUME TypeInv, EngineInv, NEW t \in Threads, StopAll(t) \/ ReturnProxy(t) \/ CommitDown(t)
  PROVE Leaves(t)
<1>1. LaunchOK(pc'[t], loc'[t], {})
  BY DEF LaunchOK
<1>2. os'.local = {}
  <2>1. CASE StopAll(t)
    BY <2>1, StopAllLawful
  <2>2. CASE ReturnProxy(t)
    BY <2>2, HolderKnows, Knows, RestoreIfOwnedStops DEF ReturnProxy, LaunchOK
  <2>3. CASE CommitDown(t)
    BY <2>3, HolderKnows DEF CommitDown, LaunchOK
  <2>. QED  BY <2>1, <2>2, <2>3
<1>. QED  BY <1>1, <1>2 DEF Leaves, AllNamed

\* there is no engine of the application in the App Store build
LEMMA ExtensionLeaves ==
  ASSUME TypeInv, NEW t \in Threads, Lawful(t), AppStore PROVE Leaves(t)
<1>1. os'.local = {}
  BY DEF Lawful, Sound
<1>2. LaunchOK(pc'[t], loc'[t], {})
  BY DEF LaunchOK
<1>. QED  BY <1>1, <1>2 DEF Leaves, AllNamed

LEMMA RepairLeaves ==
  ASSUME TypeInv, EngineInv, NEW t \in Threads,
         RepairRuntimeState(t) \/ RepairRuntimeDown(t) \/ PrepareUpdateStop(t)
  PROVE Holds(t) /\ Leaves(t)
<1>. DEFINE at == pc[t]
<1>1. Step(t, at) /\ at \in {"repair", "repair_down", "update"} /\ Sound(os)
  BY Knows DEF RepairRuntimeState, RepairRuntimeDown, PrepareUpdateStop, Step
<1>2. AllNamed(mem.engine, os.local) /\ Holds(t)
  BY <1>1, HolderKnows DEF Launching
<1>3. mem'.engine = mem.engine
  BY Knows DEF RepairRuntimeState, RepairRuntimeDown, PrepareUpdateStop, MemoryType
<1>4. os'.local \subseteq os.local
  <2>1. CASE RepairRuntimeState(t)
    BY <1>1, <2>1, RepairStaleStops DEF RepairRuntimeState
  <2>2. CASE RepairRuntimeDown(t)
    BY <1>1, <2>2, StopServiceStops, SweepStops DEF RepairRuntimeDown, Stops
  <2>3. CASE PrepareUpdateStop(t)
    BY <1>1, <2>3, StopKnownStops, RestoreIfOwnedStops DEF PrepareUpdateStop, Stops, Quieter
  <2>. QED  BY <2>1, <2>2, <2>3
<1>5. pc'[t] \in {"idle", "repair_down"}
  BY DEF RepairRuntimeState, RepairRuntimeDown, PrepareUpdateStop, Fail, Done, Goto,
     TypeInv, TypeOK
<1>6. CASE pc'[t] = "idle"
  BY <1>2, <1>3, <1>4, <1>6, Ends DEF Beside
<1>7. CASE pc'[t] = "repair_down"
  BY <1>2, <1>3, <1>4, <1>7 DEF Leaves, LaunchOK, AllNamed
<1>. QED  BY <1>2, <1>5, <1>6, <1>7

LEMMA StartLeaves ==
  ASSUME TypeInv, EngineInv, NEW t \in Threads,
         StartXrayBridged(t) \/ StartXrayProxy(t) \/ StartSingboxProxy(t)
  PROVE Holds(t) /\ Leaves(t)
<1>1. "xray" \in LocalEngines /\ "singbox" \in LocalEngines
  BY DEF LocalEngines
<1>2. CASE StartXrayBridged(t) \/ StartXrayProxy(t)
  <2>1. StartOwn(t, Started("xray", os)) /\ loc[t].req.engine = "xray"
    BY <1>2, StartsAre DEF StartXrayBridged, StartXrayProxy, At
  <2>. QED  BY <1>1, <2>1, StartOwnLeaves DEF StartOwn, Step
<1>3. CASE StartSingboxProxy(t)
  <2>1. StartOwn(t, Started("singbox", os)) /\ loc[t].req.engine = "singbox"
    BY <1>3, StartsAre DEF StartSingboxProxy, At
  <2>. QED  BY <1>1, <2>1, StartOwnLeaves DEF StartOwn, Step
<1>. QED  BY <1>2, <1>3

LEMMA WaitLeaves ==
  ASSUME TypeInv, EngineInv, NEW t \in Threads,
         WaitXrayBridged(t) \/ WaitXrayProxy(t) \/ WaitSingboxProxy(t)
  PROVE Holds(t) /\ Leaves(t)
<1>1. "xray" \in LocalEngines /\ "singbox" \in LocalEngines
  BY DEF LocalEngines
<1>2. CASE WaitXrayBridged(t)
  BY <1>1, <1>2, WaitPortEnds DEF WaitXrayBridged, At, WaitPort, Step
<1>3. CASE WaitXrayProxy(t)
  BY <1>1, <1>3, WaitPortEnds DEF WaitXrayProxy, At, WaitPort, Step
<1>4. CASE WaitSingboxProxy(t)
  BY <1>1, <1>4, WaitPortEnds DEF WaitSingboxProxy, At, WaitPort, Step
<1>. QED  BY <1>2, <1>3, <1>4

LEMMA ProxyLeaves ==
  ASSUME TypeInv, EngineInv, NEW t \in Threads,
         \/ CommitLocal(t) \/ ApplyXrayProxy(t) \/ ApplySingboxProxy(t)
  PROVE Holds(t) /\ Leaves(t)
<1>1. Stops(os, StopXray(os)) /\ Stops(os, StopSingbox(os))
  BY Knows, StopEngines
<1>2. CASE CommitLocal(t)
  BY <1>2, CommitLocalLeaves DEF CommitLocal, Step
<1>3. CASE ApplyXrayProxy(t)
  BY <1>1, <1>3, ApplyProxyLeaves DEF ApplyXrayProxy, ApplyProxy, Step
<1>4. CASE ApplySingboxProxy(t)
  BY <1>1, <1>4, ApplyProxyLeaves DEF ApplySingboxProxy, ApplyProxy, Step
<1>. QED  BY <1>2, <1>3, <1>4

LEMMA RulesLeaves ==
  ASSUME TypeInv, EngineInv, NEW t \in Threads,
         \/ XrayAppRules(t) \/ SingboxAppRules(t) \/ XrayAppBridge(t) \/ SingboxAppBridge(t)
  PROVE Holds(t) /\ Leaves(t)
<1>1. /\ "xray" \in LocalEngines /\ "xray+app-proxy" \in NamesOf("xray")
      /\ "singbox" \in LocalEngines /\ "singbox+app-proxy" \in NamesOf("singbox")
  BY DEF LocalEngines, NamesOf
<1>2. CASE XrayAppRules(t)
  BY <1>1, <1>2, AppRulesLeaves DEF XrayAppRules, AppRules, Step
<1>3. CASE SingboxAppRules(t)
  BY <1>1, <1>3, AppRulesLeaves DEF SingboxAppRules, AppRules, Step
<1>4. CASE XrayAppBridge(t)
  BY <1>1, <1>4, AppBridgeLeaves DEF XrayAppBridge, AppBridge, Step
<1>5. CASE SingboxAppBridge(t)
  BY <1>1, <1>5, AppBridgeLeaves DEF SingboxAppBridge, AppBridge, Step
<1>. QED  BY <1>2, <1>3, <1>4, <1>5

LEMMA ConnectStepLeaves ==
  ASSUME TypeInv, EngineInv, NEW t \in Threads, ConnectStep(t), ~Verify(t)
  PROVE Holds(t) /\ Leaves(t)
<1>1. CASE ConnectBegin(t) \/ StopPrevious(t)
  BY <1>1, ConnectBeginLeaves, StopPreviousLeaves DEF ConnectBegin, StopPrevious, Step
<1>2. CASE RestorePrevious(t) \/ FreePorts(t)
  BY <1>2, RestorePreviousLeaves, FreePortsLeaves DEF RestorePrevious, FreePorts, Step
<1>3. CASE XrayTunBridge(t) \/ SingboxTun(t)
  BY <1>3, TunBridgeLeaves DEF XrayTunBridge, SingboxTun, Step
<1>4. CASE ServiceStart(t) \/ ServicePoll(t) \/ CompatAfterTun(t)
  BY <1>4, ServiceStartLeaves, ServicePollLeaves, CompatAfterTunLeaves
     DEF ServiceStart, ServicePoll, CompatAfterTun, Step
<1>5. CASE CommitXrayService(t) \/ CommitXrayTun(t) \/ CommitSingboxTun(t)
  BY <1>5, CommitTunLeaves
     DEF CommitXrayService, CommitXrayTun, CommitSingboxTun, CommitTun, Step
<1>. QED
  BY <1>1, <1>2, <1>3, <1>4, <1>5, StartLeaves, WaitLeaves, ProxyLeaves, RulesLeaves
     DEF ConnectStep

\* a step that does not need the lock
Unlocked(t) ==
  \/ Call(t) \/ Verify(t) \/ QueueDisconnect(t) \/ StatusRead(t) \/ StatusWrite(t)
  \/ RepairProxyApply(t) \/ RepairProxyManaged(t)

LEMMA UnlockedSame ==
  ASSUME TypeInv, NEW t \in Threads, Unlocked(t)
  PROVE pc[t] \in Beside /\ mem'.engine = mem.engine /\ os'.local = os.local
<1>1. mem \in MemoryType /\ Sound(os)
  BY Knows
<1>2. CASE Call(t)
  BY <1>1, <1>2 DEF Call, Connect, Disconnect, Status, RepairProxy, RepairRuntime,
     PrepareUpdate, Beside, MemoryType
<1>3. CASE Verify(t) \/ QueueDisconnect(t) \/ StatusRead(t)
  BY <1>3 DEF Verify, QueueDisconnect, StatusRead, Beside
<1>4. CASE StatusWrite(t) \/ RepairProxyManaged(t)
  BY <1>1, <1>4 DEF StatusWrite, RepairProxyManaged, Beside, MemoryType
<1>5. CASE RepairProxyApply(t)
  <2>1. Windows
    BY <1>5, Knows DEF RepairProxyApply, LabelOK
  <2>2. os' \in {TakeOver(os), os} \/ os' \in ApplyFails(os)
    BY <1>5 DEF RepairProxyApply
  <2>3. pc[t] \in Beside /\ mem' = mem
    BY <1>5 DEF RepairProxyApply, Beside
  <2>. QED  BY <1>1, <2>1, <2>2, <2>3, TakeOverFields, ApplyFailsFields
<1>. QED  BY <1>2, <1>3, <1>4, <1>5 DEF Unlocked

LEMMA LockedLeaves ==
  ASSUME TypeInv, EngineInv, NEW t \in Threads, Progress(t), ~Unlocked(t)
  PROVE Holds(t) /\ Leaves(t)
<1>1. CASE ConnectStep(t)
  BY <1>1, ConnectStepLeaves DEF Unlocked
<1>2. CASE DisconnectStep(t)
  BY <1>2, DisconnectLeaves DEF DisconnectStep, Unlocked, StopAll, ReturnProxy, CommitDown, Step
<1>3. CASE ExtensionCommand(t)
  <2>1. Holds(t) /\ Lawful(t)
    BY <1>3, ExtensionCommandLawful DEF ExtensionCommand, ExtensionBegin, ExtensionStart,
       ExtensionWait, ExtensionVerify, ExtensionStop, ExtensionStopped, Step
  <2>2. AppStore
    BY <1>3, Knows DEF ExtensionCommand, ExtensionBegin, ExtensionStart, ExtensionWait,
       ExtensionVerify, ExtensionStop, ExtensionStopped, Step, LabelOK, ExtensionSteps
  <2>. QED  BY <2>1, <2>2, ExtensionLeaves
<1>4. CASE BesideStep(t)
  BY <1>4, RepairLeaves DEF BesideStep, Unlocked
<1>. QED  BY <1>1, <1>2, <1>3, <1>4 DEF Progress

LEMMA NoEngineRuns ==
  ASSUME os'.local = {}, \A t \in Threads : LaunchOK(pc'[t], loc'[t], {})
  PROVE EngineInv'
  BY DEF EngineInv, LaunchOK, AllNamed, Windows

LEMMA EngineNext == ASSUME TypeInv, EngineInv, [Next]_vars PROVE EngineInv'
<1>1. ASSUME NEW t \in Threads, Call(t) \/ Progress(t) PROVE EngineInv'
  <2>1. Lawful(t)
    BY <1>1, ThreadLawful
  <2>2. CASE Unlocked(t)
    BY <2>1, <2>2, UnlockedSame, BesideSame
  <2>3. CASE ~Unlocked(t)
    <3>1. Progress(t)
      BY <1>1, <2>3 DEF Unlocked
    <3>. QED  BY <2>1, <2>3, <3>1, LockedLeaves, HolderLeaves
  <2>. QED  BY <2>2, <2>3
<1>2. CASE \/ RunSweep \/ EngineExit \/ ServiceStep \/ ServiceFails \/ ExtensionStep
           \/ ExtensionDrops \/ GuardianHeals
  BY <1>2, ExternalDrifts, EngineSame DEF External, Drifts
<1>3. CASE Quit
  BY <1>3, QuitStops, EngineSame DEF Quit, Stops, Quieter
<1>4. \A l, p : LaunchOK(p, l, {})
  BY DEF LaunchOK
<1>5. CASE Exit \/ Crash
  BY <1>4, <1>5, GoneShape, NoEngineRuns DEF Exit, Crash
<1>6. CASE Start
  BY <1>4, <1>6, StartShape, NoEngineRuns
<1>7. CASE UNCHANGED vars
  BY <1>7, EngineSame DEF vars
<1>. QED  BY <1>1, <1>2, <1>3, <1>5, <1>6, <1>7 DEF Next, System

\* In every run, an engine of the application that runs between commands is one that
\* ACTIVE_ENGINE names: the next connect stops it (lib.rs:6988).
THEOREM EnginesStayNamed == Spec => []EnginesAreNamed
<1>1. EngineInv => EnginesAreNamed
  BY DEF EngineInv, EnginesAreNamed, Rest, Launching, AllNamed, Named
<1>2. TypeInv /\ EngineInv /\ [Next]_vars => TypeInv' /\ EngineInv'
  BY TypeNext, EngineNext
<1>. QED  BY <1>1, <1>2, TypeInit, EngineInit, PTL DEF Spec

\* In every run at most one engine of the application runs: a connect starts one only
\* after it has stopped the one that ACTIVE_ENGINE names, and none runs without a name.
THEOREM OneEngineAtATime == Spec => []OneLocalEngine
<1>1. TypeInv /\ EngineInv => OneLocalEngine
  <2>. SUFFICES ASSUME TypeInv, EngineInv PROVE Cardinality(os.local) <= 1
    BY DEF OneLocalEngine
  <2>1. os.local \subseteq {"xray", "singbox"}
    BY DEF TypeInv, Sound, SystemType, LocalEngines
  <2>2. ~("xray" \in os.local /\ "singbox" \in os.local)
    <3>1. CASE AllNamed(mem.engine, os.local)
      BY <3>1 DEF AllNamed, Named, NamesXray, NamesSingbox
    <3>2. CASE \E t \in Threads : Launching(pc[t], loc[t])
      BY <3>2 DEF EngineInv, Launching, LaunchOK
    <3>. QED  BY <3>1, <3>2 DEF EngineInv
  <2>3. Cardinality({}) = 0 /\ Cardinality({"xray"}) = 1 /\ Cardinality({"singbox"}) = 1
    BY FS_EmptySet, FS_Singleton
  <2>4. os.local \in {{}, {"xray"}, {"singbox"}}
    BY <2>1, <2>2
  <2>. QED  BY <2>3, <2>4
<1>2. TypeInv /\ EngineInv /\ [Next]_vars => TypeInv' /\ EngineInv'
  BY TypeNext, EngineNext
<1>. QED  BY <1>1, <1>2, TypeInit, EngineInit, PTL DEF Spec
=============================================================================
