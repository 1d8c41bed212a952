------------------------ MODULE TunnelServiceProofs ------------------------
(***************************************************************************)
(* Proofs about TunnelService, for every set of threads, configurations,   *)
(* processes and jobs, every choice of inputs and every bound.             *)
(***************************************************************************)
EXTENDS TunnelService, TLAPS

-----------------------------------------------------------------------------
(* The parts of the type invariant.                                          *)

RuntimeOK == runtime \in Runtimes
OwnedOK == child \in [Engines -> Pids \cup {None}] /\ job \in Jobs \cup {None}
SystemOK == alive \subseteq Pids /\ jobOf \in [Pids -> Jobs \cup {None}]
ControlOK == opGen \in Nat /\ stopRequested \in BOOLEAN /\ wedged \in BOOLEAN
DiskOK == marker \in Nat \cup {None} /\ unclean \in BOOLEAN

\* the steps of a start, and those of a stop it waits for
StartLabels == {"busy_check", "new_generation", "queue", "start_check", "replace",
  "cleaned_check", "mark", "create_job", "spawn", "assign", "store", "wait_adapter",
  "adapter_timeout", "adapter_cancelled", "adapter_ready", "alive_check",
  "wait_routes", "route_ready", "dns_ready", "final_alive", "final_check", "publish",
  "failed", "failed_check", "set_failed"}
StopLabels == {"take", "kill", "settle", "unmark", "linger"}
StartReasons == {"replace_tunnel", "tun_adapter_repair", "failed_cleanup"}
NeedsRequest(label, reason) ==
  \/ label \in StartLabels
  \/ label \in StopLabels /\ reason \in StartReasons

\* a start keeps its request until it ends, through every stop it calls: without
\* this the op id it publishes has no type
HasRequest == \A t \in Actors :
  NeedsRequest(pc[t], loc[t].reason) => loc[t].request \in Requests

ThreadsOK == /\ pc \in [Actors -> Labels] /\ loc \in [Actors -> LocalStates]
             /\ HasRequest

\* The inductive strengthening of TypeOK.
TypeInv == TypeOK /\ HasRequest

LEMMA TypeParts ==
  TypeInv <=> RuntimeOK /\ OwnedOK /\ SystemOK /\ ControlOK /\ DiskOK /\ ThreadsOK
  BY DEF TypeInv, TypeOK, RuntimeOK, OwnedOK, SystemOK, ControlOK, DiskOK, ThreadsOK

LEMMA TypePartsNext ==
  TypeInv' <=> RuntimeOK' /\ OwnedOK' /\ SystemOK' /\ ControlOK' /\ DiskOK' /\ ThreadsOK'
  BY DEF TypeInv, TypeOK, RuntimeOK, OwnedOK, SystemOK, ControlOK, DiskOK, ThreadsOK

\* A part none of whose variables change is preserved.
LEMMA Unchanged ==
  ASSUME TypeInv
  PROVE /\ UNCHANGED runtime => RuntimeOK'
        /\ UNCHANGED <<child, job>> => OwnedOK'
        /\ UNCHANGED memory => RuntimeOK' /\ OwnedOK'
        /\ UNCHANGED system => SystemOK'
        /\ UNCHANGED control => ControlOK'
        /\ UNCHANGED disk => DiskOK'
        /\ UNCHANGED <<pc, loc>> => ThreadsOK'
  BY TypeParts DEF RuntimeOK, OwnedOK, SystemOK, ControlOK, DiskOK, ThreadsOK,
     memory, system, control, disk, HasRequest

-----------------------------------------------------------------------------
(* The records.                                                              *)

LEMMA NoLocalsType == NoLocals \in LocalStates
  BY Zenon DEF NoLocals, LocalStates, Engines, StopReasons

LEMMA DefaultRuntimeType == DefaultRuntime \in Runtimes
  BY Zenon DEF DefaultRuntime, Runtimes, States, EffectiveStates, Verdicts, ProxyStates

LEMMA LocalFields ==
  ASSUME NEW l \in LocalStates
  PROVE /\ l.gen \in Nat /\ l.request \in Requests \cup {None}
        /\ l.pid \in Pids \cup {None} /\ l.heldJob \in Jobs \cup {None}
        /\ l.held \in SUBSET Pids /\ l.op \in Ops \cup {None}
        /\ l.engine \in Engines /\ l.reason \in StopReasons
  BY Zenon DEF LocalStates

LEMMA ReasonType ==
  ASSUME NEW l \in LocalStates, NEW reason \in StopReasons
  PROVE /\ [l EXCEPT !.reason = reason] \in LocalStates
        /\ [l EXCEPT !.reason = reason].request = l.request
        /\ [l EXCEPT !.reason = reason].reason = reason
  BY Zenon DEF LocalStates

LEMMA RetryType ==
  ASSUME NEW l \in LocalStates
  PROVE /\ [l EXCEPT !.reason = "tun_adapter_repair", !.attempt = 2] \in LocalStates
        /\ [l EXCEPT !.reason = "tun_adapter_repair", !.attempt = 2].request = l.request
  BY Zenon DEF LocalStates, StopReasons

LEMMA GenType ==
  ASSUME NEW l \in LocalStates, NEW g \in Nat
  PROVE /\ [l EXCEPT !.gen = g] \in LocalStates
        /\ [l EXCEPT !.gen = g].request = l.request
        /\ [l EXCEPT !.gen = g].reason = l.reason
  BY Zenon DEF LocalStates

LEMMA OriginType ==
  ASSUME NEW l \in LocalStates, NEW o \in {"command", "event", "thread"}
  PROVE /\ [l EXCEPT !.origin = o] \in LocalStates
        /\ [l EXCEPT !.origin = o].request = l.request
        /\ [l EXCEPT !.origin = o].reason = l.reason
  BY Zenon DEF LocalStates

LEMMA EngineType ==
  ASSUME NEW l \in LocalStates, NEW e \in Engines
  PROVE /\ [l EXCEPT !.engine = e] \in LocalStates
        /\ [l EXCEPT !.engine = e].request = l.request
        /\ [l EXCEPT !.engine = e].reason = l.reason
  BY Zenon DEF LocalStates

LEMMA PidType ==
  ASSUME NEW l \in LocalStates, NEW p \in Pids \cup {None}
  PROVE /\ [l EXCEPT !.pid = p] \in LocalStates
        /\ [l EXCEPT !.pid = p].request = l.request
        /\ [l EXCEPT !.pid = p].reason = l.reason
  BY Zenon DEF LocalStates

LEMMA StoredType ==
  ASSUME NEW l \in LocalStates
  PROVE /\ [l EXCEPT !.pid = None, !.engine = "singbox"] \in LocalStates
        /\ [l EXCEPT !.pid = None, !.engine = "singbox"].request = l.request
        /\ [l EXCEPT !.pid = None, !.engine = "singbox"].reason = l.reason
  BY Zenon DEF LocalStates, Engines

LEMMA HeldType ==
  ASSUME NEW l \in LocalStates, NEW held \in SUBSET Pids, NEW j \in Jobs \cup {None}
  PROVE /\ [l EXCEPT !.held = held, !.heldJob = j] \in LocalStates
        /\ [l EXCEPT !.held = held, !.heldJob = j].request = l.request
        /\ [l EXCEPT !.held = held, !.heldJob = j].reason = l.reason
  BY Zenon DEF LocalStates

LEMMA RepairedType ==
  ASSUME NEW l \in LocalStates, NEW g \in Nat, NEW o \in Ops \cup {None}
  PROVE /\ [l EXCEPT !.gen = g, !.op = o] \in LocalStates
        /\ [l EXCEPT !.gen = g, !.op = o].request = l.request
        /\ [l EXCEPT !.gen = g, !.op = o].reason = l.reason
  BY Zenon DEF LocalStates

LEMMA RuntimeFields ==
  ASSUME NEW r \in Runtimes
  PROVE /\ r.gen \in Nat /\ r.op \in Ops \cup {None}
        /\ r.request \in Requests \cup {None}
        /\ r.eventSeq \in Nat /\ r.rotationSeq \in Nat
  BY Zenon DEF Runtimes

LEMMA RefreshedType == ASSUME NEW r \in Runtimes PROVE Refreshed(r) \in Runtimes
<1>0. /\ r.state \in States /\ r.effective \in EffectiveStates
      /\ r.verdict \in Verdicts /\ r.fatal \in SUBSET FatalChecks
      /\ r.degraded \in SUBSET DegradedChecks
  BY Zenon DEF Runtimes
<1>1. CASE r.state = "Connected" /\ (r.fatal # {} \/ ~Ready(r))
  <2>. DEFINE f == IF r.fatal = {} THEN {"core_incomplete"} ELSE r.fatal
  <2>1. Refreshed(r) = [r EXCEPT !.effective = "Failed", !.verdict = "Failed", !.fatal = f]
    BY <1>1 DEF Refreshed
  <2>2. f \in SUBSET FatalChecks
    BY <1>0 DEF FatalChecks
  <2>3. "Failed" \in EffectiveStates /\ "Failed" \in Verdicts
    BY DEF EffectiveStates, Verdicts
  <2>. HIDE DEF f
  <2>4. [r EXCEPT !.effective = "Failed", !.verdict = "Failed", !.fatal = f] \in Runtimes
    BY <2>2, <2>3, Zenon DEF Runtimes
  <2>. QED  BY <2>1, <2>4
<1>2. CASE r.state = "Connected" /\ r.fatal = {} /\ Ready(r)
  <2>. DEFINE d == r.degraded \cup
                (IF r.effective \in {"Suspect", "Repairing"} THEN {"recent_event"} ELSE {})
              l == IF d # {} \/ r.proxy \in {"pending", "failed", "degraded"}
                   THEN "ProtectedDegraded" ELSE "Protected"
  <2>1. Refreshed(r) = [r EXCEPT !.degraded = d, !.effective = l, !.verdict = l]
    BY <1>2 DEF Refreshed
  <2>2. d \in SUBSET DegradedChecks /\ l \in EffectiveStates /\ l \in Verdicts
    BY <1>0 DEF DegradedChecks, EffectiveStates, Verdicts
  <2>. HIDE DEF d, l
  <2>4. [r EXCEPT !.degraded = d, !.effective = l, !.verdict = l] \in Runtimes
    BY <2>2, Zenon DEF Runtimes
  <2>. QED  BY <2>1, <2>4
<1>3. CASE r.state = "Connecting"
  <2>. DEFINE e == IF r.effective = "Preparing" THEN r.effective ELSE "Connecting"
  <2>1. Refreshed(r) = [r EXCEPT !.effective = e, !.verdict = "Repairing"]
    BY <1>3 DEF Refreshed
  <2>2. e \in EffectiveStates /\ "Repairing" \in Verdicts
    BY <1>0 DEF EffectiveStates, Verdicts
  <2>. HIDE DEF e
  <2>4. [r EXCEPT !.effective = e, !.verdict = "Repairing"] \in Runtimes
    BY <2>2, Zenon DEF Runtimes
  <2>. QED  BY <2>1, <2>4
<1>4. CASE r.state = "Disconnecting" \/ r.state = "Failed"
  <2>1. \E e \in EffectiveStates, v \in Verdicts :
          Refreshed(r) = [r EXCEPT !.effective = e, !.verdict = v]
    BY <1>4 DEF Refreshed, EffectiveStates, Verdicts
  <2>. QED  BY <2>1, Zenon DEF Runtimes
<1>5. CASE r.state = "Disconnected"
  <2>. DEFINE v == IF r.verdict = "CleanupPending" THEN r.verdict ELSE "Failed"
  <2>1. Refreshed(r) = [r EXCEPT !.effective = "Idle", !.verdict = v]
    BY <1>5 DEF Refreshed
  <2>2. "Idle" \in EffectiveStates /\ v \in Verdicts
    BY <1>0 DEF EffectiveStates, Verdicts
  <2>. HIDE DEF v
  <2>4. [r EXCEPT !.effective = "Idle", !.verdict = v] \in Runtimes
    BY <2>2, Zenon DEF Runtimes
  <2>. QED  BY <2>1, <2>4
<1>. QED  BY <1>0, <1>1, <1>2, <1>3, <1>4, <1>5 DEF States

LEMMA FailedType == ASSUME NEW r \in Runtimes PROVE Failed(r) \in Runtimes
<1> DEFINE f == r.fatal \cup {"engine_failure"}
<1> DEFINE no == FALSE
<1>1. f \in SUBSET FatalChecks
  BY DEF Runtimes, FatalChecks
<1>2. /\ "Failed" \in States /\ "Failed" \in EffectiveStates
      /\ "Failed" \in Verdicts /\ "failed" \in ProxyStates /\ no \in BOOLEAN
  BY DEF States, EffectiveStates, Verdicts, ProxyStates
<1>3. Failed(r) = [r EXCEPT
        !.state = "Failed", !.effective = "Failed", !.verdict = "Failed",
        !.ports = no, !.adapter = no, !.route = no, !.dns = no,
        !.proxy = "failed", !.fatal = f]
  BY Zenon DEF Failed
<1>. HIDE DEF f, no
<1>4. [r EXCEPT
        !.state = "Failed", !.effective = "Failed", !.verdict = "Failed",
        !.ports = no, !.adapter = no, !.route = no, !.dns = no,
        !.proxy = "failed", !.fatal = f] \in Runtimes
  BY <1>1, <1>2, Zenon DEF Runtimes
<1>. QED  BY <1>3, <1>4

LEMMA PreparingType ==
  ASSUME NEW r \in Runtimes, NEW request \in Requests, NEW gen \in Nat
  PROVE Preparing(r, request, gen) \in Runtimes
<1> DEFINE o == request.op
<1> DEFINE yes == TRUE
<1> DEFINE no == FALSE
<1>1. o \in Ops \cup {None}
  BY DEF Requests
<1>2. /\ "Connecting" \in States /\ "Preparing" \in EffectiveStates
      /\ "Repairing" \in Verdicts /\ "pending" \in ProxyStates
      /\ yes \in BOOLEAN /\ no \in BOOLEAN
  BY DEF States, EffectiveStates, Verdicts, ProxyStates
<1>3. Preparing(r, request, gen) = [r EXCEPT
        !.state = "Connecting", !.effective = "Preparing",
        !.verdict = "Repairing", !.op = o, !.gen = gen,
        !.ports = yes, !.adapter = no, !.route = no, !.dns = no,
        !.proxy = "pending", !.fatal = {}, !.degraded = {}]
  BY Zenon DEF Preparing
<1>. HIDE DEF o, yes, no
<1>4. [r EXCEPT
        !.state = "Connecting", !.effective = "Preparing",
        !.verdict = "Repairing", !.op = o, !.gen = gen,
        !.ports = yes, !.adapter = no, !.route = no, !.dns = no,
        !.proxy = "pending", !.fatal = {}, !.degraded = {}] \in Runtimes
  BY <1>1, <1>2, Zenon DEF Runtimes
<1>. QED  BY <1>3, <1>4

-----------------------------------------------------------------------------
(* What the helpers do to the parts.                                         *)

LEMMA OwnLocals == ASSUME TypeInv, NEW t \in Actors PROVE loc[t] \in LocalStates
  BY DEF TypeInv, TypeOK

LEMMA OwnRequest ==
  ASSUME TypeInv, NEW t \in Actors, NeedsRequest(pc[t], loc[t].reason)
  PROVE loc[t].request \in Requests
  BY DEF TypeInv, HasRequest

\* A thread that moves keeps the others as they are.
LEMMA MoveLocalsType ==
  ASSUME TypeInv, NEW t \in Actors, NEW l \in Labels, NEW r \in LocalStates,
         Goto(t, l), Locals(t, r), NeedsRequest(l, r.reason) => r.request \in Requests
  PROVE ThreadsOK'
<1>1. pc' \in [Actors -> Labels]  BY DEF Goto, TypeInv, TypeOK
<1>2. loc' \in [Actors -> LocalStates]  BY DEF Locals, TypeInv, TypeOK
<1>3. ASSUME NEW u \in Actors, NeedsRequest(pc'[u], loc'[u].reason)
      PROVE loc'[u].request \in Requests
  <2>1. CASE u = t
    <3>1. pc'[t] = l /\ loc'[t] = r  BY DEF Goto, Locals, TypeInv, TypeOK
    <3>. QED  BY <1>3, <2>1, <3>1
  <2>2. CASE u # t
    <3>1. pc'[u] = pc[u] /\ loc'[u] = loc[u]
      BY <2>2 DEF Goto, Locals, TypeInv, TypeOK
    <3>. QED  BY <1>3, <3>1, OwnRequest
  <2>. QED  BY <2>1, <2>2
<1>. QED  BY <1>1, <1>2, <1>3 DEF ThreadsOK, HasRequest

LEMMA MoveType ==
  ASSUME TypeInv, NEW t \in Actors, NEW l \in Labels, Goto(t, l), UNCHANGED loc,
         NeedsRequest(l, loc[t].reason) => loc[t].request \in Requests
  PROVE ThreadsOK'
<1>1. loc[t] \in LocalStates /\ Locals(t, loc[t])
  BY DEF TypeInv, TypeOK, Locals
<1>. QED  BY <1>1, MoveLocalsType

\* The moves by label: within a start, within a stop, and to any other label.
FreeLabels == Labels \ (StartLabels \cup StopLabels)

LEMMA StartRequest ==
  ASSUME TypeInv, NEW t \in Actors, pc[t] \in StartLabels
  PROVE loc[t].request \in Requests
<1>1. NeedsRequest(pc[t], loc[t].reason)  BY DEF NeedsRequest
<1>. QED  BY <1>1, OwnRequest

LEMMA StartMove ==
  ASSUME TypeInv, NEW t \in Actors, pc[t] \in StartLabels,
         NEW l \in Labels, NEW r \in LocalStates, r.request = loc[t].request,
         Goto(t, l), Locals(t, r)
  PROVE ThreadsOK'
  BY StartRequest, MoveLocalsType

LEMMA StopMove ==
  ASSUME TypeInv, NEW t \in Actors, pc[t] \in StopLabels,
         NEW l \in StopLabels, NEW r \in LocalStates,
         r.request = loc[t].request, r.reason = loc[t].reason,
         Goto(t, l), Locals(t, r)
  PROVE ThreadsOK'
<1>1. NeedsRequest(l, r.reason) => NeedsRequest(pc[t], loc[t].reason)
  BY DEF NeedsRequest, StartLabels, StopLabels
<1>2. l \in Labels  BY DEF StopLabels, Labels
<1>. QED  BY <1>1, <1>2, OwnRequest, MoveLocalsType

LEMMA FreeMove ==
  ASSUME TypeInv, NEW t \in Actors, NEW l \in FreeLabels, NEW r \in LocalStates,
         Goto(t, l), Locals(t, r)
  PROVE ThreadsOK'
  BY MoveLocalsType DEF FreeLabels, NeedsRequest

\* A thread that keeps its locals may be seen as writing them again.
LEMMA SameLocals ==
  ASSUME TypeInv, NEW t \in Actors, UNCHANGED loc
  PROVE Locals(t, loc[t]) /\ loc[t] \in LocalStates
  BY DEF TypeInv, TypeOK, Locals

LEMMA FinishType ==
  ASSUME TypeInv, NEW t \in Actors, Finish(t)
  PROVE ThreadsOK'
  BY NoLocalsType, MoveLocalsType
     DEF Finish, Labels, NeedsRequest, StartLabels, StopLabels

LEMMA StopOwnedType ==
  ASSUME TypeInv, NEW t \in Actors, NEW reason \in StopReasons, StopOwned(t, reason),
         reason \in StartReasons => loc[t].request \in Requests
  PROVE ThreadsOK'
<1>. DEFINE r == [loc[t] EXCEPT !.reason = reason]
<1>1. r \in LocalStates  BY OwnLocals, ReasonType
<1>2. r.reason = reason /\ r.request = loc[t].request  BY OwnLocals, ReasonType
<1>3. NeedsRequest("take", r.reason) => r.request \in Requests
  BY <1>2 DEF NeedsRequest, StartLabels
<1>4. Goto(t, "take") /\ Locals(t, r)  BY DEF StopOwned
<1>. HIDE DEF r
<1>. QED  BY <1>1, <1>3, <1>4, MoveLocalsType DEF Labels

LEMMA BringUpErrorType ==
  ASSUME TypeInv, NEW t \in Actors, NEW b, BringUpError(t, b),
         loc[t].request \in Requests
  PROVE ThreadsOK'
<1>. DEFINE r == [loc[t] EXCEPT !.reason = "tun_adapter_repair", !.attempt = 2]
<1>1. r \in LocalStates  BY OwnLocals, RetryType
<1>2. r.request = loc[t].request  BY OwnLocals, RetryType
<1>3. CASE b /\ loc[t].attempt = 1
  <2>1. Goto(t, "take") /\ Locals(t, r)  BY <1>3 DEF BringUpError
  <2>. HIDE DEF r
  <2>. QED  BY <1>1, <1>2, <2>1, MoveLocalsType DEF Labels
<1>4. CASE ~(b /\ loc[t].attempt = 1)
  BY <1>4, MoveType DEF BringUpError, Labels
<1>. QED  BY <1>3, <1>4

LEMMA IfCurrentType ==
  ASSUME TypeInv, NEW t \in Actors, NEW l \in Labels, IfCurrent(t, l),
         loc[t].request \in Requests
  PROVE ThreadsOK'
  BY BringUpErrorType, MoveType DEF IfCurrent

LEMMA RepairErrorType ==
  ASSUME TypeInv, NEW t \in Actors, RepairError(t)
  PROVE ThreadsOK'
  BY FinishType, MoveType
     DEF RepairError, Labels, NeedsRequest, StartLabels, StopLabels

LEMMA RepairWaitType ==
  ASSUME TypeInv, NEW t \in Actors, NEW l \in Labels \ (StartLabels \cup StopLabels),
         RepairWait(t, l)
  PROVE ThreadsOK'
  BY RepairErrorType, MoveType DEF RepairWait, NeedsRequest

LEMMA ExitType ==
  ASSUME TypeInv, NEW dead, Exit(dead)
  PROVE SystemOK'
  BY DEF Exit, SystemOK, TypeInv, TypeOK

LEMMA MarkFailedType ==
  ASSUME TypeInv, MarkFailed
  PROVE RuntimeOK' /\ OwnedOK' /\ SystemOK'
  BY FailedType, ExitType DEF MarkFailed, RuntimeOK, OwnedOK, TypeInv, TypeOK

LEMMA RefreshRuntimeType ==
  ASSUME TypeInv, RefreshRuntime
  PROVE RuntimeOK' /\ OwnedOK' /\ SystemOK'
  BY MarkFailedType, RefreshedType, Unchanged DEF RefreshRuntime, RuntimeOK, TypeInv, TypeOK

-----------------------------------------------------------------------------
(* A start.                                                                  *)

LEMMA StartTunnelType ==
  ASSUME TypeInv, NEW t \in Threads, NEW request \in Requests, StartTunnel(t, request)
  PROVE TypeInv'
<1>. DEFINE accepted == [NoLocals EXCEPT !.request = request, !.origin = "command"]
            r == Refreshed(runtime)
            reused == [r EXCEPT !.op = request.op, !.request = request,
                                !.route = FALSE, !.dns = FALSE]
            warmed == [NoLocals EXCEPT !.request = request, !.gen = r.gen,
                                       !.origin = "command"]
<1>1. t \in Actors  BY DEF Actors
<1>2. accepted \in LocalStates /\ accepted.request = request
  BY Zenon DEF NoLocals, LocalStates, Engines, StopReasons
<1>3. r \in Runtimes  BY RefreshedType DEF TypeInv, TypeOK
<1>4. reused \in Runtimes
  <2>. HIDE DEF r
  <2>. QED  BY <1>3, Zenon DEF Runtimes, Requests
<1>5. warmed \in LocalStates /\ warmed.request = request
  <2>1. r.gen \in Nat  BY <1>3, RuntimeFields
  <2>. HIDE DEF r
  <2>. QED  BY <2>1, Zenon DEF NoLocals, LocalStates, Engines, StopReasons
<1>6. ControlOK' /\ DiskOK'  BY Unchanged DEF StartTunnel
<1>7. CASE EngineLost
  <2>1. MarkFailed /\ Goto(t, "busy_check") /\ Locals(t, accepted)
    BY <1>7 DEF StartTunnel
  <2>. HIDE DEF accepted
  <2>2. ThreadsOK'  BY <1>1, <1>2, <2>1, MoveLocalsType DEF Labels
  <2>. QED  BY <1>6, <2>1, <2>2, MarkFailedType, TypePartsNext
<1>8. CASE ~EngineLost
  <2>1. /\ runtime' \in {reused, r} /\ UNCHANGED <<child, job>> /\ UNCHANGED system
        /\ Goto(t, "warm_mark") \/ Goto(t, "busy_check")
        /\ Locals(t, warmed)
    BY <1>8 DEF StartTunnel
  <2>2. RuntimeOK'  BY <2>1, <1>3, <1>4 DEF RuntimeOK
  <2>. HIDE DEF warmed
  <2>3. ThreadsOK'  BY <1>1, <1>5, <2>1, MoveLocalsType DEF Labels
  <2>. QED  BY <1>6, <2>1, <2>2, <2>3, Unchanged, TypePartsNext
<1>. QED  BY <1>7, <1>8

LEMMA WarmMarkType == ASSUME TypeInv, NEW t \in Actors, WarmMark(t) PROVE TypeInv'
<1>1. DiskOK'
  BY OwnLocals, LocalFields DEF WarmMark, DiskOK, TypeInv, TypeOK
<1>2. ThreadsOK'
  BY SameLocals, FreeMove DEF WarmMark, Step, FreeLabels, Labels, StartLabels, StopLabels
<1>. QED  BY <1>1, <1>2, TypePartsNext, Unchanged DEF WarmMark

LEMMA BusyCheckType == ASSUME TypeInv, NEW t \in Actors, BusyCheck(t) PROVE TypeInv'
<1>1. PICK l \in {"snapshot", "new_generation"} : Goto(t, l)  BY DEF BusyCheck
<1>2. pc[t] \in StartLabels  BY DEF BusyCheck, At, StartLabels
<1>3. ThreadsOK'  BY <1>1, <1>2, SameLocals, StartMove DEF BusyCheck, Labels
<1>. QED  BY <1>3, TypePartsNext, Unchanged DEF BusyCheck

LEMMA NewGenerationType ==
  ASSUME TypeInv, NEW t \in Actors, NewGeneration(t)
  PROVE TypeInv'
<1>. DEFINE r == [loc[t] EXCEPT !.gen = opGen + 1]
<1>1. opGen + 1 \in Nat  BY DEF TypeInv, TypeOK
<1>2. r \in LocalStates /\ r.request = loc[t].request  BY <1>1, OwnLocals, GenType
<1>3. ControlOK'  BY DEF NewGeneration, ControlOK, TypeInv, TypeOK
<1>4. Goto(t, "queue") /\ Locals(t, r) /\ pc[t] \in StartLabels
  BY DEF NewGeneration, Step, At, StartLabels
<1>. HIDE DEF r
<1>5. ThreadsOK'  BY <1>2, <1>4, StartMove DEF Labels
<1>. QED  BY <1>3, <1>5, TypePartsNext, Unchanged DEF NewGeneration, disk

LEMMA QueueType == ASSUME TypeInv, NEW t \in Actors, Queue(t) PROVE TypeInv'
<1>. DEFINE r == [loc[t] EXCEPT !.origin = "thread"]
            p == Preparing(runtime, loc[t].request, loc[t].gen)
<1>1. pc[t] \in StartLabels  BY DEF Queue, Step, At, StartLabels
<1>2. loc[t].request \in Requests /\ loc[t].gen \in Nat
  BY <1>1, StartRequest, OwnLocals, LocalFields
<1>3. p \in Runtimes  BY <1>2, PreparingType DEF TypeInv, TypeOK
<1>4. [p EXCEPT !.request = loc[t].request] \in Runtimes
  <2>. HIDE DEF p
  <2>. QED  BY <1>2, <1>3, Zenon DEF Runtimes
<1>5. RuntimeOK'  BY <1>4 DEF Queue, RuntimeOK
<1>6. r \in LocalStates /\ r.request = loc[t].request  BY OwnLocals, OriginType
<1>7. Goto(t, "start_check") /\ Locals(t, r)  BY DEF Queue, Step
<1>. HIDE DEF r
<1>8. ThreadsOK'  BY <1>1, <1>6, <1>7, StartMove DEF Labels
<1>. QED  BY <1>5, <1>8, TypePartsNext, Unchanged DEF Queue

LEMMA StartCheckType == ASSUME TypeInv, NEW t \in Actors, StartCheck(t) PROVE TypeInv'
<1>1. pc[t] \in StartLabels  BY DEF StartCheck, Step, At, StartLabels
<1>2. loc[t].request \in Requests  BY <1>1, StartRequest
<1>3. ThreadsOK'  BY <1>1, <1>2, IfCurrentType DEF StartCheck, Labels
<1>. QED  BY <1>3, TypePartsNext, Unchanged DEF StartCheck

LEMMA ReplaceType == ASSUME TypeInv, NEW t \in Actors, Replace(t) PROVE TypeInv'
<1>1. pc[t] \in StartLabels  BY DEF Replace, At, StartLabels
<1>2. loc[t].request \in Requests /\ loc[t].gen \in Nat
  BY <1>1, StartRequest, OwnLocals, LocalFields
<1>3. RuntimeOK'  BY <1>2, PreparingType DEF Replace, RuntimeOK, TypeInv, TypeOK
<1>4. ThreadsOK'  BY <1>2, StopOwnedType DEF Replace, StopReasons
<1>. QED  BY <1>3, <1>4, TypePartsNext, Unchanged DEF Replace

LEMMA CleanedCheckType == ASSUME TypeInv, NEW t \in Actors, CleanedCheck(t) PROVE TypeInv'
<1>1. pc[t] \in StartLabels  BY DEF CleanedCheck, Step, At, StartLabels
<1>2. loc[t].request \in Requests  BY <1>1, StartRequest
<1>3. ThreadsOK'  BY <1>1, <1>2, IfCurrentType DEF CleanedCheck, Labels
<1>. QED  BY <1>3, TypePartsNext, Unchanged DEF CleanedCheck

\* the fields a retry, and a fresh job, publish
LEMMA RetryingType ==
  ASSUME NEW r \in Runtimes, NEW request \in Requests, NEW g \in Nat
  PROVE [r EXCEPT !.state = "Connecting", !.effective = "Repairing",
           !.verdict = "Repairing", !.op = request.op, !.gen = g] \in Runtimes
  BY Zenon DEF Runtimes, Requests, States, EffectiveStates, Verdicts

LEMMA BringUpType ==
  ASSUME NEW r \in Runtimes, NEW request \in Requests, NEW g \in Nat
  PROVE [r EXCEPT !.state = "Connecting", !.effective = "Connecting",
           !.verdict = "Repairing", !.op = request.op, !.gen = g, !.ports = TRUE]
          \in Runtimes
  BY Zenon DEF Runtimes, Requests, States, EffectiveStates, Verdicts

\* one readiness flag set
LEMMA ReadyType ==
  ASSUME NEW r \in Runtimes
  PROVE /\ [r EXCEPT !.ports = TRUE] \in Runtimes
        /\ [r EXCEPT !.adapter = TRUE] \in Runtimes
        /\ [r EXCEPT !.route = TRUE] \in Runtimes
        /\ [r EXCEPT !.dns = TRUE] \in Runtimes
        /\ [r EXCEPT !.route = TRUE, !.dns = TRUE] \in Runtimes
  BY Zenon DEF Runtimes

LEMMA WriteMarkerType == ASSUME TypeInv, NEW t \in Actors, WriteMarker(t) PROVE TypeInv'
<1>1. pc[t] \in StartLabels  BY DEF WriteMarker, Step, At, StartLabels
<1>2. loc[t].request \in Requests /\ loc[t].gen \in Nat
  BY <1>1, StartRequest, OwnLocals, LocalFields
<1>3. RuntimeOK'
  BY <1>2, RetryingType DEF WriteMarker, RuntimeOK, TypeInv, TypeOK
<1>4. DiskOK'  BY <1>2 DEF WriteMarker, DiskOK, TypeInv, TypeOK
<1>5. ThreadsOK'  BY <1>2, MoveType DEF WriteMarker, Step, Labels
<1>. QED  BY <1>3, <1>4, <1>5, TypePartsNext, Unchanged DEF WriteMarker

LEMMA CreateJobType == ASSUME TypeInv, NEW t \in Actors, CreateJob(t) PROVE TypeInv'
<1>. DEFINE r == [loc[t] EXCEPT !.engine = FirstEngine(loc[t].request.config)]
<1>1. pc[t] \in StartLabels  BY DEF CreateJob, At, StartLabels
<1>2. loc[t].request \in Requests /\ loc[t].gen \in Nat
  BY <1>1, StartRequest, OwnLocals, LocalFields
<1>3. RuntimeOK'
  BY <1>2, BringUpType DEF CreateJob, RuntimeOK, TypeInv, TypeOK
<1>4. OwnedOK'
  <2>1. job' \in Jobs  BY DEF CreateJob, Fresh
  <2>. QED  BY <2>1 DEF CreateJob, OwnedOK, TypeInv, TypeOK
<1>5. SystemOK'  BY ExitType DEF CreateJob
<1>6. r \in LocalStates /\ r.request = loc[t].request
  BY OwnLocals, EngineType DEF FirstEngine, Engines
<1>7. ThreadsOK'
  <2>1. CASE Current(t)
    <3>1. Goto(t, "spawn") /\ Locals(t, r)  BY <2>1 DEF CreateJob
    <3>. HIDE DEF r
    <3>. QED  BY <1>1, <1>6, <3>1, StartMove DEF Labels
  <2>2. CASE ~Current(t)
    BY <1>2, <2>2, BringUpErrorType DEF CreateJob
  <2>. QED  BY <2>1, <2>2
<1>. QED  BY <1>3, <1>4, <1>5, <1>7, TypePartsNext, Unchanged DEF CreateJob

LEMMA JobErrorType == ASSUME TypeInv, NEW t \in Actors, JobError(t) PROVE TypeInv'
<1>1. pc[t] \in StartLabels  BY DEF JobError, At, StartLabels
<1>2. loc[t].request \in Requests  BY <1>1, StartRequest
<1>3. ThreadsOK'  BY <1>2, BringUpErrorType DEF JobError
<1>4. RuntimeOK'  BY ReadyType DEF JobError, RuntimeOK, TypeInv, TypeOK
<1>. QED  BY <1>3, <1>4, TypePartsNext, Unchanged DEF JobError

LEMMA SpawnType == ASSUME TypeInv, NEW t \in Actors, Spawn(t) PROVE TypeInv'
<1>. DEFINE p == Fresh(Pids, UsedPids)
            r == [loc[t] EXCEPT !.pid = p]
<1>1. pc[t] \in StartLabels  BY DEF Spawn, At, StartLabels
<1>2. loc[t].request \in Requests  BY <1>1, StartRequest
<1>3. RuntimeOK' /\ OwnedOK' /\ ControlOK' /\ DiskOK'  BY Unchanged DEF Spawn
<1>4. CASE /\ Pids \ UsedPids # {} /\ alive' = alive \cup {p}
           /\ Locals(t, r) /\ Goto(t, "assign")
  <2>1. p \in Pids  BY <1>4 DEF Fresh
  <2>. HIDE DEF p
  <2>2. r \in LocalStates /\ r.request = loc[t].request  BY <2>1, OwnLocals, PidType
  <2>3. SystemOK'  BY <1>4, <2>1 DEF Spawn, SystemOK, TypeInv, TypeOK
  <2>. HIDE DEF r
  <2>4. ThreadsOK'  BY <1>1, <1>4, <2>2, StartMove DEF Labels
  <2>. QED  BY <1>3, <2>3, <2>4, TypePartsNext
<1>5. CASE BringUpError(t, FALSE) /\ UNCHANGED alive
  <2>1. SystemOK'  BY <1>5 DEF Spawn, SystemOK, TypeInv, TypeOK
  <2>2. ThreadsOK'  BY <1>2, <1>5, BringUpErrorType
  <2>. QED  BY <1>3, <2>1, <2>2, TypePartsNext
<1>. QED  BY <1>4, <1>5 DEF Spawn

LEMMA AssignType == ASSUME TypeInv, NEW t \in Actors, Assign(t) PROVE TypeInv'
<1>. DEFINE r == [loc[t] EXCEPT !.pid = None]
<1>1. pc[t] \in StartLabels  BY DEF Assign, At, StartLabels
<1>2. r \in LocalStates /\ r.request = loc[t].request  BY OwnLocals, PidType
<1>3. SystemOK'  BY DEF Assign, SystemOK, TypeInv, TypeOK
<1>4. \/ Goto(t, "store") /\ UNCHANGED loc
      \/ Goto(t, "failed") /\ Locals(t, r)
  BY DEF Assign
<1>. HIDE DEF r
<1>5. ThreadsOK'  BY <1>1, <1>2, <1>4, SameLocals, StartMove DEF Labels
<1>. QED  BY <1>3, <1>5, TypePartsNext, Unchanged DEF Assign

LEMMA StoreType == ASSUME TypeInv, NEW t \in Actors, Store(t) PROVE TypeInv'
<1>. DEFINE r == [loc[t] EXCEPT !.pid = None, !.engine = "singbox"]
<1>1. pc[t] \in StartLabels  BY DEF Store, At, StartLabels
<1>2. r \in LocalStates /\ r.request = loc[t].request  BY OwnLocals, StoredType
<1>3. loc[t].engine \in Engines /\ loc[t].pid \in Pids \cup {None}
  BY OwnLocals, LocalFields
<1>4. OwnedOK'  BY <1>3 DEF Store, OwnedOK, TypeInv, TypeOK
<1>5. PICK l \in {"failed", "spawn", "wait_adapter"} : Goto(t, l)  BY DEF Store
<1>6. Locals(t, r)  BY DEF Store
<1>. HIDE DEF r
<1>7. ThreadsOK'  BY <1>1, <1>2, <1>5, <1>6, StartMove DEF Labels
<1>. QED  BY <1>4, <1>7, TypePartsNext, Unchanged DEF Store

LEMMA WaitAdapterType == ASSUME TypeInv, NEW t \in Actors, WaitAdapter(t) PROVE TypeInv'
<1>1. pc[t] \in StartLabels  BY DEF WaitAdapter, Step, At, StartLabels
<1>2. loc[t].request \in Requests  BY <1>1, StartRequest
<1>3. ThreadsOK'  BY <1>1, <1>2, MoveType DEF WaitAdapter, Labels
<1>. QED  BY <1>3, TypePartsNext, Unchanged DEF WaitAdapter

LEMMA AdapterErrorType == ASSUME TypeInv, NEW t \in Actors, NEW from \in {"adapter_timeout", "adapter_cancelled"}, AdapterError(t, from) PROVE TypeInv'
<1>1. pc[t] \in StartLabels  BY DEF AdapterError, Step, At, StartLabels
<1>2. loc[t].request \in Requests  BY <1>1, StartRequest
<1>3. ThreadsOK'  BY <1>1, <1>2, BringUpErrorType DEF AdapterError, FatalLog, Labels
<1>. QED  BY <1>3, TypePartsNext, Unchanged DEF AdapterError

LEMMA AdapterReadyType == ASSUME TypeInv, NEW t \in Actors, AdapterReady(t) PROVE TypeInv'
<1>1. pc[t] \in StartLabels  BY DEF AdapterReady, Step, At, StartLabels
<1>2. loc[t].request \in Requests  BY <1>1, StartRequest
<1>3. ThreadsOK'  BY <1>1, <1>2, IfCurrentType DEF AdapterReady, Labels
<1>4. RuntimeOK'  BY ReadyType DEF AdapterReady, RuntimeOK, TypeInv, TypeOK
<1>. QED  BY <1>3, <1>4, TypePartsNext, Unchanged DEF AdapterReady

LEMMA AliveCheckType == ASSUME TypeInv, NEW t \in Actors, NEW from \in {"alive_check", "final_alive"},
         NEW to \in {"wait_routes", "final_check"}, NEW first, AliveCheck(t, from, to, first)
  PROVE TypeInv'
<1>1. pc[t] \in StartLabels  BY DEF AliveCheck, Step, At, StartLabels
<1>2. loc[t].request \in Requests  BY <1>1, StartRequest
<1>3. ThreadsOK'  BY <1>1, <1>2, BringUpErrorType, MoveType DEF AliveCheck, FatalLog, Labels
<1>. QED  BY <1>3, TypePartsNext, Unchanged DEF AliveCheck

LEMMA WaitRoutesType == ASSUME TypeInv, NEW t \in Actors, WaitRoutes(t) PROVE TypeInv'
<1>1. pc[t] \in StartLabels  BY DEF WaitRoutes, Step, At, StartLabels
<1>2. loc[t].request \in Requests  BY <1>1, StartRequest
<1>3. ThreadsOK'  BY <1>1, <1>2, IfCurrentType, BringUpErrorType DEF WaitRoutes, Labels
<1>. QED  BY <1>3, TypePartsNext, Unchanged DEF WaitRoutes

LEMMA RouteReadyType == ASSUME TypeInv, NEW t \in Actors, RouteReady(t) PROVE TypeInv'
<1>1. pc[t] \in StartLabels  BY DEF RouteReady, Step, At, StartLabels
<1>2. loc[t].request \in Requests  BY <1>1, StartRequest
<1>3. ThreadsOK'  BY <1>1, <1>2, IfCurrentType DEF RouteReady, Labels
<1>4. RuntimeOK'  BY ReadyType DEF RouteReady, RuntimeOK, TypeInv, TypeOK
<1>. QED  BY <1>3, <1>4, TypePartsNext, Unchanged DEF RouteReady

LEMMA DnsReadyType == ASSUME TypeInv, NEW t \in Actors, DnsReady(t) PROVE TypeInv'
<1>1. pc[t] \in StartLabels  BY DEF DnsReady, Step, At, StartLabels
<1>2. loc[t].request \in Requests  BY <1>1, StartRequest
<1>3. ThreadsOK'  BY <1>1, <1>2, IfCurrentType DEF DnsReady, Labels
<1>4. RuntimeOK'  BY ReadyType DEF DnsReady, RuntimeOK, TypeInv, TypeOK
<1>. QED  BY <1>3, <1>4, TypePartsNext, Unchanged DEF DnsReady

LEMMA FinalCheckType == ASSUME TypeInv, NEW t \in Actors, FinalCheck(t) PROVE TypeInv'
<1>1. pc[t] \in StartLabels  BY DEF FinalCheck, Step, At, StartLabels
<1>2. loc[t].request \in Requests  BY <1>1, StartRequest
<1>3. ThreadsOK'  BY <1>1, <1>2, IfCurrentType, BringUpErrorType DEF FinalCheck, Labels
<1>. QED  BY <1>3, TypePartsNext, Unchanged DEF FinalCheck

LEMMA PublishType == ASSUME TypeInv, NEW t \in Actors, Publish(t) PROVE TypeInv'
<1>1. ASSUME NEW r \in Runtimes, NEW level \in EffectiveStates \cap Verdicts
      PROVE [r EXCEPT !.state = "Connected", !.effective = level, !.verdict = level,
               !.proxy = "core_connected"] \in Runtimes
  BY Zenon DEF Runtimes, States, ProxyStates
<1>2. RuntimeOK'
  BY <1>1 DEF Publish, RuntimeOK, TypeInv, TypeOK, EffectiveStates, Verdicts
<1>3. ThreadsOK'  BY FinishType DEF Publish
<1>. QED  BY <1>2, <1>3, TypePartsNext, Unchanged DEF Publish

LEMMA StartFailedType == ASSUME TypeInv, NEW t \in Actors, StartFailed(t) PROVE TypeInv'
<1>1. pc[t] \in StartLabels  BY DEF StartFailed, Step, At, StartLabels
<1>2. loc[t].request \in Requests  BY <1>1, StartRequest
<1>3. ThreadsOK'  BY <1>1, <1>2, FinishType, StopOwnedType DEF StartFailed, Labels, StopReasons
<1>. QED  BY <1>3, TypePartsNext, Unchanged DEF StartFailed

LEMMA FailedCheckType == ASSUME TypeInv, NEW t \in Actors, FailedCheck(t) PROVE TypeInv'
<1>1. pc[t] \in StartLabels  BY DEF FailedCheck, Step, At, StartLabels
<1>2. loc[t].request \in Requests  BY <1>1, StartRequest
<1>3. ThreadsOK'  BY <1>1, <1>2, FinishType, MoveType DEF FailedCheck, Labels
<1>. QED  BY <1>3, TypePartsNext, Unchanged DEF FailedCheck

LEMMA SetFailedType == ASSUME TypeInv, NEW t \in Actors, SetFailed(t) PROVE TypeInv'
  BY FinishType, MarkFailedType, TypePartsNext, Unchanged DEF SetFailed

-----------------------------------------------------------------------------
(* Stops, snapshots and the commands.                                        *)

\* A stop takes the engines and the job, and gives them up.
LEMMA OwnHeld ==
  ASSUME TypeInv, NEW t \in Actors, NEW held \in SUBSET Pids, NEW j \in Jobs \cup {None}
  PROVE /\ [loc[t] EXCEPT !.held = held, !.heldJob = j] \in LocalStates
        /\ [loc[t] EXCEPT !.held = held, !.heldJob = j].request = loc[t].request
        /\ [loc[t] EXCEPT !.held = held, !.heldJob = j].reason = loc[t].reason
<1>1. loc[t] \in LocalStates  BY OwnLocals
<1>. QED  BY <1>1, HeldType, ZenonT(40)

LEMMA TakeType == ASSUME TypeInv, NEW t \in Actors, Take(t) PROVE TypeInv'
<1>. DEFINE r == [loc[t] EXCEPT !.held = SlotPids, !.heldJob = job]
<1>1. SlotPids \in SUBSET Pids /\ job \in Jobs \cup {None}
  BY DEF SlotPids, TypeInv, TypeOK
<1>2. r \in LocalStates /\ r.request = loc[t].request /\ r.reason = loc[t].reason
  BY <1>1, OwnHeld, Zenon
<1>3. ASSUME NEW x \in Runtimes
      PROVE [x EXCEPT !.state = "Disconnecting", !.effective = "Disconnecting",
               !.verdict = "CleanupPending"] \in Runtimes
  BY Zenon DEF Runtimes, States, EffectiveStates, Verdicts
<1>4. RuntimeOK'  BY <1>3 DEF Take, RuntimeOK, TypeInv, TypeOK
<1>5. OwnedOK'  BY DEF Take, OwnedOK, TypeInv, TypeOK
<1>6. Goto(t, "kill") /\ Locals(t, r) /\ pc[t] \in StopLabels
  BY DEF Take, Step, At, StopLabels
<1>. HIDE DEF r
<1>7. ThreadsOK'  BY <1>2, <1>6, StopMove DEF StopLabels
<1>. QED  BY <1>4, <1>5, <1>7, TypePartsNext, Unchanged DEF Take

LEMMA KillType == ASSUME TypeInv, NEW t \in Actors, Kill(t) PROVE TypeInv'
<1>. DEFINE r == [loc[t] EXCEPT !.held = {}, !.heldJob = None]
<1>1. r \in LocalStates /\ r.request = loc[t].request /\ r.reason = loc[t].reason
  <2>1. {} \in SUBSET Pids /\ None \in Jobs \cup {None}  OBVIOUS
  <2>. QED  BY <2>1, OwnHeld, Zenon
<1>2. Goto(t, "settle") /\ Locals(t, r) /\ pc[t] \in StopLabels
  BY DEF Kill, Step, At, StopLabels
<1>. HIDE DEF r
<1>3. ThreadsOK'  BY <1>1, <1>2, StopMove DEF StopLabels
<1>4. SystemOK'  BY ExitType DEF Kill
<1>. QED  BY <1>3, <1>4, TypePartsNext, Unchanged DEF Kill

LEMMA SettleType == ASSUME TypeInv, NEW t \in Actors, Settle(t) PROVE TypeInv'
<1>1. ASSUME NEW x \in Runtimes, NEW r \in Runtimes
      PROVE [x EXCEPT !.gen = r.gen, !.request = r.request, !.eventSeq = r.eventSeq,
               !.rotationSeq = r.rotationSeq] \in Runtimes
  BY Zenon DEF Runtimes
<1>2. RuntimeOK'
  BY <1>1, DefaultRuntimeType DEF Settle, RuntimeOK, TypeInv, TypeOK
<1>3. pc[t] \in StopLabels  BY DEF Settle, Step, At, StopLabels
<1>4. ThreadsOK'  BY <1>3, SameLocals, StopMove DEF Settle, Step, StopLabels
<1>. QED  BY <1>2, <1>4, TypePartsNext, Unchanged DEF Settle

LEMMA ClearMarkerType ==
  ASSUME TypeInv, NEW t \in Actors, ClearMarker(t) PROVE TypeInv'
<1>1. pc[t] \in StopLabels  BY DEF ClearMarker, Step, At, StopLabels
<1>2. ThreadsOK'  BY <1>1, SameLocals, StopMove DEF ClearMarker, Step, StopLabels
<1>3. DiskOK'  BY DEF ClearMarker, DiskOK, TypeInv, TypeOK
<1>. QED  BY <1>2, <1>3, TypePartsNext, Unchanged DEF ClearMarker

\* Where a stop returns to, a request is there if the caller needs one.
LEMMA AfterStopType ==
  ASSUME NEW reason \in StopReasons
  PROVE /\ AfterStop(reason) \in Labels \ StopLabels
        /\ AfterStop(reason) \in StartLabels => reason \in StartReasons
  BY DEF AfterStop, StopReasons, Labels, StartLabels, StopLabels, StartReasons

LEMMA LingerType == ASSUME TypeInv, NEW t \in Actors, Linger(t) PROVE TypeInv'
<1>1. loc[t].reason \in StopReasons  BY OwnLocals, LocalFields
<1>2. NeedsRequest(AfterStop(loc[t].reason), loc[t].reason)
        => NeedsRequest(pc[t], loc[t].reason)
  BY <1>1, AfterStopType DEF Linger, Step, At, NeedsRequest, StopLabels
<1>3. ThreadsOK'
  BY <1>1, <1>2, AfterStopType, OwnRequest, MoveType DEF Linger, Step
<1>4. ASSUME NEW x \in Runtimes
      PROVE [x EXCEPT !.verdict = "CleanupPending"] \in Runtimes
  BY Zenon DEF Runtimes, Verdicts
<1>5. RuntimeOK'  BY <1>4 DEF Linger, RuntimeOK, TypeInv, TypeOK
<1>. QED  BY <1>3, <1>5, TypePartsNext, Unchanged DEF Linger

LEMMA SnapshotType == ASSUME TypeInv, NEW t \in Actors, Snapshot(t) PROVE TypeInv'
<1>. DEFINE r == [loc[t] EXCEPT !.origin = "thread"]
<1>1. r \in LocalStates  BY OwnLocals, OriginType
<1>2. \/ Goto(t, "stop_delay") /\ Locals(t, r)
      \/ Finish(t)
  BY DEF Snapshot
<1>. HIDE DEF r
<1>3. ThreadsOK'
  BY <1>1, <1>2, FinishType, FreeMove DEF FreeLabels, Labels, StartLabels, StopLabels
<1>. QED  BY <1>3, RefreshRuntimeType, TypePartsNext, Unchanged DEF Snapshot

LEMMA StopDelayType == ASSUME TypeInv, NEW t \in Actors, StopDelay(t) PROVE TypeInv'
<1>1. ControlOK'  BY DEF StopDelay, ControlOK, TypeInv, TypeOK
<1>2. ThreadsOK'  BY FinishType DEF StopDelay
<1>. QED  BY <1>1, <1>2, TypePartsNext, Unchanged DEF StopDelay, memory, system, disk

LEMMA PreparedType == ASSUME TypeInv, NEW t \in Actors, Prepared(t) PROVE TypeInv'
<1>1. ControlOK'  BY DEF Prepared, ControlOK, TypeInv, TypeOK
<1>2. ThreadsOK'
  BY SameLocals, FreeMove
     DEF Prepared, Step, FreeLabels, Labels, StartLabels, StopLabels
<1>. QED  BY <1>1, <1>2, TypePartsNext, Unchanged DEF Prepared

\* A command that goes to a stop, or to a step that needs no request.
LEMMA StopCommandType ==
  ASSUME NEW reason \in StopReasons
  PROVE /\ [NoLocals EXCEPT !.reason = reason, !.origin = "command"] \in LocalStates
        /\ [NoLocals EXCEPT !.reason = reason, !.origin = "command"].reason = reason
  BY Zenon DEF NoLocals, LocalStates, Engines

LEMMA StopTunnelType ==
  ASSUME TypeInv, NEW t \in Actors, StopTunnel(t) PROVE TypeInv'
<1>. DEFINE r == [NoLocals EXCEPT !.reason = "stop_tunnel", !.origin = "command"]
<1>1. r \in LocalStates /\ r.reason = "stop_tunnel"
  BY StopCommandType DEF StopReasons
<1>2. Goto(t, "take") /\ Locals(t, r)  BY DEF StopTunnel
<1>3. ControlOK'  BY DEF StopTunnel, ControlOK, TypeInv, TypeOK
<1>. HIDE DEF r
<1>4. ThreadsOK'
  BY <1>1, <1>2, MoveLocalsType DEF NeedsRequest, Labels, StartLabels, StartReasons
<1>. QED  BY <1>3, <1>4, TypePartsNext, Unchanged DEF StopTunnel

LEMMA PrepareForUpdateType ==
  ASSUME TypeInv, NEW t \in Actors, PrepareForUpdate(t) PROVE TypeInv'
<1>. DEFINE r == [NoLocals EXCEPT !.reason = "prepare_update", !.origin = "command"]
<1>1. r \in LocalStates /\ r.reason = "prepare_update"
  BY StopCommandType DEF StopReasons
<1>2. Goto(t, "take") /\ Locals(t, r)  BY DEF PrepareForUpdate
<1>3. ControlOK'  BY DEF PrepareForUpdate, ControlOK, TypeInv, TypeOK
<1>. HIDE DEF r
<1>4. ThreadsOK'
  BY <1>1, <1>2, MoveLocalsType DEF NeedsRequest, Labels, StartLabels, StartReasons
<1>. QED  BY <1>3, <1>4, TypePartsNext, Unchanged DEF PrepareForUpdate

LEMMA ReportProxyCompatibilityType ==
  ASSUME TypeInv, NEW t \in Actors, NEW op, NEW ok,
         ReportProxyCompatibility(t, op, ok)
  PROVE TypeInv'
<1>1. ASSUME NEW x \in Runtimes
      PROVE /\ [x EXCEPT !.proxy = "ready", !.degraded = @ \ {"proxy"}] \in Runtimes
            /\ [x EXCEPT !.proxy = "degraded", !.degraded = @ \cup {"proxy"}] \in Runtimes
  BY Zenon DEF Runtimes, ProxyStates, DegradedChecks
<1>2. RuntimeOK'
  BY <1>1 DEF ReportProxyCompatibility, RuntimeOK, TypeInv, TypeOK
<1>3. [NoLocals EXCEPT !.origin = "command"] \in LocalStates
  BY Zenon DEF NoLocals, LocalStates, Engines, StopReasons
<1>4. ThreadsOK'
  BY <1>3, FreeMove
     DEF ReportProxyCompatibility, FreeLabels, Labels, StartLabels, StopLabels
<1>. QED  BY <1>2, <1>4, TypePartsNext, Unchanged DEF ReportProxyCompatibility

-----------------------------------------------------------------------------
(* Repairs and network events.                                               *)

LEMMA RepairRuntimeType ==
  ASSUME TypeInv, NEW t \in Actors, NEW op \in Ops \cup {None}, RepairRuntime(t, op)
  PROVE TypeInv'
<1>. DEFINE r == [NoLocals EXCEPT !.op = op, !.origin = "command"]
<1>1. r \in LocalStates
  BY Zenon DEF NoLocals, LocalStates, Engines, StopReasons
<1>2. Goto(t, "repair_enter") /\ Locals(t, r)  BY DEF RepairRuntime
<1>. HIDE DEF r
<1>3. ThreadsOK'
  BY <1>1, <1>2, FreeMove DEF FreeLabels, Labels, StartLabels, StopLabels
<1>. QED  BY <1>3, TypePartsNext, Unchanged DEF RepairRuntime

\* A thread that waits for itself keeps its locals.
LEMMA StuckType ==
  ASSUME TypeInv, NEW t \in Actors, SelfDeadlock(t), UNCHANGED loc
  PROVE ThreadsOK' /\ wedged' \in BOOLEAN
<1>1. Goto(t, "stuck")  BY DEF SelfDeadlock
<1>2. "stuck" \in FreeLabels
  BY DEF FreeLabels, Labels, StartLabels, StopLabels
<1>. QED  BY <1>1, <1>2, SameLocals, FreeMove DEF SelfDeadlock

LEMMA OwnRepaired ==
  ASSUME TypeInv, NEW t \in Actors, NEW g \in Nat, NEW o \in Ops \cup {None}
  PROVE [loc[t] EXCEPT !.gen = g, !.op = o] \in LocalStates
<1>1. loc[t] \in LocalStates  BY OwnLocals
<1>. QED  BY <1>1, RepairedType, Zenon

LEMMA RepairingType == ASSUME NEW r \in Runtimes PROVE Repairing(r) \in Runtimes
  BY Zenon DEF Repairing, Runtimes, EffectiveStates, Verdicts, DegradedChecks

LEMMA RepairEnterType ==
  ASSUME TypeInv, NEW t \in Actors, RepairEnter(t) PROVE TypeInv'
<1>. DEFINE r == [loc[t] EXCEPT !.gen = runtime.gen, !.op = runtime.op]
<1>1. r \in LocalStates
  <2>1. runtime.gen \in Nat /\ runtime.op \in Ops \cup {None}
    BY RuntimeFields DEF TypeInv, TypeOK
  <2>. QED  BY <2>1, OwnRepaired, Zenon
<1>2. \/ SelfDeadlock(t) /\ UNCHANGED <<runtime, loc>>
      \/ RepairError(t) /\ UNCHANGED <<runtime, wedged>>
      \/ /\ runtime' = Repairing(runtime) /\ UNCHANGED wedged
         /\ Locals(t, r) /\ Goto(t, "repair_probe")
  BY DEF RepairEnter
<1>3. UNCHANGED <<child, job>> /\ UNCHANGED system /\ UNCHANGED disk
      /\ UNCHANGED <<opGen, stopRequested>>
  BY DEF RepairEnter
<1>. HIDE DEF r
<1>4. RuntimeOK'  BY <1>2, RepairingType DEF RuntimeOK, TypeInv, TypeOK
<1>5. ControlOK'  BY <1>2, <1>3, StuckType DEF ControlOK, TypeInv, TypeOK
<1>6. "repair_probe" \in FreeLabels
  BY DEF FreeLabels, Labels, StartLabels, StopLabels
<1>7. ThreadsOK'
  BY <1>1, <1>2, <1>6, StuckType, RepairErrorType, FreeMove
<1>. QED  BY <1>3, <1>4, <1>5, <1>7, TypePartsNext, Unchanged

LEMMA RepairProbeType ==
  ASSUME TypeInv, NEW t \in Actors, RepairProbe(t) PROVE TypeInv'
<1>1. ThreadsOK'
  BY RepairWaitType DEF RepairProbe, Labels, StartLabels, StopLabels
<1>. QED  BY <1>1, TypePartsNext, Unchanged DEF RepairProbe

LEMMA RepairAdapterType ==
  ASSUME TypeInv, NEW t \in Actors, RepairAdapter(t) PROVE TypeInv'
<1>1. ThreadsOK'
  BY RepairWaitType DEF RepairAdapter, Labels, StartLabels, StopLabels
<1>2. RuntimeOK'  BY ReadyType DEF RepairAdapter, RuntimeOK, TypeInv, TypeOK
<1>. QED  BY <1>1, <1>2, TypePartsNext, Unchanged DEF RepairAdapter

LEMMA RepairReadyType ==
  ASSUME TypeInv, NEW t \in Actors, RepairReady(t) PROVE TypeInv'
<1>1. ThreadsOK'
  BY RepairWaitType DEF RepairReady, Labels, StartLabels, StopLabels
<1>2. RuntimeOK'  BY ReadyType DEF RepairReady, RuntimeOK, TypeInv, TypeOK
<1>. QED  BY <1>1, <1>2, TypePartsNext, Unchanged DEF RepairReady

LEMMA RepairProxyType ==
  ASSUME TypeInv, NEW t \in Actors, RepairProxy(t) PROVE TypeInv'
<1>1. ASSUME NEW x \in Runtimes
      PROVE /\ [x EXCEPT !.proxy = IF @ = "degraded" THEN @ ELSE "ready"] \in Runtimes
            /\ [x EXCEPT !.proxy = "degraded", !.degraded = @ \cup {"proxy"}] \in Runtimes
  BY Zenon DEF Runtimes, ProxyStates, DegradedChecks
<1>2. RuntimeOK'  BY <1>1 DEF RepairProxy, RuntimeOK, TypeInv, TypeOK
<1>3. \/ Goto(t, "repair_publish") /\ UNCHANGED loc
      \/ RepairError(t)
  BY DEF RepairProxy
<1>4. "repair_publish" \in FreeLabels
  BY DEF FreeLabels, Labels, StartLabels, StopLabels
<1>5. ThreadsOK'  BY <1>3, <1>4, SameLocals, RepairErrorType, FreeMove
<1>. QED  BY <1>2, <1>5, TypePartsNext, Unchanged DEF RepairProxy

LEMMA RepairPublishType ==
  ASSUME TypeInv, NEW t \in Actors, RepairPublish(t) PROVE TypeInv'
<1>1. ASSUME NEW x \in Runtimes
      PROVE [x EXCEPT !.state = "Connected"] \in Runtimes
  BY Zenon DEF Runtimes, States
<1>2. RuntimeOK'  BY <1>1 DEF RepairPublish, RuntimeOK, TypeInv, TypeOK
<1>3. \/ SelfDeadlock(t) /\ UNCHANGED loc
      \/ Goto(t, "snapshot") /\ UNCHANGED <<wedged, loc>>
  BY DEF RepairPublish
<1>4. ControlOK'  BY <1>3, StuckType DEF RepairPublish, ControlOK, TypeInv, TypeOK
<1>5. "snapshot" \in FreeLabels
  BY DEF FreeLabels, Labels, StartLabels, StopLabels
<1>6. ThreadsOK'  BY <1>3, <1>5, StuckType, SameLocals, FreeMove
<1>. QED  BY <1>2, <1>4, <1>6, TypePartsNext, Unchanged DEF RepairPublish

LEMMA NetworkEventType == ASSUME TypeInv, NetworkEvent PROVE TypeInv'
<1>. DEFINE r == [NoLocals EXCEPT !.origin = "event"]
<1>1. ASSUME NEW x \in Runtimes
      PROVE /\ [x EXCEPT !.effective = "Suspect", !.verdict = "Repairing"] \in Runtimes
            /\ [x EXCEPT !.eventSeq = @ + 1] \in Runtimes
  <2>1. x.eventSeq + 1 \in Nat  BY RuntimeFields
  <2>. QED  BY <2>1, Zenon DEF Runtimes, EffectiveStates, Verdicts
<1>2. RuntimeOK'
  <2>1. PICK y \in Runtimes : runtime' = [y EXCEPT !.eventSeq = @ + 1]
    BY <1>1 DEF NetworkEvent, TypeInv, TypeOK
  <2>. QED  BY <1>1, <2>1 DEF RuntimeOK
<1>3. r \in LocalStates
  BY Zenon DEF NoLocals, LocalStates, Engines, StopReasons
<1>4. \/ \E t \in Threads : Goto(t, "repair_enter") /\ Locals(t, r)
      \/ UNCHANGED <<pc, loc>>
  BY DEF NetworkEvent
<1>. HIDE DEF r
<1>5. "repair_enter" \in FreeLabels
  BY DEF FreeLabels, Labels, StartLabels, StopLabels
<1>6. ThreadsOK'  BY <1>3, <1>4, <1>5, FreeMove, Unchanged DEF Actors
<1>. QED  BY <1>2, <1>6, TypePartsNext, Unchanged DEF NetworkEvent

LEMMA RotateType == ASSUME TypeInv, NEW t \in Actors, Rotate(t) PROVE TypeInv'
<1>. DEFINE r == [NoLocals EXCEPT !.gen = opGen, !.request = runtime.request,
                                  !.origin = "event"]
            next == [runtime EXCEPT !.rotationSeq = runtime.eventSeq]
<1>1. ASSUME NEW g \in Nat, NEW request \in Requests
      PROVE /\ [NoLocals EXCEPT !.gen = g, !.request = request, !.origin = "event"]
                 \in LocalStates
            /\ [NoLocals EXCEPT !.gen = g, !.request = request,
                                !.origin = "event"].request = request
  BY Zenon DEF NoLocals, LocalStates, Engines, StopReasons
<1>2. ASSUME NEW x \in Runtimes, NEW n \in Nat
      PROVE [x EXCEPT !.rotationSeq = n] \in Runtimes
  BY Zenon DEF Runtimes
<1>3. next \in Runtimes  BY <1>2, RuntimeFields DEF TypeInv, TypeOK
<1>4. runtime.request # None => r \in LocalStates /\ r.request \in Requests
  <2>1. runtime.request \in Requests \cup {None} /\ opGen \in Nat
    BY RuntimeFields DEF TypeInv, TypeOK
  <2>. QED  BY <1>1, <2>1, Zenon
<1>5. \/ /\ runtime.request # None /\ runtime' = next
         /\ Goto(t, "start_check") /\ Locals(t, r)
      \/ UNCHANGED runtime /\ Finish(t)
  BY DEF Rotate
<1>. HIDE DEF r, next
<1>6. RuntimeOK'  BY <1>3, <1>5, Unchanged DEF RuntimeOK
<1>7. ThreadsOK'  BY <1>4, <1>5, MoveLocalsType, FinishType DEF Labels
<1>. QED  BY <1>6, <1>7, TypePartsNext, Unchanged DEF Rotate

-----------------------------------------------------------------------------
(* The service process and its environment.                                  *)

LEMMA GetStatusType == ASSUME TypeInv, GetStatus PROVE TypeInv'
  BY RefreshRuntimeType, TypePartsNext, Unchanged DEF GetStatus

LEMMA ServiceStartType == ASSUME TypeInv, ServiceStart PROVE TypeInv'
<1>1. DiskOK'  BY DEF ServiceStart, DiskOK, TypeInv, TypeOK
<1>2. Main \in Actors /\ "serving" \in FreeLabels
  BY DEF Actors, FreeLabels, Labels, StartLabels, StopLabels
<1>3. ThreadsOK'  BY <1>2, SameLocals, FreeMove DEF ServiceStart, Step
<1>. QED  BY <1>1, <1>3, TypePartsNext, Unchanged DEF ServiceStart

LEMMA ScmStopType == ASSUME TypeInv, ScmStop PROVE TypeInv'
<1>1. ControlOK'  BY DEF ScmStop, ControlOK, TypeInv, TypeOK
<1>. QED  BY <1>1, TypePartsNext, Unchanged DEF ScmStop

LEMMA MainStopsType == ASSUME TypeInv, MainStops PROVE TypeInv'
<1>1. ThreadsOK'
  BY StopOwnedType DEF MainStops, Actors, StopReasons, StartReasons
<1>. QED  BY <1>1, TypePartsNext, Unchanged DEF MainStops

LEMMA ProcessEndsType == ASSUME TypeInv, ProcessEnds PROVE TypeInv'
<1>1. RuntimeOK'  BY DefaultRuntimeType DEF ProcessEnds, RuntimeOK
<1>2. OwnedOK'  BY DEF ProcessEnds, OwnedOK
<1>3. SystemOK'  BY ExitType DEF ProcessEnds
<1>4. ControlOK' /\ DiskOK'  BY DEF ProcessEnds, ControlOK, DiskOK, TypeInv, TypeOK
<1>5. ThreadsOK'
  BY NoLocalsType
     DEF ProcessEnds, ThreadsOK, HasRequest, NeedsRequest, Labels, StartLabels, StopLabels
<1>. QED  BY <1>1, <1>2, <1>3, <1>4, <1>5, TypePartsNext

LEMMA EngineExitType == ASSUME TypeInv, EngineExit PROVE TypeInv'
<1>1. SystemOK'  BY ExitType DEF EngineExit
<1>. QED  BY <1>1, TypePartsNext, Unchanged DEF EngineExit

-----------------------------------------------------------------------------
(* Type correctness.                                                         *)

LEMMA TypeInit == Init => TypeInv
<1>1. ASSUME Init PROVE TypeOK
  BY <1>1, DefaultRuntimeType, NoLocalsType DEF Init, TypeOK, Labels
<1>2. ASSUME Init PROVE HasRequest
  BY <1>2 DEF Init, HasRequest, NeedsRequest, StartLabels, StopLabels
<1>. QED  BY <1>1, <1>2 DEF TypeInv

LEMMA StartStepsType ==
  ASSUME TypeInv, NEW t \in Actors, StartSteps(t) PROVE TypeInv'
  BY WarmMarkType, BusyCheckType, NewGenerationType, QueueType, StartCheckType,
     ReplaceType, CleanedCheckType, WriteMarkerType, CreateJobType, JobErrorType,
     SpawnType, AssignType, StoreType, WaitAdapterType, AdapterReadyType, AdapterErrorType,
     AliveCheckType, WaitRoutesType, RouteReadyType, DnsReadyType, FinalCheckType,
     PublishType, StartFailedType, FailedCheckType, SetFailedType
     DEF StartSteps

LEMMA StopStepsType ==
  ASSUME TypeInv, NEW t \in Actors, StopSteps(t) PROVE TypeInv'
  BY TakeType, KillType, SettleType, ClearMarkerType, LingerType, SnapshotType,
     StopDelayType, PreparedType
     DEF StopSteps

LEMMA RepairStepsType ==
  ASSUME TypeInv, NEW t \in Actors, RepairSteps(t) PROVE TypeInv'
  BY RepairEnterType, RepairProbeType, RepairAdapterType, RepairReadyType,
     RepairProxyType, RepairPublishType, RotateType
     DEF RepairSteps

LEMMA CommandType ==
  ASSUME TypeInv, NEW t \in Threads, Command(t) PROVE TypeInv'
  BY StartTunnelType, StopTunnelType, PrepareForUpdateType, RepairRuntimeType,
     ReportProxyCompatibilityType
     DEF Command, Actors

LEMMA TypeNext == TypeInv /\ [Next]_vars => TypeInv'
<1>. SUFFICES ASSUME TypeInv, [Next]_vars PROVE TypeInv'
  OBVIOUS
<1>1. CASE \E t \in Threads : Command(t) \/ Continue(t)
  BY <1>1, CommandType, StartStepsType, StopStepsType, RepairStepsType
     DEF Continue, Actors
<1>2. CASE MainSteps
  BY <1>2, StopStepsType, MainStopsType, ProcessEndsType DEF MainSteps, ServiceExit, Actors
<1>3. CASE ServiceStart \/ GetStatus \/ NetworkEvent \/ ScmStop \/ Crash \/ EngineExit
  BY <1>3, ServiceStartType, GetStatusType, NetworkEventType, ScmStopType,
     ProcessEndsType, EngineExitType DEF Crash
<1>4. CASE UNCHANGED vars
  BY <1>4, Unchanged, TypePartsNext DEF vars
<1>. QED  BY <1>1, <1>2, <1>3, <1>4 DEF Next

\* The service's variables keep the shape the code gives them, in every run.
THEOREM TypeCorrect == Spec => []TypeOK
<1>1. Spec => []TypeInv  BY TypeInit, TypeNext, PTL DEF Spec
<1>2. TypeInv => TypeOK  BY DEF TypeInv
<1>. QED  BY <1>1, <1>2, PTL
=============================================================================
