------------------------ MODULE TunnelServiceSafety ------------------------
(***************************************************************************)
(* Seven properties of TunnelService proved on top of its type invariant.  *)
(* For every instance: a runtime reported Failed owns no job, no running   *)
(* engine is in a job object that nobody holds, and a reported proxy       *)
(* failure is not forgotten while the runtime stays connected.  Where one  *)
(* start runs at a time: Protected is never reported over a missing        *)
(* engine.  Where no stop runs beside it either: running engines are       *)
(* marked on disk, and those of two runtimes never run side by side.       *)
(* Where starts come in turn, and only one of them beside network events:  *)
(* the service never comes to rest in Connecting or Disconnecting.         *)
(***************************************************************************)
EXTENDS TunnelServiceProofs, FiniteSetTheorems

-----------------------------------------------------------------------------
(* A Failed runtime owns nothing.  The status becomes Failed only where the  *)
(* job is dropped, and a job is created only together with Connecting.       *)

FailedStep ==
  \/ job' = None
  \/ runtime'.state # "Failed"
  \/ UNCHANGED job /\ runtime'.state = runtime.state

\* what the writes of a start do to the state
LEMMA StartWrites ==
  ASSUME NEW r \in Runtimes, NEW request, NEW g, NEW level
  PROVE /\ [r EXCEPT !.op = request.op, !.request = request, !.route = FALSE,
                     !.dns = FALSE].state = r.state
        /\ [r EXCEPT !.ports = TRUE].state = r.state
        /\ [r EXCEPT !.adapter = TRUE].state = r.state
        /\ [r EXCEPT !.route = TRUE].state = r.state
        /\ [r EXCEPT !.dns = TRUE].state = r.state
        /\ [r EXCEPT !.state = "Connected", !.effective = level, !.verdict = level,
              !.proxy = "core_connected"].state = "Connected"
  BY Zenon DEF Runtimes

LEMMA ConnectingWrites ==
  ASSUME NEW r \in Runtimes, NEW request, NEW g
  PROVE /\ [r EXCEPT !.state = "Connecting", !.effective = "Repairing",
              !.verdict = "Repairing", !.op = request.op, !.gen = g].state = "Connecting"
        /\ [r EXCEPT !.state = "Connecting", !.effective = "Connecting",
              !.verdict = "Repairing", !.op = request.op, !.gen = g,
              !.ports = TRUE].state = "Connecting"
  BY Zenon DEF Runtimes

LEMMA PreparingState ==
  ASSUME NEW r \in Runtimes, NEW request \in Requests, NEW g \in Nat
  PROVE /\ Preparing(r, request, g).state = "Connecting"
        /\ [Preparing(r, request, g) EXCEPT !.request = request].state = "Connecting"
<1>1. Preparing(r, request, g).state = "Connecting"
  BY Zenon DEF Preparing, Runtimes
<1>2. Preparing(r, request, g) \in Runtimes  BY PreparingType
<1>. QED  BY <1>1, <1>2, Zenon DEF Runtimes

\* refresh_runtime_verdict never changes the state
LEMMA RefreshedState ==
  ASSUME NEW r \in Runtimes PROVE Refreshed(r).state = r.state
  BY ZenonT(60) DEF Refreshed, Runtimes, States

LEMMA RefreshRuntimeFailed ==
  ASSUME TypeInv, RefreshRuntime
  PROVE FailedStep
  BY RefreshedState DEF RefreshRuntime, MarkFailed, FailedStep, TypeInv, TypeOK

LEMMA StartTunnelFailed ==
  ASSUME TypeInv, NEW t \in Threads, NEW request \in Requests, StartTunnel(t, request)
  PROVE FailedStep
<1>1. CASE EngineLost
  BY <1>1 DEF StartTunnel, MarkFailed, FailedStep
<1>2. CASE ~EngineLost
  <2>. DEFINE r == Refreshed(runtime)
              reused == [r EXCEPT !.op = request.op, !.request = request,
                                  !.route = FALSE, !.dns = FALSE]
  <2>1. runtime' \in {reused, r} /\ UNCHANGED job
    BY <1>2 DEF StartTunnel
  <2>2. r \in Runtimes /\ r.state = runtime.state
    BY RefreshedType, RefreshedState DEF TypeInv, TypeOK
  <2>. HIDE DEF r
  <2>3. reused.state = r.state  BY <2>2, StartWrites
  <2>. HIDE DEF reused
  <2>. QED  BY <2>1, <2>2, <2>3 DEF FailedStep
<1>. QED  BY <1>1, <1>2

LEMMA StartStepsFailed ==
  ASSUME TypeInv, NEW t \in Actors, StartSteps(t)
  PROVE FailedStep
<1>1. runtime \in Runtimes  BY DEF TypeInv, TypeOK
<1>2. pc[t] \in StartLabels =>
        /\ Preparing(runtime, loc[t].request, loc[t].gen).state = "Connecting"
        /\ [Preparing(runtime, loc[t].request, loc[t].gen)
              EXCEPT !.request = loc[t].request].state = "Connecting"
  BY <1>1, StartRequest, OwnLocals, LocalFields, PreparingState
<1>3. CASE WarmMark(t) \/ BusyCheck(t) \/ NewGeneration(t) \/ StartCheck(t)
           \/ CleanedCheck(t) \/ Spawn(t) \/ Assign(t) \/ WaitAdapter(t)
           \/ WaitRoutes(t) \/ FinalCheck(t) \/ StartFailed(t) \/ FailedCheck(t)
  BY <1>3 DEF WarmMark, BusyCheck, NewGeneration, StartCheck, CleanedCheck, Spawn,
     Assign, WaitAdapter, WaitRoutes, FinalCheck, StartFailed, FailedCheck, memory, FailedStep
<1>4. CASE \/ AdapterError(t, "adapter_timeout") \/ AdapterError(t, "adapter_cancelled")
           \/ AliveCheck(t, "alive_check", "wait_routes", "singbox")
           \/ AliveCheck(t, "final_alive", "final_check", "xray")
  BY <1>4 DEF AdapterError, AliveCheck, memory, FailedStep
<1>5. CASE Queue(t)
  BY <1>2, <1>5 DEF Queue, Step, At, StartLabels, FailedStep
<1>6. CASE Replace(t)
  BY <1>2, <1>6 DEF Replace, At, StartLabels, FailedStep
<1>7. CASE WriteMarker(t)
  <2>1. \/ UNCHANGED runtime
        \/ runtime' = [runtime EXCEPT !.state = "Connecting", !.effective = "Repairing",
             !.verdict = "Repairing", !.op = loc[t].request.op, !.gen = loc[t].gen]
    BY <1>7 DEF WriteMarker
  <2>. QED  BY <1>1, <1>7, <2>1, ConnectingWrites DEF WriteMarker, FailedStep
<1>8. CASE CreateJob(t)
  <2>1. runtime' = [runtime EXCEPT !.state = "Connecting", !.effective = "Connecting",
                      !.verdict = "Repairing", !.op = loc[t].request.op,
                      !.gen = loc[t].gen, !.ports = TRUE]
    BY <1>8 DEF CreateJob
  <2>. QED  BY <1>1, <2>1, ConnectingWrites DEF FailedStep
<1>9. CASE Store(t)  BY <1>9 DEF Store, FailedStep
<1>10. CASE JobError(t) \/ AdapterReady(t) \/ RouteReady(t) \/ DnsReady(t)
  BY <1>1, <1>10, StartWrites DEF JobError, AdapterReady, RouteReady, DnsReady, FailedStep
<1>11. CASE Publish(t)
  BY <1>1, <1>11, StartWrites DEF Publish, FailedStep
<1>12. CASE SetFailed(t)  BY <1>12 DEF SetFailed, MarkFailed, FailedStep
<1>. QED
  BY <1>3, <1>4, <1>5, <1>6, <1>7, <1>8, <1>9, <1>10, <1>11, <1>12
     DEF StartSteps

LEMMA StopStepsFailed ==
  ASSUME TypeInv, NEW t \in Actors, StopSteps(t)
  PROVE FailedStep
<1>1. CASE Take(t)  BY <1>1 DEF Take, FailedStep
<1>2. CASE Kill(t) \/ ClearMarker(t) \/ StopDelay(t) \/ Prepared(t)
  BY <1>2 DEF Kill, ClearMarker, StopDelay, Prepared, memory, FailedStep
<1>3. CASE Settle(t)
  <2>1. ASSUME NEW r
        PROVE [DefaultRuntime EXCEPT !.gen = r.gen, !.request = r.request,
                 !.eventSeq = r.eventSeq, !.rotationSeq = r.rotationSeq].state
              = "Disconnected"
    BY Zenon DEF DefaultRuntime
  <2>. QED  BY <1>3, <2>1 DEF Settle, FailedStep
<1>4. CASE Linger(t)
  <2>1. ASSUME NEW r \in Runtimes
        PROVE [r EXCEPT !.verdict = "CleanupPending"].state = r.state
    BY Zenon DEF Runtimes
  <2>. QED  BY <1>4, <2>1 DEF Linger, TypeInv, TypeOK, FailedStep
<1>5. CASE Snapshot(t)  BY <1>5, RefreshRuntimeFailed DEF Snapshot, FailedStep
<1>. QED  BY <1>1, <1>2, <1>3, <1>4, <1>5 DEF StopSteps

LEMMA RepairStepsFailed ==
  ASSUME TypeInv, NEW t \in Actors, RepairSteps(t)
  PROVE FailedStep
<1>1. runtime \in Runtimes  BY DEF TypeInv, TypeOK
<1>2. ASSUME NEW r \in Runtimes
      PROVE /\ Repairing(r).state = r.state
            /\ [r EXCEPT !.adapter = TRUE].state = r.state
            /\ [r EXCEPT !.route = TRUE, !.dns = TRUE].state = r.state
            /\ [r EXCEPT !.proxy = IF @ = "degraded" THEN @ ELSE "ready"].state = r.state
            /\ [r EXCEPT !.proxy = "degraded",
                         !.degraded = @ \cup {"proxy"}].state = r.state
            /\ [r EXCEPT !.state = "Connected"].state = "Connected"
            /\ [r EXCEPT !.rotationSeq = r.eventSeq].state = r.state
  BY Zenon DEF Repairing, Runtimes
<1>3. CASE RepairEnter(t)  BY <1>1, <1>2, <1>3 DEF RepairEnter, FailedStep
<1>4. CASE RepairProbe(t)  BY <1>4 DEF RepairProbe, memory, FailedStep
<1>5. CASE RepairAdapter(t)  BY <1>1, <1>2, <1>5 DEF RepairAdapter, FailedStep
<1>6. CASE RepairReady(t)  BY <1>1, <1>2, <1>6 DEF RepairReady, FailedStep
<1>7. CASE RepairProxy(t)  BY <1>1, <1>2, <1>7 DEF RepairProxy, FailedStep
<1>8. CASE RepairPublish(t)  BY <1>1, <1>2, <1>8 DEF RepairPublish, FailedStep
<1>9. CASE Rotate(t)  BY <1>1, <1>2, <1>9 DEF Rotate, FailedStep
<1>. QED  BY <1>3, <1>4, <1>5, <1>6, <1>7, <1>8, <1>9 DEF RepairSteps

LEMMA CommandFailed ==
  ASSUME TypeInv, NEW t \in Threads, Command(t)
  PROVE FailedStep
<1>1. ASSUME NEW op, NEW ok, ReportProxyCompatibility(t, op, ok) PROVE FailedStep
  <2>1. ASSUME NEW r \in Runtimes
        PROVE /\ [r EXCEPT !.proxy = "ready", !.degraded = @ \ {"proxy"}].state = r.state
              /\ [r EXCEPT !.proxy = "degraded",
                           !.degraded = @ \cup {"proxy"}].state = r.state
    BY Zenon DEF Runtimes
  <2>. QED
    BY <1>1, <2>1 DEF ReportProxyCompatibility, FailedStep, TypeInv, TypeOK
<1>. QED
  BY <1>1, StartTunnelFailed
     DEF Command, StopTunnel, PrepareForUpdate, RepairRuntime, FailedStep, memory

LEMMA NetworkEventFailed == ASSUME TypeInv, NetworkEvent PROVE FailedStep
<1>1. ASSUME NEW r \in Runtimes
      PROVE /\ [r EXCEPT !.effective = "Suspect", !.verdict = "Repairing"] \in Runtimes
            /\ [r EXCEPT !.effective = "Suspect", !.verdict = "Repairing"].state = r.state
            /\ [r EXCEPT !.eventSeq = @ + 1].state = r.state
  BY Zenon DEF Runtimes, EffectiveStates, Verdicts
<1>2. PICK r \in Runtimes : /\ r.state = runtime.state
                            /\ runtime' = [r EXCEPT !.eventSeq = @ + 1]
  BY <1>1 DEF NetworkEvent, TypeInv, TypeOK
<1>. QED  BY <1>1, <1>2 DEF NetworkEvent, FailedStep

LEMMA FailedNext ==
  ASSUME TypeInv, FailedOwnsNothing, [Next]_vars
  PROVE FailedOwnsNothing'
<1>. SUFFICES FailedStep  BY DEF FailedStep, FailedOwnsNothing
<1>1. CASE \E t \in Threads : Command(t) \/ Continue(t)
  BY <1>1, CommandFailed, StartStepsFailed, StopStepsFailed, RepairStepsFailed
     DEF Continue, Actors
<1>2. CASE MainSteps \/ Crash
  BY <1>2, StopStepsFailed
     DEF MainSteps, MainStops, ServiceExit, Crash, ProcessEnds, Actors, FailedStep, memory
<1>3. CASE ServiceStart \/ GetStatus \/ NetworkEvent \/ ScmStop \/ EngineExit
  BY <1>3, RefreshRuntimeFailed, NetworkEventFailed
     DEF ServiceStart, GetStatus, ScmStop, EngineExit, FailedStep, memory
<1>4. CASE UNCHANGED vars  BY <1>4 DEF vars, memory, FailedStep
<1>. QED  BY <1>1, <1>2, <1>3, <1>4 DEF Next

\* A runtime reported Failed holds no job: an engine cannot run on behind a
\* status that says the tunnel is down.
THEOREM FailedIsDown == Spec => []FailedOwnsNothing
<1>1. Init => TypeInv /\ FailedOwnsNothing
  BY TypeInit DEF Init, DefaultRuntime, FailedOwnsNothing
<1>2. TypeInv /\ FailedOwnsNothing /\ [Next]_vars => TypeInv' /\ FailedOwnsNothing'
  BY TypeNext, FailedNext
<1>. QED  BY <1>1, <1>2, PTL DEF Spec

-----------------------------------------------------------------------------
(* Engines are contained.  EnginesAreContained is not inductive: a stop that *)
(* starts over must not forget a job it holds, a handle about to be stored   *)
(* must be that of an assigned engine, and a process id that is handed out   *)
(* again must not inherit a job.                                             *)

Held == \A t \in Actors : pc[t] # "kill" => loc[t].heldJob = None

Assigned == \A t \in Actors :
  pc[t] = "store" /\ loc[t].pid \in alive => jobOf[loc[t].pid] # None

DeadHaveNoJob == \A p \in Pids \ alive : jobOf[p] = None

InJobs == \A p \in alive :
  jobOf[p] \in {None, job} \/ \E t \in Actors : jobOf[p] = loc[t].heldJob

StoredAreAssigned == \A e \in Engines : child[e] \in alive => jobOf[child[e]] # None

Contained == InJobs /\ StoredAreAssigned /\ Held /\ Assigned /\ DeadHaveNoJob

LEMMA ContainedParts == Contained => EnginesAreContained
  BY DEF Contained, InJobs, StoredAreAssigned, EnginesAreContained, EngineAlive

\* The threads neither take nor drop a job, and none gets ready to store a handle.
ThreadsKeep == \A u \in Actors :
  /\ loc'[u].heldJob = loc[u].heldJob
  /\ pc'[u] # "kill" => pc[u] # "kill"
  /\ pc'[u] = "store" => pc[u] = "store" /\ loc'[u].pid = loc[u].pid

\* One thread moves, neither from nor to the steps that hold a job or a handle.
Harmless(t) ==
  /\ pc[t] # "kill"
  /\ \E l \in Labels \ {"kill", "store"}, r \in LocalStates :
       Goto(t, l) /\ Locals(t, r) /\ r.heldJob = None

LEMMA HarmlessKeeps ==
  ASSUME TypeInv, Contained, NEW t \in Actors, Harmless(t)
  PROVE ThreadsKeep
<1>1. PICK l \in Labels \ {"kill", "store"}, r \in LocalStates :
        Goto(t, l) /\ Locals(t, r) /\ r.heldJob = None
  BY DEF Harmless
<1>2. pc'[t] = l /\ loc'[t] = r
  BY <1>1 DEF Goto, Locals, TypeInv, TypeOK
<1>3. \A u \in Actors \ {t} : pc'[u] = pc[u] /\ loc'[u] = loc[u]
  BY <1>1 DEF Goto, Locals, TypeInv, TypeOK
<1>4. loc[t].heldJob = None /\ pc[t] # "kill"
  BY DEF Harmless, Contained, Held
<1>. QED  BY <1>1, <1>2, <1>3, <1>4 DEF ThreadsKeep

LEMMA SameThreadsKeep == ASSUME UNCHANGED <<pc, loc>> PROVE ThreadsKeep
  BY DEF ThreadsKeep

\* A step that leaves the processes, the slots and the job alone.
LEMMA KeepContained ==
  ASSUME Contained, ThreadsKeep, UNCHANGED <<child, job>>, UNCHANGED system
  PROVE Contained'
  BY DEF Contained, InJobs, StoredAreAssigned, Held, Assigned, DeadHaveNoJob,
     ThreadsKeep, system

\* Engines that end take their jobs with them.
LEMMA ExitContained ==
  ASSUME TypeInv, Contained, ThreadsKeep, NEW dead, Exit(dead),
         UNCHANGED child \/ child' = [e \in Engines |-> None],
         job' = job \/ \A p \in alive \ dead : jobOf[p] = job => jobOf[p] = None
  PROVE Contained'
<1>1. \A p \in alive' : p \in alive \ dead /\ p \in Pids /\ jobOf'[p] = jobOf[p]
  BY DEF Exit, TypeInv, TypeOK
<1>2. None \notin Pids  BY ConstantsAssumption
<1>3. InJobs'  BY <1>1 DEF Contained, InJobs, ThreadsKeep
<1>4. StoredAreAssigned'
  BY <1>1, <1>2 DEF Contained, StoredAreAssigned
<1>5. Held' /\ Assigned'
  BY <1>1 DEF Contained, Held, Assigned, ThreadsKeep
<1>6. DeadHaveNoJob'  BY DEF Contained, DeadHaveNoJob, Exit
<1>. QED  BY <1>3, <1>4, <1>5, <1>6 DEF Contained

LEMMA MarkFailedContained ==
  ASSUME TypeInv, Contained, ThreadsKeep, MarkFailed
  PROVE Contained'
  BY ExitContained DEF MarkFailed, InJob

LEMMA RefreshRuntimeContained ==
  ASSUME TypeInv, Contained, ThreadsKeep, RefreshRuntime
  PROVE Contained'
  BY MarkFailedContained, KeepContained DEF RefreshRuntime

-----------------------------------------------------------------------------
(* The moves.                                                                *)

LEMMA HeldFields ==
  ASSUME NEW l \in LocalStates, NEW x
  PROVE /\ [l EXCEPT !.reason = x].heldJob = l.heldJob
        /\ [l EXCEPT !.reason = "tun_adapter_repair", !.attempt = 2].heldJob = l.heldJob
        /\ [l EXCEPT !.gen = x].heldJob = l.heldJob
        /\ [l EXCEPT !.origin = x].heldJob = l.heldJob
        /\ [l EXCEPT !.engine = x].heldJob = l.heldJob
        /\ [l EXCEPT !.pid = x].heldJob = l.heldJob
        /\ [l EXCEPT !.pid = None, !.engine = "singbox"].heldJob = l.heldJob
  BY Zenon DEF LocalStates

LEMMA NoLocalsHeld == NoLocals.heldJob = None
  BY DEF NoLocals

LEMMA OwnHeldJob ==
  ASSUME Contained, NEW t \in Actors, pc[t] # "kill"
  PROVE loc[t].heldJob = None
  BY DEF Contained, Held

LEMMA MoveHarmless ==
  ASSUME TypeInv, Contained, NEW t \in Actors, pc[t] # "kill",
         NEW l \in Labels \ {"kill", "store"}, Goto(t, l), UNCHANGED loc
  PROVE Harmless(t)
  BY SameLocals, OwnHeldJob DEF Harmless

LEMMA FinishHarmless ==
  ASSUME NEW t \in Actors, pc[t] # "kill", Finish(t)
  PROVE Harmless(t)
  BY NoLocalsType, NoLocalsHeld DEF Finish, Harmless, Labels

LEMMA StopOwnedHarmless ==
  ASSUME TypeInv, Contained, NEW t \in Actors, pc[t] # "kill",
         NEW reason \in StopReasons, StopOwned(t, reason)
  PROVE Harmless(t)
<1>. DEFINE r == [loc[t] EXCEPT !.reason = reason]
<1>1. r \in LocalStates  BY OwnLocals, ReasonType
<1>2. r.heldJob = None  BY OwnLocals, OwnHeldJob, HeldFields
<1>3. Goto(t, "take") /\ Locals(t, r)  BY DEF StopOwned
<1>. HIDE DEF r
<1>. QED  BY <1>1, <1>2, <1>3 DEF Harmless, Labels

LEMMA BringUpErrorHarmless ==
  ASSUME TypeInv, Contained, NEW t \in Actors, pc[t] # "kill", NEW b, BringUpError(t, b)
  PROVE Harmless(t)
<1>. DEFINE r == [loc[t] EXCEPT !.reason = "tun_adapter_repair", !.attempt = 2]
<1>1. r \in LocalStates  BY OwnLocals, RetryType
<1>2. r.heldJob = None  BY OwnLocals, OwnHeldJob, HeldFields
<1>3. \/ Goto(t, "take") /\ Locals(t, r)
      \/ Goto(t, "failed") /\ UNCHANGED loc
  BY DEF BringUpError
<1>. HIDE DEF r
<1>. QED  BY <1>1, <1>2, <1>3, MoveHarmless DEF Harmless, Labels

LEMMA IfCurrentHarmless ==
  ASSUME TypeInv, Contained, NEW t \in Actors, pc[t] # "kill",
         NEW l \in Labels \ {"kill", "store"}, IfCurrent(t, l)
  PROVE Harmless(t)
  BY MoveHarmless, BringUpErrorHarmless DEF IfCurrent

LEMMA RepairErrorHarmless ==
  ASSUME TypeInv, Contained, NEW t \in Actors, pc[t] # "kill", RepairError(t)
  PROVE Harmless(t)
  BY MoveHarmless, FinishHarmless DEF RepairError, Labels

LEMMA RepairWaitHarmless ==
  ASSUME TypeInv, Contained, NEW t \in Actors, pc[t] # "kill",
         NEW l \in Labels \ {"kill", "store"}, RepairWait(t, l)
  PROVE Harmless(t)
  BY MoveHarmless, RepairErrorHarmless DEF RepairWait

\* the moves of a start that neither run nor end an engine
LEMMA StartMovesHarmless ==
  ASSUME TypeInv, Contained, NEW t \in Actors,
         \/ WarmMark(t) \/ BusyCheck(t) \/ NewGeneration(t) \/ Queue(t)
         \/ StartCheck(t) \/ Replace(t) \/ CleanedCheck(t) \/ WriteMarker(t)
         \/ JobError(t) \/ WaitAdapter(t) \/ AdapterReady(t)
         \/ AdapterError(t, "adapter_timeout") \/ AdapterError(t, "adapter_cancelled")
         \/ AliveCheck(t, "alive_check", "wait_routes", "singbox") \/ WaitRoutes(t)
         \/ RouteReady(t) \/ DnsReady(t)
         \/ AliveCheck(t, "final_alive", "final_check", "xray") \/ FinalCheck(t)
         \/ Publish(t) \/ StartFailed(t) \/ FailedCheck(t)
  PROVE Harmless(t)
<1>1. CASE WarmMark(t) \/ BusyCheck(t) \/ WriteMarker(t) \/ WaitAdapter(t)
  <2>1. CASE WarmMark(t)
    BY <2>1, MoveHarmless DEF WarmMark, Step, At, Labels
  <2>2. CASE BusyCheck(t)
    BY <2>2, MoveHarmless DEF BusyCheck, Step, At, Labels
  <2>3. CASE WriteMarker(t)
    BY <2>3, MoveHarmless DEF WriteMarker, Step, At, Labels
  <2>4. CASE WaitAdapter(t)
    BY <2>4, MoveHarmless DEF WaitAdapter, Step, At, Labels
  <2>. QED  BY <1>1, <2>1, <2>2, <2>3, <2>4
<1>2. CASE StartCheck(t) \/ CleanedCheck(t) \/ AdapterReady(t) \/ WaitRoutes(t)
           \/ RouteReady(t) \/ DnsReady(t) \/ FinalCheck(t)
  <2>1. CASE StartCheck(t)
    BY <2>1, IfCurrentHarmless DEF StartCheck, At, Labels
  <2>2. CASE CleanedCheck(t)
    BY <2>2, IfCurrentHarmless DEF CleanedCheck, At, Labels
  <2>3. CASE AdapterReady(t)
    BY <2>3, IfCurrentHarmless DEF AdapterReady, At, Labels
  <2>4. CASE WaitRoutes(t)
    BY <2>4, IfCurrentHarmless, BringUpErrorHarmless DEF WaitRoutes, At, Labels
  <2>5. CASE RouteReady(t)
    BY <2>5, IfCurrentHarmless DEF RouteReady, At, Labels
  <2>6. CASE DnsReady(t)
    BY <2>6, IfCurrentHarmless DEF DnsReady, At, Labels
  <2>7. CASE FinalCheck(t)
    BY <2>7, IfCurrentHarmless, BringUpErrorHarmless DEF FinalCheck, At, Labels
  <2>. QED  BY <1>2, <2>1, <2>2, <2>3, <2>4, <2>5, <2>6, <2>7
<1>3. CASE \/ JobError(t)
           \/ AdapterError(t, "adapter_timeout") \/ AdapterError(t, "adapter_cancelled")
  BY <1>3, BringUpErrorHarmless DEF JobError, AdapterError, FatalLog, At
<1>4. CASE \/ AliveCheck(t, "alive_check", "wait_routes", "singbox")
           \/ AliveCheck(t, "final_alive", "final_check", "xray")
  BY <1>4, MoveHarmless, BringUpErrorHarmless DEF AliveCheck, FatalLog, At, Labels
<1>5. CASE NewGeneration(t)
  <2>. DEFINE r == [loc[t] EXCEPT !.gen = opGen + 1]
  <2>1. opGen + 1 \in Nat  BY DEF TypeInv, TypeOK
  <2>2. r \in LocalStates  BY <2>1, OwnLocals, GenType
  <2>3. Goto(t, "queue") /\ Locals(t, r) /\ pc[t] # "kill"
    BY <1>5 DEF NewGeneration, Step, At
  <2>4. r.heldJob = None  BY <2>3, OwnLocals, OwnHeldJob, HeldFields
  <2>. HIDE DEF r
  <2>. QED  BY <2>2, <2>3, <2>4 DEF Harmless, Labels
<1>6. CASE Queue(t)
  <2>. DEFINE r == [loc[t] EXCEPT !.origin = "thread"]
  <2>1. r \in LocalStates  BY OwnLocals, OriginType
  <2>2. Goto(t, "start_check") /\ Locals(t, r) /\ pc[t] # "kill"
    BY <1>6 DEF Queue, Step, At
  <2>3. r.heldJob = None  BY <2>2, OwnLocals, OwnHeldJob, HeldFields
  <2>. HIDE DEF r
  <2>. QED  BY <2>1, <2>2, <2>3 DEF Harmless, Labels
<1>7. CASE Replace(t) \/ StartFailed(t) \/ FailedCheck(t) \/ Publish(t)
  BY <1>7, StopOwnedHarmless, FinishHarmless, MoveHarmless
     DEF Replace, StartFailed, FailedCheck, Publish, At, StopReasons, Labels
<1>. QED  BY <1>1, <1>2, <1>3, <1>4, <1>5, <1>6, <1>7

LEMMA CreateJobContained ==
  ASSUME TypeInv, Contained, NEW t \in Actors, CreateJob(t) PROVE Contained'
<1>. DEFINE r == [loc[t] EXCEPT !.engine = FirstEngine(loc[t].request.config)]
<1>1. r \in LocalStates  BY OwnLocals, EngineType DEF FirstEngine, Engines
<1>2. pc[t] # "kill"  BY DEF CreateJob, At
<1>3. r.heldJob = None  BY <1>2, OwnLocals, OwnHeldJob, HeldFields
<1>4. \/ Goto(t, "spawn") /\ Locals(t, r)
      \/ BringUpError(t, FALSE)
  BY DEF CreateJob
<1>5. Exit(InJob(job)) /\ UNCHANGED child  BY DEF CreateJob
<1>. HIDE DEF r
<1>6. Harmless(t)
  BY <1>1, <1>2, <1>3, <1>4, BringUpErrorHarmless DEF Harmless, Labels
<1>. QED  BY <1>5, <1>6, HarmlessKeeps, ExitContained DEF InJob

\* A new process is in no job, has no handle and no thread is about to store it.
LEMMA SpawnContained ==
  ASSUME TypeInv, Contained, NEW t \in Actors, Spawn(t) PROVE Contained'
<1>. DEFINE p == Fresh(Pids, UsedPids)
            r == [loc[t] EXCEPT !.pid = p]
<1>1. UNCHANGED <<child, job, jobOf>> /\ pc[t] # "kill"  BY DEF Spawn, At, memory
<1>2. CASE BringUpError(t, FALSE) /\ UNCHANGED alive
  BY <1>1, <1>2, BringUpErrorHarmless, HarmlessKeeps, KeepContained DEF system
<1>3. CASE /\ Pids \ UsedPids # {} /\ alive' = alive \cup {p}
           /\ Locals(t, r) /\ Goto(t, "assign")
  <2>1. p \in Pids \ UsedPids  BY <1>3 DEF Fresh
  <2>. HIDE DEF p
  <2>2. r \in LocalStates /\ r.heldJob = None
    BY <1>1, <2>1, OwnLocals, PidType, OwnHeldJob, HeldFields
  <2>. HIDE DEF r
  <2>3. Harmless(t)  BY <1>1, <1>3, <2>2 DEF Harmless, Labels
  <2>4. ThreadsKeep  BY <2>3, HarmlessKeeps
  <2>5. jobOf[p] = None  BY <2>1 DEF UsedPids, Contained, DeadHaveNoJob
  <2>6. p \notin alive /\ p \notin SlotPids /\ \A u \in Actors : loc[u].pid # p
    BY <2>1 DEF UsedPids
  <2>7. p # None  BY <2>1, ConstantsAssumption
  <2>8. InJobs'
    BY <1>1, <1>3, <2>4, <2>5 DEF Contained, InJobs, ThreadsKeep
  <2>9. StoredAreAssigned'
    BY <1>1, <1>3, <2>6, <2>7 DEF Contained, StoredAreAssigned, SlotPids
  <2>10. Held' /\ Assigned' /\ DeadHaveNoJob'
    BY <1>1, <1>3, <2>4, <2>6
       DEF Contained, Held, Assigned, DeadHaveNoJob, ThreadsKeep
  <2>. QED  BY <2>8, <2>9, <2>10 DEF Contained
<1>. QED  BY <1>2, <1>3 DEF Spawn

LEMMA AssignContained ==
  ASSUME TypeInv, Contained, NEW t \in Actors, Assign(t) PROVE Contained'
<1>. DEFINE r == [loc[t] EXCEPT !.pid = None]
<1>1. UNCHANGED <<child, job, alive>> /\ pc[t] # "kill"  BY DEF Assign, At, memory
<1>2. CASE /\ job # None /\ loc[t].pid \in alive
           /\ jobOf' = [jobOf EXCEPT ![loc[t].pid] = job]
           /\ Goto(t, "store") /\ UNCHANGED loc
  <2>1. loc[t].pid \in Pids /\ jobOf'[loc[t].pid] = job
    BY <1>2 DEF TypeInv, TypeOK
  <2>2. \A q \in Pids \ {loc[t].pid} : jobOf'[q] = jobOf[q]
    BY <1>2, <2>1 DEF TypeInv, TypeOK
  <2>3. /\ pc'[t] = "store"
        /\ \A u \in Actors \ {t} : pc'[u] = pc[u]
    BY <1>2 DEF Goto, TypeInv, TypeOK
  <2>4. alive \subseteq Pids  BY DEF TypeInv, TypeOK
  <2>5. InJobs'  BY <1>1, <1>2, <2>1, <2>2, <2>4 DEF Contained, InJobs
  <2>6. StoredAreAssigned'
    BY <1>1, <1>2, <2>1, <2>2, <2>4 DEF Contained, StoredAreAssigned
  <2>7. Held'  BY <1>1, <1>2, <2>3 DEF Contained, Held
  <2>8. Assigned'
    BY <1>1, <1>2, <2>1, <2>2, <2>3, <2>4 DEF Contained, Assigned
  <2>9. DeadHaveNoJob'
    BY <1>1, <1>2, <2>1, <2>2 DEF Contained, DeadHaveNoJob
  <2>. QED  BY <2>5, <2>6, <2>7, <2>8, <2>9 DEF Contained
<1>3. CASE Goto(t, "failed") /\ Locals(t, r) /\ UNCHANGED jobOf
  <2>1. r \in LocalStates /\ r.heldJob = None
    BY <1>1, OwnLocals, PidType, OwnHeldJob, HeldFields
  <2>. HIDE DEF r
  <2>2. Harmless(t)  BY <1>1, <1>3, <2>1 DEF Harmless, Labels
  <2>. QED  BY <1>1, <1>3, <2>2, HarmlessKeeps, KeepContained DEF system
<1>. QED  BY <1>2, <1>3 DEF Assign

LEMMA StoreContained ==
  ASSUME TypeInv, Contained, NEW t \in Actors, Store(t) PROVE Contained'
<1>. DEFINE r == [loc[t] EXCEPT !.pid = None, !.engine = "singbox"]
<1>1. r \in LocalStates /\ r.heldJob = None
  <2>1. pc[t] # "kill"  BY DEF Store, At
  <2>. QED  BY <2>1, OwnLocals, StoredType, OwnHeldJob, HeldFields
<1>2. /\ UNCHANGED <<job, alive, jobOf>> /\ Locals(t, r)
      /\ pc[t] = "store"
      /\ child' = [child EXCEPT ![loc[t].engine] = loc[t].pid]
      /\ \E l \in {"failed", "spawn", "wait_adapter"} : Goto(t, l)
  BY DEF Store, At, system
<1>. HIDE DEF r
<1>3. Harmless(t)  BY <1>1, <1>2 DEF Harmless, Labels
<1>4. ThreadsKeep  BY <1>3, HarmlessKeeps
<1>5. StoredAreAssigned'
  BY <1>2 DEF Contained, StoredAreAssigned, Assigned, TypeInv, TypeOK
<1>. QED
  BY <1>2, <1>4, <1>5
     DEF Contained, InJobs, Held, Assigned, DeadHaveNoJob, ThreadsKeep

LEMMA StartStepsContained ==
  ASSUME TypeInv, Contained, NEW t \in Actors, StartSteps(t) PROVE Contained'
<1>1. CASE CreateJob(t) \/ Spawn(t) \/ Assign(t) \/ Store(t)
  BY <1>1, CreateJobContained, SpawnContained, AssignContained, StoreContained
<1>2. CASE SetFailed(t)
  BY <1>2, FinishHarmless, HarmlessKeeps, MarkFailedContained DEF SetFailed, At
<1>3. CASE ~(CreateJob(t) \/ Spawn(t) \/ Assign(t) \/ Store(t) \/ SetFailed(t))
  <2>1. Harmless(t)  BY <1>3, StartMovesHarmless DEF StartSteps
  <2>2. UNCHANGED <<child, job>> /\ UNCHANGED system
    BY <1>3 DEF StartSteps, WarmMark, BusyCheck, NewGeneration, Queue, StartCheck,
       Replace, CleanedCheck, WriteMarker, JobError, WaitAdapter, AdapterReady, AdapterError,
       AliveCheck, WaitRoutes, RouteReady, DnsReady, FinalCheck, Publish,
       StartFailed, FailedCheck, memory
  <2>. QED  BY <2>1, <2>2, HarmlessKeeps, KeepContained
<1>. QED  BY <1>1, <1>2, <1>3

\* A stop that takes the job and the engines holds them until it has ended them.
LEMMA TakeContained ==
  ASSUME TypeInv, Contained, NEW t \in Actors, Take(t) PROVE Contained'
<1>. DEFINE r == [loc[t] EXCEPT !.held = SlotPids, !.heldJob = job]
<1>1. r.heldJob = job
  BY OwnLocals, Zenon DEF LocalStates
<1>2. loc[t].heldJob = None
  BY OwnHeldJob DEF Take, Step, At
<1>3. /\ child' = [e \in Engines |-> None] /\ job' = None /\ UNCHANGED <<alive, jobOf>>
      /\ Goto(t, "kill") /\ Locals(t, r)
  BY DEF Take, Step, system
<1>. HIDE DEF r
<1>4. /\ pc'[t] = "kill" /\ loc'[t].heldJob = job
      /\ \A u \in Actors \ {t} : pc'[u] = pc[u] /\ loc'[u] = loc[u]
  BY <1>1, <1>3 DEF Goto, Locals, TypeInv, TypeOK
<1>5. alive \subseteq Pids /\ None \notin Pids
  BY ConstantsAssumption DEF TypeInv, TypeOK
<1>6. InJobs'  BY <1>2, <1>3, <1>4 DEF Contained, InJobs
<1>7. StoredAreAssigned'  BY <1>3, <1>5 DEF StoredAreAssigned
<1>8. Held' /\ Assigned' /\ DeadHaveNoJob'
  BY <1>3, <1>4 DEF Contained, Held, Assigned, DeadHaveNoJob
<1>. QED  BY <1>6, <1>7, <1>8 DEF Contained

LEMMA KillContained ==
  ASSUME TypeInv, Contained, NEW t \in Actors, Kill(t) PROVE Contained'
<1>. DEFINE r == [loc[t] EXCEPT !.held = {}, !.heldJob = None]
            dead == loc[t].held \cup InJob(loc[t].heldJob)
<1>1. r.heldJob = None
  BY OwnLocals, Zenon DEF LocalStates
<1>2. /\ Exit(dead) /\ UNCHANGED <<child, job>>
      /\ Goto(t, "settle") /\ Locals(t, r)
  BY DEF Kill, Step, memory
<1>. HIDE DEF r
<1>3. /\ pc'[t] = "settle" /\ loc'[t].heldJob = None
      /\ \A u \in Actors \ {t} : pc'[u] = pc[u] /\ loc'[u] = loc[u]
  BY <1>1, <1>2 DEF Goto, Locals, TypeInv, TypeOK
<1>4. \A p \in alive' : /\ p \in alive \ dead /\ p \in Pids
                        /\ jobOf'[p] = jobOf[p]
  BY <1>2 DEF Exit, TypeInv, TypeOK
<1>5. \A p \in alive' : jobOf[p] = loc[t].heldJob => jobOf[p] = None
  BY <1>4 DEF InJob
<1>. HIDE DEF dead
<1>6. InJobs'  BY <1>2, <1>3, <1>4, <1>5 DEF Contained, InJobs
<1>7. StoredAreAssigned'  BY <1>2, <1>4 DEF Contained, StoredAreAssigned
<1>8. Held' /\ Assigned'  BY <1>3, <1>4 DEF Contained, Held, Assigned
<1>9. DeadHaveNoJob'  BY <1>2 DEF Contained, DeadHaveNoJob, Exit
<1>. QED  BY <1>6, <1>7, <1>8, <1>9 DEF Contained

LEMMA StopStepsContained ==
  ASSUME TypeInv, Contained, NEW t \in Actors, StopSteps(t) PROVE Contained'
<1>1. CASE Settle(t) \/ ClearMarker(t) \/ Prepared(t)
  <2>1. Harmless(t)
    BY <1>1, MoveHarmless DEF Settle, ClearMarker, Prepared, Step, At, Labels
  <2>. QED
    BY <1>1, <2>1, HarmlessKeeps, KeepContained
       DEF Settle, ClearMarker, Prepared, memory
<1>2. CASE Linger(t)
  <2>1. AfterStop(loc[t].reason) \in Labels \ {"kill", "store"}
    BY OwnLocals, LocalFields DEF AfterStop, StopReasons, Labels
  <2>2. Harmless(t)  BY <1>2, <2>1, MoveHarmless DEF Linger, Step, At
  <2>. QED  BY <1>2, <2>2, HarmlessKeeps, KeepContained DEF Linger
<1>3. CASE Snapshot(t)
  <2>. DEFINE r == [loc[t] EXCEPT !.origin = "thread"]
  <2>1. pc[t] # "kill"  BY <1>3 DEF Snapshot, At
  <2>a. loc[t] \in LocalStates /\ loc[t].heldJob = None
    BY <2>1, OwnLocals, OwnHeldJob
  <2>b. r \in LocalStates
    BY <2>a, OriginType
  <2>c. r.heldJob = None
    BY <2>a, HeldFields
  <2>2. r \in LocalStates /\ r.heldJob = None
    BY <2>b, <2>c
  <2>3. \/ Goto(t, "stop_delay") /\ Locals(t, r)
        \/ Finish(t)
    BY <1>3 DEF Snapshot
  <2>. HIDE DEF r
  <2>4. Harmless(t)  BY <2>1, <2>2, <2>3, FinishHarmless DEF Harmless, Labels
  <2>. QED  BY <1>3, <2>4, HarmlessKeeps, RefreshRuntimeContained DEF Snapshot
<1>4. CASE StopDelay(t)
  BY <1>4, FinishHarmless, HarmlessKeeps, KeepContained DEF StopDelay, At, memory
<1>. QED
  BY <1>1, <1>2, <1>3, <1>4, TakeContained, KillContained DEF StopSteps

LEMMA RepairStepsContained ==
  ASSUME TypeInv, Contained, NEW t \in Actors, RepairSteps(t) PROVE Contained'
<1>1. UNCHANGED <<child, job>> /\ UNCHANGED system
  BY DEF RepairSteps, RepairEnter, RepairProbe, RepairAdapter, RepairReady,
     RepairProxy, RepairPublish, Rotate, memory
<1>2. pc[t] # "kill"
  BY DEF RepairSteps, RepairEnter, RepairProbe, RepairAdapter, RepairReady,
     RepairProxy, RepairPublish, Rotate, At
<1>3. CASE RepairEnter(t)
  <2>. DEFINE r == [loc[t] EXCEPT !.gen = runtime.gen, !.op = runtime.op]
  <2>1. runtime.gen \in Nat /\ runtime.op \in Ops \cup {None}
    BY RuntimeFields DEF TypeInv, TypeOK
  <2>2. r \in LocalStates  BY <2>1, OwnRepaired, Zenon
  <2>3. r.heldJob = loc[t].heldJob  BY OwnLocals, Zenon DEF LocalStates
  <2>4. \/ Goto(t, "stuck") /\ UNCHANGED loc
        \/ RepairError(t)
        \/ Goto(t, "repair_probe") /\ Locals(t, r)
    BY <1>3 DEF RepairEnter, SelfDeadlock
  <2>. HIDE DEF r
  <2>. QED
    BY <1>2, <2>2, <2>3, <2>4, OwnHeldJob, MoveHarmless, RepairErrorHarmless,
       HarmlessKeeps, KeepContained, <1>1 DEF Harmless, Labels
<1>4. CASE RepairProbe(t) \/ RepairAdapter(t) \/ RepairReady(t)
  <2>1. Harmless(t)
    BY <1>2, <1>4, RepairWaitHarmless DEF RepairProbe, RepairAdapter, RepairReady, Labels
  <2>. QED  BY <1>1, <2>1, HarmlessKeeps, KeepContained
<1>5. CASE RepairProxy(t) \/ RepairPublish(t)
  <2>1. Harmless(t)
    BY <1>2, <1>5, MoveHarmless, RepairErrorHarmless
       DEF RepairProxy, RepairPublish, SelfDeadlock, Labels
  <2>. QED  BY <1>1, <2>1, HarmlessKeeps, KeepContained
<1>6. CASE Rotate(t)
  <2>. DEFINE r == [NoLocals EXCEPT !.gen = opGen, !.request = runtime.request,
                                    !.origin = "event"]
  <2>1. opGen \in Nat /\ runtime.request \in Requests \cup {None}
    BY RuntimeFields DEF TypeInv, TypeOK
  <2>2. r \in LocalStates /\ r.heldJob = None
    BY <2>1, Zenon DEF NoLocals, LocalStates, Engines, StopReasons
  <2>3. \/ Goto(t, "start_check") /\ Locals(t, r)
        \/ Finish(t)
    BY <1>6 DEF Rotate
  <2>. HIDE DEF r
  <2>4. Harmless(t)  BY <1>2, <2>2, <2>3, FinishHarmless DEF Harmless, Labels
  <2>. QED  BY <1>1, <2>4, HarmlessKeeps, KeepContained
<1>. QED  BY <1>3, <1>4, <1>5, <1>6 DEF RepairSteps

LEMMA CommandContained ==
  ASSUME TypeInv, Contained, NEW t \in Threads, Command(t) PROVE Contained'
<1>1. t \in Actors  BY DEF Actors
<1>2. pc[t] # "kill"
  BY DEF Command, StartTunnel, StopTunnel, PrepareForUpdate, RepairRuntime,
     ReportProxyCompatibility, Accept, At
<1>3. ASSUME NEW l \in Labels \ {"kill", "store"}, NEW r \in LocalStates,
             Goto(t, l), Locals(t, r), r.heldJob = None
      PROVE ThreadsKeep
  BY <1>1, <1>2, <1>3, HarmlessKeeps DEF Harmless
<1>4. ASSUME NEW request \in Requests, StartTunnel(t, request) PROVE Contained'
  <2>. DEFINE accepted == [NoLocals EXCEPT !.request = request, !.origin = "command"]
              r == Refreshed(runtime)
              warmed == [NoLocals EXCEPT !.request = request, !.gen = r.gen,
                                         !.origin = "command"]
  <2>1. r.gen \in Nat
    BY RefreshedType, RuntimeFields DEF TypeInv, TypeOK
  <2>2. CASE EngineLost
    <3>1. MarkFailed /\ Goto(t, "busy_check") /\ Locals(t, accepted)
      BY <1>4, <2>2 DEF StartTunnel
    <3>2. accepted \in LocalStates /\ accepted.heldJob = None
      BY Zenon DEF NoLocals, LocalStates, Engines, StopReasons
    <3>. HIDE DEF accepted
    <3>3. ThreadsKeep  BY <1>3, <3>1, <3>2 DEF Labels
    <3>. QED  BY <3>1, <3>3, MarkFailedContained
  <2>3. CASE ~EngineLost
    <3>1. /\ UNCHANGED <<child, job>> /\ UNCHANGED system
          /\ Goto(t, "warm_mark") \/ Goto(t, "busy_check")
          /\ Locals(t, warmed)
      BY <1>4, <2>3 DEF StartTunnel
    <3>. HIDE DEF r
    <3>2. warmed \in LocalStates /\ warmed.heldJob = None
      BY <2>1, Zenon DEF NoLocals, LocalStates, Engines, StopReasons
    <3>. HIDE DEF warmed
    <3>3. ThreadsKeep  BY <1>3, <3>1, <3>2 DEF Labels
    <3>. QED  BY <3>1, <3>3, KeepContained
  <2>. QED  BY <2>2, <2>3
<1>5. ASSUME NEW op \in Ops \cup {None}, RepairRuntime(t, op) PROVE Contained'
  <2>. DEFINE r == [NoLocals EXCEPT !.op = op, !.origin = "command"]
  <2>1. r \in LocalStates /\ r.heldJob = None
    BY Zenon DEF NoLocals, LocalStates, Engines, StopReasons
  <2>2. Goto(t, "repair_enter") /\ Locals(t, r)  BY <1>5 DEF RepairRuntime
  <2>. HIDE DEF r
  <2>3. ThreadsKeep  BY <1>3, <2>1, <2>2 DEF Labels
  <2>. QED  BY <1>5, <2>3, KeepContained DEF RepairRuntime, memory
<1>6. ASSUME NEW op, NEW ok, ReportProxyCompatibility(t, op, ok) PROVE Contained'
  <2>. DEFINE r == [NoLocals EXCEPT !.origin = "command"]
  <2>1. r \in LocalStates /\ r.heldJob = None
    BY Zenon DEF NoLocals, LocalStates, Engines, StopReasons
  <2>2. Goto(t, "snapshot") /\ Locals(t, r)  BY <1>6 DEF ReportProxyCompatibility
  <2>. HIDE DEF r
  <2>3. ThreadsKeep  BY <1>3, <2>1, <2>2 DEF Labels
  <2>. QED  BY <1>6, <2>3, KeepContained DEF ReportProxyCompatibility
<1>7. ASSUME NEW reason \in {"stop_tunnel", "prepare_update"}, Goto(t, "take"),
             Locals(t, [NoLocals EXCEPT !.reason = reason, !.origin = "command"])
      PROVE ThreadsKeep
  <2>. DEFINE r == [NoLocals EXCEPT !.reason = reason, !.origin = "command"]
  <2>1. r \in LocalStates  BY StopCommandType DEF StopReasons
  <2>2. r.heldJob = None  BY Zenon DEF NoLocals
  <2>3. Goto(t, "take") /\ Locals(t, r)  BY <1>7
  <2>. HIDE DEF r
  <2>. QED  BY <1>3, <2>1, <2>2, <2>3 DEF Labels
<1>8. CASE StopTunnel(t) \/ PrepareForUpdate(t)
  BY <1>7, <1>8, KeepContained DEF StopTunnel, PrepareForUpdate, memory
<1>. QED  BY <1>4, <1>5, <1>6, <1>8 DEF Command

LEMMA NetworkEventContained == ASSUME TypeInv, Contained, NetworkEvent PROVE Contained'
<1>. DEFINE r == [NoLocals EXCEPT !.origin = "event"]
<1>1. r \in LocalStates /\ r.heldJob = None
  BY Zenon DEF NoLocals, LocalStates, Engines, StopReasons
<1>2. \/ \E t \in Threads : /\ pc[t] # "kill" /\ Goto(t, "repair_enter")
                            /\ Locals(t, r)
      \/ UNCHANGED <<pc, loc>>
  BY DEF NetworkEvent, At
<1>. HIDE DEF r
<1>3. ThreadsKeep
  BY <1>1, <1>2, HarmlessKeeps, SameThreadsKeep DEF Harmless, Labels, Actors
<1>. QED  BY <1>3, KeepContained DEF NetworkEvent

\* The end of the process closes every job; what runs on was in none.
LEMMA ProcessEndsContained == ASSUME TypeInv, Contained, ProcessEnds PROVE Contained'
<1>1. \A p \in alive' : p \in Pids /\ jobOf'[p] = None
  BY DEF ProcessEnds, Exit, TypeInv, TypeOK
<1>2. \A t \in Actors : loc'[t].heldJob = None /\ pc'[t] # "store"
  BY NoLocalsHeld DEF ProcessEnds
<1>3. None \notin Pids  BY ConstantsAssumption
<1>4. InJobs' /\ Held' /\ Assigned'  BY <1>1, <1>2 DEF InJobs, Held, Assigned
<1>5. StoredAreAssigned'  BY <1>1, <1>3 DEF StoredAreAssigned, ProcessEnds
<1>6. DeadHaveNoJob'  BY DEF Contained, DeadHaveNoJob, ProcessEnds, Exit
<1>. QED  BY <1>4, <1>5, <1>6 DEF Contained

LEMMA ContainedNext == ASSUME TypeInv, Contained, [Next]_vars PROVE Contained'
<1>1. CASE \E t \in Threads : Command(t) \/ Continue(t)
  BY <1>1, CommandContained, StartStepsContained, StopStepsContained,
     RepairStepsContained DEF Continue, Actors
<1>2. CASE MainStops
  <2>1. Harmless(Main)
    BY <1>2, StopOwnedHarmless DEF MainStops, Serving, Actors, StopReasons
  <2>. QED
    BY <1>2, <2>1, HarmlessKeeps, KeepContained DEF MainStops, Actors, memory
<1>3. CASE StopSteps(Main) \/ ServiceExit \/ Crash
  BY <1>3, StopStepsContained, ProcessEndsContained DEF ServiceExit, Crash, Actors
<1>4. CASE ServiceStart
  BY <1>4, MoveHarmless, HarmlessKeeps, KeepContained
     DEF ServiceStart, Step, At, Actors, Labels, memory
<1>5. CASE GetStatus
  BY <1>5, SameThreadsKeep, RefreshRuntimeContained DEF GetStatus
<1>6. CASE NetworkEvent  BY <1>6, NetworkEventContained
<1>7. CASE ScmStop \/ UNCHANGED vars
  BY <1>7, SameThreadsKeep, KeepContained DEF ScmStop, vars, memory, system
<1>8. CASE EngineExit
  BY <1>8, SameThreadsKeep, ExitContained DEF EngineExit, memory
<1>. QED
  BY <1>1, <1>2, <1>3, <1>4, <1>5, <1>6, <1>7, <1>8 DEF Next, MainSteps

\* In every run no engine is in a job nobody holds, and a stored engine is in one.
THEOREM EnginesStayContained == Spec => []EnginesAreContained
<1>1. Init => TypeInv /\ Contained
  <2>1. ASSUME Init PROVE Contained
    BY <2>1, NoLocalsHeld, ConstantsAssumption
       DEF Init, Contained, InJobs, StoredAreAssigned, Held, Assigned, DeadHaveNoJob
  <2>. QED  BY <2>1, TypeInit
<1>2. TypeInv /\ Contained /\ [Next]_vars => TypeInv' /\ Contained'
  BY TypeNext, ContainedNext
<1>. QED  BY <1>1, <1>2, ContainedParts, PTL DEF Spec

-----------------------------------------------------------------------------
(* A reported proxy failure sticks.  Each write of the runtime either leaves *)
(* the proxy check in place, ends the runtime, or is the report of success.  *)

Sticks ==
  "proxy" \in runtime.degraded =>
    \/ "proxy" \in runtime'.degraded
    \/ runtime'.proxy = "ready"
    \/ runtime'.state # "Connected"

\* every write of a start, a stop or a repair that does not touch the checks
LEMMA ChecksKept ==
  ASSUME NEW r \in Runtimes, NEW request, NEW g, NEW level
  PROVE /\ [r EXCEPT !.op = request.op, !.request = request, !.route = FALSE,
                     !.dns = FALSE].degraded = r.degraded
        /\ [r EXCEPT !.ports = TRUE].degraded = r.degraded
        /\ [r EXCEPT !.adapter = TRUE].degraded = r.degraded
        /\ [r EXCEPT !.route = TRUE].degraded = r.degraded
        /\ [r EXCEPT !.dns = TRUE].degraded = r.degraded
        /\ [r EXCEPT !.route = TRUE, !.dns = TRUE].degraded = r.degraded
        /\ [r EXCEPT !.proxy = IF @ = "degraded" THEN @ ELSE "ready"].degraded = r.degraded
        /\ [r EXCEPT !.state = "Connected"].degraded = r.degraded
        /\ [r EXCEPT !.rotationSeq = g].degraded = r.degraded
        /\ [r EXCEPT !.verdict = "CleanupPending"].degraded = r.degraded
        /\ [r EXCEPT !.state = "Connected", !.effective = level, !.verdict = level,
              !.proxy = "core_connected"].degraded = r.degraded
        /\ Failed(r).degraded = r.degraded
  BY Zenon DEF Runtimes, Failed

\* the two writes that touch the checks and may not drop the proxy's
LEMMA ProxyCheckKept ==
  ASSUME NEW r \in Runtimes, "proxy" \in r.degraded
  PROVE /\ "proxy" \in Repairing(r).degraded
        /\ "proxy" \in [r EXCEPT !.proxy = "degraded",
                                 !.degraded = @ \cup {"proxy"}].degraded
<1>1. Repairing(r).degraded = r.degraded \ {"recent_event"}
  BY Zenon DEF Repairing, Runtimes
<1>2. [r EXCEPT !.proxy = "degraded", !.degraded = @ \cup {"proxy"}].degraded
        = r.degraded \cup {"proxy"}
  BY Zenon DEF Runtimes
<1>. QED  BY <1>1, <1>2

\* refresh_runtime_verdict adds the event's check and removes none
LEMMA RefreshedKeeps ==
  ASSUME NEW r \in Runtimes, "proxy" \in r.degraded
  PROVE "proxy" \in Refreshed(r).degraded
<1>1. CASE r.state = "Connected" /\ r.fatal = {} /\ Ready(r)
  <2>. DEFINE checks == r.degraded \cup
                (IF r.effective \in {"Suspect", "Repairing"} THEN {"recent_event"} ELSE {})
              level == IF checks # {} \/ r.proxy \in {"pending", "failed", "degraded"}
                       THEN "ProtectedDegraded" ELSE "Protected"
  <2>1. Refreshed(r) = [r EXCEPT !.degraded = checks, !.effective = level, !.verdict = level]
    BY <1>1, Zenon DEF Refreshed
  <2>2. "proxy" \in checks  OBVIOUS
  <2>. HIDE DEF checks, level
  <2>3. Refreshed(r).degraded = checks  BY <2>1, Zenon DEF Runtimes
  <2>. QED  BY <2>2, <2>3
<1>2. CASE ~(r.state = "Connected" /\ r.fatal = {} /\ Ready(r))
  <2>1. Refreshed(r).degraded = r.degraded
    BY <1>2, ZenonT(60) DEF Refreshed, Runtimes, States
  <2>. QED  BY <2>1
<1>. QED  BY <1>1, <1>2

LEMMA RefreshRuntimeSticks == ASSUME TypeInv, RefreshRuntime PROVE Sticks
<1>1. runtime \in Runtimes  BY DEF TypeInv, TypeOK
<1>2. Failed(runtime).degraded = runtime.degraded  BY <1>1, ChecksKept
<1>. QED
  BY <1>1, <1>2, RefreshedKeeps DEF RefreshRuntime, MarkFailed, Sticks

LEMMA StartTunnelSticks ==
  ASSUME TypeInv, NEW t \in Threads, NEW request \in Requests, StartTunnel(t, request)
  PROVE Sticks
<1>1. runtime \in Runtimes  BY DEF TypeInv, TypeOK
<1>2. CASE EngineLost
  <2>1. runtime' = Failed(runtime)  BY <1>2 DEF StartTunnel, MarkFailed
  <2>. QED  BY <1>1, <2>1, ChecksKept DEF Sticks
<1>3. CASE ~EngineLost
  <2>. DEFINE r == Refreshed(runtime)
              reused == [r EXCEPT !.op = request.op, !.request = request,
                                  !.route = FALSE, !.dns = FALSE]
  <2>1. runtime' \in {reused, r}  BY <1>3 DEF StartTunnel
  <2>2. r \in Runtimes  BY <1>1, RefreshedType
  <2>3. "proxy" \in runtime.degraded => "proxy" \in r.degraded  BY <1>1, RefreshedKeeps
  <2>. HIDE DEF r
  <2>4. reused.degraded = r.degraded  BY <2>2, ChecksKept
  <2>. HIDE DEF reused
  <2>. QED  BY <2>1, <2>3, <2>4 DEF Sticks
<1>. QED  BY <1>2, <1>3

LEMMA StartStepsSticks == ASSUME TypeInv, NEW t \in Actors, StartSteps(t) PROVE Sticks
<1>1. runtime \in Runtimes  BY DEF TypeInv, TypeOK
<1>2. pc[t] \in StartLabels =>
        /\ Preparing(runtime, loc[t].request, loc[t].gen).state = "Connecting"
        /\ [Preparing(runtime, loc[t].request, loc[t].gen)
              EXCEPT !.request = loc[t].request].state = "Connecting"
  BY <1>1, StartRequest, OwnLocals, LocalFields, PreparingState
<1>3. CASE WarmMark(t) \/ BusyCheck(t) \/ NewGeneration(t) \/ StartCheck(t)
           \/ CleanedCheck(t) \/ Spawn(t) \/ Assign(t) \/ WaitAdapter(t)
           \/ WaitRoutes(t) \/ FinalCheck(t) \/ StartFailed(t) \/ FailedCheck(t)
  BY <1>3 DEF WarmMark, BusyCheck, NewGeneration, StartCheck, CleanedCheck, Spawn,
     Assign, WaitAdapter, WaitRoutes, FinalCheck, StartFailed, FailedCheck, memory, Sticks
<1>4. CASE \/ AdapterError(t, "adapter_timeout") \/ AdapterError(t, "adapter_cancelled")
           \/ AliveCheck(t, "alive_check", "wait_routes", "singbox")
           \/ AliveCheck(t, "final_alive", "final_check", "xray")
  BY <1>4 DEF AdapterError, AliveCheck, memory, Sticks
<1>5. CASE Queue(t)
  BY <1>2, <1>5 DEF Queue, Step, At, StartLabels, Sticks
<1>6. CASE Replace(t)
  BY <1>2, <1>6 DEF Replace, At, StartLabels, Sticks
<1>7. CASE WriteMarker(t)
  <2>. DEFINE announced ==
         [runtime EXCEPT !.state = "Connecting", !.effective = "Repairing",
            !.verdict = "Repairing", !.op = loc[t].request.op, !.gen = loc[t].gen]
  <2>1. runtime' \in {runtime, announced}  BY <1>7 DEF WriteMarker
  <2>2. announced.state = "Connecting"  BY <1>1, ConnectingWrites
  <2>. HIDE DEF announced
  <2>. QED  BY <2>1, <2>2 DEF Sticks
<1>8. CASE CreateJob(t)
  <2>1. runtime' = [runtime EXCEPT !.state = "Connecting", !.effective = "Connecting",
                      !.verdict = "Repairing", !.op = loc[t].request.op,
                      !.gen = loc[t].gen, !.ports = TRUE]
    BY <1>8 DEF CreateJob
  <2>. QED  BY <1>1, <2>1, ConnectingWrites DEF Sticks
<1>9. CASE Store(t)  BY <1>9 DEF Store, Sticks
<1>10. CASE JobError(t) \/ AdapterReady(t) \/ RouteReady(t) \/ DnsReady(t)
  BY <1>1, <1>10, ChecksKept DEF JobError, AdapterReady, RouteReady, DnsReady, Sticks
<1>11. CASE Publish(t)
  BY <1>1, <1>11, ChecksKept DEF Publish, Sticks
<1>12. CASE SetFailed(t)
  BY <1>1, <1>12, ChecksKept DEF SetFailed, MarkFailed, Sticks
<1>. QED
  BY <1>3, <1>4, <1>5, <1>6, <1>7, <1>8, <1>9, <1>10, <1>11, <1>12
     DEF StartSteps

LEMMA StopStepsSticks == ASSUME TypeInv, NEW t \in Actors, StopSteps(t) PROVE Sticks
<1>1. runtime \in Runtimes  BY DEF TypeInv, TypeOK
<1>2. CASE Take(t)
  <2>1. [runtime EXCEPT !.state = "Disconnecting", !.effective = "Disconnecting",
           !.verdict = "CleanupPending"].state = "Disconnecting"
    BY <1>1, Zenon DEF Runtimes
  <2>. QED  BY <1>2, <2>1 DEF Take, Sticks
<1>3. CASE Kill(t) \/ ClearMarker(t) \/ StopDelay(t) \/ Prepared(t)
  BY <1>3 DEF Kill, ClearMarker, StopDelay, Prepared, memory, Sticks
<1>4. CASE Settle(t)
  <2>1. ASSUME NEW r
        PROVE [DefaultRuntime EXCEPT !.gen = r.gen, !.request = r.request,
                 !.eventSeq = r.eventSeq, !.rotationSeq = r.rotationSeq].state
              = "Disconnected"
    BY Zenon DEF DefaultRuntime
  <2>. QED  BY <1>4, <2>1 DEF Settle, Sticks
<1>5. CASE Linger(t)  BY <1>1, <1>5, ChecksKept DEF Linger, Sticks
<1>6. CASE Snapshot(t)  BY <1>6, RefreshRuntimeSticks DEF Snapshot
<1>. QED  BY <1>2, <1>3, <1>4, <1>5, <1>6 DEF StopSteps

LEMMA RepairStepsSticks == ASSUME TypeInv, NEW t \in Actors, RepairSteps(t) PROVE Sticks
<1>1. runtime \in Runtimes  BY DEF TypeInv, TypeOK
<1>2. CASE RepairEnter(t)
  BY <1>1, <1>2, ProxyCheckKept DEF RepairEnter, Sticks
<1>3. CASE RepairProbe(t)  BY <1>3 DEF RepairProbe, memory, Sticks
<1>4. CASE RepairAdapter(t)  BY <1>1, <1>4, ChecksKept DEF RepairAdapter, Sticks
<1>5. CASE RepairReady(t)  BY <1>1, <1>5, ChecksKept DEF RepairReady, Sticks
<1>6. CASE RepairProxy(t)
  BY <1>1, <1>6, ChecksKept, ProxyCheckKept DEF RepairProxy, Sticks
<1>7. CASE RepairPublish(t)
  <2>1. [runtime EXCEPT !.state = "Connected"].degraded = runtime.degraded
    BY <1>1, ChecksKept
  <2>. QED  BY <1>7, <2>1 DEF RepairPublish, Sticks
<1>8. CASE Rotate(t)
  <2>1. [runtime EXCEPT !.rotationSeq = runtime.eventSeq].degraded = runtime.degraded
    BY <1>1, ChecksKept
  <2>. QED  BY <1>8, <2>1 DEF Rotate, Sticks
<1>. QED  BY <1>2, <1>3, <1>4, <1>5, <1>6, <1>7, <1>8 DEF RepairSteps

LEMMA CommandSticks == ASSUME TypeInv, NEW t \in Threads, Command(t) PROVE Sticks
<1>1. runtime \in Runtimes  BY DEF TypeInv, TypeOK
<1>2. ASSUME NEW op, NEW ok, ReportProxyCompatibility(t, op, ok) PROVE Sticks
  <2>1. [runtime EXCEPT !.proxy = "ready", !.degraded = @ \ {"proxy"}].proxy = "ready"
    BY <1>1, Zenon DEF Runtimes
  <2>. QED
    BY <1>1, <1>2, <2>1, ProxyCheckKept DEF ReportProxyCompatibility, Sticks
<1>. QED
  BY <1>2, StartTunnelSticks
     DEF Command, StopTunnel, PrepareForUpdate, RepairRuntime, Sticks, memory

LEMMA NetworkEventSticks == ASSUME TypeInv, NetworkEvent PROVE Sticks
<1>1. ASSUME NEW r \in Runtimes
      PROVE /\ [r EXCEPT !.effective = "Suspect", !.verdict = "Repairing"] \in Runtimes
            /\ [r EXCEPT !.effective = "Suspect",
                         !.verdict = "Repairing"].degraded = r.degraded
            /\ [r EXCEPT !.eventSeq = @ + 1].degraded = r.degraded
  BY Zenon DEF Runtimes, EffectiveStates, Verdicts
<1>2. PICK r \in Runtimes : /\ r.degraded = runtime.degraded
                            /\ runtime' = [r EXCEPT !.eventSeq = @ + 1]
  BY <1>1 DEF NetworkEvent, TypeInv, TypeOK
<1>. QED  BY <1>1, <1>2 DEF Sticks

LEMMA SticksNext == ASSUME TypeInv, [Next]_vars PROVE Sticks
<1>1. CASE \E t \in Threads : Command(t) \/ Continue(t)
  BY <1>1, CommandSticks, StartStepsSticks, StopStepsSticks, RepairStepsSticks
     DEF Continue, Actors
<1>2. CASE MainSteps \/ Crash
  <2>1. ProcessEnds => Sticks  BY DEF ProcessEnds, DefaultRuntime, Sticks
  <2>. QED
    BY <1>2, <2>1, StopStepsSticks
       DEF MainSteps, MainStops, ServiceExit, Crash, Actors, Sticks, memory
<1>3. CASE ServiceStart \/ GetStatus \/ NetworkEvent \/ ScmStop \/ EngineExit
  BY <1>3, RefreshRuntimeSticks, NetworkEventSticks
     DEF ServiceStart, GetStatus, ScmStop, EngineExit, Sticks, memory
<1>4. CASE UNCHANGED vars  BY <1>4 DEF vars, memory, Sticks
<1>. QED  BY <1>1, <1>2, <1>3, <1>4 DEF Next

\* Once the app has reported the proxy lane broken, nothing but a successful
\* report or the end of the runtime clears it, whatever repairs, warm starts,
\* polls and events come in between.
THEOREM ProxyFailureStays == Spec => ProxyFailureSticks
<1>1. Init => TypeInv  BY TypeInit
<1>2. TypeInv /\ [Next]_vars => TypeInv'  BY TypeNext
<1>3. ASSUME TypeInv, [Next]_vars
      PROVE [runtime.state = "Connected" /\ "proxy" \in runtime.degraded \ runtime'.degraded
               => runtime'.proxy = "ready" \/ runtime'.state # "Connected"]_vars
  BY <1>3, SticksNext DEF Sticks
<1>. QED  BY <1>1, <1>2, <1>3, PTL DEF Spec, ProxyFailureSticks

-----------------------------------------------------------------------------
(* One start at a time.  Where a client waits for one start to end before it *)
(* sends the next, and neither network events nor repairs run beside it, one *)
(* thread at most works for a request; stops, polls, reports, exits and      *)
(* crashes may interleave with it as they like.  ProtectedIsReal needs this: *)
(* of three starts that overlap, two may set the flags of the third (README).*)

OneStart == Inputs \cap {"overlap", "event", "repair"} = {}

\* the steps of a warm start
Reasserting == {"warm_mark", "repair_enter", "repair_probe", "repair_adapter",
  "repair_ready", "repair_proxy", "repair_publish"}

Lone ==
  /\ loc[Main].request = None
  /\ \A t \in Actors :
       /\ loc[t].origin # "event" /\ pc[t] # "rotate"
       /\ pc[t] \in Reasserting => loc[t].request # None
  /\ \A t, u \in Actors : loc[t].request # None /\ loc[u].request # None => t = u

\* The ports are announced by the start itself, and every step that empties the
\* slots withdraws them or is a stop on its way to do so; in between the engines
\* `es` of the request are stored.
Filled(es) ==
  ~Stopping /\ runtime.ports =>
    /\ runtime.request # None
    /\ \A e \in es : e \in EnginesFor(runtime.request.config) => child[e] # None

\* from the first generation check of a start to its end
Begun == (StartLabels \cup StopLabels) \ {"busy_check", "new_generation", "queue"}
\* between two spawns
Between == {"spawn", "assign", "store"}
\* after the last spawn, and after the entry of a repair
Complete == {"wait_adapter", "adapter_ready", "alive_check", "wait_routes",
  "route_ready", "dns_ready", "final_alive", "final_check", "publish",
  "repair_probe", "repair_adapter", "repair_ready", "repair_proxy", "repair_publish"}

Progress(t) ==
  /\ pc[t] \in Begun => runtime.state # "Connected" /\ runtime.request = loc[t].request
  /\ pc[t] \in Between /\ loc[t].engine = "singbox" => Filled({"xray"})
  /\ pc[t] \in Complete => Filled(Engines)
  /\ pc[t] \in {"assign", "store"} => loc[t].pid # None

ConnectedIsWhole == runtime.state = "Connected" => Filled(Engines)

Whole == /\ ConnectedIsWhole
         /\ \A t \in Actors : loc[t].request # None => Progress(t)

\* what the writes of a thread's locals leave alone
LEMMA KeptLocals ==
  ASSUME NEW l \in LocalStates, NEW x
  PROVE /\ [l EXCEPT !.reason = x].origin = l.origin
        /\ [l EXCEPT !.reason = "tun_adapter_repair", !.attempt = 2].origin = l.origin
        /\ [l EXCEPT !.gen = x].origin = l.origin
        /\ [l EXCEPT !.origin = x].origin = x
        /\ [l EXCEPT !.engine = x].origin = l.origin
        /\ [l EXCEPT !.engine = x].engine = x
        /\ [l EXCEPT !.pid = x].origin = l.origin
        /\ [l EXCEPT !.pid = x].engine = l.engine
        /\ [l EXCEPT !.pid = x].pid = x
        /\ [l EXCEPT !.pid = None, !.engine = "singbox"].origin = l.origin
  BY Zenon DEF LocalStates

LEMMA FreshLocals == NoLocals.request = None /\ NoLocals.origin = "thread"
  BY DEF NoLocals

-----------------------------------------------------------------------------
(* Steps that put nothing at risk.                                           *)

Safe ==
  /\ runtime'.request = runtime.request
  /\ runtime'.state = "Connected" => runtime.state = "Connected"
  /\ \/ Stopping' \/ ~runtime'.ports
     \/ /\ UNCHANGED child /\ (runtime'.ports => runtime.ports)
        /\ Stopping => Stopping'

LEMMA SafeFilled == ASSUME Safe, NEW es, Filled(es) PROVE Filled(es)'
  BY DEF Safe, Filled

LEMMA SafeConnected == ASSUME Safe, ConnectedIsWhole PROVE ConnectedIsWhole'
  BY SafeFilled DEF Safe, ConnectedIsWhole

\* a stop in progress is still in progress when another thread moves
LEMMA StillStopping ==
  ASSUME TypeInv, NEW t \in Actors, NEW l, Goto(t, l)
  PROVE /\ pc[t] \notin {"kill", "settle"} => (Stopping => Stopping')
        /\ l \in {"kill", "settle"} => Stopping'
  BY DEF Goto, Stopping, TypeInv, TypeOK

\* a thread that moves keeps the others as they are
LEMMA Moved ==
  ASSUME TypeInv, NEW t \in Actors, NEW l, NEW r, Goto(t, l), Locals(t, r)
  PROVE /\ pc'[t] = l /\ loc'[t] = r
        /\ \A u \in Actors \ {t} : pc'[u] = pc[u] /\ loc'[u] = loc[u]
  BY DEF Goto, Locals, TypeInv, TypeOK

\* the only starter stays the only one
LEMMA LoneMove ==
  ASSUME TypeInv, Lone, NEW t \in Actors, NEW l, NEW r, Goto(t, l), Locals(t, r),
         r.request \in {loc[t].request, None}, r.origin # "event", l # "rotate",
         l \in Reasserting => r.request # None
  PROVE Lone'
<1>1. Main \in Actors  BY DEF Actors
<1>2. \A u \in Actors : loc'[u].request \in {loc[u].request, None}
  BY Moved
<1>3. loc'[Main].request = None  BY <1>1, <1>2 DEF Lone
<1>4. \A u \in Actors :
        /\ loc'[u].origin # "event" /\ pc'[u] # "rotate"
        /\ pc'[u] \in Reasserting => loc'[u].request # None
  BY Moved DEF Lone
<1>5. \A u, v \in Actors : loc'[u].request # None /\ loc'[v].request # None => u = v
  BY <1>2 DEF Lone
<1>. QED  BY <1>3, <1>4, <1>5 DEF Lone

\* beside a starter no thread has anything to claim
LEMMA StarterMove ==
  ASSUME TypeInv, Lone, Whole, NEW t \in Actors, NEW l, NEW r,
         Goto(t, l), Locals(t, r), loc[t].request # None,
         r.request \in {loc[t].request, None}, r.origin # "event", l # "rotate",
         l \in Reasserting => r.request # None,
         ConnectedIsWhole', r.request # None => Progress(t)'
  PROVE Lone' /\ Whole'
<1>1. \A u \in Actors \ {t} : loc'[u].request = None
  BY Moved DEF Lone
<1>2. loc'[t].request # None => Progress(t)'  BY Moved
<1>. QED  BY <1>1, <1>2, LoneMove DEF Whole

\* a safe step that brings its thread no nearer to the end of its start
Onward(t, l, r) ==
  r.request # None =>
    /\ l \in Begun => pc[t] \in Begun
    /\ l \in Between => pc[t] \in Between /\ r.engine = loc[t].engine
    /\ l \in Complete => pc[t] \in Complete
    /\ l \in {"assign", "store"} => r.pid # None

LEMMA SafeMove ==
  ASSUME TypeInv, Lone, Whole, Safe, NEW t \in Actors, NEW l, NEW r,
         Goto(t, l), Locals(t, r),
         r.request \in {loc[t].request, None}, r.origin # "event", l # "rotate",
         l \in Reasserting => r.request # None, Onward(t, l, r)
  PROVE Lone' /\ Whole'
<1>1. ASSUME NEW u \in Actors, loc'[u].request # None PROVE Progress(u)'
  <2>1. CASE u # t
    <3>1. pc'[u] = pc[u] /\ loc'[u] = loc[u]  BY <2>1, Moved
    <3>2. Progress(u)  BY <1>1, <3>1 DEF Whole
    <3>. QED  BY <3>1, <3>2, SafeFilled DEF Progress, Safe
  <2>2. CASE u = t
    <3>1. pc'[t] = l /\ loc'[t] = r  BY Moved
    <3>2. r.request = loc[t].request /\ loc[t].request # None
      BY <1>1, <2>2, <3>1
    <3>3. Progress(t)  BY <3>2 DEF Whole
    <3>. QED  BY <2>2, <3>1, <3>2, <3>3, SafeFilled DEF Progress, Safe, Onward
  <2>. QED  BY <2>1, <2>2
<1>2. ConnectedIsWhole'  BY SafeConnected DEF Whole
<1>. QED  BY <1>1, <1>2, LoneMove DEF Whole

LEMMA SafeStill ==
  ASSUME Lone, Whole, Safe, UNCHANGED <<pc, loc>>
  PROVE Lone' /\ Whole'
<1>1. Lone'  BY DEF Lone
<1>2. ASSUME NEW u \in Actors, loc'[u].request # None PROVE Progress(u)'
  <2>1. Progress(u)  BY <1>2 DEF Whole
  <2>. QED  BY <2>1, SafeFilled DEF Progress, Safe
<1>3. ConnectedIsWhole'  BY SafeConnected DEF Whole
<1>. QED  BY <1>1, <1>2, <1>3 DEF Whole

\* what the helpers of the threads do
LEMMA OwnOrigin == ASSUME Lone, NEW t \in Actors PROVE loc[t].origin # "event"
  BY DEF Lone

\* a label that claims nothing new
Ahead(t, l) ==
  /\ l # "rotate" /\ (l \in Between => l = "store" /\ pc[t] = "assign")
  /\ l \in Reasserting => pc[t] \in Reasserting
  /\ l \in Begun => pc[t] \in Begun
  /\ l \in Complete => pc[t] \in Complete

LEMMA SafeGoto ==
  ASSUME TypeInv, Lone, Whole, Safe, NEW t \in Actors, NEW l, Ahead(t, l),
         Goto(t, l), UNCHANGED loc
  PROVE Lone' /\ Whole'
<1>1. Locals(t, loc[t]) /\ loc[t].origin # "event"  BY SameLocals, OwnOrigin
<1>2. l \in Reasserting => loc[t].request # None  BY DEF Lone, Ahead
<1>3. l = "store" /\ loc[t].request # None => loc[t].pid # None
  BY DEF Whole, Progress, Between, Ahead
<1>4. Onward(t, l, loc[t])  BY <1>3 DEF Onward, Between, Ahead
<1>. QED  BY <1>1, <1>2, <1>4, SafeMove DEF Ahead

LEMMA SafeFinish ==
  ASSUME TypeInv, Lone, Whole, Safe, NEW t \in Actors, Finish(t)
  PROVE Lone' /\ Whole'
<1>1. Goto(t, "idle") /\ Locals(t, NoLocals)  BY DEF Finish
<1>2. Onward(t, "idle", NoLocals)  BY FreshLocals DEF Onward
<1>3. "idle" \notin Reasserting  BY DEF Reasserting
<1>. QED  BY <1>1, <1>2, <1>3, FreshLocals, SafeMove

LEMMA SafeStopOwned ==
  ASSUME TypeInv, Lone, Whole, Safe, NEW t \in Actors, NEW reason \in StopReasons,
         StopOwned(t, reason), loc[t].request # None => pc[t] \in Begun
  PROVE Lone' /\ Whole'
<1>. DEFINE r == [loc[t] EXCEPT !.reason = reason]
<1>1. r.request = loc[t].request /\ r.origin = loc[t].origin
  BY OwnLocals, ReasonType, KeptLocals
<1>2. Goto(t, "take") /\ Locals(t, r)  BY DEF StopOwned
<1>. HIDE DEF r
<1>3. Onward(t, "take", r)  BY <1>1 DEF Onward, Between, Complete
<1>. QED  BY <1>1, <1>2, <1>3, OwnOrigin, SafeMove DEF Reasserting

LEMMA SafeBringUpError ==
  ASSUME TypeInv, Lone, Whole, Safe, NEW t \in Actors, NEW b, BringUpError(t, b),
         pc[t] \in Begun
  PROVE Lone' /\ Whole'
<1>. DEFINE r == [loc[t] EXCEPT !.reason = "tun_adapter_repair", !.attempt = 2]
<1>1. r.request = loc[t].request /\ r.origin = loc[t].origin
  BY OwnLocals, RetryType, KeptLocals
<1>2. \/ Goto(t, "take") /\ Locals(t, r)
      \/ Goto(t, "failed") /\ UNCHANGED loc
  BY DEF BringUpError
<1>. HIDE DEF r
<1>3. Onward(t, "take", r)  BY <1>1 DEF Onward, Between, Complete
<1>4. CASE Goto(t, "take") /\ Locals(t, r)
  BY <1>1, <1>3, <1>4, OwnOrigin, SafeMove DEF Reasserting
<1>5. CASE Goto(t, "failed") /\ UNCHANGED loc
  <2>1. Ahead(t, "failed")  BY DEF Ahead, Reasserting, Between, Complete
  <2>. QED  BY <1>5, <2>1, SafeGoto
<1>. QED  BY <1>2, <1>4, <1>5

LEMMA SafeIfCurrent ==
  ASSUME TypeInv, Lone, Whole, Safe, NEW t \in Actors, NEW l, IfCurrent(t, l),
         pc[t] \in Begun, Ahead(t, l)
  PROVE Lone' /\ Whole'
  BY SafeGoto, SafeBringUpError DEF IfCurrent

LEMMA SafeRepairError ==
  ASSUME TypeInv, Lone, Whole, Safe, NEW t \in Actors, RepairError(t)
  PROVE Lone' /\ Whole'
  BY OwnOrigin, SafeFinish DEF RepairError

LEMMA SafeRepairWait ==
  ASSUME TypeInv, Lone, Whole, Safe, NEW t \in Actors, NEW l, Ahead(t, l),
         RepairWait(t, l)
  PROVE Lone' /\ Whole'
  BY SafeGoto, SafeRepairError DEF RepairWait

-----------------------------------------------------------------------------
(* Which writes are safe.                                                    *)

Same(w, r) == w.request = r.request /\ w.state = r.state /\ w.ports = r.ports

LEMMA SameWrites ==
  ASSUME NEW r \in Runtimes, NEW x
  PROVE /\ Same(r, r)
        /\ Same([r EXCEPT !.adapter = TRUE], r)
        /\ Same([r EXCEPT !.route = TRUE], r)
        /\ Same([r EXCEPT !.dns = TRUE], r)
        /\ Same([r EXCEPT !.route = TRUE, !.dns = TRUE], r)
        /\ Same([r EXCEPT !.verdict = "CleanupPending"], r)
        /\ Same(Repairing(r), r)
        /\ Same([r EXCEPT !.proxy = IF @ = "degraded" THEN @ ELSE "ready"], r)
        /\ Same([r EXCEPT !.proxy = "degraded", !.degraded = @ \cup {"proxy"}], r)
        /\ Same([r EXCEPT !.proxy = "ready", !.degraded = @ \ {"proxy"}], r)
  BY Zenon DEF Same, Repairing, Runtimes

LEMMA SameRefreshed == ASSUME NEW r \in Runtimes PROVE Same(Refreshed(r), r)
<1>1. Refreshed(r).request = r.request
  BY ZenonT(60) DEF Refreshed, Runtimes, States
<1>2. Refreshed(r).ports = r.ports
  BY ZenonT(60) DEF Refreshed, Runtimes, States
<1>. QED  BY <1>1, <1>2, RefreshedState DEF Same

LEMMA FailedFields ==
  ASSUME NEW r \in Runtimes
  PROVE /\ Failed(r).request = r.request /\ Failed(r).state = "Failed"
        /\ ~Failed(r).ports
  BY Zenon DEF Failed, Runtimes

LEMMA SafeWrite ==
  ASSUME Same(runtime', runtime), UNCHANGED child, Stopping => Stopping'
  PROVE Safe
  BY DEF Same, Safe

LEMMA SafeBeside ==
  ASSUME TypeInv, NEW t \in Actors, NEW l, Goto(t, l), pc[t] \notin {"kill", "settle"},
         Same(runtime', runtime), UNCHANGED child
  PROVE Safe
  BY StillStopping, SafeWrite

LEMMA SafeMemory ==
  ASSUME TypeInv, NEW t \in Actors, NEW l, Goto(t, l), pc[t] \notin {"kill", "settle"},
         UNCHANGED memory
  PROVE Safe
  BY SafeBeside DEF Same, memory

LEMMA SafeMarkFailed == ASSUME TypeInv, MarkFailed PROVE Safe
  BY FailedFields DEF MarkFailed, Safe, TypeInv, TypeOK

LEMMA SafeRefresh ==
  ASSUME TypeInv, RefreshRuntime, Stopping => Stopping'
  PROVE Safe
<1>1. CASE EngineLost  BY <1>1, SafeMarkFailed DEF RefreshRuntime
<1>2. CASE ~EngineLost
  BY <1>2, SameRefreshed, SafeWrite DEF RefreshRuntime, TypeInv, TypeOK
<1>. QED  BY <1>1, <1>2

\* the thread of a start is its only thread
LEMMA StartOwner ==
  ASSUME TypeInv, NEW t \in Actors, pc[t] \in StartLabels
  PROVE loc[t].request # None
  BY StartRequest, RequestsAssumption

LEMMA ReassertOwner ==
  ASSUME Lone, NEW t \in Actors, pc[t] \in Reasserting
  PROVE loc[t].request # None
  BY DEF Lone

-----------------------------------------------------------------------------
(* The safe steps of a start.                                                *)

LEMMA PlainStartWhole ==
  ASSUME TypeInv, Lone, Whole, NEW t \in Actors,
         WarmMark(t) \/ BusyCheck(t) \/ WaitAdapter(t)
  PROVE Lone' /\ Whole'
<1>1. CASE WarmMark(t)
  <2>1. Safe  BY <1>1, SafeMemory DEF WarmMark, Step, At
  <2>2. Ahead(t, "repair_enter")
    BY <1>1 DEF WarmMark, Step, At, Ahead, Between, Reasserting, Begun, Complete,
       StartLabels, StopLabels
  <2>. QED  BY <1>1, <2>1, <2>2, SafeGoto DEF WarmMark, Step
<1>2. CASE BusyCheck(t)
  <2>. DEFINE l == IF runtime.state \in {"Connecting", "Disconnecting"}
                   THEN "snapshot" ELSE "new_generation"
  <2>1. At(t, "busy_check") /\ Goto(t, l) /\ UNCHANGED loc /\ UNCHANGED memory
    BY <1>2 DEF BusyCheck
  <2>2. l \in {"snapshot", "new_generation"}  OBVIOUS
  <2>. HIDE DEF l
  <2>3. Safe  BY <2>1, SafeMemory DEF At
  <2>4. Ahead(t, l)
    BY <2>2 DEF Ahead, Between, Reasserting, Begun, Complete, StartLabels, StopLabels
  <2>. QED  BY <2>1, <2>3, <2>4, SafeGoto
<1>3. CASE WaitAdapter(t)
  <2>1. PICK l \in {"adapter_ready", "adapter_timeout", "adapter_cancelled"} : Goto(t, l)
    BY <1>3 DEF WaitAdapter
  <2>2. At(t, "wait_adapter") /\ UNCHANGED loc /\ UNCHANGED memory
    BY <1>3 DEF WaitAdapter
  <2>3. Safe  BY <2>1, <2>2, SafeMemory DEF At
  <2>4. Ahead(t, l)
    BY <2>1, <2>2 DEF At, Ahead, Between, Reasserting, Begun, Complete, StartLabels,
       StopLabels
  <2>. QED  BY <2>1, <2>2, <2>3, <2>4, SafeGoto
<1>. QED  BY <1>1, <1>2, <1>3

LEMMA NewGenerationWhole ==
  ASSUME TypeInv, Lone, Whole, NEW t \in Actors, NewGeneration(t)
  PROVE Lone' /\ Whole'
<1>. DEFINE r == [loc[t] EXCEPT !.gen = opGen + 1]
<1>1. r.request = loc[t].request /\ r.origin = loc[t].origin
  <2>1. opGen + 1 \in Nat  BY DEF TypeInv, TypeOK
  <2>. QED  BY <2>1, OwnLocals, GenType, KeptLocals
<1>2. Goto(t, "queue") /\ Locals(t, r) /\ At(t, "new_generation") /\ UNCHANGED memory
  BY DEF NewGeneration, Step
<1>. HIDE DEF r
<1>3. Safe  BY <1>2, SafeMemory DEF At
<1>4. Onward(t, "queue", r)
  BY DEF Onward, Begun, Between, Complete, StartLabels, StopLabels
<1>. QED  BY <1>1, <1>2, <1>3, <1>4, OwnOrigin, SafeMove DEF Reasserting

\* the generation checks, with what they follow
LEMMA CheckedWhole ==
  ASSUME TypeInv, Lone, Whole, NEW t \in Actors,
         \/ StartCheck(t) \/ CleanedCheck(t) \/ AdapterReady(t)
         \/ RouteReady(t) \/ DnsReady(t)
  PROVE Lone' /\ Whole'
<1>1. runtime \in Runtimes  BY DEF TypeInv, TypeOK
<1>2. PICK l, m : /\ <<m, l>> \in {<<"start_check", "replace">>, <<"cleaned_check", "mark">>,
                         <<"adapter_ready", "alive_check">>, <<"route_ready", "dns_ready">>,
                         <<"dns_ready", "final_alive">>}
                  /\ At(t, m) /\ IfCurrent(t, l)
  BY DEF StartCheck, CleanedCheck, AdapterReady, RouteReady, DnsReady
<1>3. Same(runtime', runtime) /\ UNCHANGED child
  BY <1>1, SameWrites
     DEF StartCheck, CleanedCheck, AdapterReady, RouteReady, DnsReady, memory
<1>4. Ahead(t, l) /\ pc[t] \in Begun /\ pc[t] \notin {"kill", "settle"}
  BY <1>2 DEF At, Ahead, Between, Reasserting, Begun, Complete, StartLabels, StopLabels
<1>5. \E k : Goto(t, k)  BY <1>2 DEF IfCurrent, BringUpError
<1>6. Safe  BY <1>3, <1>4, <1>5, SafeBeside
<1>. QED  BY <1>2, <1>4, <1>6, SafeIfCurrent

LEMMA WaitsWhole ==
  ASSUME TypeInv, Lone, Whole, NEW t \in Actors, WaitRoutes(t) \/ FinalCheck(t)
  PROVE Lone' /\ Whole'
<1>0. ASSUME NEW l, NEW m, <<m, l>> \in {<<"wait_routes", "route_ready">>,
                                         <<"final_check", "publish">>},
             At(t, m), UNCHANGED memory,
             IfCurrent(t, l) \/ \E b : BringUpError(t, b)
      PROVE Lone' /\ Whole'
  <2>1. Ahead(t, l) /\ pc[t] \in Begun /\ pc[t] \notin {"kill", "settle"}
    BY <1>0 DEF At, Ahead, Between, Reasserting, Begun, Complete, StartLabels, StopLabels
  <2>2. \E k : Goto(t, k)  BY <1>0 DEF IfCurrent, BringUpError
  <2>3. Safe  BY <1>0, <2>1, <2>2, SafeMemory
  <2>. QED  BY <1>0, <2>1, <2>3, SafeIfCurrent, SafeBringUpError
<1>1. CASE WaitRoutes(t)
  <2>1. IfCurrent(t, "route_ready") \/ \E b : BringUpError(t, b)
    BY <1>1, Zenon DEF WaitRoutes
  <2>. QED  BY <1>0, <1>1, <2>1 DEF WaitRoutes
<1>2. CASE FinalCheck(t)
  <2>1. IfCurrent(t, "publish") \/ \E b : BringUpError(t, b)
    BY <1>2, Zenon DEF FinalCheck
  <2>. QED  BY <1>0, <1>2, <2>1 DEF FinalCheck
<1>. QED  BY <1>1, <1>2

LEMMA AdapterErrorWhole ==
  ASSUME TypeInv, Lone, Whole, NEW t \in Actors,
         NEW from \in {"adapter_timeout", "adapter_cancelled"}, AdapterError(t, from)
  PROVE Lone' /\ Whole'
<1>1. \E b : BringUpError(t, b)  BY Zenon DEF AdapterError, FatalLog
<1>2. At(t, from) /\ UNCHANGED memory  BY DEF AdapterError
<1>3. pc[t] \in Begun /\ pc[t] \notin {"kill", "settle"}
  BY <1>2 DEF At, Begun, StartLabels
<1>4. \E k : Goto(t, k)  BY <1>1 DEF BringUpError
<1>5. Safe  BY <1>2, <1>3, <1>4, SafeMemory
<1>. QED  BY <1>1, <1>3, <1>5, SafeBringUpError

LEMMA AliveCheckWhole ==
  ASSUME TypeInv, Lone, Whole, NEW t \in Actors, NEW from, NEW to, NEW first,
         <<from, to>> \in {<<"alive_check", "wait_routes">>, <<"final_alive", "final_check">>},
         AliveCheck(t, from, to, first)
  PROVE Lone' /\ Whole'
<1>1. (Goto(t, to) /\ UNCHANGED loc) \/ \E b : BringUpError(t, b)
  BY Zenon DEF AliveCheck, FatalLog
<1>2. At(t, from) /\ UNCHANGED memory  BY DEF AliveCheck
<1>3. Ahead(t, to) /\ pc[t] \in Begun /\ pc[t] \notin {"kill", "settle"}
  BY <1>2 DEF At, Ahead, Between, Reasserting, Begun, Complete, StartLabels, StopLabels
<1>4. \E k : Goto(t, k)  BY <1>1 DEF BringUpError
<1>5. Safe  BY <1>2, <1>3, <1>4, SafeMemory
<1>. QED  BY <1>1, <1>3, <1>5, SafeGoto, SafeBringUpError

\* a start that has failed
LEMMA FailuresWhole ==
  ASSUME TypeInv, Lone, Whole, NEW t \in Actors,
         StartFailed(t) \/ FailedCheck(t) \/ SetFailed(t)
  PROVE Lone' /\ Whole'
<1>1. CASE StartFailed(t)
  <2>1. /\ At(t, "failed") /\ UNCHANGED memory
        /\ StopOwned(t, "failed_cleanup") \/ Finish(t)
    BY <1>1 DEF StartFailed
  <2>2. \E k : Goto(t, k)  BY <2>1 DEF StopOwned, Finish
  <2>3. Safe  BY <2>1, <2>2, SafeMemory DEF At
  <2>4. pc[t] \in Begun /\ "failed_cleanup" \in StopReasons
    BY <2>1 DEF At, Begun, StartLabels, StopReasons
  <2>. QED  BY <2>1, <2>3, <2>4, SafeStopOwned, SafeFinish
<1>2. CASE FailedCheck(t)
  <2>1. /\ At(t, "failed_check") /\ UNCHANGED memory
        /\ (Goto(t, "set_failed") /\ UNCHANGED loc) \/ Finish(t)
    BY <1>2 DEF FailedCheck
  <2>2. \E k : Goto(t, k)  BY <2>1 DEF Finish
  <2>3. Safe  BY <2>1, <2>2, SafeMemory DEF At
  <2>4. Ahead(t, "set_failed")
    BY <2>1 DEF At, Ahead, Between, Reasserting, Begun, Complete, StartLabels, StopLabels
  <2>. QED  BY <2>1, <2>3, <2>4, SafeGoto, SafeFinish
<1>3. CASE SetFailed(t)
  BY <1>3, SafeMarkFailed, SafeFinish DEF SetFailed
<1>. QED  BY <1>1, <1>2, <1>3

-----------------------------------------------------------------------------
(* The steps of a start that announce, store or publish.                     *)

\* a start that has begun is alone, and the runtime holds its request
LEMMA BegunFacts ==
  ASSUME TypeInv, Whole, NEW t \in Actors, pc[t] \in StartLabels
  PROVE /\ loc[t].request # None /\ loc[t].request \in Requests
        /\ runtime \in Runtimes /\ loc[t] \in LocalStates
        /\ Progress(t)
        /\ pc[t] \notin {"busy_check", "new_generation", "queue"} =>
             runtime.state # "Connected" /\ runtime.request = loc[t].request
<1>1. loc[t].request # None /\ Progress(t)  BY StartOwner DEF Whole
<1>. QED
  BY <1>1, StartRequest, OwnLocals DEF Progress, Begun, TypeInv, TypeOK

LEMMA QueueWhole ==
  ASSUME TypeInv, Lone, Whole, NEW t \in Actors, Queue(t)
  PROVE Lone' /\ Whole'
<1>. DEFINE r == [loc[t] EXCEPT !.origin = "thread"]
            p == Preparing(runtime, loc[t].request, loc[t].gen)
<1>0. At(t, "queue") /\ Goto(t, "start_check") /\ Locals(t, r)
      /\ runtime' = [p EXCEPT !.request = loc[t].request]
  BY DEF Queue, Step
<1>1. loc[t].request # None /\ loc[t].request \in Requests
      /\ runtime \in Runtimes /\ loc[t] \in LocalStates
  BY <1>0, BegunFacts DEF At, StartLabels
<1>2. p \in Runtimes /\ loc[t].gen \in Nat  BY <1>1, LocalFields, PreparingType
<1>3. r.request = loc[t].request /\ r.origin = "thread"
  BY <1>1, OriginType, KeptLocals
<1>4. runtime'.state = "Connecting"  BY <1>0, <1>1, <1>2, PreparingState
<1>. HIDE DEF p
<1>5. runtime'.request = loc[t].request  BY <1>0, <1>2, Zenon DEF Runtimes
<1>. HIDE DEF r
<1>6. pc'[t] = "start_check" /\ loc'[t] = r  BY <1>0, Moved
<1>7. Progress(t)'
  BY <1>3, <1>4, <1>5, <1>6 DEF Progress, Between, Complete
<1>8. ConnectedIsWhole'  BY <1>4 DEF ConnectedIsWhole
<1>. QED  BY <1>0, <1>1, <1>3, <1>7, <1>8, StarterMove DEF Reasserting

LEMMA ReplaceWhole ==
  ASSUME TypeInv, Lone, Whole, NEW t \in Actors, Replace(t)
  PROVE Lone' /\ Whole'
<1>. DEFINE r == [loc[t] EXCEPT !.reason = "replace_tunnel"]
            p == Preparing(runtime, loc[t].request, loc[t].gen)
<1>0. At(t, "replace") /\ Goto(t, "take") /\ Locals(t, r) /\ runtime' = p
  BY DEF Replace, StopOwned
<1>1. /\ loc[t].request # None /\ loc[t].request \in Requests
      /\ runtime \in Runtimes /\ loc[t] \in LocalStates
      /\ runtime.request = loc[t].request
  BY <1>0, BegunFacts DEF At, StartLabels
<1>2. p.state = "Connecting"  BY <1>1, LocalFields, PreparingState
<1>3. p.request = runtime.request
  <2>1. ASSUME NEW request, NEW gen PROVE Preparing(runtime, request, gen).request = runtime.request
    BY <1>1, Zenon DEF Preparing, Runtimes
  <2>. QED  BY <2>1
<1>4. r.request = loc[t].request /\ r.origin = loc[t].origin
  BY <1>1, ReasonType, KeptLocals DEF StopReasons
<1>. HIDE DEF p, r
<1>5. pc'[t] = "take" /\ loc'[t] = r  BY <1>0, Moved
<1>6. Progress(t)'
  BY <1>0, <1>1, <1>2, <1>3, <1>4, <1>5 DEF Progress, Between, Complete
<1>7. ConnectedIsWhole'  BY <1>0, <1>2 DEF ConnectedIsWhole
<1>. QED  BY <1>0, <1>1, <1>4, <1>6, <1>7, OwnOrigin, StarterMove DEF Reasserting

LEMMA WriteMarkerWhole ==
  ASSUME TypeInv, Lone, Whole, NEW t \in Actors, WriteMarker(t)
  PROVE Lone' /\ Whole'
<1>. DEFINE announced ==
       [runtime EXCEPT !.state = "Connecting", !.effective = "Repairing",
          !.verdict = "Repairing", !.op = loc[t].request.op, !.gen = loc[t].gen]
<1>0. /\ At(t, "mark") /\ Goto(t, "create_job") /\ UNCHANGED loc
      /\ runtime' \in {runtime, announced} /\ UNCHANGED child
  BY DEF WriteMarker, Step
<1>1. runtime \in Runtimes  BY DEF TypeInv, TypeOK
<1>2. announced.state = "Connecting" /\ announced.request = runtime.request
      /\ announced.ports = runtime.ports
  <2>1. ASSUME NEW op, NEW gen
        PROVE LET w == [runtime EXCEPT !.state = "Connecting", !.effective = "Repairing",
                          !.verdict = "Repairing", !.op = op, !.gen = gen]
              IN /\ w.state = "Connecting" /\ w.request = runtime.request
                 /\ w.ports = runtime.ports
    BY <1>1, Zenon DEF Runtimes
  <2>. QED  BY <2>1
<1>. HIDE DEF announced
<1>3. Stopping => Stopping'  BY <1>0, StillStopping DEF At
<1>4. Safe  BY <1>0, <1>2, <1>3 DEF Safe
<1>5. Ahead(t, "create_job")
  BY <1>0 DEF At, Ahead, Between, Reasserting, Begun, Complete, StartLabels, StopLabels
<1>. QED  BY <1>0, <1>4, <1>5, SafeGoto

LEMMA CreateJobWhole ==
  ASSUME TypeInv, Lone, Whole, NEW t \in Actors, CreateJob(t)
  PROVE Lone' /\ Whole'
<1>. DEFINE first == FirstEngine(loc[t].request.config)
            r == [loc[t] EXCEPT !.engine = first]
<1>0. At(t, "create_job") /\ UNCHANGED child
  BY DEF CreateJob
<1>1. /\ loc[t].request # None /\ loc[t].request \in Requests
      /\ runtime \in Runtimes /\ loc[t] \in LocalStates
      /\ runtime.request = loc[t].request
  BY <1>0, BegunFacts DEF At, StartLabels
<1>2. runtime'.state = "Connecting" /\ runtime'.request = runtime.request
  <2>1. ASSUME NEW op, NEW gen
        PROVE LET w == [runtime EXCEPT !.state = "Connecting", !.effective = "Connecting",
                          !.verdict = "Repairing", !.op = op, !.gen = gen, !.ports = TRUE]
              IN w.state = "Connecting" /\ w.request = runtime.request
    BY <1>1, Zenon DEF Runtimes
  <2>. QED  BY <2>1 DEF CreateJob
<1>3. ConnectedIsWhole'  BY <1>2 DEF ConnectedIsWhole
<1>4. CASE Current(t)
  <2>1. first \in Engines /\ (first = "singbox" => "xray" \notin EnginesFor(loc[t].request.config))
    BY DEF FirstEngine, EnginesFor, Engines
  <2>2. r.request = loc[t].request /\ r.origin = loc[t].origin /\ r.engine = first
    BY <1>1, <2>1, EngineType, KeptLocals
  <2>3. Goto(t, "spawn") /\ Locals(t, r)  BY <1>4 DEF CreateJob
  <2>. HIDE DEF first, r
  <2>4. pc'[t] = "spawn" /\ loc'[t] = r  BY <2>3, Moved
  <2>5. r.engine = "singbox" => Filled({"xray"})'
    BY <1>1, <1>2, <2>1, <2>2 DEF Filled
  <2>6. Progress(t)'
    BY <1>1, <1>2, <2>2, <2>4, <2>5 DEF Progress, Complete
  <2>. QED  BY <1>1, <1>3, <2>2, <2>3, <2>6, OwnOrigin, StarterMove DEF Reasserting
<1>5. CASE ~Current(t)
  <2>1. Goto(t, "failed") /\ UNCHANGED loc  BY <1>5 DEF CreateJob, BringUpError
  <2>2. Locals(t, loc[t])  BY <2>1, SameLocals
  <2>3. pc'[t] = "failed" /\ loc'[t] = loc[t]  BY <2>1, <2>2, Moved
  <2>4. Progress(t)'
    BY <1>1, <1>2, <2>3 DEF Progress, Between, Complete
  <2>. QED  BY <1>1, <1>3, <2>1, <2>2, <2>4, OwnOrigin, StarterMove DEF Reasserting
<1>. QED  BY <1>4, <1>5

LEMMA JobErrorWhole ==
  ASSUME TypeInv, Lone, Whole, NEW t \in Actors, JobError(t)
  PROVE Lone' /\ Whole'
<1>0. /\ At(t, "create_job") /\ Goto(t, "failed") /\ UNCHANGED loc
      /\ runtime' = [runtime EXCEPT !.ports = TRUE]
  BY DEF JobError, BringUpError
<1>1. /\ loc[t].request # None /\ runtime \in Runtimes
      /\ runtime.request = loc[t].request /\ runtime.state # "Connected"
  BY <1>0, BegunFacts DEF At, StartLabels
<1>2. runtime'.state = runtime.state /\ runtime'.request = runtime.request
  BY <1>0, <1>1, Zenon DEF Runtimes
<1>3. Locals(t, loc[t])  BY <1>0, SameLocals
<1>4. pc'[t] = "failed" /\ loc'[t] = loc[t]  BY <1>0, <1>3, Moved
<1>5. Progress(t)'
  BY <1>1, <1>2, <1>4 DEF Progress, Between, Complete
<1>6. ConnectedIsWhole'  BY <1>1, <1>2 DEF ConnectedIsWhole
<1>. QED  BY <1>0, <1>1, <1>3, <1>5, <1>6, OwnOrigin, StarterMove DEF Reasserting

LEMMA SpawnWhole ==
  ASSUME TypeInv, Lone, Whole, NEW t \in Actors, Spawn(t)
  PROVE Lone' /\ Whole'
<1>0. At(t, "spawn") /\ UNCHANGED memory  BY DEF Spawn
<1>1. \E k : Goto(t, k)  BY DEF Spawn, BringUpError
<1>2. Safe  BY <1>0, <1>1, SafeMemory DEF At
<1>3. CASE BringUpError(t, FALSE)
  <2>1. pc[t] \in Begun  BY <1>0 DEF At, Begun, StartLabels
  <2>2. Goto(t, "failed") /\ UNCHANGED loc  BY <1>3 DEF BringUpError
  <2>3. Ahead(t, "failed")
    BY <2>1 DEF Ahead, Between, Reasserting, Complete
  <2>. QED  BY <1>2, <2>2, <2>3, SafeGoto
<1>4. CASE /\ Pids \ UsedPids # {} /\ Goto(t, "assign")
           /\ Locals(t, [loc[t] EXCEPT !.pid = Fresh(Pids, UsedPids)])
  <2>. DEFINE p == Fresh(Pids, UsedPids)
              r == [loc[t] EXCEPT !.pid = p]
  <2>1. p \in Pids /\ p # None
    BY <1>4, ConstantsAssumption DEF Fresh
  <2>. HIDE DEF p
  <2>2. /\ r.request = loc[t].request /\ r.origin = loc[t].origin
        /\ r.engine = loc[t].engine /\ r.pid = p
    BY <2>1, OwnLocals, PidType, KeptLocals
  <2>3. Goto(t, "assign") /\ Locals(t, r)  BY <1>4 DEF p
  <2>. HIDE DEF r
  <2>4. Onward(t, "assign", r)
    BY <1>0, <2>1, <2>2 DEF At, Onward, Begun, Between, Complete, StartLabels, StopLabels
  <2>. QED  BY <1>2, <2>2, <2>3, <2>4, OwnOrigin, SafeMove DEF Reasserting
<1>. QED  BY <1>3, <1>4 DEF Spawn

LEMMA AssignWhole ==
  ASSUME TypeInv, Lone, Whole, NEW t \in Actors, Assign(t)
  PROVE Lone' /\ Whole'
<1>. DEFINE r == [loc[t] EXCEPT !.pid = None]
<1>0. At(t, "assign") /\ UNCHANGED memory  BY DEF Assign
<1>1. \/ Goto(t, "store") /\ UNCHANGED loc
      \/ Goto(t, "failed") /\ Locals(t, r)
  BY DEF Assign
<1>2. \E k : Goto(t, k)  BY <1>1
<1>3. Safe  BY <1>0, <1>2, SafeMemory DEF At
<1>4. CASE Goto(t, "store") /\ UNCHANGED loc
  <2>1. Ahead(t, "store")
    BY <1>0 DEF At, Ahead, Between, Reasserting, Begun, Complete, StartLabels, StopLabels
  <2>. QED  BY <1>3, <1>4, <2>1, SafeGoto
<1>5. CASE Goto(t, "failed") /\ Locals(t, r)
  <2>1. r.request = loc[t].request /\ r.origin = loc[t].origin
    BY OwnLocals, PidType, KeptLocals
  <2>. HIDE DEF r
  <2>2. Onward(t, "failed", r)
    BY <1>0 DEF At, Onward, Begun, Between, Complete, StartLabels, StopLabels
  <2>. QED  BY <1>3, <1>5, <2>1, <2>2, OwnOrigin, SafeMove DEF Reasserting
<1>. QED  BY <1>1, <1>4, <1>5

LEMMA StoreWhole ==
  ASSUME TypeInv, Lone, Whole, NEW t \in Actors, Store(t)
  PROVE Lone' /\ Whole'
<1>. DEFINE r == [loc[t] EXCEPT !.pid = None, !.engine = "singbox"]
            l == IF ~Current(t) THEN "failed"
                 ELSE IF loc[t].engine = "xray" THEN "spawn" ELSE "wait_adapter"
<1>0. /\ At(t, "store") /\ Goto(t, l) /\ Locals(t, r) /\ UNCHANGED runtime
      /\ child' = [child EXCEPT ![loc[t].engine] = loc[t].pid]
  BY DEF Store
<1>1. /\ loc[t].request # None /\ runtime \in Runtimes /\ Progress(t)
      /\ runtime.request = loc[t].request /\ runtime.state # "Connected"
      /\ loc[t] \in LocalStates
  BY <1>0, BegunFacts DEF At, StartLabels
<1>2. r.request = loc[t].request /\ r.origin = loc[t].origin
  BY <1>1, StoredType, KeptLocals
<1>3. /\ loc[t].pid # None /\ loc[t].engine \in Engines
      /\ loc[t].engine = "singbox" => Filled({"xray"})
  BY <1>0, <1>1, LocalFields DEF At, Progress, Between
<1>4. child \in [Engines -> Pids \cup {None}]  BY DEF TypeInv, TypeOK
<1>5. Stopping => Stopping'  BY <1>0, StillStopping DEF At
<1>6. l = "spawn" => Filled({"xray"})'
  BY <1>0, <1>1, <1>3, <1>4 DEF Filled, Engines
<1>7. l = "wait_adapter" => Filled(Engines)'
  <2>1. l = "wait_adapter" => loc[t].engine = "singbox"  BY <1>3 DEF Engines
  <2>. HIDE DEF l
  <2>. QED  BY <1>0, <1>1, <1>3, <1>4, <1>5, <2>1 DEF Filled, Engines
<1>8. l \in {"failed", "spawn", "wait_adapter"}  OBVIOUS
<1>. HIDE DEF r, l
<1>9. pc'[t] = l /\ loc'[t] = r  BY <1>0, Moved
<1>10. Progress(t)'
  BY <1>0, <1>1, <1>2, <1>6, <1>7, <1>8, <1>9 DEF Progress, Between, Complete
<1>11. ConnectedIsWhole'  BY <1>0, <1>1 DEF ConnectedIsWhole
<1>. QED
  BY <1>0, <1>1, <1>2, <1>8, <1>10, <1>11, OwnOrigin, StarterMove DEF Reasserting

LEMMA PublishWhole ==
  ASSUME TypeInv, Lone, Whole, NEW t \in Actors, Publish(t)
  PROVE Lone' /\ Whole'
<1>0. /\ At(t, "publish") /\ Goto(t, "idle") /\ Locals(t, NoLocals) /\ UNCHANGED child
  BY DEF Publish, Finish
<1>1. loc[t].request # None /\ runtime \in Runtimes /\ Progress(t)
  BY <1>0, BegunFacts DEF At, StartLabels
<1>2. runtime'.request = runtime.request /\ runtime'.ports = runtime.ports
  <2>1. ASSUME NEW level
        PROVE LET w == [runtime EXCEPT !.state = "Connected", !.effective = level,
                          !.verdict = level, !.proxy = "core_connected"]
              IN w.request = runtime.request /\ w.ports = runtime.ports
    BY <1>1, Zenon DEF Runtimes
  <2>. QED  BY <2>1 DEF Publish
<1>3. Stopping => Stopping'  BY <1>0, StillStopping DEF At
<1>4. Filled(Engines)  BY <1>0, <1>1 DEF At, Progress, Complete
<1>5. ConnectedIsWhole'
  BY <1>0, <1>2, <1>3, <1>4 DEF ConnectedIsWhole, Filled
<1>. QED  BY <1>0, <1>1, <1>5, FreshLocals, StarterMove DEF Reasserting

LEMMA StartStepsWhole ==
  ASSUME TypeInv, Lone, Whole, NEW t \in Actors, StartSteps(t)
  PROVE Lone' /\ Whole'
  BY PlainStartWhole, NewGenerationWhole, QueueWhole, CheckedWhole, ReplaceWhole,
     WriteMarkerWhole, CreateJobWhole, JobErrorWhole, SpawnWhole, AssignWhole, StoreWhole,
     WaitsWhole, AdapterErrorWhole, AliveCheckWhole, PublishWhole, FailuresWhole
     DEF StartSteps

-----------------------------------------------------------------------------
(* Stops.                                                                    *)

\* what a stop and a repair write to the locals of their thread
LEMMA HoldLocals ==
  ASSUME NEW l \in LocalStates, NEW x, NEW y
  PROVE /\ [l EXCEPT !.held = x, !.heldJob = y].request = l.request
        /\ [l EXCEPT !.held = x, !.heldJob = y].origin = l.origin
        /\ [l EXCEPT !.gen = x, !.op = y].request = l.request
        /\ [l EXCEPT !.gen = x, !.op = y].origin = l.origin
  BY Zenon DEF LocalStates

LEMMA TakeWhole ==
  ASSUME TypeInv, Lone, Whole, NEW t \in Actors, Take(t)
  PROVE Lone' /\ Whole'
<1>. DEFINE r == [loc[t] EXCEPT !.held = SlotPids, !.heldJob = job]
<1>0. At(t, "take") /\ Goto(t, "kill") /\ Locals(t, r)  BY DEF Take, Step
<1>1. runtime \in Runtimes  BY DEF TypeInv, TypeOK
<1>2. r.request = loc[t].request /\ r.origin = loc[t].origin
  BY OwnLocals, HoldLocals
<1>3. runtime'.state = "Disconnecting" /\ runtime'.request = runtime.request
  BY <1>1, Zenon DEF Take, Runtimes
<1>4. Safe  BY <1>0, <1>3, StillStopping DEF Safe
<1>. HIDE DEF r
<1>5. Onward(t, "kill", r)
  BY <1>0 DEF At, Onward, Begun, Between, Complete, StartLabels, StopLabels
<1>. QED  BY <1>0, <1>2, <1>4, <1>5, OwnOrigin, SafeMove DEF Reasserting

LEMMA KillWhole ==
  ASSUME TypeInv, Lone, Whole, NEW t \in Actors, Kill(t)
  PROVE Lone' /\ Whole'
<1>. DEFINE r == [loc[t] EXCEPT !.held = {}, !.heldJob = None]
<1>0. At(t, "kill") /\ Goto(t, "settle") /\ Locals(t, r) /\ UNCHANGED memory
  BY DEF Kill, Step
<1>1. r.request = loc[t].request /\ r.origin = loc[t].origin
  BY OwnLocals, HoldLocals
<1>2. Safe  BY <1>0, StillStopping, SafeWrite DEF memory, Same
<1>. HIDE DEF r
<1>3. Onward(t, "settle", r)
  BY <1>0 DEF At, Onward, Begun, Between, Complete, StartLabels, StopLabels
<1>. QED  BY <1>0, <1>1, <1>2, <1>3, OwnOrigin, SafeMove DEF Reasserting

LEMMA SettleWhole ==
  ASSUME TypeInv, Lone, Whole, NEW t \in Actors, Settle(t)
  PROVE Lone' /\ Whole'
<1>0. At(t, "settle") /\ Goto(t, "unmark") /\ UNCHANGED loc  BY DEF Settle, Step
<1>1. /\ runtime'.state = "Disconnected" /\ runtime'.request = runtime.request
      /\ ~runtime'.ports
  <2>1. ASSUME NEW g, NEW q, NEW e, NEW s
        PROVE LET w == [DefaultRuntime EXCEPT !.gen = g, !.request = q, !.eventSeq = e,
                          !.rotationSeq = s]
              IN w.state = "Disconnected" /\ w.request = q /\ ~w.ports
    BY Zenon DEF DefaultRuntime
  <2>. QED  BY <2>1 DEF Settle
<1>2. Safe  BY <1>1 DEF Safe
<1>3. Ahead(t, "unmark")
  BY <1>0 DEF At, Ahead, Between, Reasserting, Begun, Complete, StartLabels, StopLabels
<1>. QED  BY <1>0, <1>2, <1>3, SafeGoto

LEMMA AfterSettleWhole ==
  ASSUME TypeInv, Lone, Whole, NEW t \in Actors, ClearMarker(t) \/ Linger(t)
  PROVE Lone' /\ Whole'
<1>1. CASE ClearMarker(t)
  <2>1. At(t, "unmark") /\ Goto(t, "linger") /\ UNCHANGED loc /\ UNCHANGED memory
    BY <1>1 DEF ClearMarker, Step
  <2>2. Safe  BY <2>1, SafeMemory DEF At
  <2>3. Ahead(t, "linger")
    BY <2>1 DEF At, Ahead, Between, Reasserting, Begun, Complete, StartLabels, StopLabels
  <2>. QED  BY <2>1, <2>2, <2>3, SafeGoto
<1>2. CASE Linger(t)
  <2>. DEFINE l == AfterStop(loc[t].reason)
  <2>1. At(t, "linger") /\ Goto(t, l) /\ UNCHANGED loc /\ UNCHANGED child
    BY <1>2 DEF Linger, Step
  <2>2. l \in {"cleaned_check", "failed_check", "snapshot", "prepared", "exit"}
    BY OwnLocals, LocalFields DEF AfterStop, StopReasons
  <2>. HIDE DEF l
  <2>3. Same(runtime', runtime)
    BY <1>2, SameWrites DEF Linger, TypeInv, TypeOK
  <2>4. Safe  BY <2>1, <2>3, SafeBeside DEF At
  <2>5. Ahead(t, l)
    BY <2>1, <2>2 DEF At, Ahead, Between, Reasserting, Begun, Complete, StartLabels,
       StopLabels
  <2>. QED  BY <2>1, <2>4, <2>5, SafeGoto
<1>. QED  BY <1>1, <1>2

LEMMA SnapshotWhole ==
  ASSUME TypeInv, Lone, Whole, NEW t \in Actors, Snapshot(t)
  PROVE Lone' /\ Whole'
<1>. DEFINE r == [loc[t] EXCEPT !.origin = "thread"]
<1>0. /\ At(t, "snapshot") /\ RefreshRuntime
      /\ (Goto(t, "stop_delay") /\ Locals(t, r)) \/ Finish(t)
  BY DEF Snapshot
<1>1. \E k : Goto(t, k)  BY <1>0 DEF Finish
<1>2. Safe  BY <1>0, <1>1, StillStopping, SafeRefresh DEF At
<1>3. r.request = loc[t].request /\ r.origin = "thread"
  BY OwnLocals, OriginType, KeptLocals
<1>. HIDE DEF r
<1>4. Onward(t, "stop_delay", r)
  BY DEF Onward, Begun, Between, Complete, StartLabels, StopLabels
<1>5. CASE Goto(t, "stop_delay") /\ Locals(t, r)
  BY <1>2, <1>3, <1>4, <1>5, SafeMove DEF Reasserting
<1>. QED  BY <1>0, <1>2, <1>5, SafeFinish

LEMMA StopEndsWhole ==
  ASSUME TypeInv, Lone, Whole, NEW t \in Actors, StopDelay(t) \/ Prepared(t)
  PROVE Lone' /\ Whole'
<1>1. CASE StopDelay(t)
  <2>1. At(t, "stop_delay") /\ Finish(t) /\ UNCHANGED memory
    BY <1>1 DEF StopDelay
  <2>2. Safe  BY <2>1, SafeMemory DEF At, Finish
  <2>. QED  BY <2>1, <2>2, SafeFinish
<1>2. CASE Prepared(t)
  <2>1. At(t, "prepared") /\ Goto(t, "snapshot") /\ UNCHANGED loc /\ UNCHANGED memory
    BY <1>2 DEF Prepared, Step
  <2>2. Safe  BY <2>1, SafeMemory DEF At
  <2>3. Ahead(t, "snapshot")
    BY DEF Ahead, Between, Reasserting, Begun, Complete, StartLabels, StopLabels
  <2>. QED  BY <2>1, <2>2, <2>3, SafeGoto
<1>. QED  BY <1>1, <1>2

LEMMA StopStepsWhole ==
  ASSUME TypeInv, Lone, Whole, NEW t \in Actors, StopSteps(t)
  PROVE Lone' /\ Whole'
  BY TakeWhole, KillWhole, SettleWhole, AfterSettleWhole, SnapshotWhole, StopEndsWhole
     DEF StopSteps

-----------------------------------------------------------------------------
(* A warm start.                                                             *)

LEMMA RepairEnterWhole ==
  ASSUME TypeInv, Lone, Whole, NEW t \in Actors, RepairEnter(t)
  PROVE Lone' /\ Whole'
<1>. DEFINE r == [loc[t] EXCEPT !.gen = runtime.gen, !.op = runtime.op]
<1>0. At(t, "repair_enter") /\ UNCHANGED child /\ runtime \in Runtimes
  BY DEF RepairEnter, TypeInv, TypeOK
<1>1. \/ Goto(t, "stuck") /\ UNCHANGED <<runtime, loc>>
      \/ RepairError(t) /\ UNCHANGED runtime
      \/ /\ runtime.state = "Connected" /\ runtime' = Repairing(runtime)
         /\ Goto(t, "repair_probe") /\ Locals(t, r)
  BY DEF RepairEnter, SelfDeadlock
<1>2. \E k : Goto(t, k)  BY <1>1 DEF RepairError, Finish
<1>3. Same(runtime', runtime)  BY <1>0, <1>1, SameWrites
<1>4. Safe  BY <1>0, <1>2, <1>3, SafeBeside DEF At
<1>5. CASE Goto(t, "stuck") /\ UNCHANGED <<runtime, loc>>
  <2>1. Ahead(t, "stuck")
    BY DEF Ahead, Between, Reasserting, Begun, Complete, StartLabels, StopLabels
  <2>. QED  BY <1>4, <1>5, <2>1, SafeGoto
<1>6. CASE /\ runtime.state = "Connected" /\ runtime' = Repairing(runtime)
           /\ Goto(t, "repair_probe") /\ Locals(t, r)
  <2>1. r.request = loc[t].request /\ r.origin = loc[t].origin
    BY OwnLocals, HoldLocals
  <2>. HIDE DEF r
  <2>2. loc[t].request # None  BY <1>0, ReassertOwner DEF At, Reasserting
  <2>3. pc'[t] = "repair_probe" /\ loc'[t] = r  BY <1>6, Moved
  <2>4. ConnectedIsWhole' /\ Filled(Engines)'
    BY <1>4, <1>6, SafeConnected, SafeFilled DEF Whole, ConnectedIsWhole
  <2>5. Progress(t)'
    BY <2>3, <2>4 DEF Progress, Begun, StartLabels, StopLabels, Between
  <2>. QED  BY <1>6, <2>1, <2>2, <2>4, <2>5, OwnOrigin, StarterMove
<1>. QED  BY <1>1, <1>4, <1>5, <1>6, SafeRepairError

\* the waits of a repair, with what precedes them
LEMMA RepairWaitsWhole ==
  ASSUME TypeInv, Lone, Whole, NEW t \in Actors,
         RepairProbe(t) \/ RepairAdapter(t) \/ RepairReady(t)
  PROVE Lone' /\ Whole'
<1>1. runtime \in Runtimes  BY DEF TypeInv, TypeOK
<1>2. PICK l, m : /\ <<m, l>> \in {<<"repair_probe", "repair_adapter">>,
                         <<"repair_adapter", "repair_ready">>,
                         <<"repair_ready", "repair_proxy">>}
                  /\ At(t, m) /\ RepairWait(t, l)
  BY DEF RepairProbe, RepairAdapter, RepairReady
<1>3. Same(runtime', runtime) /\ UNCHANGED child
  BY <1>1, SameWrites DEF RepairProbe, RepairAdapter, RepairReady, memory
<1>4. Ahead(t, l) /\ pc[t] \notin {"kill", "settle"}
  BY <1>2 DEF At, Ahead, Between, Reasserting, Begun, Complete, StartLabels, StopLabels
<1>5. \E k : Goto(t, k)  BY <1>2 DEF RepairWait, RepairError, Finish
<1>6. Safe  BY <1>3, <1>4, <1>5, SafeBeside
<1>. QED  BY <1>2, <1>4, <1>6, SafeRepairWait

LEMMA RepairProxyWhole ==
  ASSUME TypeInv, Lone, Whole, NEW t \in Actors, RepairProxy(t)
  PROVE Lone' /\ Whole'
<1>1. runtime \in Runtimes  BY DEF TypeInv, TypeOK
<1>2. /\ At(t, "repair_proxy") /\ UNCHANGED child
      /\ (Goto(t, "repair_publish") /\ UNCHANGED loc) \/ RepairError(t)
  BY DEF RepairProxy
<1>3. Same(runtime', runtime)  BY <1>1, SameWrites DEF RepairProxy
<1>4. Ahead(t, "repair_publish")
  BY <1>2 DEF At, Ahead, Between, Reasserting, Begun, Complete, StartLabels, StopLabels
<1>5. \E k : Goto(t, k)  BY <1>2 DEF RepairError, Finish
<1>6. Safe  BY <1>2, <1>3, <1>5, SafeBeside DEF At
<1>. QED  BY <1>2, <1>4, <1>6, SafeGoto, SafeRepairError

LEMMA RepairPublishWhole ==
  ASSUME TypeInv, Lone, Whole, NEW t \in Actors, RepairPublish(t)
  PROVE Lone' /\ Whole'
<1>0. /\ At(t, "repair_publish") /\ UNCHANGED child /\ UNCHANGED loc
      /\ \/ Goto(t, "stuck") /\ UNCHANGED runtime
         \/ Goto(t, "snapshot") /\ runtime' = [runtime EXCEPT !.state = "Connected"]
  BY DEF RepairPublish, SelfDeadlock
<1>1. CASE Goto(t, "stuck") /\ UNCHANGED runtime
  <2>1. Safe  BY <1>0, <1>1, SafeBeside DEF At, Same
  <2>2. Ahead(t, "stuck")
    BY DEF Ahead, Between, Reasserting, Begun, Complete, StartLabels, StopLabels
  <2>. QED  BY <1>0, <1>1, <2>1, <2>2, SafeGoto
<1>2. CASE Goto(t, "snapshot") /\ runtime' = [runtime EXCEPT !.state = "Connected"]
  <2>1. runtime'.request = runtime.request /\ runtime'.ports = runtime.ports
    BY <1>2, Zenon DEF Runtimes, TypeInv, TypeOK
  <2>2. loc[t].request # None  BY <1>0, ReassertOwner DEF At, Reasserting
  <2>3. Filled(Engines)  BY <1>0, <2>2 DEF At, Whole, Progress, Complete
  <2>4. Stopping => Stopping'  BY <1>0, <1>2, StillStopping DEF At
  <2>5. ConnectedIsWhole'
    BY <1>0, <2>1, <2>3, <2>4 DEF ConnectedIsWhole, Filled
  <2>6. Locals(t, loc[t])  BY <1>0, SameLocals
  <2>7. pc'[t] = "snapshot"  BY <1>2, <2>6, Moved
  <2>8. Progress(t)'
    BY <2>7 DEF Progress, Begun, StartLabels, StopLabels, Between, Complete
  <2>. QED  BY <1>2, <2>2, <2>5, <2>6, <2>8, OwnOrigin, StarterMove DEF Reasserting
<1>. QED  BY <1>0, <1>1, <1>2

LEMMA RepairStepsWhole ==
  ASSUME TypeInv, Lone, Whole, NEW t \in Actors, RepairSteps(t)
  PROVE Lone' /\ Whole'
<1>1. ~Rotate(t)  BY DEF Lone, Rotate, At
<1>. QED
  BY <1>1, RepairEnterWhole, RepairWaitsWhole, RepairProxyWhole, RepairPublishWhole
     DEF RepairSteps

-----------------------------------------------------------------------------
(* Commands, and the whole of Next.                                          *)

LEMMA StartTunnelWhole ==
  ASSUME OneStart, TypeInv, Lone, Whole, NEW t \in Threads, NEW request \in Requests,
         StartTunnel(t, request)
  PROVE Lone' /\ Whole'
<1>0. t \in Actors /\ At(t, "idle") /\ runtime \in Runtimes
  BY DEF StartTunnel, Accept, Actors, TypeInv, TypeOK
\* nobody else works for a request
<1>1. \A u \in Actors : loc[u].request = None
  <2>1. "overlap" \notin Inputs  BY DEF OneStart
  <2>2. \A u \in Threads : loc[u].request = None
    BY <2>1 DEF StartTunnel, Starting, Lone, Actors
  <2>. QED  BY <2>2 DEF Lone, Actors
<1>a. PICK l \in {"busy_check", "warm_mark"} :
        \E r : Goto(t, l) /\ Locals(t, r) /\ r.request = request /\ r.origin = "command"
  <2>1. ASSUME NEW g
        PROVE LET w == [NoLocals EXCEPT !.request = request, !.gen = g, !.origin = "command"]
              IN w.request = request /\ w.origin = "command"
    BY Zenon DEF NoLocals
  <2>2. LET w == [NoLocals EXCEPT !.request = request, !.origin = "command"]
        IN w.request = request /\ w.origin = "command"
    BY Zenon DEF NoLocals
  <2>3. CASE EngineLost
    BY <2>2, <2>3, Zenon DEF StartTunnel
  <2>4. CASE ~EngineLost
    <3>. DEFINE w == [NoLocals EXCEPT !.request = request, !.gen = Refreshed(runtime).gen,
                                      !.origin = "command"]
    <3>1. Locals(t, w) /\ (Goto(t, "warm_mark") \/ Goto(t, "busy_check"))
      BY <2>4 DEF StartTunnel
    <3>2. w.request = request /\ w.origin = "command"  BY <2>1
    <3>. QED  BY <3>1, <3>2, Zenon
  <2>. QED  BY <2>3, <2>4
<1>2. PICK r : /\ l \in {"busy_check", "warm_mark"}
               /\ Goto(t, l) /\ Locals(t, r) /\ r.request = request /\ r.origin = "command"
  BY <1>a
<1>3. request # None  BY RequestsAssumption
<1>4. pc'[t] = l /\ loc'[t] = r /\ \A u \in Actors \ {t} : pc'[u] = pc[u] /\ loc'[u] = loc[u]
  BY <1>0, <1>2, Moved
<1>5. Lone'
  <2>1. Main \in Actors /\ Main # t  BY ConstantsAssumption DEF Actors
  <2>2. loc'[Main].request = None  BY <1>1, <1>4, <2>1
  <2>3. \A u \in Actors :
          /\ loc'[u].origin # "event" /\ pc'[u] # "rotate"
          /\ pc'[u] \in Reasserting => loc'[u].request # None
    BY <1>2, <1>3, <1>4 DEF Lone
  <2>4. \A u, v \in Actors : loc'[u].request # None /\ loc'[v].request # None => u = v
    BY <1>1, <1>4
  <2>. QED  BY <2>2, <2>3, <2>4 DEF Lone
<1>6. Progress(t)'
  BY <1>2, <1>4 DEF Progress, Begun, StartLabels, StopLabels, Between, Complete
<1>7. Stopping => Stopping'  BY <1>0, <1>2, StillStopping DEF At
<1>8. ConnectedIsWhole'
  <2>1. CASE EngineLost
    <3>1. Safe  BY <2>1, SafeMarkFailed DEF StartTunnel
    <3>. QED  BY <3>1, SafeConnected DEF Whole
  <2>2. CASE ~EngineLost
    <3>. DEFINE w == Refreshed(runtime)
                warm == /\ w.state = "Connected" /\ w.request # None
                        /\ w.request.config = request.config
                reused == [w EXCEPT !.op = request.op, !.request = request,
                                    !.route = FALSE, !.dns = FALSE]
    <3>1. /\ runtime' = IF warm THEN reused ELSE w
          /\ UNCHANGED child
      BY <2>2 DEF StartTunnel
    <3>2. Same(w, runtime) /\ w \in Runtimes  BY <1>0, SameRefreshed, RefreshedType
    <3>. HIDE DEF w
    <3>3. /\ reused.request = request /\ reused.state = w.state
          /\ reused.ports = w.ports
      BY <3>2, Zenon DEF Runtimes
    <3>. HIDE DEF reused
    <3>4. CASE ~warm
      <4>1. Safe  BY <1>7, <3>1, <3>2, <3>4, SafeWrite
      <4>. QED  BY <4>1, SafeConnected DEF Whole
    <3>5. CASE warm
      <4>1. /\ runtime'.request = request /\ runtime.request.config = request.config
            /\ runtime.state = "Connected" /\ runtime'.ports = runtime.ports
        BY <3>1, <3>2, <3>3, <3>5 DEF Same
      <4>2. Filled(Engines)  BY <4>1 DEF Whole, ConnectedIsWhole
      <4>. QED  BY <1>3, <1>7, <3>1, <4>1, <4>2 DEF ConnectedIsWhole, Filled
    <3>. HIDE DEF warm
    <3>. QED  BY <3>4, <3>5
  <2>. QED  BY <2>1, <2>2
<1>9. \A u \in Actors : loc'[u].request # None => Progress(u)'
  BY <1>1, <1>4, <1>6
<1>. QED  BY <1>5, <1>8, <1>9 DEF Whole

LEMMA CommandWhole ==
  ASSUME OneStart, TypeInv, Lone, Whole, NEW t \in Threads, Command(t)
  PROVE Lone' /\ Whole'
<1>0. t \in Actors /\ runtime \in Runtimes  BY DEF Actors, TypeInv, TypeOK
<1>1. ASSUME NEW request \in Requests, StartTunnel(t, request)
      PROVE Lone' /\ Whole'
  BY <1>1, StartTunnelWhole
<1>2. CASE StopTunnel(t) \/ PrepareForUpdate(t)
  <2>1. PICK r : Goto(t, "take") /\ Locals(t, r) /\ r.request = None /\ r.origin = "command"
    <3>1. ASSUME NEW reason
          PROVE LET w == [NoLocals EXCEPT !.reason = reason, !.origin = "command"]
                IN w.request = None /\ w.origin = "command"
      BY Zenon DEF NoLocals
    <3>. QED  BY <1>2, <3>1 DEF StopTunnel, PrepareForUpdate
  <2>2. At(t, "idle") /\ UNCHANGED memory
    BY <1>2 DEF StopTunnel, PrepareForUpdate, Accept
  <2>3. Safe  BY <1>0, <2>1, <2>2, SafeMemory DEF At
  <2>4. Onward(t, "take", r)  BY <2>1 DEF Onward
  <2>. QED  BY <1>0, <2>1, <2>3, <2>4, SafeMove DEF Reasserting
<1>3. ASSUME NEW op, NEW ok, ReportProxyCompatibility(t, op, ok)
      PROVE Lone' /\ Whole'
  <2>1. PICK r : Goto(t, "snapshot") /\ Locals(t, r) /\ r.request = None
                 /\ r.origin = "command"
    <3>1. LET w == [NoLocals EXCEPT !.origin = "command"]
          IN w.request = None /\ w.origin = "command"
      BY Zenon DEF NoLocals
    <3>. QED  BY <1>3, <3>1 DEF ReportProxyCompatibility
  <2>2. At(t, "idle") /\ UNCHANGED child
    BY <1>3 DEF ReportProxyCompatibility, Accept
  <2>3. Same(runtime', runtime)
    BY <1>0, <1>3, SameWrites DEF ReportProxyCompatibility
  <2>4. Safe  BY <1>0, <2>1, <2>2, <2>3, SafeBeside DEF At
  <2>5. Onward(t, "snapshot", r)  BY <2>1 DEF Onward
  <2>. QED  BY <1>0, <2>1, <2>4, <2>5, SafeMove DEF Reasserting
<1>4. \A op : ~RepairRuntime(t, op)  BY DEF OneStart, RepairRuntime, Accept
<1>. QED  BY <1>1, <1>2, <1>3, <1>4 DEF Command

LEMMA ProcessEndsWhole == ASSUME TypeInv, ProcessEnds PROVE Lone' /\ Whole'
<1>1. Main \in Actors  BY DEF Actors
<1>2. \A u \in Actors : loc'[u].request = None /\ loc'[u].origin = "thread"
                        /\ pc'[u] \in {"off", "idle"}
  BY FreshLocals DEF ProcessEnds
<1>3. Lone'  BY <1>1, <1>2 DEF Lone, Reasserting
<1>4. ConnectedIsWhole'  BY DEF ProcessEnds, DefaultRuntime, ConnectedIsWhole
<1>. QED  BY <1>2, <1>3, <1>4 DEF Whole

LEMMA ServiceWhole ==
  ASSUME OneStart, TypeInv, Lone, Whole,
         \/ ServiceStart \/ MainStops \/ GetStatus \/ NetworkEvent \/ ScmStop
         \/ EngineExit \/ UNCHANGED vars
  PROVE Lone' /\ Whole'
<1>0. Main \in Actors  BY DEF Actors
<1>1. CASE ServiceStart
  <2>1. At(Main, "off") /\ Goto(Main, "serving") /\ UNCHANGED loc /\ UNCHANGED memory
    BY <1>1 DEF ServiceStart, Step
  <2>2. Safe  BY <1>0, <2>1, SafeMemory DEF At
  <2>3. Ahead(Main, "serving")
    BY DEF Ahead, Between, Reasserting, Begun, Complete, StartLabels, StopLabels
  <2>. QED  BY <1>0, <2>1, <2>2, <2>3, SafeGoto
<1>2. CASE MainStops
  <2>1. /\ StopOwned(Main, "service_stop") /\ pc[Main] = "serving" /\ UNCHANGED memory
        /\ "service_stop" \in StopReasons
    BY <1>2 DEF MainStops, Serving, StopReasons
  <2>2. Safe  BY <1>0, <2>1, SafeMemory DEF StopOwned
  <2>3. loc[Main].request = None  BY DEF Lone
  <2>. QED  BY <1>0, <2>1, <2>2, <2>3, SafeStopOwned
<1>3. CASE GetStatus
  <2>1. Stopping => Stopping'  BY <1>3 DEF GetStatus, Stopping
  <2>2. Safe  BY <1>3, <2>1, SafeRefresh DEF GetStatus
  <2>. QED  BY <1>3, <2>2, SafeStill DEF GetStatus
<1>4. CASE ScmStop \/ EngineExit \/ UNCHANGED vars
  <2>1. UNCHANGED memory /\ UNCHANGED <<pc, loc>>
    BY <1>4 DEF ScmStop, EngineExit, vars
  <2>2. Stopping => Stopping'  BY <2>1 DEF Stopping
  <2>3. Safe  BY <2>1, <2>2, SafeWrite DEF Same, memory
  <2>. QED  BY <2>1, <2>3, SafeStill
<1>5. ~NetworkEvent  BY DEF OneStart, NetworkEvent
<1>. QED  BY <1>1, <1>2, <1>3, <1>4, <1>5

LEMMA WholeNext ==
  ASSUME OneStart, TypeInv, Lone, Whole, [Next]_vars
  PROVE Lone' /\ Whole'
<1>1. CASE \E t \in Threads : Command(t) \/ Continue(t)
  BY <1>1, CommandWhole, StartStepsWhole, StopStepsWhole, RepairStepsWhole
     DEF Continue, Actors
<1>2. CASE MainSteps \/ Crash
  BY <1>2, StopStepsWhole, ServiceWhole, ProcessEndsWhole
     DEF MainSteps, ServiceExit, Crash, Actors
<1>3. CASE \/ ServiceStart \/ GetStatus \/ NetworkEvent \/ ScmStop \/ EngineExit
           \/ UNCHANGED vars
  BY <1>3, ServiceWhole
<1>. QED  BY <1>1, <1>2, <1>3 DEF Next

LEMMA WholeInit == ASSUME Init PROVE Lone /\ Whole
<1>1. \A u \in Actors : loc[u].request = None /\ loc[u].origin = "thread"
                        /\ pc[u] \in {"serving", "idle"}
  BY FreshLocals DEF Init
<1>2. Main \in Actors  BY DEF Actors
<1>3. ConnectedIsWhole  BY DEF Init, DefaultRuntime, ConnectedIsWhole
<1>4. Lone  BY <1>1, <1>2 DEF Lone, Reasserting
<1>. QED  BY <1>1, <1>3, <1>4 DEF Whole

\* What a poll reports Protected is connected and has its ports.
LEMMA ReportedProtected ==
  ASSUME NEW r \in Runtimes, Refreshed(r).verdict \in {"Protected", "ProtectedDegraded"}
  PROVE r.state = "Connected" /\ r.ports
<1>0. r.state \in States  BY Zenon DEF Runtimes
<1>1. r.state # "Connected" \/ ~Ready(r)
      => Refreshed(r).verdict \in {"Failed", "Repairing", "CleanupPending"}
  BY <1>0, ZenonT(60) DEF Refreshed, Runtimes, States
<1>. QED  BY <1>1 DEF Ready

LEMMA WholeIsProtected ==
  ASSUME TypeInv, Whole PROVE ProtectedIsReal
<1>. SUFFICES ASSUME Report.verdict \in {"Protected", "ProtectedDegraded"}, ~Stopping
              PROVE /\ runtime.request # None
                    /\ \A e \in EnginesFor(runtime.request.config) : EngineAlive(e)
  BY DEF ProtectedIsReal
<1>0. runtime \in Runtimes  BY DEF TypeInv, TypeOK
<1>1. ~EngineLost
  <2>1. Failed(runtime).verdict = "Failed"  BY <1>0, Zenon DEF Failed, Runtimes
  <2>. QED  BY <2>1 DEF Report
<1>2. runtime.state = "Connected" /\ runtime.ports
  BY <1>0, <1>1, ReportedProtected DEF Report
<1>3. SlotPids \subseteq alive  BY <1>1, <1>2 DEF EngineLost
<1>4. /\ runtime.request # None
      /\ \A e \in Engines : e \in EnginesFor(runtime.request.config) => child[e] # None
  BY <1>2 DEF Whole, ConnectedIsWhole, Filled
<1>5. EnginesFor(runtime.request.config) \subseteq Engines
  BY DEF EnginesFor, Engines
<1>. QED  BY <1>3, <1>4, <1>5 DEF SlotPids, EngineAlive

\* Where one start runs at a time, no poll ever answers Protected over a dead or
\* missing engine, whatever stops, updates, exits and crashes interleave with it.
THEOREM ProtectedStaysReal == ASSUME OneStart PROVE Spec => []ProtectedIsReal
<1>1. Init => TypeInv /\ Lone /\ Whole  BY TypeInit, WholeInit
<1>2. TypeInv /\ Lone /\ Whole /\ [Next]_vars => TypeInv' /\ Lone' /\ Whole'
  BY TypeNext, WholeNext
<1>3. TypeInv /\ Whole => ProtectedIsReal  BY WholeIsProtected
<1>. QED  BY <1>1, <1>2, <1>3, PTL DEF Spec

-----------------------------------------------------------------------------
(* One start at a time and no stop beside it.  Only a stop between the spawn *)
(* and the end of a start can leave a start at work on a job that is not its *)
(* own; without one, the engines in jobs are those of one runtime, and the   *)
(* marker stands from before a job is created until the job is taken.        *)

Undisturbed == OneStart /\ Inputs \cap {"stop", "prepare", "scm_stop"} = {}

\* nothing but a start calls stop_owned_processes
Unstopped ==
  /\ ~stopRequested /\ pc[Main] \in {"off", "serving"}
  /\ \A t \in Threads :
       /\ pc[t] \notin {"stop_delay", "prepared", "exit"}
       /\ loc[t].reason # "stop_tunnel"
       /\ pc[t] \in StopLabels => loc[t].reason \in StartReasons

Jobless == \A t \in Threads : pc[t] \in {"kill", "settle", "unmark"} => job = None

Marked == job # None \/ (\E t \in Threads : pc[t] = "create_job") => marker # None

OffIsEmpty == pc[Main] = "off" => job = None /\ \A t \in Threads : pc[t] = "idle"

Marking == Unstopped /\ Jobless /\ Marked /\ OffIsEmpty

-----------------------------------------------------------------------------
(* Steps that keep the marking.                                              *)

TidyWrites ==
  /\ UNCHANGED stopRequested /\ job' \in {job, None}
  /\ marker # None => marker' # None

Tidy(l, r) ==
  /\ l \notin {"stop_delay", "prepared", "exit"} /\ r.reason # "stop_tunnel"
  /\ l \in StopLabels => r.reason \in StartReasons
  /\ l \in {"kill", "settle", "unmark"} => job' = None
  /\ l = "create_job" => marker' # None

LEMMA NotOff ==
  ASSUME OffIsEmpty, NEW t \in Threads, pc[t] # "idle"
  PROVE pc[Main] # "off"
  BY DEF OffIsEmpty

LEMMA MainStays ==
  ASSUME TypeInv, NEW t \in Threads, NEW l, Goto(t, l)
  PROVE pc'[Main] = pc[Main]
  BY ConstantsAssumption DEF Goto, TypeInv, TypeOK, Actors

LEMMA TidyMove ==
  ASSUME TypeInv, Marking, NEW t \in Threads, NEW l, NEW r, Goto(t, l), Locals(t, r),
         pc[Main] # "off", TidyWrites, Tidy(l, r)
  PROVE Marking'
<1>1. pc'[t] = l /\ loc'[t] = r
      /\ \A u \in Threads \ {t} : pc'[u] = pc[u] /\ loc'[u] = loc[u]
  BY Moved DEF Actors
<1>2. pc'[Main] = pc[Main]  BY MainStays
<1>3. Unstopped'
  BY <1>1, <1>2 DEF Marking, Unstopped, TidyWrites, Tidy
<1>4. Jobless'
  BY <1>1 DEF Marking, Jobless, TidyWrites, Tidy
<1>5. Marked'
  BY <1>1 DEF Marking, Marked, TidyWrites, Tidy
<1>6. OffIsEmpty'  BY <1>2 DEF OffIsEmpty
<1>. QED  BY <1>3, <1>4, <1>5, <1>6 DEF Marking

LEMMA TidyStill ==
  ASSUME Marking, TidyWrites, UNCHANGED <<pc, loc>>
  PROVE Marking'
  BY DEF Marking, Unstopped, Jobless, Marked, OffIsEmpty, TidyWrites

\* a label that a thread may go to with the locals it has
Calm(t, l) ==
  /\ l \notin {"stop_delay", "prepared", "exit", "kill", "settle", "unmark", "create_job"}
  /\ l \in StopLabels => pc[t] \in StopLabels

LEMMA CalmGoto ==
  ASSUME TypeInv, Marking, NEW t \in Threads, NEW l, Goto(t, l), UNCHANGED loc,
         pc[Main] # "off", TidyWrites, Calm(t, l)
  PROVE Marking'
<1>1. Locals(t, loc[t])  BY SameLocals DEF Actors
<1>2. Tidy(l, loc[t])  BY DEF Calm, Tidy, Marking, Unstopped
<1>. QED  BY <1>1, <1>2, TidyMove

LEMMA CalmFinish ==
  ASSUME TypeInv, Marking, NEW t \in Threads, Finish(t), pc[Main] # "off", TidyWrites
  PROVE Marking'
<1>1. Goto(t, "idle") /\ Locals(t, NoLocals)  BY DEF Finish
<1>2. Tidy("idle", NoLocals)
  <2>1. NoLocals.reason = "service_stop"  BY DEF NoLocals
  <2>. QED  BY <2>1 DEF Tidy, StopLabels
<1>. QED  BY <1>1, <1>2, TidyMove

LEMMA CalmStopOwned ==
  ASSUME TypeInv, Marking, NEW t \in Threads, NEW reason \in StartReasons,
         StopOwned(t, reason), pc[Main] # "off", TidyWrites
  PROVE Marking'
<1>. DEFINE r == [loc[t] EXCEPT !.reason = reason]
<1>1. r.reason = reason
  BY OwnLocals, ReasonType DEF Actors, StartReasons, StopReasons
<1>2. Goto(t, "take") /\ Locals(t, r)  BY DEF StopOwned
<1>. HIDE DEF r
<1>3. Tidy("take", r)  BY <1>1 DEF Tidy, StartReasons
<1>. QED  BY <1>2, <1>3, TidyMove

LEMMA CalmBringUpError ==
  ASSUME TypeInv, Marking, NEW t \in Threads, NEW b, BringUpError(t, b),
         pc[Main] # "off", TidyWrites
  PROVE Marking'
<1>. DEFINE r == [loc[t] EXCEPT !.reason = "tun_adapter_repair", !.attempt = 2]
<1>1. r.reason = "tun_adapter_repair"
  <2>1. loc[t] \in LocalStates  BY OwnLocals DEF Actors
  <2>. QED  BY <2>1, Zenon DEF LocalStates
<1>2. \/ Goto(t, "take") /\ Locals(t, r)
      \/ Goto(t, "failed") /\ UNCHANGED loc
  BY DEF BringUpError
<1>. HIDE DEF r
<1>3. Tidy("take", r)  BY <1>1 DEF Tidy, StartReasons
<1>4. Calm(t, "failed")  BY DEF Calm, StopLabels
<1>. QED  BY <1>2, <1>3, <1>4, TidyMove, CalmGoto

LEMMA CalmIfCurrent ==
  ASSUME TypeInv, Marking, NEW t \in Threads, NEW l, IfCurrent(t, l),
         pc[Main] # "off", TidyWrites, Calm(t, l)
  PROVE Marking'
  BY CalmGoto, CalmBringUpError DEF IfCurrent

LEMMA CalmRepairError ==
  ASSUME TypeInv, Lone, Marking, NEW t \in Threads, RepairError(t),
         pc[Main] # "off", TidyWrites
  PROVE Marking'
  BY OwnOrigin, CalmFinish DEF RepairError, Actors

LEMMA CalmRepairWait ==
  ASSUME TypeInv, Lone, Marking, NEW t \in Threads, NEW l, RepairWait(t, l),
         pc[Main] # "off", TidyWrites, Calm(t, l)
  PROVE Marking'
  BY CalmGoto, CalmRepairError DEF RepairWait

\* what the environment variables of the marking do when none is written
LEMMA TidyKept ==
  ASSUME UNCHANGED <<job, stopRequested, marker>> PROVE TidyWrites
  BY DEF TidyWrites

LEMMA TidyRefresh ==
  ASSUME RefreshRuntime, UNCHANGED <<stopRequested, marker>> PROVE TidyWrites
  BY DEF RefreshRuntime, MarkFailed, TidyWrites

\* two threads of one start are the same thread
LEMMA OnlyStarter ==
  ASSUME TypeInv, Lone, Unstopped, NEW t \in Threads, NEW u \in Threads,
         pc[t] \in StartLabels \cup StopLabels, pc[u] \in StartLabels \cup StopLabels
  PROVE t = u
<1>1. ASSUME NEW v \in Threads, pc[v] \in StartLabels \cup StopLabels
      PROVE loc[v].request # None
  <2>1. NeedsRequest(pc[v], loc[v].reason)  BY <1>1 DEF NeedsRequest, Unstopped
  <2>. QED  BY <2>1, OwnRequest, RequestsAssumption DEF Actors
<1>. QED  BY <1>1 DEF Lone, Actors

-----------------------------------------------------------------------------
(* The steps of a thread.                                                    *)

LEMMA CalmStartMarking ==
  ASSUME TypeInv, Marking, NEW t \in Threads, pc[Main] # "off",
         \/ WarmMark(t) \/ BusyCheck(t) \/ WaitAdapter(t) \/ FailedCheck(t)
  PROVE Marking'
<1>1. CASE WarmMark(t)
  <2>1. Goto(t, "repair_enter") /\ UNCHANGED loc  BY <1>1 DEF WarmMark, Step
  <2>2. loc[t].gen \in Nat  BY OwnLocals, LocalFields DEF Actors
  <2>3. TidyWrites
    BY <1>1, <2>2, ConstantsAssumption DEF WarmMark, TidyWrites, memory, control
  <2>4. Calm(t, "repair_enter")  BY DEF Calm, StopLabels
  <2>. QED  BY <2>1, <2>3, <2>4, CalmGoto
<1>2. CASE BusyCheck(t)
  <2>1. PICK l \in {"snapshot", "new_generation"} : Goto(t, l)
    BY <1>2 DEF BusyCheck
  <2>2. UNCHANGED loc /\ TidyWrites
    BY <1>2, TidyKept DEF BusyCheck, memory, control, disk
  <2>3. Calm(t, l)  BY <2>1 DEF Calm, StopLabels
  <2>. QED  BY <2>1, <2>2, <2>3, CalmGoto
<1>3. CASE WaitAdapter(t)
  <2>1. PICK l \in {"adapter_ready", "adapter_timeout", "adapter_cancelled"} : Goto(t, l)
    BY <1>3 DEF WaitAdapter
  <2>2. UNCHANGED loc /\ TidyWrites
    BY <1>3, TidyKept DEF WaitAdapter, memory, control, disk
  <2>3. Calm(t, l)  BY <2>1 DEF Calm, StopLabels
  <2>. QED  BY <2>1, <2>2, <2>3, CalmGoto
<1>4. CASE FailedCheck(t)
  <2>1. (Goto(t, "set_failed") /\ UNCHANGED loc) \/ Finish(t)
    BY <1>4 DEF FailedCheck
  <2>2. TidyWrites  BY <1>4, TidyKept DEF FailedCheck, memory, control, disk
  <2>3. Calm(t, "set_failed")  BY DEF Calm, StopLabels
  <2>. QED  BY <2>1, <2>2, <2>3, CalmGoto, CalmFinish
<1>. QED  BY <1>1, <1>2, <1>3, <1>4

\* a thread that rewrites its locals but not its reason
LEMMA KeptReason ==
  ASSUME TypeInv, NEW t \in Threads, NEW x
  PROVE /\ [loc[t] EXCEPT !.gen = x].reason = loc[t].reason
        /\ [loc[t] EXCEPT !.origin = x].reason = loc[t].reason
        /\ [loc[t] EXCEPT !.engine = x].reason = loc[t].reason
        /\ [loc[t] EXCEPT !.pid = x].reason = loc[t].reason
        /\ [loc[t] EXCEPT !.pid = None, !.engine = "singbox"].reason = loc[t].reason
<1>1. loc[t] \in LocalStates  BY OwnLocals DEF Actors
<1>. QED  BY <1>1, Zenon DEF LocalStates

LEMMA KeptReasonToo ==
  ASSUME TypeInv, NEW t \in Threads, NEW x, NEW y
  PROVE /\ [loc[t] EXCEPT !.held = x, !.heldJob = y].reason = loc[t].reason
        /\ [loc[t] EXCEPT !.gen = x, !.op = y].reason = loc[t].reason
<1>1. loc[t] \in LocalStates  BY OwnLocals DEF Actors
<1>. QED  BY <1>1, Zenon DEF LocalStates

LEMMA CalmLocals ==
  ASSUME TypeInv, Marking, NEW t \in Threads, NEW l, NEW r, Goto(t, l), Locals(t, r),
         pc[Main] # "off", TidyWrites, Calm(t, l), r.reason = loc[t].reason
  PROVE Marking'
<1>1. Tidy(l, r)  BY DEF Calm, Tidy, Marking, Unstopped
<1>. QED  BY <1>1, TidyMove

LEMMA WritingStartMarking ==
  ASSUME TypeInv, Marking, NEW t \in Threads, pc[Main] # "off",
         NewGeneration(t) \/ Queue(t) \/ Assign(t) \/ Store(t)
  PROVE Marking'
<1>1. TidyWrites
  BY TidyKept DEF NewGeneration, Queue, Assign, Store, memory, control, disk
<1>a. PICK l \in {"queue", "start_check", "store", "failed", "spawn", "wait_adapter"} :
        \E r : Goto(t, l) /\ Locals(t, r) /\ r.reason = loc[t].reason
  <2>1. CASE NewGeneration(t)
    <3>1. Goto(t, "queue") /\ Locals(t, [loc[t] EXCEPT !.gen = opGen + 1])
      BY <2>1 DEF NewGeneration, Step
    <3>2. [loc[t] EXCEPT !.gen = opGen + 1].reason = loc[t].reason  BY KeptReason
    <3>. QED  BY <3>1, <3>2, Zenon
  <2>2. CASE Queue(t)
    <3>1. Goto(t, "start_check") /\ Locals(t, [loc[t] EXCEPT !.origin = "thread"])
      BY <2>2 DEF Queue, Step
    <3>2. [loc[t] EXCEPT !.origin = "thread"].reason = loc[t].reason  BY KeptReason
    <3>. QED  BY <3>1, <3>2, Zenon
  <2>3. CASE Assign(t)
    <3>1. Locals(t, loc[t]) \/ Locals(t, [loc[t] EXCEPT !.pid = None])
      BY <2>3, SameLocals DEF Assign, Actors
    <3>2. Goto(t, "store") \/ Goto(t, "failed")  BY <2>3 DEF Assign
    <3>3. [loc[t] EXCEPT !.pid = None].reason = loc[t].reason  BY KeptReason
    <3>. QED  BY <3>1, <3>2, <3>3, Zenon
  <2>4. CASE Store(t)
    <3>1. Goto(t, "failed") \/ Goto(t, "spawn") \/ Goto(t, "wait_adapter")
      BY <2>4 DEF Store
    <3>2. Locals(t, [loc[t] EXCEPT !.pid = None, !.engine = "singbox"])
      BY <2>4 DEF Store
    <3>3. [loc[t] EXCEPT !.pid = None, !.engine = "singbox"].reason = loc[t].reason
      BY KeptReason
    <3>. QED  BY <3>1, <3>2, <3>3, Zenon
  <2>. QED  BY <2>1, <2>2, <2>3, <2>4
<1>2. PICK r : /\ l \in {"queue", "start_check", "store", "failed", "spawn", "wait_adapter"}
               /\ Goto(t, l) /\ Locals(t, r) /\ r.reason = loc[t].reason
  BY <1>a
<1>3. Calm(t, l)  BY <1>2 DEF Calm, StopLabels
<1>. QED  BY <1>1, <1>2, <1>3, CalmLocals

LEMMA CheckingStartMarking ==
  ASSUME TypeInv, Marking, NEW t \in Threads, pc[Main] # "off",
         \/ StartCheck(t) \/ CleanedCheck(t) \/ AdapterReady(t) \/ WaitRoutes(t)
         \/ RouteReady(t) \/ DnsReady(t) \/ FinalCheck(t)
  PROVE Marking'
<1>1. TidyWrites
  BY TidyKept DEF StartCheck, CleanedCheck, AdapterReady, WaitRoutes, RouteReady,
     DnsReady, FinalCheck, memory, control, disk
<1>2. (\E l \in {"replace", "mark", "alive_check", "route_ready", "dns_ready",
                 "final_alive", "publish"} : IfCurrent(t, l))
      \/ \E b : BringUpError(t, b)
  BY Zenon DEF StartCheck, CleanedCheck, AdapterReady, WaitRoutes, RouteReady,
     DnsReady, FinalCheck
<1>3. ASSUME NEW l \in {"replace", "mark", "alive_check", "route_ready", "dns_ready",
                        "final_alive", "publish"}
      PROVE Calm(t, l)
  BY DEF Calm, StopLabels
<1>. QED  BY <1>1, <1>2, <1>3, CalmIfCurrent, CalmBringUpError

LEMMA ErrorStartMarking ==
  ASSUME TypeInv, Marking, NEW t \in Threads, pc[Main] # "off",
         \/ JobError(t)
         \/ AdapterError(t, "adapter_timeout") \/ AdapterError(t, "adapter_cancelled")
         \/ AliveCheck(t, "alive_check", "wait_routes", "singbox")
         \/ AliveCheck(t, "final_alive", "final_check", "xray")
  PROVE Marking'
<1>1. TidyWrites
  BY TidyKept DEF JobError, AdapterError, AliveCheck, memory, control, disk
<1>2. \/ \E b : BringUpError(t, b)
      \/ \E l \in {"wait_routes", "final_check"} : Goto(t, l) /\ UNCHANGED loc
  BY Zenon DEF JobError, AdapterError, AliveCheck, FatalLog
<1>3. ASSUME NEW l \in {"wait_routes", "final_check"} PROVE Calm(t, l)
  BY DEF Calm, StopLabels
<1>. QED  BY <1>1, <1>2, <1>3, CalmGoto, CalmBringUpError

LEMMA EndingStartMarking ==
  ASSUME TypeInv, Marking, NEW t \in Threads, pc[Main] # "off",
         Replace(t) \/ Publish(t) \/ StartFailed(t) \/ SetFailed(t)
  PROVE Marking'
<1>1. CASE SetFailed(t)
  <2>1. TidyWrites  BY <1>1 DEF SetFailed, MarkFailed, TidyWrites, control, disk
  <2>. QED  BY <1>1, <2>1, CalmFinish DEF SetFailed
<1>2. CASE Replace(t) \/ Publish(t) \/ StartFailed(t)
  <2>1. TidyWrites
    BY <1>2, TidyKept DEF Replace, Publish, StartFailed, memory, control, disk
  <2>2. Finish(t) \/ \E reason \in StartReasons : StopOwned(t, reason)
    BY <1>2, Zenon DEF Replace, Publish, StartFailed, StartReasons
  <2>. QED  BY <2>1, <2>2, CalmFinish, CalmStopOwned
<1>. QED  BY <1>1, <1>2

LEMMA WriteMarkerMarking ==
  ASSUME TypeInv, Marking, NEW t \in Threads, pc[Main] # "off", WriteMarker(t)
  PROVE Marking'
<1>1. Goto(t, "create_job") /\ UNCHANGED loc  BY DEF WriteMarker, Step
<1>2. Locals(t, loc[t])  BY <1>1, SameLocals DEF Actors
<1>3. loc[t].gen \in Nat  BY OwnLocals, LocalFields DEF Actors
<1>4. marker' # None  BY <1>3, ConstantsAssumption DEF WriteMarker
<1>5. TidyWrites  BY <1>4 DEF WriteMarker, TidyWrites, control
<1>6. Tidy("create_job", loc[t])
  BY <1>4 DEF Tidy, Marking, Unstopped, StopLabels
<1>. QED  BY <1>1, <1>2, <1>5, <1>6, TidyMove

\* the one step that creates a job finds the marker written and no job taken
LEMMA CreateJobMarking ==
  ASSUME TypeInv, Lone, Marking, NEW t \in Threads, pc[Main] # "off", CreateJob(t)
  PROVE Marking'
<1>0. pc[t] = "create_job" /\ UNCHANGED <<marker, stopRequested>>
  BY DEF CreateJob, At, control, disk
<1>a. PICK l \in {"spawn", "failed"} :
        \E r : Goto(t, l) /\ Locals(t, r) /\ r.reason = loc[t].reason
  <2>1. CASE Current(t)
    <3>. DEFINE x == FirstEngine(loc[t].request.config)
    <3>1. Goto(t, "spawn") /\ Locals(t, [loc[t] EXCEPT !.engine = x])
      BY <2>1 DEF CreateJob
    <3>. HIDE DEF x
    <3>. QED  BY <3>1, KeptReason
  <2>2. CASE ~Current(t)
    <3>1. Goto(t, "failed") /\ UNCHANGED loc  BY <2>2 DEF CreateJob, BringUpError
    <3>2. Locals(t, loc[t])  BY <3>1, SameLocals DEF Actors
    <3>. QED  BY <3>1, <3>2
  <2>. QED  BY <2>1, <2>2
<1>1. PICK r : /\ l \in {"spawn", "failed"}
               /\ Goto(t, l) /\ Locals(t, r) /\ r.reason = loc[t].reason
  BY <1>a
<1>2. pc'[t] = l /\ loc'[t] = r
      /\ \A u \in Threads \ {t} : pc'[u] = pc[u] /\ loc'[u] = loc[u]
  BY <1>1, Moved DEF Actors
<1>3. pc'[Main] = pc[Main]  BY <1>1, MainStays
<1>4. marker # None  BY <1>0 DEF Marking, Marked
<1>5. \A u \in Threads \ {t} : pc[u] \notin {"kill", "settle", "unmark"}
  BY <1>0, OnlyStarter DEF Marking, StartLabels, StopLabels
<1>6. Unstopped'
  BY <1>0, <1>1, <1>2, <1>3 DEF Marking, Unstopped, StopLabels
<1>7. Jobless'  BY <1>1, <1>2, <1>5 DEF Jobless
<1>8. Marked'  BY <1>0, <1>4 DEF Marked
<1>9. OffIsEmpty'  BY <1>3 DEF OffIsEmpty
<1>. QED  BY <1>6, <1>7, <1>8, <1>9 DEF Marking

LEMMA SpawnMarking ==
  ASSUME TypeInv, Marking, NEW t \in Threads, pc[Main] # "off", Spawn(t)
  PROVE Marking'
<1>1. TidyWrites  BY TidyKept DEF Spawn, memory, control, disk
<1>. DEFINE p == Fresh(Pids, UsedPids)
<1>2. \/ \E b : BringUpError(t, b)
      \/ Goto(t, "assign") /\ Locals(t, [loc[t] EXCEPT !.pid = p])
  BY DEF Spawn
<1>. HIDE DEF p
<1>3. Calm(t, "assign")  BY DEF Calm, StopLabels
<1>. QED  BY <1>1, <1>2, <1>3, KeptReason, CalmLocals, CalmBringUpError

LEMMA StartStepsMarking ==
  ASSUME TypeInv, Lone, Marking, NEW t \in Threads, StartSteps(t)
  PROVE Marking'
<1>1. pc[t] # "idle"
  BY DEF StartSteps, WarmMark, BusyCheck, NewGeneration, Queue, StartCheck, Replace,
     CleanedCheck, WriteMarker, CreateJob, JobError, Spawn, Assign, Store, WaitAdapter,
     AdapterReady, AdapterError, AliveCheck, WaitRoutes, RouteReady, DnsReady, FinalCheck,
     Publish, StartFailed, FailedCheck, SetFailed, Step, At
<1>2. pc[Main] # "off"  BY <1>1, NotOff DEF Marking
<1>. QED
  BY <1>2, CalmStartMarking, WritingStartMarking, CheckingStartMarking,
     ErrorStartMarking, EndingStartMarking, WriteMarkerMarking, CreateJobMarking,
     SpawnMarking
     DEF StartSteps

LEMMA StopStepsMarking ==
  ASSUME TypeInv, Lone, Marking, NEW t \in Threads, StopSteps(t)
  PROVE Marking'
<1>1. pc[t] # "idle"
  BY DEF StopSteps, Take, Kill, Settle, ClearMarker, Linger, Snapshot, StopDelay,
     Prepared, Step, At
<1>2. pc[Main] # "off"  BY <1>1, NotOff DEF Marking
<1>3. CASE Take(t)
  <2>. DEFINE r == [loc[t] EXCEPT !.held = SlotPids, !.heldJob = job]
  <2>1. pc[t] = "take" /\ Goto(t, "kill") /\ Locals(t, r)  BY <1>3 DEF Take, Step, At
  <2>2. TidyWrites /\ job' = None  BY <1>3 DEF Take, TidyWrites, control, disk
  <2>3. r.reason = loc[t].reason  BY KeptReasonToo
  <2>. HIDE DEF r
  <2>4. Tidy("kill", r)
    BY <2>1, <2>2, <2>3 DEF Tidy, Marking, Unstopped, StopLabels
  <2>. QED  BY <1>2, <2>1, <2>2, <2>4, TidyMove
<1>4. CASE Kill(t)
  <2>. DEFINE r == [loc[t] EXCEPT !.held = {}, !.heldJob = None]
  <2>1. pc[t] = "kill" /\ Goto(t, "settle") /\ Locals(t, r)  BY <1>4 DEF Kill, Step, At
  <2>2. TidyWrites /\ UNCHANGED job  BY <1>4, TidyKept DEF Kill, memory, control, disk
  <2>3. r.reason = loc[t].reason  BY KeptReasonToo
  <2>. HIDE DEF r
  <2>4. Tidy("settle", r)
    BY <2>1, <2>2, <2>3 DEF Tidy, Marking, Unstopped, Jobless, StopLabels
  <2>. QED  BY <1>2, <2>1, <2>2, <2>4, TidyMove
<1>5. CASE Settle(t)
  <2>1. pc[t] = "settle" /\ Goto(t, "unmark") /\ UNCHANGED loc
    BY <1>5 DEF Settle, Step, At
  <2>2. TidyWrites /\ UNCHANGED job  BY <1>5, TidyKept DEF Settle, control, disk
  <2>3. Locals(t, loc[t])  BY <2>1, SameLocals DEF Actors
  <2>4. Tidy("unmark", loc[t])
    BY <2>1, <2>2 DEF Tidy, Marking, Unstopped, Jobless, StopLabels
  <2>. QED  BY <1>2, <2>1, <2>2, <2>3, <2>4, TidyMove
\* the marker goes only when the job has gone
<1>6. CASE ClearMarker(t)
  <2>1. /\ pc[t] = "unmark" /\ Goto(t, "linger") /\ UNCHANGED loc
        /\ UNCHANGED <<job, stopRequested>>
    BY <1>6 DEF ClearMarker, Step, At, memory, control
  <2>2. Locals(t, loc[t])  BY <2>1, SameLocals DEF Actors
  <2>3. pc'[t] = "linger" /\ \A u \in Threads \ {t} : pc'[u] = pc[u]
    BY <2>1, <2>2, Moved DEF Actors
  <2>4. pc'[Main] = pc[Main]  BY <2>1, MainStays
  <2>5. job = None  BY <2>1 DEF Marking, Jobless
  <2>6. \A u \in Threads \ {t} : pc[u] # "create_job"
    BY <2>1, OnlyStarter DEF Marking, StartLabels, StopLabels
  <2>7. Unstopped'
    BY <2>1, <2>3, <2>4 DEF Marking, Unstopped, StopLabels
  <2>8. Jobless' /\ Marked'  BY <2>1, <2>3, <2>5, <2>6 DEF Jobless, Marked
  <2>9. OffIsEmpty'  BY <1>2, <2>4 DEF OffIsEmpty
  <2>. QED  BY <2>7, <2>8, <2>9 DEF Marking
<1>7. CASE Linger(t)
  <2>. DEFINE l == AfterStop(loc[t].reason)
  <2>1. pc[t] = "linger" /\ Goto(t, l) /\ UNCHANGED loc
    BY <1>7 DEF Linger, Step, At
  <2>2. TidyWrites  BY <1>7, TidyKept DEF Linger, control, disk
  <2>3. loc[t].reason \in StartReasons
    BY <2>1 DEF Marking, Unstopped, StopLabels
  <2>4. l \in {"cleaned_check", "failed_check"}
    BY <2>3 DEF AfterStop, StartReasons
  <2>. HIDE DEF l
  <2>5. Calm(t, l)  BY <2>4 DEF Calm, StopLabels
  <2>. QED  BY <1>2, <2>1, <2>2, <2>5, CalmGoto
<1>8. CASE Snapshot(t)
  <2>1. RefreshRuntime /\ UNCHANGED <<stopRequested, marker>>
    BY <1>8 DEF Snapshot, control, disk
  <2>2. loc[t].reason # "stop_tunnel"  BY DEF Marking, Unstopped
  <2>3. Finish(t)  BY <1>8, <2>2 DEF Snapshot
  <2>. QED  BY <1>2, <2>1, <2>3, TidyRefresh, CalmFinish
<1>9. ~StopDelay(t) /\ ~Prepared(t)
  BY DEF StopDelay, Prepared, Step, At, Marking, Unstopped
<1>. QED  BY <1>3, <1>4, <1>5, <1>6, <1>7, <1>8, <1>9 DEF StopSteps

LEMMA RepairStepsMarking ==
  ASSUME TypeInv, Lone, Marking, NEW t \in Threads, RepairSteps(t)
  PROVE Marking'
<1>1. ~Rotate(t)  BY DEF Lone, Rotate, At, Actors
<1>2. pc[t] # "idle"
  BY <1>1 DEF RepairSteps, RepairEnter, RepairProbe, RepairAdapter, RepairReady, RepairProxy,
     RepairPublish, At
<1>3. pc[Main] # "off"  BY <1>2, NotOff DEF Marking
<1>4. TidyWrites
  BY <1>1, TidyKept DEF RepairSteps, RepairEnter, RepairProbe, RepairAdapter, RepairReady,
     RepairProxy, RepairPublish, memory, control, disk
<1>5. CASE RepairEnter(t)
  <2>. DEFINE r == [loc[t] EXCEPT !.gen = runtime.gen, !.op = runtime.op]
  <2>1. \/ Goto(t, "stuck") /\ UNCHANGED loc
        \/ RepairError(t)
        \/ Goto(t, "repair_probe") /\ Locals(t, r)
    BY <1>5 DEF RepairEnter, SelfDeadlock
  <2>2. r.reason = loc[t].reason  BY KeptReasonToo
  <2>. HIDE DEF r
  <2>3. Calm(t, "stuck") /\ Calm(t, "repair_probe")  BY DEF Calm, StopLabels
  <2>. QED  BY <1>3, <1>4, <2>1, <2>2, <2>3, CalmGoto, CalmLocals, CalmRepairError
<1>6. CASE RepairProbe(t) \/ RepairAdapter(t) \/ RepairReady(t) \/ RepairProxy(t)
  <2>1. \/ RepairError(t)
        \/ \E l \in {"repair_adapter", "repair_ready", "repair_proxy", "repair_publish"} :
             Goto(t, l) /\ UNCHANGED loc
    BY <1>6 DEF RepairProbe, RepairAdapter, RepairReady, RepairProxy, RepairWait
  <2>2. ASSUME NEW l \in {"repair_adapter", "repair_ready", "repair_proxy",
                          "repair_publish"}
        PROVE Calm(t, l)
    BY DEF Calm, StopLabels
  <2>. QED  BY <1>3, <1>4, <2>1, <2>2, CalmGoto, CalmRepairError
<1>7. CASE RepairPublish(t)
  <2>1. (Goto(t, "stuck") \/ Goto(t, "snapshot")) /\ UNCHANGED loc
    BY <1>7 DEF RepairPublish, SelfDeadlock
  <2>2. Calm(t, "stuck") /\ Calm(t, "snapshot")  BY DEF Calm, StopLabels
  <2>. QED  BY <1>3, <1>4, <2>1, <2>2, CalmGoto
<1>. QED  BY <1>1, <1>5, <1>6, <1>7 DEF RepairSteps

LEMMA CommandMarking ==
  ASSUME Undisturbed, TypeInv, Marking, NEW t \in Threads, Command(t)
  PROVE Marking'
<1>1. ~StopTunnel(t) /\ ~PrepareForUpdate(t) /\ \A op : ~RepairRuntime(t, op)
  BY DEF Undisturbed, OneStart, StopTunnel, PrepareForUpdate, RepairRuntime, Accept
<1>2. ASSUME NEW request \in Requests, StartTunnel(t, request) PROVE Marking'
  <2>1. pc[Main] # "off"  BY <1>2 DEF StartTunnel, Accept, Serving
  <2>2. TidyWrites
    BY <1>2 DEF StartTunnel, MarkFailed, TidyWrites, control, disk
  <2>a. PICK l \in {"busy_check", "warm_mark"} :
          \E r : Goto(t, l) /\ Locals(t, r) /\ r.reason = "service_stop"
    <3>1. ASSUME NEW g
          PROVE [NoLocals EXCEPT !.request = request, !.gen = g, !.origin = "command"].reason
                  = "service_stop"
      BY Zenon DEF NoLocals
    <3>2. [NoLocals EXCEPT !.request = request, !.origin = "command"].reason = "service_stop"
      BY Zenon DEF NoLocals
    <3>3. CASE EngineLost  BY <1>2, <3>2, <3>3, Zenon DEF StartTunnel
    <3>4. CASE ~EngineLost
      <4>. DEFINE w == [NoLocals EXCEPT !.request = request,
                          !.gen = Refreshed(runtime).gen, !.origin = "command"]
      <4>1. Locals(t, w) /\ (Goto(t, "warm_mark") \/ Goto(t, "busy_check"))
        BY <1>2, <3>4 DEF StartTunnel
      <4>2. w.reason = "service_stop"  BY <3>1
      <4>. QED  BY <4>1, <4>2, Zenon
    <3>. QED  BY <3>3, <3>4
  <2>3. PICK r : /\ l \in {"busy_check", "warm_mark"}
                 /\ Goto(t, l) /\ Locals(t, r) /\ r.reason = "service_stop"
    BY <2>a
  <2>4. Tidy(l, r)  BY <2>3 DEF Tidy, StopLabels
  <2>. QED  BY <2>1, <2>2, <2>3, <2>4, TidyMove
<1>3. ASSUME NEW op, NEW ok, ReportProxyCompatibility(t, op, ok) PROVE Marking'
  <2>1. pc[Main] # "off"  BY <1>3 DEF ReportProxyCompatibility, Accept, Serving
  <2>2. TidyWrites  BY <1>3, TidyKept DEF ReportProxyCompatibility, control, disk
  <2>3. PICK r : Goto(t, "snapshot") /\ Locals(t, r) /\ r.reason = "service_stop"
    <3>1. [NoLocals EXCEPT !.origin = "command"].reason = "service_stop"
      BY Zenon DEF NoLocals
    <3>. QED  BY <1>3, <3>1 DEF ReportProxyCompatibility
  <2>4. Tidy("snapshot", r)  BY <2>3 DEF Tidy, StopLabels
  <2>. QED  BY <2>1, <2>2, <2>3, <2>4, TidyMove
<1>. QED  BY <1>1, <1>2, <1>3 DEF Command

LEMMA ServiceMarking ==
  ASSUME Undisturbed, TypeInv, Marking,
         MainSteps \/ ServiceStart \/ GetStatus \/ NetworkEvent \/ ScmStop
         \/ Crash \/ EngineExit \/ UNCHANGED vars
  PROVE Marking'
<1>1. ~MainSteps
  <2>1. ~StopSteps(Main)
    BY DEF Marking, Unstopped, StopSteps, Take, Kill, Settle, ClearMarker, Linger, Snapshot,
       StopDelay, Prepared, Step, At
  <2>. QED
    BY <2>1 DEF MainSteps, MainStops, ServiceExit, At, Marking, Unstopped
<1>2. ~NetworkEvent /\ ~ScmStop
  BY DEF Undisturbed, OneStart, NetworkEvent, ScmStop
<1>3. CASE ServiceStart
  <2>1. pc[Main] = "off" /\ UNCHANGED <<job, stopRequested, loc>>
        /\ pc' = [pc EXCEPT ![Main] = "serving"]
    BY <1>3 DEF ServiceStart, Step, At, Goto, memory, control
  <2>2. job = None /\ \A t \in Threads : pc[t] = "idle"
    BY <2>1 DEF Marking, OffIsEmpty
  <2>3. pc'[Main] = "serving" /\ \A t \in Threads : pc'[t] = "idle"
    BY <2>1, <2>2, ConstantsAssumption DEF Actors, TypeInv, TypeOK
  <2>4. Unstopped'
    BY <2>1, <2>3 DEF Marking, Unstopped, StopLabels
  <2>. QED
    BY <2>1, <2>2, <2>3, <2>4 DEF Marking, Jobless, Marked, OffIsEmpty
<1>4. CASE GetStatus
  BY <1>4, TidyRefresh, TidyStill DEF GetStatus, control, disk
<1>5. CASE EngineExit \/ UNCHANGED vars
  BY <1>5, TidyKept, TidyStill DEF EngineExit, vars, memory, control, disk
<1>6. CASE Crash
  <2>1. /\ job' = None /\ stopRequested' = FALSE
        /\ pc'[Main] = "off" /\ \A t \in Threads : pc'[t] = "idle" /\ loc'[t] = NoLocals
    BY <1>6, ConstantsAssumption DEF Crash, ProcessEnds, Actors
  <2>2. NoLocals.reason = "service_stop"  BY DEF NoLocals
  <2>3. Unstopped'  BY <2>1, <2>2 DEF Unstopped, StopLabels
  <2>. QED  BY <2>1, <2>3 DEF Marking, Jobless, Marked, OffIsEmpty
<1>. QED  BY <1>1, <1>2, <1>3, <1>4, <1>5, <1>6

LEMMA MarkingNext ==
  ASSUME Undisturbed, TypeInv, Lone, Marking, [Next]_vars
  PROVE Marking'
<1>1. CASE \E t \in Threads : Command(t) \/ Continue(t)
  BY <1>1, CommandMarking, StartStepsMarking, StopStepsMarking, RepairStepsMarking
     DEF Continue
<1>2. CASE \/ MainSteps \/ ServiceStart \/ GetStatus \/ NetworkEvent \/ ScmStop
           \/ Crash \/ EngineExit \/ UNCHANGED vars
  BY <1>2, ServiceMarking
<1>. QED  BY <1>1, <1>2 DEF Next

LEMMA MarkingInit == ASSUME Init PROVE Marking
<1>1. /\ job = None /\ stopRequested = FALSE
      /\ pc[Main] = "serving" /\ \A t \in Threads : pc[t] = "idle" /\ loc[t] = NoLocals
  BY ConstantsAssumption DEF Init, Actors
<1>2. NoLocals.reason = "service_stop"  BY DEF NoLocals
<1>3. Unstopped  BY <1>1, <1>2 DEF Unstopped, StopLabels
<1>. QED  BY <1>1, <1>3 DEF Marking, Jobless, Marked, OffIsEmpty

LEMMA MarkingIsMarked == ASSUME Marking PROVE EngineIsMarked
  BY DEF Marking, Marked, EngineIsMarked, InJob

\* a job that a stop holds is the only one with engines in it
LEMMA MarkingIsOne ==
  ASSUME TypeInv, Lone, Contained, Marking PROVE OneRuntime
<1>1. ASSUME NEW t \in Actors, loc[t].heldJob # None
      PROVE t \in Threads /\ pc[t] = "kill"
  BY <1>1 DEF Contained, Held, Marking, Unstopped, Actors
<1>2. ASSUME NEW t \in Actors, NEW u \in Actors,
             loc[t].heldJob # None, loc[u].heldJob # None
      PROVE t = u /\ job = None
  <2>1. pc[t] = "kill" /\ pc[u] = "kill" /\ t \in Threads /\ u \in Threads
    BY <1>1, <1>2
  <2>2. t = u  BY <2>1, OnlyStarter DEF Marking, StopLabels
  <2>. QED  BY <2>1, <2>2 DEF Marking, Jobless
<1>3. ASSUME NEW p \in alive, NEW q \in alive, jobOf[p] # None, jobOf[q] # None
      PROVE jobOf[p] = jobOf[q]
  <2>1. jobOf[p] = job \/ \E t \in Actors : loc[t].heldJob = jobOf[p]
    BY <1>3 DEF Contained, InJobs
  <2>2. jobOf[q] = job \/ \E u \in Actors : loc[u].heldJob = jobOf[q]
    BY <1>3 DEF Contained, InJobs
  <2>. QED  BY <1>2, <1>3, <2>1, <2>2
<1>. QED  BY <1>3 DEF OneRuntime

\* Where one start runs at a time and no stop beside it, a running engine in the
\* runtime's job is marked on disk, across retries, replacements and crashes.
THEOREM EnginesStayMarked == ASSUME Undisturbed PROVE Spec => []EngineIsMarked
<1>0. OneStart  BY DEF Undisturbed
<1>1. Init => TypeInv /\ Lone /\ Whole /\ Marking
  BY TypeInit, WholeInit, MarkingInit
<1>2. TypeInv /\ Lone /\ Whole /\ Marking /\ [Next]_vars
        => TypeInv' /\ Lone' /\ Whole' /\ Marking'
  BY <1>0, TypeNext, WholeNext, MarkingNext
<1>3. Marking => EngineIsMarked  BY MarkingIsMarked
<1>. QED  BY <1>1, <1>2, <1>3, PTL DEF Spec

\* Under the same condition the engines of two runtimes never run side by side.
THEOREM OneRuntimeRuns == ASSUME Undisturbed PROVE Spec => []OneRuntime
<1>0. OneStart  BY DEF Undisturbed
<1>1. Init => TypeInv /\ Lone /\ Whole /\ Marking /\ Contained
  <2>1. ASSUME Init PROVE Contained
    BY <2>1, NoLocalsHeld, ConstantsAssumption
       DEF Init, Contained, InJobs, StoredAreAssigned, Held, Assigned, DeadHaveNoJob
  <2>. QED  BY <2>1, TypeInit, WholeInit, MarkingInit
<1>2. TypeInv /\ Lone /\ Whole /\ Marking /\ Contained /\ [Next]_vars
        => TypeInv' /\ Lone' /\ Whole' /\ Marking' /\ Contained'
  BY <1>0, TypeNext, WholeNext, MarkingNext, ContainedNext
<1>3. TypeInv /\ Lone /\ Marking /\ Contained => OneRuntime  BY MarkingIsOne
<1>. QED  BY <1>1, <1>2, <1>3, PTL DEF Spec

-----------------------------------------------------------------------------
(* The service comes to rest.  While no stop is on its way, every start at   *)
(* work has the current generation, so none ends without a last word about   *)
(* the status: Connecting and Disconnecting always have a thread that will   *)
(* leave them.  A second start beside a rotation breaks this: the rotation   *)
(* it made stale publishes Connecting after it, and ends in silence.         *)

InTurn == "overlap" \notin Inputs /\ ("event" \in Inputs => MaxGeneration <= 1)

StopCommands == {"stop_tunnel", "prepare_update"}

\* the steps of a start before its request is published
EntryLabels == {"busy_check", "new_generation", "queue"}

\* where a thread may be before the first generation
EarlyLabels == {"idle", "snapshot", "stuck", "busy_check", "new_generation",
                "repair_enter"}

\* a start that has published its request, or a stop it waits for
Working(l, reason) ==
  \/ l \in StartLabels \ EntryLabels
  \/ l \in StopLabels /\ reason \in StartReasons

\* the command that stops the service does nothing else before it asks for the exit
Ending(l, reason, stopping) ==
  /\ reason = "stop_tunnel" => l \in StopLabels \cup {"snapshot", "stop_delay"}
  /\ reason = "prepare_update" =>
       l \in StopLabels \cup {"prepared"} \/ (l = "snapshot" /\ stopping)
  /\ l \in StopLabels => reason # "service_stop"

StopsEnd ==
  /\ pc[Main] \notin {"off", "serving"} => stopRequested
  /\ \A t \in Threads : Ending(pc[t], loc[t].reason, stopRequested)

\* the service is asked to exit, or a command in progress will ask for it
Cancelled == stopRequested \/ \E t \in Threads : loc[t].reason \in StopCommands

\* a thread at l with the locals r under generation g
Placed(l, r, g) ==
  /\ Working(l, r.reason) \/ l = "queue" => r.gen = g
  /\ r.origin = "event" \/ l = "rotate" => "event" \in Inputs
  /\ l \in EntryLabels => r.origin # "event"
  /\ "event" \in Inputs /\ l \in EntryLabels \ {"queue"} => g = 0
  /\ g = 0 => l \in EarlyLabels

Tended ==
  /\ \A t \in Threads : Placed(pc[t], loc[t], opGen)
  /\ \A t, u \in Threads : Starting(t) /\ Starting(u) => t = u
  /\ runtime.state \in Transitional => \E t \in Threads : Working(pc[t], loc[t].reason)
  /\ opGen = 0 => runtime.state \in {"Disconnected", "Failed"}

Rest == StopsEnd /\ (Cancelled \/ Tended)

LEMMA RestIsRest == ASSUME Rest PROVE ComesToRest
<1>. SUFFICES ASSUME Quiet, ~stopRequested PROVE runtime.state \notin Transitional
  BY DEF ComesToRest
<1>1. \A t \in Threads : pc[t] = "idle"  BY DEF Quiet, At
<1>2. ~Cancelled
  BY <1>1 DEF Cancelled, Rest, StopsEnd, Ending, StopCommands, StopLabels
<1>3. \A t \in Threads : ~Working(pc[t], loc[t].reason)
  BY <1>1 DEF Working, StartLabels, StopLabels
<1>. QED  BY <1>2, <1>3 DEF Rest, Tended

-----------------------------------------------------------------------------
(* Moves of a thread.                                                        *)

\* the status after the step: as before with its worker, settled, or in the
\* hands of the thread that moves
Attended(t, l, reason) ==
  \/ /\ runtime'.state = runtime.state
     /\ Working(pc[t], loc[t].reason) => Working(l, reason)
  \/ runtime'.state \in {"Disconnected", "Failed"}
  \/ opGen # 0 /\ (runtime'.state = "Connected" \/ Working(l, reason))

\* the moves of threads that are no stop command
Plain(l, reason) ==
  reason \notin StopCommands /\ (l \in StopLabels => reason \in StartReasons)

LEMMA RestMove ==
  ASSUME TypeInv, Rest, NEW t \in Threads, NEW l, NEW r, Goto(t, l), Locals(t, r),
         UNCHANGED <<opGen, stopRequested>>,
         loc[t].reason \notin StopCommands, Plain(l, r.reason),
         ~Cancelled => /\ Placed(l, r, opGen)
                       /\ r.request # None /\ r.origin # "event"
                            => Starting(t) \/ \A u \in Threads : ~Starting(u)
                       /\ Attended(t, l, r.reason)
  PROVE Rest'
<1>1. pc'[t] = l /\ loc'[t] = r
      /\ \A u \in Threads \ {t} : pc'[u] = pc[u] /\ loc'[u] = loc[u]
  BY Moved DEF Actors
<1>2. pc'[Main] = pc[Main]  BY MainStays
<1>3. StopsEnd'
  <2>1. Ending(l, r.reason, stopRequested)
    BY DEF Plain, Ending, StopCommands, StartReasons
  <2>. QED  BY <1>1, <1>2, <2>1 DEF Rest, StopsEnd
<1>4. CASE Cancelled
  <2>1. Cancelled'  BY <1>1, <1>4 DEF Cancelled
  <2>. QED  BY <1>3, <2>1 DEF Rest
<1>5. CASE ~Cancelled
  <2>1. \A u \in Threads : Placed(pc'[u], loc'[u], opGen')
    BY <1>1, <1>5 DEF Rest, Tended
  <2>2. \A u, v \in Threads : Starting(u)' /\ Starting(v)' => u = v
    <3>1. ASSUME NEW u \in Threads \ {t}, Starting(u)' PROVE Starting(u)
      BY <1>1, <3>1 DEF Starting
    <3>2. Starting(t)' => Starting(t) \/ \A u \in Threads : ~Starting(u)
      BY <1>1, <1>5 DEF Starting
    <3>. QED  BY <1>5, <3>1, <3>2 DEF Rest, Tended
  <2>3. runtime'.state \in Transitional
          => \E u \in Threads : Working(pc'[u], loc'[u].reason)
    BY <1>1, <1>5 DEF Rest, Tended, Attended, Transitional
  <2>4. opGen' = 0 => runtime'.state \in {"Disconnected", "Failed"}
    <3>1. opGen = 0 => ~Working(l, r.reason)
      BY <1>5 DEF Placed, Working, EarlyLabels, EntryLabels, StartLabels, StopLabels
    <3>. QED  BY <1>5, <3>1 DEF Rest, Tended, Attended
  <2>. QED  BY <1>3, <2>1, <2>2, <2>3, <2>4 DEF Rest, Tended
<1>. QED  BY <1>4, <1>5

\* outside the steps of a stop command, a thread is none
LEMMA NoStopCommand ==
  ASSUME Rest, NEW t \in Threads,
         pc[t] \notin StopLabels \cup {"snapshot", "stop_delay", "prepared"}
  PROVE loc[t].reason \notin StopCommands
  BY DEF Rest, StopsEnd, Ending, StopCommands

Kin(t, r) ==
  /\ r.gen = loc[t].gen /\ r.request = loc[t].request /\ r.origin = loc[t].origin

LEMMA KinLocals ==
  ASSUME TypeInv, NEW t \in Threads, NEW x, NEW y
  PROVE /\ Kin(t, loc[t])
        /\ Kin(t, [loc[t] EXCEPT !.reason = x])
        /\ Kin(t, [loc[t] EXCEPT !.reason = x, !.attempt = y])
        /\ Kin(t, [loc[t] EXCEPT !.engine = x])
        /\ Kin(t, [loc[t] EXCEPT !.pid = x])
        /\ Kin(t, [loc[t] EXCEPT !.pid = x, !.engine = y])
        /\ Kin(t, [loc[t] EXCEPT !.held = x, !.heldJob = y])
<1>1. loc[t] \in LocalStates  BY OwnLocals DEF Actors
<1>. QED  BY <1>1, Zenon DEF LocalStates, Kin

\* a start at work goes on
LEMMA WorkMove ==
  ASSUME TypeInv, Rest, NEW t \in Threads, NEW l, NEW r, Goto(t, l), Locals(t, r),
         UNCHANGED <<opGen, stopRequested>>,
         Working(pc[t], loc[t].reason), Working(l, r.reason), Kin(t, r),
         loc[t].reason \notin StopCommands, r.reason \notin StopCommands
  PROVE Rest'
<1>1. Plain(l, r.reason)
  BY DEF Plain, Working, StartLabels, StopLabels
<1>2. l \notin EntryLabels \cup EarlyLabels \cup {"rotate"}
      /\ pc[t] \notin EarlyLabels
  BY DEF Working, StartLabels, StopLabels, EntryLabels, EarlyLabels
<1>3. ASSUME ~Cancelled
      PROVE /\ Placed(l, r, opGen)
            /\ r.request # None /\ r.origin # "event" => Starting(t)
            /\ Attended(t, l, r.reason)
  <2>1. Placed(pc[t], loc[t], opGen)  BY <1>3 DEF Rest, Tended
  <2>2. opGen # 0  BY <1>2, <2>1 DEF Placed
  <2>3. Placed(l, r, opGen)  BY <1>2, <2>1, <2>2 DEF Placed, Kin, EntryLabels
  <2>. QED  BY <2>2, <2>3 DEF Attended, Starting, Kin
<1>. QED  BY <1>1, <1>3, RestMove

\* a start at work goes on without a write to its locals
LEMMA WorkGoto ==
  ASSUME TypeInv, Rest, NEW t \in Threads, NEW l, Goto(t, l), UNCHANGED loc,
         UNCHANGED <<opGen, stopRequested>>,
         pc[t] \in StartLabels \ EntryLabels, l \in StartLabels \ EntryLabels
  PROVE Rest'
<1>1. Locals(t, loc[t])  BY SameLocals DEF Actors
<1>2. loc[t].reason \notin StopCommands
  BY NoStopCommand DEF StartLabels, StopLabels
<1>. QED  BY <1>1, <1>2, KinLocals, WorkMove DEF Working

LEMMA WorkStopOwned ==
  ASSUME TypeInv, Rest, NEW t \in Threads, NEW reason \in StartReasons,
         StopOwned(t, reason), UNCHANGED <<opGen, stopRequested>>,
         pc[t] \in StartLabels \ EntryLabels
  PROVE Rest'
<1>. DEFINE r == [loc[t] EXCEPT !.reason = reason]
<1>1. r.reason = reason
  BY OwnLocals, ReasonType DEF Actors, StartReasons, StopReasons
<1>2. Goto(t, "take") /\ Locals(t, r) /\ Kin(t, r)
  BY KinLocals DEF StopOwned
<1>. HIDE DEF r
<1>3. Working("take", r.reason) /\ r.reason \notin StopCommands
  BY <1>1 DEF Working, StopLabels, StartReasons, StopCommands
<1>4. loc[t].reason \notin StopCommands
  BY NoStopCommand DEF StartLabels, StopLabels
<1>. QED  BY <1>2, <1>3, <1>4, WorkMove DEF Working

LEMMA WorkBringUpError ==
  ASSUME TypeInv, Rest, NEW t \in Threads, NEW b, BringUpError(t, b),
         UNCHANGED <<opGen, stopRequested>>, pc[t] \in StartLabels \ EntryLabels
  PROVE Rest'
<1>. DEFINE r == [loc[t] EXCEPT !.reason = "tun_adapter_repair", !.attempt = 2]
<1>1. r.reason = "tun_adapter_repair"
  <2>1. loc[t] \in LocalStates  BY OwnLocals DEF Actors
  <2>. QED  BY <2>1, Zenon DEF LocalStates
<1>2. Kin(t, r)  BY KinLocals
<1>3. \/ Goto(t, "take") /\ Locals(t, r)
      \/ Goto(t, "failed") /\ UNCHANGED loc
  BY DEF BringUpError
<1>. HIDE DEF r
<1>4. Working("take", r.reason) /\ r.reason \notin StopCommands
  BY <1>1 DEF Working, StopLabels, StartReasons, StopCommands
<1>5. loc[t].reason \notin StopCommands
  BY NoStopCommand DEF StartLabels, StopLabels
<1>6. "failed" \in StartLabels \ EntryLabels  BY DEF StartLabels, EntryLabels
<1>. QED  BY <1>2, <1>3, <1>4, <1>5, <1>6, WorkMove, WorkGoto DEF Working

LEMMA WorkIfCurrent ==
  ASSUME TypeInv, Rest, NEW t \in Threads, NEW l \in StartLabels \ EntryLabels,
         IfCurrent(t, l), UNCHANGED <<opGen, stopRequested>>,
         pc[t] \in StartLabels \ EntryLabels
  PROVE Rest'
  BY WorkGoto, WorkBringUpError DEF IfCurrent

\* a thread that is no stop command ends and leaves the status attended
LEMMA RestFinish ==
  ASSUME TypeInv, Rest, NEW t \in Threads, Finish(t), UNCHANGED <<opGen, stopRequested>>,
         loc[t].reason \notin StopCommands,
         ~Cancelled => Attended(t, "idle", "service_stop")
  PROVE Rest'
<1>1. Goto(t, "idle") /\ Locals(t, NoLocals)  BY DEF Finish
<1>2. NoLocals.reason = "service_stop" /\ NoLocals.request = None
      /\ NoLocals.origin = "thread"
  BY DEF NoLocals
<1>3. Plain("idle", NoLocals.reason)
  BY <1>2 DEF Plain, StopCommands, StopLabels
<1>4. Placed("idle", NoLocals, opGen)
  BY <1>2 DEF Placed, Working, StartLabels, StopLabels, EntryLabels, EarlyLabels
<1>. QED  BY <1>1, <1>2, <1>3, <1>4, RestMove

-----------------------------------------------------------------------------
(* The steps of a start.                                                     *)

LEMMA RestChecks ==
  ASSUME TypeInv, Rest, NEW t \in Threads,
         \/ StartCheck(t) \/ CleanedCheck(t) \/ AdapterReady(t) \/ WaitRoutes(t)
         \/ RouteReady(t) \/ DnsReady(t) \/ FinalCheck(t)
  PROVE Rest'
<1>1. UNCHANGED <<opGen, stopRequested>>
  BY DEF StartCheck, CleanedCheck, AdapterReady, WaitRoutes, RouteReady, DnsReady,
     FinalCheck, control
<1>2. pc[t] \in StartLabels \ EntryLabels
  BY DEF StartCheck, CleanedCheck, AdapterReady, WaitRoutes, RouteReady, DnsReady,
     FinalCheck, Step, At, StartLabels, EntryLabels
<1>3. (\E l \in {"replace", "mark", "alive_check", "route_ready", "dns_ready",
                 "final_alive", "publish"} : IfCurrent(t, l))
      \/ \E b : BringUpError(t, b)
  BY Zenon DEF StartCheck, CleanedCheck, AdapterReady, WaitRoutes, RouteReady,
     DnsReady, FinalCheck
<1>4. {"replace", "mark", "alive_check", "route_ready", "dns_ready", "final_alive",
       "publish"} \subseteq StartLabels \ EntryLabels
  BY DEF StartLabels, EntryLabels
<1>. QED  BY <1>1, <1>2, <1>3, <1>4, WorkIfCurrent, WorkBringUpError

LEMMA RestErrors ==
  ASSUME TypeInv, Rest, NEW t \in Threads,
         \/ JobError(t) \/ WaitAdapter(t)
         \/ AdapterError(t, "adapter_timeout") \/ AdapterError(t, "adapter_cancelled")
         \/ AliveCheck(t, "alive_check", "wait_routes", "singbox")
         \/ AliveCheck(t, "final_alive", "final_check", "xray")
  PROVE Rest'
<1>1. UNCHANGED <<opGen, stopRequested>>
  BY DEF JobError, WaitAdapter, AdapterError, AliveCheck, control
<1>2. pc[t] \in StartLabels \ EntryLabels
  BY DEF JobError, WaitAdapter, AdapterError, AliveCheck, Step, At, StartLabels, EntryLabels
<1>3. \/ \E b : BringUpError(t, b)
      \/ \E l \in {"wait_routes", "final_check", "adapter_ready", "adapter_timeout",
                   "adapter_cancelled"} : Goto(t, l) /\ UNCHANGED loc
  BY Zenon DEF JobError, WaitAdapter, AdapterError, AliveCheck, FatalLog
<1>4. {"wait_routes", "final_check", "adapter_ready", "adapter_timeout",
       "adapter_cancelled"} \subseteq StartLabels \ EntryLabels
  BY DEF StartLabels, EntryLabels
<1>. QED  BY <1>1, <1>2, <1>3, <1>4, WorkGoto, WorkBringUpError

\* a step of a start that writes its process or its engine
LEMMA WorkLocals ==
  ASSUME TypeInv, Rest, NEW t \in Threads, NEW l \in StartLabels \ EntryLabels, NEW r,
         Goto(t, l), Locals(t, r), UNCHANGED <<opGen, stopRequested>>,
         pc[t] \in StartLabels \ EntryLabels, Kin(t, r), r.reason = loc[t].reason
  PROVE Rest'
<1>1. loc[t].reason \notin StopCommands
  BY NoStopCommand DEF StartLabels, StopLabels
<1>. QED  BY <1>1, WorkMove DEF Working

LEMMA RestEngines ==
  ASSUME TypeInv, Rest, NEW t \in Threads,
         WriteMarker(t) \/ CreateJob(t) \/ Spawn(t) \/ Assign(t) \/ Store(t)
  PROVE Rest'
<1>1. UNCHANGED <<opGen, stopRequested>>
  BY DEF WriteMarker, CreateJob, Spawn, Assign, Store, control
<1>2. pc[t] \in StartLabels \ EntryLabels
  BY DEF WriteMarker, CreateJob, Spawn, Assign, Store, Step, At, StartLabels, EntryLabels
<1>3. {"create_job", "spawn", "assign", "store", "failed", "wait_adapter"}
        \subseteq StartLabels \ EntryLabels
  BY DEF StartLabels, EntryLabels
<1>4. CASE WriteMarker(t)
  <2>1. Goto(t, "create_job") /\ UNCHANGED loc  BY <1>4 DEF WriteMarker, Step
  <2>. QED  BY <1>1, <1>2, <1>3, <2>1, WorkGoto
<1>5. CASE CreateJob(t)
  <2>. DEFINE x == FirstEngine(loc[t].request.config)
  <2>1. \/ Goto(t, "spawn") /\ Locals(t, [loc[t] EXCEPT !.engine = x])
        \/ BringUpError(t, FALSE)
    BY <1>5 DEF CreateJob
  <2>. HIDE DEF x
  <2>2. Kin(t, [loc[t] EXCEPT !.engine = x])
        /\ [loc[t] EXCEPT !.engine = x].reason = loc[t].reason
    BY KinLocals, KeptReason
  <2>. QED  BY <1>1, <1>2, <1>3, <2>1, <2>2, WorkLocals, WorkBringUpError
<1>6. CASE Spawn(t)
  <2>. DEFINE p == Fresh(Pids, UsedPids)
  <2>1. \/ Goto(t, "assign") /\ Locals(t, [loc[t] EXCEPT !.pid = p])
        \/ BringUpError(t, FALSE)
    BY <1>6 DEF Spawn
  <2>. HIDE DEF p
  <2>2. Kin(t, [loc[t] EXCEPT !.pid = p])
        /\ [loc[t] EXCEPT !.pid = p].reason = loc[t].reason
    BY KinLocals, KeptReason
  <2>. QED  BY <1>1, <1>2, <1>3, <2>1, <2>2, WorkLocals, WorkBringUpError
<1>7. CASE Assign(t)
  <2>1. \/ Goto(t, "store") /\ UNCHANGED loc
        \/ Goto(t, "failed") /\ Locals(t, [loc[t] EXCEPT !.pid = None])
    BY <1>7 DEF Assign
  <2>2. Kin(t, [loc[t] EXCEPT !.pid = None])
        /\ [loc[t] EXCEPT !.pid = None].reason = loc[t].reason
    BY KinLocals, KeptReason
  <2>. QED  BY <1>1, <1>2, <1>3, <2>1, <2>2, WorkLocals, WorkGoto
<1>8. CASE Store(t)
  <2>1. /\ Goto(t, "failed") \/ Goto(t, "spawn") \/ Goto(t, "wait_adapter")
        /\ Locals(t, [loc[t] EXCEPT !.pid = None, !.engine = "singbox"])
    BY <1>8 DEF Store
  <2>2. Kin(t, [loc[t] EXCEPT !.pid = None, !.engine = "singbox"])
        /\ [loc[t] EXCEPT !.pid = None, !.engine = "singbox"].reason = loc[t].reason
    BY KinLocals, KeptReason
  <2>. QED  BY <1>1, <1>2, <1>3, <2>1, <2>2, WorkLocals
<1>. QED  BY <1>4, <1>5, <1>6, <1>7, <1>8

\* the ends of a start: only a start that is no longer current ends in silence,
\* and then a stop is on its way
LEMMA RestEnds ==
  ASSUME TypeInv, Rest, NEW t \in Threads,
         \/ Replace(t) \/ Publish(t) \/ StartFailed(t) \/ FailedCheck(t) \/ SetFailed(t)
  PROVE Rest'
<1>1. UNCHANGED <<opGen, stopRequested>>
  BY DEF Replace, Publish, StartFailed, FailedCheck, SetFailed, control
<1>2. pc[t] \in StartLabels \ EntryLabels
  BY DEF Replace, Publish, StartFailed, FailedCheck, SetFailed, At, StartLabels, EntryLabels
<1>3. loc[t].reason \notin StopCommands
  BY <1>2, NoStopCommand DEF StartLabels, StopLabels
<1>4. ~Cancelled => Current(t) /\ opGen # 0
  <2>1. pc[t] \notin EarlyLabels
    BY <1>2 DEF StartLabels, EntryLabels, EarlyLabels
  <2>. QED  BY <1>2, <2>1 DEF Rest, Tended, Placed, Working, Current
<1>5. CASE Replace(t)
  <2>1. StopOwned(t, "replace_tunnel")  BY <1>5 DEF Replace
  <2>. QED  BY <1>1, <1>2, <2>1, WorkStopOwned DEF StartReasons
<1>6. CASE Publish(t)
  <2>1. runtime'.state = "Connected"
    BY <1>6, StartWrites DEF Publish, TypeInv, TypeOK
  <2>2. Finish(t)  BY <1>6 DEF Publish
  <2>. QED  BY <1>1, <1>3, <1>4, <2>1, <2>2, RestFinish DEF Attended
<1>7. CASE StartFailed(t)
  <2>1. \/ StopOwned(t, "failed_cleanup")
        \/ Finish(t) /\ ~Current(t)
    BY <1>7 DEF StartFailed
  <2>. QED  BY <1>1, <1>2, <1>3, <1>4, <2>1, WorkStopOwned, RestFinish DEF StartReasons
<1>8. CASE FailedCheck(t)
  <2>1. \/ Goto(t, "set_failed") /\ UNCHANGED loc
        \/ Finish(t) /\ ~Current(t)
    BY <1>8 DEF FailedCheck
  <2>2. "set_failed" \in StartLabels \ EntryLabels  BY DEF StartLabels, EntryLabels
  <2>. QED  BY <1>1, <1>2, <1>3, <1>4, <2>1, <2>2, WorkGoto, RestFinish
<1>9. CASE SetFailed(t)
  <2>1. Failed(runtime).state = "Failed"
    <3>1. runtime \in Runtimes  BY DEF TypeInv, TypeOK
    <3>. QED  BY <3>1, Zenon DEF Failed, Runtimes
  <2>2. Finish(t) /\ runtime'.state = "Failed"
    BY <1>9, <2>1 DEF SetFailed, MarkFailed
  <2>. QED  BY <1>1, <1>3, <2>2, RestFinish DEF Attended
<1>. QED  BY <1>5, <1>6, <1>7, <1>8, <1>9

\* before a start has published its request
LEMMA RestEntry ==
  ASSUME TypeInv, Rest, NEW t \in Threads, WarmMark(t) \/ BusyCheck(t)
  PROVE Rest'
<1>1. UNCHANGED <<opGen, stopRequested, runtime, loc>>
  BY DEF WarmMark, BusyCheck, memory, control
<1>2. PICK l \in {"repair_enter", "snapshot", "new_generation"} :
        Goto(t, l) /\ (l = "new_generation" => pc[t] = "busy_check")
  BY DEF WarmMark, BusyCheck, Step, At
<1>3. pc[t] \in {"warm_mark", "busy_check"}
  BY DEF WarmMark, BusyCheck, Step, At
<1>4. loc[t].reason \notin StopCommands
  BY <1>3, NoStopCommand DEF StopLabels
<1>5. Locals(t, loc[t])  BY <1>1, SameLocals DEF Actors
<1>6. Plain(l, loc[t].reason)  BY <1>2, <1>4 DEF Plain, StopLabels
<1>7. ~Working(pc[t], loc[t].reason) /\ ~Working(l, loc[t].reason)
  BY <1>2, <1>3 DEF Working, StartLabels, EntryLabels, StopLabels
<1>8. ~Cancelled => Placed(l, loc[t], opGen)
  <2>1. ~Cancelled => Placed(pc[t], loc[t], opGen)  BY DEF Rest, Tended
  <2>. QED  BY <1>2, <1>3, <1>7, <2>1 DEF Placed, EntryLabels, EarlyLabels
<1>9. Attended(t, l, loc[t].reason)  BY <1>1, <1>7 DEF Attended
<1>. QED  BY <1>1, <1>2, <1>4, <1>5, <1>6, <1>8, <1>9, RestMove DEF Starting

LEMMA RestQueue ==
  ASSUME TypeInv, Rest, NEW t \in Threads, Queue(t)
  PROVE Rest'
<1>. DEFINE r == [loc[t] EXCEPT !.origin = "thread"]
<1>1. /\ r.gen = loc[t].gen /\ r.request = loc[t].request
      /\ r.reason = loc[t].reason /\ r.origin = "thread"
  <2>1. loc[t] \in LocalStates  BY OwnLocals DEF Actors
  <2>. QED  BY <2>1, Zenon DEF LocalStates
<1>2. Goto(t, "start_check") /\ Locals(t, r) /\ pc[t] = "queue"
      /\ UNCHANGED <<opGen, stopRequested>>
  BY DEF Queue, Step, At, control
<1>. HIDE DEF r
<1>3. loc[t].reason \notin StopCommands
  BY <1>2, NoStopCommand DEF StopLabels
<1>4. Plain("start_check", r.reason)  BY <1>1, <1>3 DEF Plain, StopLabels
<1>5. ASSUME ~Cancelled
      PROVE /\ Placed("start_check", r, opGen)
            /\ r.request # None /\ r.origin # "event" => Starting(t)
            /\ Attended(t, "start_check", r.reason)
  <2>1. Placed("queue", loc[t], opGen)  BY <1>2, <1>5 DEF Rest, Tended
  <2>2. opGen # 0  BY <2>1 DEF Placed, EarlyLabels
  <2>3. Working("start_check", r.reason)
    BY DEF Working, StartLabels, EntryLabels
  <2>. QED
    BY <1>1, <2>1, <2>2, <2>3 DEF Placed, Attended, Starting, EntryLabels
<1>. QED  BY <1>2, <1>3, <1>4, <1>5, RestMove

-----------------------------------------------------------------------------
(* The steps of a stop.                                                      *)

\* A step after which a stop is on its way needs no word about the status.
LEMMA CancelledMove ==
  ASSUME TypeInv, Rest, NEW t \in Threads, NEW l, NEW r, Goto(t, l), Locals(t, r),
         stopRequested => stopRequested', Ending(l, r.reason, stopRequested'),
         \/ stopRequested' \/ r.reason \in StopCommands
         \/ Cancelled /\ loc[t].reason \notin StopCommands
  PROVE Rest'
<1>1. pc'[t] = l /\ loc'[t] = r
      /\ \A u \in Threads \ {t} : pc'[u] = pc[u] /\ loc'[u] = loc[u]
  BY Moved DEF Actors
<1>2. pc'[Main] = pc[Main]  BY MainStays
<1>3. \A u \in Threads \ {t} : Ending(pc'[u], loc'[u].reason, stopRequested')
  BY <1>1 DEF Rest, StopsEnd, Ending
<1>4. StopsEnd'  BY <1>1, <1>2, <1>3 DEF Rest, StopsEnd
<1>5. Cancelled'  BY <1>1 DEF Cancelled
<1>. QED  BY <1>4, <1>5 DEF Rest

\* the thread that stops the runtime is a stop command or a start at work
LEMMA StopOrWork ==
  ASSUME TypeInv, Rest, NEW t \in Threads, pc[t] \in StopLabels
  PROVE loc[t].reason \in StopCommands \/ loc[t].reason \in StartReasons
<1>1. loc[t].reason \in StopReasons  BY OwnLocals, LocalFields DEF Actors
<1>2. loc[t].reason # "service_stop"  BY DEF Rest, StopsEnd, Ending
<1>. QED  BY <1>1, <1>2 DEF StopReasons, StopCommands, StartReasons

LEMMA RestStage ==
  ASSUME TypeInv, Rest, NEW t \in Threads, NEW l \in StopLabels, NEW r,
         Goto(t, l), Locals(t, r), UNCHANGED <<opGen, stopRequested>>,
         pc[t] \in StopLabels, Kin(t, r), r.reason = loc[t].reason
  PROVE Rest'
<1>1. CASE loc[t].reason \in StopCommands
  <2>1. Ending(l, r.reason, stopRequested')
    BY <1>1 DEF Ending, StopCommands
  <2>. QED  BY <1>1, <2>1, CancelledMove
<1>2. CASE loc[t].reason \in StartReasons
  <2>1. loc[t].reason \notin StopCommands
    BY <1>2 DEF StartReasons, StopCommands
  <2>. QED  BY <1>2, <2>1, WorkMove DEF Working
<1>. QED  BY <1>1, <1>2, StopOrWork

LEMMA RestLinger ==
  ASSUME TypeInv, Rest, NEW t \in Threads, Linger(t)
  PROVE Rest'
<1>. DEFINE l == AfterStop(loc[t].reason)
<1>1. pc[t] = "linger" /\ Goto(t, l) /\ UNCHANGED <<loc, opGen, stopRequested>>
  BY DEF Linger, Step, At, control
<1>2. Locals(t, loc[t])  BY <1>1, SameLocals DEF Actors
<1>3. pc[t] \in StopLabels  BY <1>1 DEF StopLabels
<1>4. CASE loc[t].reason \in StopCommands
  <2>1. Ending(l, loc[t].reason, stopRequested')
    BY <1>4 DEF Ending, StopCommands, AfterStop, StopLabels
  <2>. QED  BY <1>1, <1>2, <1>4, <2>1, CancelledMove
<1>5. CASE loc[t].reason \in StartReasons
  <2>1. l \in StartLabels \ EntryLabels
    BY <1>5 DEF StartReasons, AfterStop, StartLabels, EntryLabels
  <2>2. loc[t].reason \notin StopCommands
    BY <1>5 DEF StartReasons, StopCommands
  <2>. QED  BY <1>1, <1>2, <1>3, <1>5, <2>1, <2>2, KinLocals, WorkMove DEF Working
<1>. QED  BY <1>3, <1>4, <1>5, StopOrWork

\* a poll leaves the status as it is, or finds an engine lost
LEMMA RefreshSettles ==
  ASSUME TypeInv, RefreshRuntime
  PROVE runtime'.state = runtime.state \/ runtime'.state = "Failed"
<1>0. runtime \in Runtimes  BY DEF TypeInv, TypeOK
<1>1. Failed(runtime).state = "Failed"  BY <1>0, Zenon DEF Failed, Runtimes
<1>2. Refreshed(runtime).state = runtime.state  BY <1>0, RefreshedState
<1>. QED  BY <1>1, <1>2 DEF RefreshRuntime, MarkFailed

LEMMA RestSnapshot ==
  ASSUME TypeInv, Rest, NEW t \in Threads, Snapshot(t)
  PROVE Rest'
<1>1. UNCHANGED <<opGen, stopRequested>> /\ pc[t] = "snapshot"
  BY DEF Snapshot, At, control
<1>2. CASE loc[t].reason = "stop_tunnel"
  <2>. DEFINE r == [loc[t] EXCEPT !.origin = "thread"]
  <2>1. Goto(t, "stop_delay") /\ Locals(t, r)  BY <1>2 DEF Snapshot
  <2>2. r.reason = loc[t].reason  BY KeptReason
  <2>. HIDE DEF r
  <2>3. Ending("stop_delay", r.reason, stopRequested') /\ r.reason \in StopCommands
    BY <1>2, <2>2 DEF Ending, StopLabels, StopCommands
  <2>. QED  BY <1>1, <2>1, <2>3, CancelledMove
<1>3. CASE loc[t].reason # "stop_tunnel"
  <2>1. Finish(t)  BY <1>3 DEF Snapshot
  <2>2. CASE loc[t].reason = "prepare_update"
    <3>1. stopRequested'
      BY <1>1, <2>2 DEF Rest, StopsEnd, Ending, StopLabels
    <3>2. Ending("idle", NoLocals.reason, stopRequested')
      BY DEF NoLocals, Ending, StopLabels
    <3>. QED  BY <2>1, <3>1, <3>2, CancelledMove DEF Finish
  <2>3. CASE loc[t].reason # "prepare_update"
    <3>1. ~Working(pc[t], loc[t].reason)
      BY <1>1 DEF Working, StartLabels, StopLabels
    <3>2. Attended(t, "idle", "service_stop")
      BY <3>1, RefreshSettles DEF Snapshot, Attended
    <3>3. loc[t].reason \notin StopCommands  BY <1>3, <2>3 DEF StopCommands
    <3>. QED  BY <1>1, <2>1, <3>2, <3>3, RestFinish
  <2>. QED  BY <2>2, <2>3
<1>. QED  BY <1>2, <1>3

LEMMA RestStopSteps ==
  ASSUME TypeInv, Rest, NEW t \in Threads, StopSteps(t)
  PROVE Rest'
<1>1. CASE Take(t)
  <2>. DEFINE r == [loc[t] EXCEPT !.held = SlotPids, !.heldJob = job]
  <2>1. /\ pc[t] = "take" /\ Goto(t, "kill") /\ Locals(t, r)
        /\ UNCHANGED <<opGen, stopRequested>>
    BY <1>1 DEF Take, Step, At, control
  <2>2. Kin(t, r) /\ r.reason = loc[t].reason  BY KinLocals, KeptReasonToo
  <2>. HIDE DEF r
  <2>. QED  BY <2>1, <2>2, RestStage DEF StopLabels
<1>2. CASE Kill(t)
  <2>. DEFINE r == [loc[t] EXCEPT !.held = {}, !.heldJob = None]
  <2>1. /\ pc[t] = "kill" /\ Goto(t, "settle") /\ Locals(t, r)
        /\ UNCHANGED <<opGen, stopRequested>>
    BY <1>2 DEF Kill, Step, At, control
  <2>2. Kin(t, r) /\ r.reason = loc[t].reason  BY KinLocals, KeptReasonToo
  <2>. HIDE DEF r
  <2>. QED  BY <2>1, <2>2, RestStage DEF StopLabels
<1>3. CASE Settle(t) \/ ClearMarker(t)
  <2>1. PICK l \in {"unmark", "linger"} :
          /\ pc[t] \in {"settle", "unmark"} /\ Goto(t, l)
          /\ UNCHANGED <<loc, opGen, stopRequested>>
    BY <1>3 DEF Settle, ClearMarker, Step, At, control
  <2>2. Locals(t, loc[t])  BY <2>1, SameLocals DEF Actors
  <2>. QED  BY <2>1, <2>2, KinLocals, RestStage DEF StopLabels
<1>4. CASE StopDelay(t)
  <2>1. Goto(t, "idle") /\ Locals(t, NoLocals) /\ stopRequested' = TRUE
    BY <1>4 DEF StopDelay, Finish
  <2>2. Ending("idle", NoLocals.reason, stopRequested')
    BY DEF NoLocals, Ending, StopLabels
  <2>. QED  BY <2>1, <2>2, CancelledMove
<1>5. CASE Prepared(t)
  <2>1. Goto(t, "snapshot") /\ UNCHANGED loc /\ stopRequested' = TRUE
    BY <1>5 DEF Prepared, Step
  <2>2. Locals(t, loc[t])  BY <2>1, SameLocals DEF Actors
  <2>3. Ending("snapshot", loc[t].reason, stopRequested')
    BY <2>1 DEF Ending, StopLabels
  <2>. QED  BY <2>1, <2>2, <2>3, CancelledMove
<1>. QED  BY <1>1, <1>2, <1>3, <1>4, <1>5, RestLinger, RestSnapshot DEF StopSteps

-----------------------------------------------------------------------------
(* The steps of a repair.                                                    *)

\* a thread outside every start and stop moves on
LEMMA RestAside ==
  ASSUME TypeInv, Rest, NEW t \in Threads, NEW l, NEW r, Goto(t, l), Locals(t, r),
         UNCHANGED <<opGen, stopRequested>>,
         pc[t] \notin StartLabels \cup StopLabels \cup {"snapshot", "stop_delay", "prepared"},
         l \notin StartLabels \cup StopLabels,
         r.reason \notin StopCommands,
         r.request \in {loc[t].request, None}, r.origin = loc[t].origin,
         l = "rotate" => loc[t].origin = "event",
         ~Cancelled /\ opGen = 0 => l \in EarlyLabels,
         ~Cancelled => \/ runtime'.state = runtime.state
                       \/ opGen # 0 /\ runtime'.state = "Connected"
  PROVE Rest'
<1>1. loc[t].reason \notin StopCommands  BY NoStopCommand
<1>2. Plain(l, r.reason)  BY DEF Plain
<1>3. ~Working(pc[t], loc[t].reason) /\ ~Working(l, r.reason)
      /\ l \notin EntryLabels
  BY DEF Working, StartLabels, EntryLabels
<1>4. ASSUME ~Cancelled
      PROVE /\ Placed(l, r, opGen)
            /\ r.request # None /\ r.origin # "event" => Starting(t)
            /\ Attended(t, l, r.reason)
  <2>1. Placed(pc[t], loc[t], opGen)  BY <1>4 DEF Rest, Tended
  <2>2. Placed(l, r, opGen)
    BY <1>3, <1>4, <2>1 DEF Placed, EntryLabels
  <2>3. r.request # None /\ r.origin # "event" => Starting(t)
    BY DEF Starting
  <2>. QED  BY <1>3, <1>4, <2>2, <2>3 DEF Attended
<1>. QED  BY <1>1, <1>2, <1>4, RestMove

RepairLabels == {"repair_enter", "repair_probe", "repair_adapter", "repair_ready",
                 "repair_proxy", "repair_publish"}

\* past the entry of a repair a generation has begun
LEMMA GenerationBegun ==
  ASSUME Rest, NEW t \in Threads, ~Cancelled,
         \/ runtime.state = "Connected"
         \/ pc[t] \in (RepairLabels \ {"repair_enter"}) \cup {"rotate"}
  PROVE opGen # 0
  BY DEF Rest, Tended, Placed, RepairLabels, EarlyLabels

LEMMA RestRepairError ==
  ASSUME TypeInv, Rest, NEW t \in Threads, RepairError(t),
         UNCHANGED <<opGen, stopRequested>>, pc[t] \in RepairLabels,
         runtime'.state = runtime.state, ~Cancelled => opGen # 0
  PROVE Rest'
<1>1. loc[t].reason \notin StopCommands
  BY NoStopCommand DEF RepairLabels, StopLabels
<1>2. CASE loc[t].origin = "event"
  <2>1. Goto(t, "rotate") /\ UNCHANGED loc  BY <1>2 DEF RepairError
  <2>2. Locals(t, loc[t])  BY <2>1, SameLocals DEF Actors
  <2>3. /\ pc[t] \notin StartLabels \cup StopLabels
                          \cup {"snapshot", "stop_delay", "prepared"}
        /\ "rotate" \notin StartLabels \cup StopLabels
    BY DEF RepairLabels, StartLabels, StopLabels
  <2>. QED  BY <1>1, <1>2, <2>1, <2>2, <2>3, RestAside
<1>3. CASE loc[t].origin # "event"
  <2>1. ~Working(pc[t], loc[t].reason)
    BY DEF Working, RepairLabels, StartLabels, StopLabels
  <2>. QED  BY <1>1, <1>3, <2>1, RestFinish DEF RepairError, Attended
<1>. QED  BY <1>2, <1>3

LEMMA RestRepairGoto ==
  ASSUME TypeInv, Rest, NEW t \in Threads, NEW l \in RepairLabels \cup {"stuck", "snapshot"},
         Goto(t, l), UNCHANGED <<loc, opGen, stopRequested>>, pc[t] \in RepairLabels,
         ~Cancelled /\ opGen = 0 => l \in EarlyLabels,
         ~Cancelled => \/ runtime'.state = runtime.state
                       \/ opGen # 0 /\ runtime'.state = "Connected"
  PROVE Rest'
<1>1. loc[t].reason \notin StopCommands
  BY NoStopCommand DEF RepairLabels, StopLabels
<1>2. Locals(t, loc[t])  BY SameLocals DEF Actors
<1>3. /\ pc[t] \notin StartLabels \cup StopLabels \cup {"snapshot", "stop_delay", "prepared"}
      /\ l \notin StartLabels \cup StopLabels \cup {"rotate"}
  BY DEF RepairLabels, StartLabels, StopLabels
<1>. QED  BY <1>1, <1>2, <1>3, RestAside

LEMMA RestRepairEnter ==
  ASSUME TypeInv, Rest, NEW t \in Threads, RepairEnter(t)
  PROVE Rest'
<1>. DEFINE r == [loc[t] EXCEPT !.gen = runtime.gen, !.op = runtime.op]
<1>0. r.reason = loc[t].reason /\ r.request = loc[t].request /\ r.origin = loc[t].origin
  <2>1. loc[t] \in LocalStates  BY OwnLocals DEF Actors
  <2>. QED  BY <2>1, Zenon DEF LocalStates
<1>1. pc[t] = "repair_enter" /\ UNCHANGED <<opGen, stopRequested>>
  BY DEF RepairEnter, At
<1>2. pc[t] \in RepairLabels  BY <1>1 DEF RepairLabels
<1>3. runtime'.state = runtime.state
  <2>1. Repairing(runtime).state = runtime.state
    <3>1. runtime \in Runtimes  BY DEF TypeInv, TypeOK
    <3>. QED  BY <3>1, Zenon DEF Repairing, Runtimes
  <2>. QED  BY <2>1 DEF RepairEnter
<1>4. \/ Goto(t, "stuck") /\ UNCHANGED loc
      \/ runtime.state = "Connected" /\ RepairError(t)
      \/ runtime.state = "Connected" /\ Goto(t, "repair_probe") /\ Locals(t, r)
  BY DEF RepairEnter, SelfDeadlock
<1>. HIDE DEF r
<1>5. CASE Goto(t, "stuck") /\ UNCHANGED loc
  BY <1>1, <1>2, <1>3, <1>5, RestRepairGoto DEF EarlyLabels
<1>6. CASE runtime.state = "Connected" /\ RepairError(t)
  BY <1>1, <1>2, <1>3, <1>6, GenerationBegun, RestRepairError
<1>7. CASE runtime.state = "Connected" /\ Goto(t, "repair_probe") /\ Locals(t, r)
  <2>1. /\ pc[t] \notin StartLabels \cup StopLabels
                          \cup {"snapshot", "stop_delay", "prepared"}
        /\ "repair_probe" \notin StartLabels \cup StopLabels
    BY <1>1 DEF StartLabels, StopLabels
  <2>2. loc[t].reason \notin StopCommands  BY <2>1, NoStopCommand
  <2>3. ~Cancelled => opGen # 0  BY <1>7, GenerationBegun
  <2>. QED  BY <1>0, <1>1, <1>3, <1>7, <2>1, <2>2, <2>3, RestAside
<1>. QED  BY <1>4, <1>5, <1>6, <1>7

LEMMA RestRotate ==
  ASSUME TypeInv, Rest, NEW t \in Threads, Rotate(t)
  PROVE Rest'
<1>1. pc[t] = "rotate" /\ UNCHANGED <<opGen, stopRequested>>
  BY DEF Rotate, At, control
<1>2. loc[t].reason \notin StopCommands
  BY <1>1, NoStopCommand DEF StopLabels
<1>3. CASE Finish(t) /\ UNCHANGED runtime
  <2>1. ~Working(pc[t], loc[t].reason)
    BY <1>1 DEF Working, StartLabels, StopLabels
  <2>. QED  BY <1>1, <1>2, <1>3, <2>1, RestFinish DEF Attended
<1>4. CASE ~(Finish(t) /\ UNCHANGED runtime)
  <2>. DEFINE r == [NoLocals EXCEPT !.gen = opGen, !.request = runtime.request,
                                    !.origin = "event"]
  <2>1. r.gen = opGen /\ r.origin = "event" /\ r.reason = "service_stop"
    BY Zenon DEF NoLocals
  <2>2. Goto(t, "start_check") /\ Locals(t, r)
    BY <1>4 DEF Rotate
  <2>. HIDE DEF r
  <2>3. Plain("start_check", r.reason)
    BY <2>1 DEF Plain, StopCommands, StopLabels
  <2>4. ASSUME ~Cancelled
        PROVE Placed("start_check", r, opGen) /\ Attended(t, "start_check", r.reason)
    <3>1. opGen # 0  BY <1>1, <2>4, GenerationBegun
    <3>2. "event" \in Inputs  BY <1>1, <2>4 DEF Rest, Tended, Placed
    <3>3. Working("start_check", r.reason)  BY DEF Working, StartLabels, EntryLabels
    <3>. QED  BY <2>1, <3>1, <3>2, <3>3 DEF Placed, Attended, EntryLabels
  <2>. QED  BY <1>1, <1>2, <2>1, <2>2, <2>3, <2>4, RestMove
<1>. QED  BY <1>3, <1>4

LEMMA RestRepairSteps ==
  ASSUME TypeInv, Rest, NEW t \in Threads, RepairSteps(t)
  PROVE Rest'
<1>0. runtime \in Runtimes  BY DEF TypeInv, TypeOK
<1>1. CASE RepairProbe(t) \/ RepairAdapter(t) \/ RepairReady(t) \/ RepairProxy(t)
  <2>1. UNCHANGED <<opGen, stopRequested>> /\ pc[t] \in RepairLabels \ {"repair_enter"}
    BY <1>1 DEF RepairProbe, RepairAdapter, RepairReady, RepairProxy, At, control, RepairLabels
  <2>2. runtime'.state = runtime.state
    <3>1. /\ [runtime EXCEPT !.adapter = TRUE].state = runtime.state
          /\ [runtime EXCEPT !.route = TRUE, !.dns = TRUE].state = runtime.state
      BY <1>0, Zenon DEF Runtimes
    <3>2. CASE RepairProxy(t)
      <4>. DEFINE good == [runtime EXCEPT !.proxy = IF @ = "degraded" THEN @ ELSE "ready"]
                  bad == [runtime EXCEPT !.proxy = "degraded", !.degraded = @ \cup {"proxy"}]
      <4>1. good.state = runtime.state /\ bad.state = runtime.state
        BY <1>0, Zenon DEF Runtimes
      <4>2. runtime' \in {runtime, good, bad}
        BY <3>2 DEF RepairProxy
      <4>. HIDE DEF good, bad
      <4>. QED  BY <4>1, <4>2
    <3>3. CASE RepairProbe(t)
      BY <3>3 DEF RepairProbe, memory
    <3>4. CASE RepairAdapter(t) \/ RepairReady(t)
      BY <3>1, <3>4, Zenon DEF RepairAdapter, RepairReady
    <3>. QED  BY <1>1, <3>2, <3>3, <3>4
  <2>3. \/ RepairError(t)
        \/ \E l \in {"repair_adapter", "repair_ready", "repair_proxy", "repair_publish"} :
             Goto(t, l) /\ UNCHANGED loc
    BY <1>1, Zenon DEF RepairProbe, RepairAdapter, RepairReady, RepairProxy, RepairWait
  <2>4. ~Cancelled => opGen # 0  BY <2>1, GenerationBegun
  <2>. QED  BY <2>1, <2>2, <2>3, <2>4, RestRepairError, RestRepairGoto DEF RepairLabels
<1>2. CASE RepairPublish(t)
  <2>1. UNCHANGED <<opGen, stopRequested, loc>> /\ pc[t] = "repair_publish"
    BY <1>2 DEF RepairPublish, At
  <2>2. runtime'.state \in {runtime.state, "Connected"}
    <3>1. [runtime EXCEPT !.state = "Connected"].state = "Connected"
      BY <1>0, Zenon DEF Runtimes
    <3>. QED  BY <1>2, <3>1 DEF RepairPublish
  <2>3. Goto(t, "stuck") \/ Goto(t, "snapshot")
    BY <1>2 DEF RepairPublish, SelfDeadlock
  <2>4. ~Cancelled => opGen # 0
    BY <2>1, GenerationBegun DEF RepairLabels
  <2>. QED  BY <2>1, <2>2, <2>3, <2>4, RestRepairGoto DEF RepairLabels
<1>. QED  BY <1>1, <1>2, RestRepairEnter, RestRotate DEF RepairSteps

-----------------------------------------------------------------------------
(* Commands.                                                                 *)

LEMMA EntryStarts ==
  ASSUME TypeInv, Tended, NEW t \in Threads, pc[t] \in EntryLabels
  PROVE Starting(t)
<1>1. loc[t].request \in Requests
  BY StartRequest DEF EntryLabels, StartLabels, Actors
<1>2. loc[t].origin # "event"  BY DEF Tended, Placed
<1>. QED  BY <1>1, <1>2, RequestsAssumption DEF Starting

\* the one start about to take a new generation meets no other at work
LEMMA NobodyWorks ==
  ASSUME TypeInv, Tended, NEW t \in Threads, pc[t] = "new_generation",
         NEW u \in Threads, Working(pc[u], loc[u].reason) \/ pc[u] = "queue"
  PROVE FALSE
<1>1. u # t
  BY DEF Working, StartLabels, EntryLabels, StopLabels
<1>2. loc[u].request # None
  <2>1. NeedsRequest(pc[u], loc[u].reason)
    BY DEF Working, NeedsRequest, StartLabels
  <2>. QED  BY <2>1, OwnRequest, RequestsAssumption DEF Actors
<1>3. Starting(t)  BY EntryStarts DEF EntryLabels
<1>4. loc[u].origin = "event"
  BY <1>1, <1>2, <1>3 DEF Tended, Starting
<1>5. "event" \in Inputs  BY <1>4 DEF Tended, Placed
<1>6. opGen = 0  BY <1>5 DEF Tended, Placed, EntryLabels
<1>7. pc[u] \in EarlyLabels  BY <1>6 DEF Tended, Placed
<1>. QED
  BY <1>7 DEF Working, EarlyLabels, StartLabels, EntryLabels, StopLabels

LEMMA RestNewGeneration ==
  ASSUME TypeInv, Rest, NEW t \in Threads, NewGeneration(t)
  PROVE Rest'
<1>. DEFINE r == [loc[t] EXCEPT !.gen = opGen + 1]
<1>1. /\ r.gen = opGen + 1 /\ r.request = loc[t].request
      /\ r.reason = loc[t].reason /\ r.origin = loc[t].origin
  <2>1. loc[t] \in LocalStates  BY OwnLocals DEF Actors
  <2>. QED  BY <2>1, Zenon DEF LocalStates
<1>2. /\ pc[t] = "new_generation" /\ Goto(t, "queue") /\ Locals(t, r)
      /\ opGen' = opGen + 1 /\ UNCHANGED <<stopRequested, runtime>>
  BY DEF NewGeneration, Step, At, memory
<1>. HIDE DEF r
<1>3. loc[t].reason \notin StopCommands
  BY <1>2, NoStopCommand DEF StopLabels
<1>4. Ending("queue", r.reason, stopRequested')
  BY <1>1, <1>3 DEF Ending, StopCommands, StopLabels
<1>5. CASE Cancelled
  BY <1>2, <1>3, <1>4, <1>5, CancelledMove
<1>6. CASE ~Cancelled
  <2>1. Tended  BY <1>6 DEF Rest
  <2>2. pc'[t] = "queue" /\ loc'[t] = r
        /\ \A u \in Threads \ {t} : pc'[u] = pc[u] /\ loc'[u] = loc[u]
    BY <1>2, Moved DEF Actors
  <2>3. pc'[Main] = pc[Main]  BY <1>2, MainStays
  <2>4. opGen' # 0  BY <1>2 DEF TypeInv, TypeOK
  <2>5. \A u \in Threads : ~Working(pc[u], loc[u].reason) /\ pc[u] # "queue"
    BY <1>2, <2>1, NobodyWorks
  <2>6. Placed(pc'[t], loc'[t], opGen')
    <3>1. Placed("new_generation", loc[t], opGen)  BY <1>2, <2>1 DEF Tended
    <3>. QED  BY <1>1, <1>2, <2>2, <2>4, <3>1 DEF Placed, EntryLabels
  <2>7. ASSUME NEW u \in Threads \ {t} PROVE Placed(pc'[u], loc'[u], opGen')
    <3>1. Placed(pc[u], loc[u], opGen)  BY <2>1 DEF Tended
    <3>2. pc[u] \notin EntryLabels
      BY <1>2, <2>1, EntryStarts DEF Tended, EntryLabels
    <3>. QED  BY <2>2, <2>4, <2>5, <3>1, <3>2 DEF Placed
  <2>8. \A u \in Threads : Starting(u)' => Starting(u)
    BY <1>1, <2>2 DEF Starting
  <2>9. runtime'.state \notin Transitional  BY <1>2, <2>1, <2>5 DEF Tended
  <2>10. StopsEnd'  BY <1>2, <1>4, <2>2, <2>3 DEF Rest, StopsEnd
  <2>. QED
    BY <2>1, <2>4, <2>6, <2>7, <2>8, <2>9, <2>10 DEF Rest, Tended
<1>. QED  BY <1>5, <1>6

LEMMA RestStopCommand ==
  ASSUME TypeInv, Rest, NEW t \in Threads, StopTunnel(t) \/ PrepareForUpdate(t)
  PROVE Rest'
<1>1. ASSUME NEW reason
      PROVE [NoLocals EXCEPT !.reason = reason, !.origin = "command"].reason = reason
  BY Zenon DEF NoLocals
<1>2. PICK r : /\ Goto(t, "take") /\ Locals(t, r) /\ r.reason \in StopCommands
               /\ UNCHANGED stopRequested
  BY <1>1 DEF StopTunnel, PrepareForUpdate, StopCommands
<1>3. Ending("take", r.reason, stopRequested')
  BY <1>2 DEF Ending, StopLabels, StopCommands
<1>. QED  BY <1>2, <1>3, CancelledMove

\* a command that starts nothing and stops nothing
LEMMA RestCommand ==
  ASSUME TypeInv, Rest, NEW t \in Threads, NEW l \in {"snapshot", "repair_enter"}, NEW r,
         pc[t] = "idle", Goto(t, l), Locals(t, r), UNCHANGED <<opGen, stopRequested>>,
         r.request = None, r.reason = "service_stop",
         r.origin = "event" => "event" \in Inputs, runtime'.state = runtime.state
  PROVE Rest'
<1>1. loc[t].reason \notin StopCommands  BY NoStopCommand DEF StopLabels
<1>2. Plain(l, r.reason)  BY DEF Plain, StopCommands, StopLabels
<1>3. ~Working("idle", loc[t].reason) /\ ~Working(l, r.reason)
  BY DEF Working, StartLabels, StopLabels
<1>4. Placed(l, r, opGen)  BY <1>3 DEF Placed, EntryLabels, EarlyLabels
<1>5. Attended(t, l, r.reason)  BY <1>3 DEF Attended
<1>. QED  BY <1>1, <1>2, <1>4, <1>5, RestMove

LEMMA RestReport ==
  ASSUME TypeInv, Rest, NEW t \in Threads, NEW op, NEW ok,
         ReportProxyCompatibility(t, op, ok) \/ RepairRuntime(t, op)
  PROVE Rest'
<1>0. runtime \in Runtimes  BY DEF TypeInv, TypeOK
<1>1. ASSUME NEW x
      PROVE /\ [NoLocals EXCEPT !.origin = "command"].request = None
            /\ [NoLocals EXCEPT !.origin = "command"].reason = "service_stop"
            /\ [NoLocals EXCEPT !.origin = "command"].origin = "command"
            /\ [NoLocals EXCEPT !.op = x, !.origin = "command"].request = None
            /\ [NoLocals EXCEPT !.op = x, !.origin = "command"].reason = "service_stop"
            /\ [NoLocals EXCEPT !.op = x, !.origin = "command"].origin = "command"
  BY Zenon DEF NoLocals
<1>2. CASE ReportProxyCompatibility(t, op, ok)
  <2>. DEFINE good == [runtime EXCEPT !.proxy = "ready", !.degraded = @ \ {"proxy"}]
              bad == [runtime EXCEPT !.proxy = "degraded", !.degraded = @ \cup {"proxy"}]
  <2>1. good.state = runtime.state /\ bad.state = runtime.state
    BY <1>0, Zenon DEF Runtimes
  <2>2. runtime' \in {runtime, good, bad}
    BY <1>2 DEF ReportProxyCompatibility
  <2>. HIDE DEF good, bad
  <2>3. /\ pc[t] = "idle" /\ Goto(t, "snapshot") /\ UNCHANGED <<opGen, stopRequested>>
        /\ Locals(t, [NoLocals EXCEPT !.origin = "command"])
    BY <1>2 DEF ReportProxyCompatibility, Accept, At, control
  <2>. QED  BY <1>1, <2>1, <2>2, <2>3, RestCommand
<1>3. CASE RepairRuntime(t, op)
  <2>1. /\ pc[t] = "idle" /\ Goto(t, "repair_enter") /\ UNCHANGED <<opGen, stopRequested>>
        /\ Locals(t, [NoLocals EXCEPT !.op = op, !.origin = "command"])
        /\ UNCHANGED runtime
    BY <1>3 DEF RepairRuntime, Accept, At, control, memory
  <2>. QED  BY <1>1, <2>1, RestCommand
<1>. QED  BY <1>2, <1>3

LEMMA RestStartTunnel ==
  ASSUME InTurn, TypeInv, Rest, NEW t \in Threads, NEW request \in Requests,
         StartTunnel(t, request)
  PROVE Rest'
<1>1. /\ pc[t] = "idle" /\ UNCHANGED <<opGen, stopRequested>>
      /\ \A u \in Threads : ~Starting(u)
      /\ opGen + Cardinality(Unserved) < MaxGeneration
  BY DEF StartTunnel, Accept, At, control, InTurn
<1>2. loc[t].reason \notin StopCommands  BY <1>1, NoStopCommand DEF StopLabels
<1>3. ASSUME NEW g
      PROVE /\ [NoLocals EXCEPT !.request = request, !.gen = g,
                                !.origin = "command"].reason = "service_stop"
            /\ [NoLocals EXCEPT !.request = request, !.gen = g,
                                !.origin = "command"].origin = "command"
            /\ [NoLocals EXCEPT !.request = request,
                                !.origin = "command"].reason = "service_stop"
            /\ [NoLocals EXCEPT !.request = request,
                                !.origin = "command"].origin = "command"
  BY Zenon DEF NoLocals
<1>4. PICK l \in {"busy_check", "warm_mark"} :
        \E r : /\ Goto(t, l) /\ Locals(t, r)
               /\ r.reason = "service_stop" /\ r.origin = "command"
               /\ runtime'.state \in {runtime.state, "Failed"}
               /\ l = "warm_mark" => runtime.state = "Connected"
  <2>0. runtime \in Runtimes  BY DEF TypeInv, TypeOK
  <2>1. CASE EngineLost
    <3>1. Failed(runtime).state = "Failed"  BY <2>0, Zenon DEF Failed, Runtimes
    <3>2. /\ Goto(t, "busy_check") /\ runtime' = Failed(runtime)
          /\ Locals(t, [NoLocals EXCEPT !.request = request, !.origin = "command"])
      BY <2>1 DEF StartTunnel, MarkFailed
    <3>. QED  BY <1>3, <3>1, <3>2, Zenon
  <2>2. CASE ~EngineLost
    <3>. DEFINE s == Refreshed(runtime)
                reused == [s EXCEPT !.op = request.op, !.request = request,
                                    !.route = FALSE, !.dns = FALSE]
                w == [NoLocals EXCEPT !.request = request, !.gen = s.gen,
                                      !.origin = "command"]
    <3>1. /\ runtime' \in {reused, s} /\ Locals(t, w)
          /\ \/ Goto(t, "busy_check")
             \/ Goto(t, "warm_mark") /\ s.state = "Connected"
      BY <2>2 DEF StartTunnel
    <3>2. s \in Runtimes /\ s.state = runtime.state
      BY <2>0, RefreshedType, RefreshedState
    <3>3. w.reason = "service_stop" /\ w.origin = "command"  BY <1>3
    <3>. HIDE DEF s, w
    <3>4. reused.state = s.state  BY <3>2, StartWrites
    <3>. HIDE DEF reused
    <3>5. runtime'.state = runtime.state  BY <3>1, <3>2, <3>4
    <3>. QED  BY <3>1, <3>2, <3>3, <3>5
  <2>. QED  BY <2>1, <2>2
<1>5. PICK r : /\ Goto(t, l) /\ Locals(t, r)
               /\ r.reason = "service_stop" /\ r.origin = "command"
               /\ runtime'.state \in {runtime.state, "Failed"}
               /\ l = "warm_mark" => runtime.state = "Connected"
  BY <1>4
<1>6. Plain(l, r.reason)  BY <1>5 DEF Plain, StopCommands, StopLabels
<1>7. ~Working("idle", loc[t].reason) /\ ~Working(l, r.reason) /\ l # "queue"
  BY DEF Working, StartLabels, StopLabels, EntryLabels
<1>8. ASSUME ~Cancelled PROVE Placed(l, r, opGen)
  <2>1. Tended  BY <1>8 DEF Rest
  <2>2. l = "warm_mark" => opGen # 0  BY <1>5, <2>1 DEF Tended
  <2>3. "event" \in Inputs => opGen = 0
    <3>1. Unserved = {}
      BY <1>1, <2>1, EntryStarts DEF Unserved, EntryLabels
    <3>2. Cardinality(Unserved) = 0  BY <3>1, FS_EmptySet
    <3>3. opGen \in Nat /\ MaxGeneration \in Nat
      BY ConstantsAssumption DEF TypeInv, TypeOK
    <3>. QED  BY <1>1, <3>2, <3>3 DEF InTurn
  <2>. QED
    BY <1>5, <1>7, <2>2, <2>3 DEF Placed, EntryLabels, EarlyLabels
<1>9. Attended(t, l, r.reason)  BY <1>1, <1>5, <1>7 DEF Attended
<1>. QED  BY <1>1, <1>2, <1>5, <1>6, <1>8, <1>9, RestMove

-----------------------------------------------------------------------------
(* The service process.                                                      *)

LEMMA RestStill ==
  ASSUME Rest, UNCHANGED <<pc, loc, opGen>>, stopRequested => stopRequested',
         runtime'.state \in {runtime.state, "Failed"}
  PROVE Rest'
<1>1. StopsEnd'  BY DEF Rest, StopsEnd, Ending
<1>2. CASE Cancelled
  <2>1. Cancelled'  BY <1>2 DEF Cancelled
  <2>. QED  BY <1>1, <2>1 DEF Rest
<1>3. CASE ~Cancelled
  <2>1. Tended  BY <1>3 DEF Rest
  <2>2. Tended'
    BY <2>1 DEF Tended, Placed, Starting, Transitional
  <2>. QED  BY <1>1, <2>2 DEF Rest
<1>. QED  BY <1>2, <1>3

LEMMA RestEmpty ==
  ASSUME opGen' = 0, runtime' = DefaultRuntime, pc'[Main] \in {"off", "serving"},
         \A t \in Threads : pc'[t] = "idle" /\ loc'[t] = NoLocals
  PROVE Rest'
<1>1. /\ NoLocals.reason = "service_stop" /\ NoLocals.request = None
      /\ NoLocals.origin = "thread" /\ DefaultRuntime.state = "Disconnected"
  BY DEF NoLocals, DefaultRuntime
<1>2. StopsEnd'  BY <1>1 DEF StopsEnd, Ending, StopLabels
<1>3. \A t \in Threads : Placed(pc'[t], loc'[t], opGen')
  BY <1>1 DEF Placed, Working, StartLabels, StopLabels, EntryLabels, EarlyLabels
<1>4. \A t \in Threads : ~Starting(t)'  BY <1>1 DEF Starting
<1>5. Tended'  BY <1>1, <1>3, <1>4 DEF Tended, Transitional
<1>. QED  BY <1>2, <1>5 DEF Rest

\* the main thread leaves its loop only when the exit has been asked for
LEMMA RestMain ==
  ASSUME TypeInv, Rest, MainSteps PROVE Rest'
<1>0. Main \in Actors /\ Main \notin Threads
  BY ConstantsAssumption DEF Actors
<1>1. CASE StopSteps(Main) \/ MainStops
  <2>1. stopRequested /\ stopRequested'
    BY <1>1 DEF StopSteps, Take, Kill, Settle, ClearMarker, Linger, Snapshot, StopDelay,
       Prepared, MainStops, Step, At, control, Rest, StopsEnd
  <2>2. \E l, r : Goto(Main, l) /\ Locals(Main, r)
    <3>1. \/ \E l : Goto(Main, l) /\ UNCHANGED loc
          \/ \E l, r : Goto(Main, l) /\ Locals(Main, r)
      BY <1>1, Zenon DEF StopSteps, Take, Kill, Settle, ClearMarker, Linger, Snapshot, StopDelay,
         Prepared, MainStops, StopOwned, Finish, Step
    <3>. QED  BY <1>0, <3>1, SameLocals
  <2>3. \A t \in Threads : pc'[t] = pc[t] /\ loc'[t] = loc[t]
    BY <1>0, <2>2, Moved DEF Actors
  <2>4. StopsEnd'  BY <2>1, <2>3 DEF Rest, StopsEnd
  <2>. QED  BY <2>1, <2>4 DEF Rest, Cancelled
<1>2. CASE ServiceExit
  <2>1. /\ opGen' = 0 /\ runtime' = DefaultRuntime /\ pc'[Main] = "off"
        /\ \A t \in Threads : pc'[t] = "idle" /\ loc'[t] = NoLocals
    BY <1>0, <1>2 DEF ServiceExit, ProcessEnds, Actors
  <2>. QED  BY <2>1, RestEmpty
<1>. QED  BY <1>1, <1>2 DEF MainSteps

LEMMA RestEvent ==
  ASSUME TypeInv, Rest, NetworkEvent PROVE Rest'
<1>1. runtime'.state = runtime.state
  <2>0. runtime \in Runtimes  BY DEF TypeInv, TypeOK
  <2>. DEFINE calm == [runtime EXCEPT !.eventSeq = @ + 1]
              suspect == [runtime EXCEPT !.effective = "Suspect", !.verdict = "Repairing"]
              alarmed == [suspect EXCEPT !.eventSeq = @ + 1]
  <2>1. runtime' \in {calm, alarmed}  BY DEF NetworkEvent
  <2>2. suspect \in Runtimes /\ suspect.state = runtime.state
    <3>1. "Suspect" \in EffectiveStates /\ "Repairing" \in Verdicts
      BY DEF EffectiveStates, Verdicts
    <3>. QED  BY <2>0, <3>1, Zenon DEF Runtimes
  <2>3. calm.state = runtime.state  BY <2>0, Zenon DEF Runtimes
  <2>. HIDE DEF calm, suspect
  <2>4. alarmed.state = suspect.state  BY <2>2, Zenon DEF Runtimes
  <2>. HIDE DEF alarmed
  <2>. QED  BY <2>1, <2>2, <2>3, <2>4
<1>2. UNCHANGED <<opGen, stopRequested>> /\ "event" \in Inputs
  BY DEF NetworkEvent, control
<1>3. CASE UNCHANGED <<pc, loc>>
  BY <1>1, <1>2, <1>3, RestStill
<1>4. CASE ~UNCHANGED <<pc, loc>>
  <2>. DEFINE r == [NoLocals EXCEPT !.origin = "event"]
  <2>1. r.request = None /\ r.reason = "service_stop"
    BY Zenon DEF NoLocals
  <2>2. PICK t \in Threads : pc[t] = "idle" /\ Goto(t, "repair_enter") /\ Locals(t, r)
    BY <1>4 DEF NetworkEvent, At
  <2>. HIDE DEF r
  <2>. QED  BY <1>1, <1>2, <2>1, <2>2, RestCommand
<1>. QED  BY <1>3, <1>4

LEMMA RestService ==
  ASSUME TypeInv, Rest,
         \/ MainSteps \/ ServiceStart \/ GetStatus \/ NetworkEvent \/ ScmStop
         \/ Crash \/ EngineExit \/ UNCHANGED vars
  PROVE Rest'
<1>1. CASE ServiceStart
  <2>1. /\ pc' = [pc EXCEPT ![Main] = "serving"]
        /\ UNCHANGED <<runtime, opGen, stopRequested, loc>>
    BY <1>1 DEF ServiceStart, Step, Goto, memory, control
  <2>2. pc'[Main] = "serving" /\ \A t \in Threads : pc'[t] = pc[t]
    BY <2>1, ConstantsAssumption DEF Actors, TypeInv, TypeOK
  <2>3. StopsEnd'  BY <2>1, <2>2 DEF Rest, StopsEnd
  <2>4. Cancelled => Cancelled'  BY <2>1 DEF Cancelled
  <2>5. Tended => Tended'  BY <2>1, <2>2 DEF Tended, Starting
  <2>. QED  BY <2>3, <2>4, <2>5 DEF Rest
<1>2. CASE GetStatus
  BY <1>2, RefreshSettles, RestStill DEF GetStatus, control
<1>3. CASE ScmStop
  BY <1>3, RestStill DEF ScmStop, memory
<1>4. CASE EngineExit \/ UNCHANGED vars
  BY <1>4, RestStill DEF EngineExit, vars, memory, control
<1>5. CASE Crash
  <2>1. /\ opGen' = 0 /\ runtime' = DefaultRuntime /\ pc'[Main] = "off"
        /\ \A t \in Threads : pc'[t] = "idle" /\ loc'[t] = NoLocals
    BY <1>5, ConstantsAssumption DEF Crash, ProcessEnds, Actors
  <2>. QED  BY <2>1, RestEmpty
<1>. QED  BY <1>1, <1>2, <1>3, <1>4, <1>5, RestMain, RestEvent

LEMMA RestNext ==
  ASSUME InTurn, TypeInv, Rest, [Next]_vars PROVE Rest'
<1>1. ASSUME NEW t \in Threads, Command(t) PROVE Rest'
  BY <1>1, RestStartTunnel, RestStopCommand, RestReport DEF Command
<1>2. ASSUME NEW t \in Threads, StartSteps(t) PROVE Rest'
  BY <1>2, RestChecks, RestErrors, RestEngines, RestEnds, RestEntry, RestQueue,
     RestNewGeneration DEF StartSteps
<1>3. ASSUME NEW t \in Threads, Continue(t) PROVE Rest'
  BY <1>2, <1>3, RestStopSteps, RestRepairSteps DEF Continue
<1>. QED  BY <1>1, <1>3, RestService DEF Next

LEMMA RestInit == ASSUME Init PROVE Rest
<1>1. /\ opGen = 0 /\ runtime = DefaultRuntime /\ pc[Main] = "serving"
      /\ \A t \in Threads : pc[t] = "idle" /\ loc[t] = NoLocals
  BY ConstantsAssumption DEF Init, Actors
<1>2. /\ NoLocals.reason = "service_stop" /\ NoLocals.request = None
      /\ NoLocals.origin = "thread" /\ DefaultRuntime.state = "Disconnected"
  BY DEF NoLocals, DefaultRuntime
<1>3. StopsEnd  BY <1>1, <1>2 DEF StopsEnd, Ending, StopLabels
<1>4. \A t \in Threads : Placed(pc[t], loc[t], opGen)
  BY <1>1, <1>2 DEF Placed, Working, StartLabels, StopLabels, EntryLabels, EarlyLabels
<1>5. \A t \in Threads : ~Starting(t)  BY <1>1, <1>2 DEF Starting
<1>6. Tended  BY <1>1, <1>2, <1>4, <1>5 DEF Tended, Transitional
<1>. QED  BY <1>3, <1>6 DEF Rest

\* Where starts come one after another, and only one of them beside network events,
\* the service never rests in Connecting or Disconnecting: whatever fails, is
\* retried, polled, stopped or crashes, no idle service refuses StartTunnel as busy.
THEOREM ServiceComesToRest == ASSUME InTurn PROVE Spec => []ComesToRest
<1>1. Init => TypeInv /\ Rest  BY TypeInit, RestInit
<1>2. TypeInv /\ Rest /\ [Next]_vars => TypeInv' /\ Rest'  BY TypeNext, RestNext
<1>3. Rest => ComesToRest  BY RestIsRest
<1>. QED  BY <1>1, <1>2, <1>3, PTL DEF Spec
=============================================================================
