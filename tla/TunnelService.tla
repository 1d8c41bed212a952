--------------------------- MODULE TunnelService ---------------------------
(***************************************************************************)
(* The Windows tunnel service (src-tauri/src/service.rs): one process that *)
(* owns the xray and sing-box engines of a protected connection.           *)
(*                                                                         *)
(* Pipe workers execute commands concurrently; StartTunnel continues in a  *)
(* thread of its own and every network event schedules a reassert thread.  *)
(* They share `runtime`, `child` and `job` under one non-reentrant mutex   *)
(* (STATE), the atomic OP_GENERATION (`opGen`), the STOP_REQUESTED flag,   *)
(* the session marker on disk and the operating system's process table.    *)
(*                                                                         *)
(* An action is one critical section of that mutex, or one step a thread   *)
(* takes outside it. A generation check that directly follows a critical   *)
(* section is part of its action (no command before the check depends on   *)
(* what the section wrote); every other check is a step of its own. A slot *)
(* of Threads is a worker or a thread busy with one operation: pc names    *)
(* its next step, loc holds its local variables.                           *)
(***************************************************************************)
EXTENDS Naturals, FiniteSets

CONSTANTS
  Threads,        \* slots for concurrently executing commands and threads
  Main,           \* the thread of run_service
  Ops,            \* operation ids chosen by the client
  Configs,        \* everything a start request holds besides its op id
  XrayConfigs,    \* the configurations whose engine kind is xray_tun
  Pids, Jobs,     \* operating-system process ids and job objects
  None,           \* the absent request, process, job or marker
  Inputs,         \* which commands and events the environment sends
  MaxGeneration,  \* bound on OP_GENERATION within one service run
  MaxEvents       \* bound on network_event_seq within one service run

AllInputs == {"start", "stop", "prepare", "repair", "report", "status",
              "event", "scm_stop", "engine_exit", "crash", "restart", "overlap"}

ASSUME ConstantsAssumption ==
  /\ Main \notin Threads
  /\ XrayConfigs \subseteq Configs
  /\ None \notin Ops \cup Configs \cup Pids \cup Jobs \cup Nat
  /\ Inputs \subseteq AllInputs
  /\ MaxGeneration \in Nat /\ MaxEvents \in Nat

VARIABLES
  runtime,        \* TunnelRuntime without its process handles
  child, job,     \* its xray and singbox handles, and its job object
  opGen,          \* OP_GENERATION
  stopRequested,  \* STOP_REQUESTED, or the stop control of the SCM
  wedged,         \* a thread waits for the STATE mutex it already holds
  marker,         \* generation in the session marker file, or None
  unclean,        \* previous_unclean_shutdown of this service run
  alive, jobOf,   \* running engine processes and the job of each
  pc, loc

memory == <<runtime, child, job>>
system == <<alive, jobOf>>
control == <<opGen, stopRequested, wedged>>
disk == <<marker, unclean>>
vars == <<memory, system, control, disk, pc, loc>>

Actors == Threads \cup {Main}
Engines == {"xray", "singbox"}
Requests == [op : Ops, config : Configs]

\* the absent request is told apart from every request
ASSUME RequestsAssumption == None \notin Requests

States == {"Disconnected", "Connecting", "Connected", "Disconnecting", "Failed"}
EffectiveStates == {"Idle", "Preparing", "Connecting", "Protected",
  "ProtectedDegraded", "Suspect", "Repairing", "Disconnecting", "Failed"}
Verdicts == {"Protected", "ProtectedDegraded", "Repairing", "Failed",
  "CleanupPending"}
ProxyStates == {"none", "pending", "core_connected", "ready", "degraded", "failed"}
FatalChecks == {"core_incomplete", "engine_failure"}
DegradedChecks == {"recent_event", "proxy"}

StopReasons == {"replace_tunnel", "tun_adapter_repair", "failed_cleanup",
  "stop_tunnel", "prepare_update", "service_stop"}

Labels == {"off", "serving", "exit", "idle", "snapshot", "stuck",
  "warm_mark", "busy_check", "new_generation", "queue", "start_check", "replace",
  "cleaned_check", "mark", "create_job", "spawn", "assign", "store", "wait_adapter",
  "adapter_timeout", "adapter_cancelled", "adapter_ready", "alive_check",
  "wait_routes", "route_ready", "dns_ready", "final_alive", "final_check", "publish",
  "failed", "failed_check", "set_failed", "take", "kill", "settle", "unmark",
  "linger", "stop_delay", "prepared", "repair_enter", "repair_probe", "repair_adapter",
  "repair_ready", "repair_proxy", "repair_publish", "rotate"}

Runtimes == [state : States, effective : EffectiveStates, verdict : Verdicts,
  gen : Nat, op : Ops \cup {None}, request : Requests \cup {None},
  ports : BOOLEAN, adapter : BOOLEAN, route : BOOLEAN, dns : BOOLEAN,
  proxy : ProxyStates, fatal : SUBSET FatalChecks,
  degraded : SUBSET DegradedChecks, eventSeq : Nat, rotationSeq : Nat]

LocalStates == [gen : Nat, request : Requests \cup {None}, attempt : {1, 2},
  engine : Engines, pid : Pids \cup {None}, reason : StopReasons,
  held : SUBSET Pids, heldJob : Jobs \cup {None}, op : Ops \cup {None},
  origin : {"command", "event", "thread"}]

NoLocals == [gen |-> 0, request |-> None, attempt |-> 1, engine |-> "xray",
  pid |-> None, reason |-> "service_stop", held |-> {}, heldJob |-> None,
  op |-> None, origin |-> "thread"]

DefaultRuntime == [state |-> "Disconnected", effective |-> "Idle",
  verdict |-> "Failed", gen |-> 0, op |-> None, request |-> None,
  ports |-> FALSE, adapter |-> FALSE, route |-> FALSE, dns |-> FALSE,
  proxy |-> "none", fatal |-> {}, degraded |-> {}, eventSeq |-> 0,
  rotationSeq |-> 0]

-----------------------------------------------------------------------------
(* Processes.  A job object is kill-on-close: dropping its only handle ends  *)
(* every process assigned to it.                                             *)

\* mutant: a job object created without kill-on-close
InJobSurvives(j) == {}

InJob(j) == {p \in alive : j # None /\ jobOf[p] = j}

\* mutant: an absent engine is taken like a present one
SlotPidsUnfiltered == {child[e] : e \in Engines}

SlotPids == {child[e] : e \in Engines} \ {None}
Exit(dead) ==
  /\ alive' = alive \ dead
  /\ jobOf' = [p \in Pids |-> IF p \in dead THEN None ELSE jobOf[p]]

\* ids are only compared, so which unused one the system hands out is immaterial
Fresh(ids, used) == CHOOSE id \in ids \ used : TRUE

UsedPids == alive \cup SlotPids \cup UNION {loc[t].held \cup {loc[t].pid} : t \in Actors}
UsedJobs == {job} \cup {loc[t].heldJob : t \in Actors} \cup {jobOf[p] : p \in alive}

(* Status arithmetic.                                                        *)

Ready(r) == r.ports /\ r.adapter /\ r.route /\ r.dns

\* refresh_runtime_verdict
Refreshed(r) ==
  CASE r.state = "Connected" /\ (r.fatal # {} \/ ~Ready(r)) ->
         [r EXCEPT !.effective = "Failed", !.verdict = "Failed",
                   !.fatal = IF @ = {} THEN {"core_incomplete"} ELSE @]
    [] r.state = "Connected" /\ r.fatal = {} /\ Ready(r) ->
         LET degraded == r.degraded \cup
               (IF r.effective \in {"Suspect", "Repairing"} THEN {"recent_event"} ELSE {})
             level == IF degraded # {} \/ r.proxy \in {"pending", "failed", "degraded"}
                      THEN "ProtectedDegraded" ELSE "Protected"
         IN [r EXCEPT !.degraded = degraded, !.effective = level, !.verdict = level]
    [] r.state = "Connecting" ->
         [r EXCEPT !.effective = IF @ = "Preparing" THEN @ ELSE "Connecting",
                   !.verdict = "Repairing"]
    [] r.state = "Disconnecting" ->
         [r EXCEPT !.effective = "Disconnecting", !.verdict = "CleanupPending"]
    [] r.state = "Failed" ->
         [r EXCEPT !.effective = "Failed", !.verdict = "Failed"]
    [] r.state = "Disconnected" ->
         [r EXCEPT !.effective = "Idle",
                   !.verdict = IF @ = "CleanupPending" THEN @ ELSE "Failed"]

\* the fields mark_runtime_failed overwrites
Failed(r) ==
  [r EXCEPT !.state = "Failed", !.effective = "Failed", !.verdict = "Failed",
            !.ports = FALSE, !.adapter = FALSE, !.route = FALSE, !.dns = FALSE,
            !.proxy = "failed", !.fatal = @ \cup {"engine_failure"}]

\* mutant: only xray is inspected
EngineLostXrayOnly == runtime.state = "Connected" /\ {child["xray"]} \ (alive \cup {None}) # {}

\* refresh_connected_process_state: a tracked engine has exited
EngineLost == runtime.state = "Connected" /\ SlotPids \ alive # {}

\* mutant: the engines are killed but the job stays behind
MarkFailedKeepsJob ==
  /\ runtime' = Failed(runtime)
  /\ child' = [e \in Engines |-> None]
  /\ Exit(SlotPids)
  /\ UNCHANGED job

\* mark_runtime_failed takes and kills both engines and drops the job
MarkFailed ==
  /\ runtime' = Failed(runtime)
  /\ child' = [e \in Engines |-> None]
  /\ job' = None
  /\ Exit(SlotPids \cup InJob(job))

\* the two refreshes that open every status query
RefreshRuntime ==
  \/ EngineLost /\ MarkFailed
  \/ ~EngineLost /\ runtime' = Refreshed(runtime) /\ UNCHANGED <<child, job, system>>

\* what a status query would report now
Report == IF EngineLost THEN Failed(runtime) ELSE Refreshed(runtime)

-----------------------------------------------------------------------------
(* Threads.                                                                  *)

LockFree == ~wedged
Serving == pc[Main] = "serving"
At(t, label) == pc[t] = label
Goto(t, label) == pc' = [pc EXCEPT ![t] = label]
Step(t, from, to) == At(t, from) /\ Goto(t, to)
Locals(t, l) == loc' = [loc EXCEPT ![t] = l]
Finish(t) == Goto(t, "idle") /\ Locals(t, NoLocals)
Current(t) == opGen = loc[t].gen

\* a command of kind `input` occupies the idle slot t
Accept(t, input) == Serving /\ input \in Inputs /\ At(t, "idle")

\* enter stop_owned_processes(reason)
StopOwned(t, reason) ==
  Goto(t, "take") /\ Locals(t, [loc[t] EXCEPT !.reason = reason])

\* bring_up_tun_runtime returned an error: stop owned processes and retry once,
\* then give up (what the retry publishes first, the stop overwrites)
BringUpError(t, repairable) ==
  IF repairable /\ loc[t].attempt = 1
  THEN /\ Goto(t, "take")
       /\ Locals(t, [loc[t] EXCEPT !.reason = "tun_adapter_repair", !.attempt = 2])
  ELSE Goto(t, "failed") /\ UNCHANGED loc

\* go on if the generation is still current, else fail; a cancellation is not repairable
IfCurrent(t, label) ==
  IF Current(t) THEN Goto(t, label) /\ UNCHANGED loc ELSE BringUpError(t, FALSE)

-----------------------------------------------------------------------------
(* GetStatus, GetDiagnostics and Hello.                                      *)

GetStatus ==
  /\ Serving /\ "status" \in Inputs /\ LockFree
  /\ RefreshRuntime
  /\ UNCHANGED <<control, disk, pc, loc>>

\* the snapshot a command handler ends with
Snapshot(t) ==
  /\ At(t, "snapshot") /\ LockFree
  /\ RefreshRuntime
  /\ \/ /\ loc[t].reason = "stop_tunnel"
        /\ Goto(t, "stop_delay")
        /\ Locals(t, [loc[t] EXCEPT !.origin = "thread"])
     \/ loc[t].reason # "stop_tunnel" /\ Finish(t)
  /\ UNCHANGED <<control, disk>>

-----------------------------------------------------------------------------
(* StartTunnel.                                                              *)

\* without "overlap" the client waits for one start to end before the next
Starting(t) == loc[t].request # None /\ loc[t].origin # "event"
Unserved == {t \in Threads : pc[t] \in {"busy_check", "new_generation"}}

\* try_warm_reassert_start: an identical runtime that is connected is reused
StartTunnel(t, request) ==
  /\ Accept(t, "start") /\ LockFree
  /\ opGen + Cardinality(Unserved) < MaxGeneration
  /\ "overlap" \in Inputs \/ ~\E u \in Threads : Starting(u)
  /\ \/ /\ EngineLost /\ MarkFailed
        /\ Goto(t, "busy_check")
        /\ Locals(t, [NoLocals EXCEPT !.request = request, !.origin = "command"])
     \/ /\ ~EngineLost
        /\ LET r == Refreshed(runtime)
               warm == /\ r.state = "Connected" /\ r.request # None
                       /\ r.request.config = request.config
           IN /\ runtime' = IF warm
                            THEN [r EXCEPT !.op = request.op, !.request = request,
                                           !.route = FALSE, !.dns = FALSE]
                            ELSE r
              /\ Goto(t, IF warm THEN "warm_mark" ELSE "busy_check")
              /\ Locals(t, [NoLocals EXCEPT !.request = request, !.gen = r.gen,
                                            !.origin = "command"])
        /\ UNCHANGED <<child, job, system>>
  /\ UNCHANGED <<control, disk>>

\* the warm path rewrites the marker before it reasserts the runtime
WarmMark(t) ==
  /\ Step(t, "warm_mark", "repair_enter")
  /\ marker' = loc[t].gen
  /\ UNCHANGED <<memory, system, control, unclean, loc>>

BusyCheck(t) ==
  /\ At(t, "busy_check") /\ LockFree
  /\ Goto(t, IF runtime.state \in {"Connecting", "Disconnecting"}
             THEN "snapshot" ELSE "new_generation")
  /\ UNCHANGED <<memory, system, control, disk, loc>>

NewGeneration(t) ==
  /\ Step(t, "new_generation", "queue")
  /\ opGen' = opGen + 1
  /\ Locals(t, [loc[t] EXCEPT !.gen = opGen + 1])
  /\ UNCHANGED <<memory, system, stopRequested, wedged, disk>>

\* the fields a start overwrites when it is queued and when it begins
Preparing(r, request, gen) ==
  [r EXCEPT !.state = "Connecting", !.effective = "Preparing",
            !.verdict = "Repairing", !.op = request.op, !.gen = gen,
            !.ports = TRUE, !.adapter = FALSE, !.route = FALSE, !.dns = FALSE,
            !.proxy = "pending", !.fatal = {}, !.degraded = {}]

\* publish the request and spawn start_tunnel, which goes on in this slot;
\* the handler's snapshot refreshes a Connecting runtime to itself
Queue(t) ==
  /\ Step(t, "queue", "start_check") /\ LockFree
  /\ runtime' = [Preparing(runtime, loc[t].request, loc[t].gen)
                   EXCEPT !.request = loc[t].request]
  /\ Locals(t, [loc[t] EXCEPT !.origin = "thread"])
  /\ UNCHANGED <<child, job, system, control, disk>>

-----------------------------------------------------------------------------
(* start_tunnel.                                                             *)

StartCheck(t) ==
  /\ At(t, "start_check")
  /\ IfCurrent(t, "replace")
  /\ UNCHANGED <<memory, system, control, disk>>

Replace(t) ==
  /\ At(t, "replace") /\ LockFree
  /\ runtime' = Preparing(runtime, loc[t].request, loc[t].gen)
  /\ StopOwned(t, "replace_tunnel")
  /\ UNCHANGED <<child, job, system, control, disk>>

\* ensure_current_generation after the replaced, or repaired, runtime is gone
CleanedCheck(t) ==
  /\ At(t, "cleaned_check")
  /\ IfCurrent(t, "mark")
  /\ UNCHANGED <<memory, system, control, disk>>

\* mutant: the marker, cleared by the repair, is not written again
WriteMarkerOnce(t) ==
  /\ Step(t, "mark", "create_job") /\ LockFree
  /\ marker' = IF loc[t].attempt = 1 THEN loc[t].gen ELSE marker
  /\ UNCHANGED <<memory, system, control, unclean, loc>>

\* write_session_marker; a retry then announces itself
WriteMarker(t) ==
  /\ Step(t, "mark", "create_job")
  /\ marker' = loc[t].gen
  /\ loc[t].attempt = 2 => LockFree
  /\ runtime' = IF loc[t].attempt = 1 THEN runtime
                ELSE [runtime EXCEPT !.state = "Connecting", !.effective = "Repairing",
                        !.verdict = "Repairing", !.op = loc[t].request.op, !.gen = loc[t].gen]
  /\ UNCHANGED <<child, job, system, control, unclean, loc>>

-----------------------------------------------------------------------------
(* bring_up_tun_runtime.                                                     *)

FirstEngine(config) == IF config \in XrayConfigs THEN "xray" ELSE "singbox"

\* the ports are published, then a fresh job replaces, and so closes, the old one
CreateJob(t) ==
  /\ At(t, "create_job") /\ LockFree
  /\ Jobs \ UsedJobs # {} /\ job' = Fresh(Jobs, UsedJobs)
  /\ runtime' = [runtime EXCEPT !.state = "Connecting", !.effective = "Connecting",
                   !.verdict = "Repairing", !.op = loc[t].request.op,
                   !.gen = loc[t].gen, !.ports = TRUE]
  /\ IF Current(t)
     THEN /\ Goto(t, "spawn")
          /\ Locals(t, [loc[t] EXCEPT !.engine = FirstEngine(loc[t].request.config)])
     ELSE BringUpError(t, FALSE)
  /\ Exit(InJob(job))
  /\ UNCHANGED <<child, control, disk>>

\* the runtime directory or the job object cannot be created
JobError(t) ==
  /\ At(t, "create_job") /\ LockFree
  /\ runtime' = [runtime EXCEPT !.ports = TRUE]
  /\ BringUpError(t, FALSE)
  /\ UNCHANGED <<child, job, system, control, disk>>

\* check the configuration and spawn the engine; either may fail
Spawn(t) ==
  /\ At(t, "spawn")
  /\ \/ /\ Pids \ UsedPids # {}
        /\ alive' = alive \cup {Fresh(Pids, UsedPids)}
        /\ Locals(t, [loc[t] EXCEPT !.pid = Fresh(Pids, UsedPids)])
        /\ Goto(t, "assign")
     \/ BringUpError(t, FALSE) /\ UNCHANGED alive
  /\ UNCHANGED <<memory, jobOf, control, disk>>

\* assign_child_to_job: without a job the handle is dropped, the process is not;
\* a process that has already exited is not assigned
Assign(t) ==
  /\ At(t, "assign") /\ LockFree
  /\ IF job # None /\ loc[t].pid \in alive
     THEN /\ jobOf' = [jobOf EXCEPT ![loc[t].pid] = job]
          /\ Goto(t, "store")
          /\ UNCHANGED loc
     ELSE /\ Goto(t, "failed")
          /\ Locals(t, [loc[t] EXCEPT !.pid = None])
          /\ UNCHANGED jobOf
  /\ UNCHANGED <<memory, alive, control, disk>>

Store(t) ==
  /\ At(t, "store") /\ LockFree
  /\ child' = [child EXCEPT ![loc[t].engine] = loc[t].pid]
  /\ Goto(t, IF ~Current(t) THEN "failed"
             ELSE IF loc[t].engine = "xray" THEN "spawn" ELSE "wait_adapter")
  /\ Locals(t, [loc[t] EXCEPT !.pid = None, !.engine = "singbox"])
  /\ UNCHANGED <<runtime, job, system, control, disk>>

EngineAlive(e) == child[e] \in alive
EnginesFor(config) == IF config \in XrayConfigs THEN Engines ELSE {"singbox"}
EnginesOf(t) == EnginesFor(loc[t].request.config)

\* wait_for_adapter: found, timed out, or cancelled
WaitAdapter(t) ==
  /\ At(t, "wait_adapter")
  /\ \/ Current(t) /\ Goto(t, "adapter_ready")
     \/ Current(t) /\ Goto(t, "adapter_timeout")
     \/ ~Current(t) /\ Goto(t, "adapter_cancelled")
  /\ UNCHANGED <<memory, system, control, disk, loc>>

\* a sing-box that runs on although its log says fatal fails the start for good
FatalLog(t) == EngineAlive("singbox") /\ BringUpError(t, FALSE)

\* before the adapter error is returned the engines are inspected: a dead xray
\* is not repairable, a missing sing-box is, a timeout is, a cancellation is not
AdapterError(t, from) ==
  /\ At(t, from) /\ LockFree
  /\ \/ BringUpError(t, /\ "xray" \in EnginesOf(t) => EngineAlive("xray")
                        /\ ~EngineAlive("singbox") \/ from = "adapter_timeout")
     \/ FatalLog(t)
  /\ UNCHANGED <<memory, system, control, disk>>

\* Get-NetAdapter and the IP helper both give the index with the alias
AdapterReady(t) ==
  /\ At(t, "adapter_ready") /\ LockFree
  /\ runtime' = [runtime EXCEPT !.adapter = TRUE]
  /\ IfCurrent(t, "alive_check")
  /\ UNCHANGED <<child, job, system, control, disk>>

\* ensure_singbox_alive and ensure_xray_alive; the first engine found missing
\* is the error, and only a missing sing-box is repairable
AliveCheck(t, from, to, first) ==
  /\ At(t, from) /\ LockFree
  /\ \/ (\A e \in EnginesOf(t) : EngineAlive(e)) /\ Goto(t, to) /\ UNCHANGED loc
     \/ /\ \E e \in EnginesOf(t) : ~EngineAlive(e)
        /\ BringUpError(t, /\ ~EngineAlive("singbox")
                           /\ first = "xray" /\ "xray" \in EnginesOf(t) => EngineAlive("xray"))
     \/ FatalLog(t)
  /\ UNCHANGED <<memory, system, control, disk>>

\* local ports, dual stack interface and route preference
WaitRoutes(t) ==
  /\ At(t, "wait_routes")
  /\ \/ IfCurrent(t, "route_ready")
     \/ Current(t) /\ \E repairable \in BOOLEAN : BringUpError(t, repairable)
  /\ UNCHANGED <<memory, system, control, disk>>

RouteReady(t) ==
  /\ At(t, "route_ready") /\ LockFree
  /\ runtime' = [runtime EXCEPT !.route = TRUE]
  /\ IfCurrent(t, "dns_ready")
  /\ UNCHANGED <<child, job, system, control, disk>>

DnsReady(t) ==
  /\ At(t, "dns_ready") /\ LockFree
  /\ runtime' = [runtime EXCEPT !.dns = TRUE]
  /\ IfCurrent(t, "final_alive")
  /\ UNCHANGED <<child, job, system, control, disk>>

\* the last port wait and the last ensure_current_generation
FinalCheck(t) ==
  /\ At(t, "final_check")
  /\ IfCurrent(t, "publish") \/ BringUpError(t, FALSE)
  /\ UNCHANGED <<memory, system, control, disk>>

\* the end of start_tunnel
Publish(t) ==
  /\ At(t, "publish") /\ LockFree
  /\ LET level == IF runtime.degraded = {} THEN "Protected" ELSE "ProtectedDegraded"
     IN runtime' = [runtime EXCEPT !.state = "Connected", !.effective = level,
                      !.verdict = level, !.proxy = "core_connected"]
  /\ Finish(t)
  /\ UNCHANGED <<child, job, system, control, disk>>

\* mutant: the error of a rotation is dropped
StartFailedAfterRotation(t) ==
  /\ At(t, "failed")
  /\ IF Current(t) /\ loc[t].origin # "event" THEN StopOwned(t, "failed_cleanup") ELSE Finish(t)
  /\ UNCHANGED <<memory, system, control, disk>>

\* mutant: the error of every start is dropped
StartFailedSilently(t) ==
  /\ At(t, "failed") /\ Finish(t)
  /\ UNCHANGED <<memory, system, control, disk>>

\* the caller of a failed start_tunnel cleans up only if it is still current
StartFailed(t) ==
  /\ At(t, "failed")
  /\ IF Current(t) THEN StopOwned(t, "failed_cleanup") ELSE Finish(t)
  /\ UNCHANGED <<memory, system, control, disk>>

FailedCheck(t) ==
  /\ At(t, "failed_check")
  /\ IF Current(t) THEN Goto(t, "set_failed") /\ UNCHANGED loc ELSE Finish(t)
  /\ UNCHANGED <<memory, system, control, disk>>

SetFailed(t) ==
  /\ At(t, "set_failed") /\ LockFree
  /\ MarkFailed
  /\ Finish(t)
  /\ UNCHANGED <<control, disk>>

-----------------------------------------------------------------------------
(* stop_owned_processes.                                                     *)

Take(t) ==
  /\ Step(t, "take", "kill") /\ LockFree
  /\ runtime' = [runtime EXCEPT !.state = "Disconnecting",
                   !.effective = "Disconnecting", !.verdict = "CleanupPending"]
  /\ child' = [e \in Engines |-> None]
  /\ job' = None
  /\ Locals(t, [loc[t] EXCEPT !.held = SlotPids, !.heldJob = job])
  /\ UNCHANGED <<system, control, disk>>

\* mutant: the engines are left to a cleanup that never comes
KillForgets(t) ==
  /\ Step(t, "kill", "settle")
  /\ Locals(t, [loc[t] EXCEPT !.held = {}, !.heldJob = None])
  /\ UNCHANGED <<memory, system, control, disk>>

\* drop the job, kill and reap both engines, outside the mutex
Kill(t) ==
  /\ Step(t, "kill", "settle")
  /\ Exit(loc[t].held \cup InJob(loc[t].heldJob))
  /\ Locals(t, [loc[t] EXCEPT !.held = {}, !.heldJob = None])
  /\ UNCHANGED <<memory, control, disk>>

Settle(t) ==
  /\ Step(t, "settle", "unmark") /\ LockFree
  /\ runtime' = [DefaultRuntime EXCEPT !.gen = runtime.gen,
                   !.request = runtime.request, !.eventSeq = runtime.eventSeq,
                   !.rotationSeq = runtime.rotationSeq]
  /\ UNCHANGED <<child, job, system, control, disk, loc>>

\* where the caller of stop_owned_processes goes on
AfterStop(reason) ==
  CASE reason \in {"replace_tunnel", "tun_adapter_repair"} -> "cleaned_check"
    [] reason = "failed_cleanup" -> "failed_check"
    [] reason = "stop_tunnel" -> "snapshot"
    [] reason = "prepare_update" -> "prepared"
    [] reason = "service_stop" -> "exit"

ClearMarker(t) ==
  /\ Step(t, "unmark", "linger")
  /\ marker' = None
  /\ UNCHANGED <<memory, system, control, unclean, loc>>

\* up to three seconds later the adapter has gone, or is reported to outlive
\* its engine
Linger(t) ==
  /\ Step(t, "linger", AfterStop(loc[t].reason))
  /\ \/ UNCHANGED runtime
     \/ LockFree /\ runtime' = [runtime EXCEPT !.verdict = "CleanupPending"]
  /\ UNCHANGED <<child, job, system, control, disk, loc>>

-----------------------------------------------------------------------------
(* StopTunnel and PrepareForUpdate.                                          *)

StopTunnel(t) ==
  /\ Accept(t, "stop") /\ opGen < MaxGeneration
  /\ opGen' = opGen + 1
  /\ Goto(t, "take")
  /\ Locals(t, [NoLocals EXCEPT !.reason = "stop_tunnel", !.origin = "command"])
  /\ UNCHANGED <<memory, system, stopRequested, wedged, disk>>

\* mutant: the request to exit is lost
StopDelayLost(t) ==
  /\ At(t, "stop_delay") /\ Finish(t)
  /\ UNCHANGED <<memory, system, control, disk>>

\* 150 ms after a successful StopTunnel the service is asked to exit
StopDelay(t) ==
  /\ At(t, "stop_delay") /\ Finish(t)
  /\ stopRequested' = TRUE
  /\ UNCHANGED <<memory, system, opGen, wedged, disk>>

\* the Repairing verdict published first is overwritten by the stop
PrepareForUpdate(t) ==
  /\ Accept(t, "prepare") /\ opGen < MaxGeneration
  /\ opGen' = opGen + 1
  /\ Goto(t, "take")
  /\ Locals(t, [NoLocals EXCEPT !.reason = "prepare_update", !.origin = "command"])
  /\ UNCHANGED <<memory, system, stopRequested, wedged, disk>>

Prepared(t) ==
  /\ Step(t, "prepared", "snapshot") /\ LockFree
  /\ stopRequested' = TRUE
  /\ UNCHANGED <<memory, system, opGen, wedged, disk, loc>>

-----------------------------------------------------------------------------
(* ReportProxyCompatibility.                                                 *)

ReportProxyCompatibility(t, op, ok) ==
  /\ Accept(t, "report") /\ LockFree
  /\ runtime' = IF op # None /\ runtime.op # op THEN runtime
                ELSE IF ok
                THEN [runtime EXCEPT !.proxy = "ready", !.degraded = @ \ {"proxy"}]
                ELSE [runtime EXCEPT !.proxy = "degraded", !.degraded = @ \cup {"proxy"}]
  /\ Goto(t, "snapshot")
  /\ Locals(t, [NoLocals EXCEPT !.origin = "command"])
  /\ UNCHANGED <<child, job, system, control, disk>>

-----------------------------------------------------------------------------
(* repair_connected_runtime, for RepairRuntime, a warm start and an event.   *)

RepairRuntime(t, op) ==
  /\ Accept(t, "repair")
  /\ Goto(t, "repair_enter")
  /\ Locals(t, [NoLocals EXCEPT !.op = op, !.origin = "command"])
  /\ UNCHANGED <<memory, system, control, disk>>

\* `return Ok(status_snapshot())` while the guard is still in scope: the
\* snapshot locks STATE again and the thread waits for itself
SelfDeadlock(t) ==
  /\ wedged' = TRUE
  /\ Goto(t, "stuck")

RepairError(t) ==
  IF loc[t].origin = "event" THEN Goto(t, "rotate") /\ UNCHANGED loc ELSE Finish(t)

\* mutant: the repair forgets every degradation, not only the event's
RepairingForgets(r) ==
  [r EXCEPT !.effective = "Repairing", !.verdict = "Repairing",
            !.route = FALSE, !.dns = FALSE, !.degraded = {}]

Repairing(r) ==
  [r EXCEPT !.effective = "Repairing", !.verdict = "Repairing",
            !.route = FALSE, !.dns = FALSE, !.degraded = @ \ {"recent_event"}]

RepairEnter(t) ==
  /\ At(t, "repair_enter") /\ LockFree
  /\ \/ /\ \/ runtime.state # "Connected"
           \/ loc[t].op # None /\ runtime.op # loc[t].op
        /\ SelfDeadlock(t)
        /\ UNCHANGED <<runtime, loc>>
     \/ /\ runtime.state = "Connected"
        /\ loc[t].op # None => runtime.op = loc[t].op
        /\ IF ~runtime.ports
           THEN RepairError(t) /\ UNCHANGED runtime
           ELSE /\ runtime' = Repairing(runtime)
                /\ Locals(t, [loc[t] EXCEPT !.gen = runtime.gen, !.op = runtime.op])
                /\ Goto(t, "repair_probe")
        /\ UNCHANGED wedged
  /\ UNCHANGED <<child, job, system, opGen, stopRequested, disk>>

\* the wait that follows: it succeeds, fails, or finds the operation stale
RepairWait(t, label) ==
  \/ Current(t) /\ Goto(t, label) /\ UNCHANGED loc
  \/ RepairError(t)

RepairProbe(t) ==
  /\ At(t, "repair_probe")
  /\ RepairWait(t, "repair_adapter")
  /\ UNCHANGED <<memory, system, control, disk>>

\* refresh_adapter_snapshot_required, then dual stack and route preference
RepairAdapter(t) ==
  /\ At(t, "repair_adapter") /\ LockFree
  /\ runtime' = [runtime EXCEPT !.adapter = TRUE]
  /\ RepairWait(t, "repair_ready")
  /\ UNCHANGED <<child, job, system, control, disk>>

\* mark_route_ready and mark_dns_policy_ready, then the SOCKS port
RepairReady(t) ==
  /\ At(t, "repair_ready") /\ LockFree
  /\ runtime' = [runtime EXCEPT !.route = TRUE, !.dns = TRUE]
  /\ RepairWait(t, "repair_proxy")
  /\ UNCHANGED <<child, job, system, control, disk>>

\* a silent HTTP listener only degrades the proxy lane
RepairProxy(t) ==
  /\ At(t, "repair_proxy") /\ LockFree
  /\ \/ runtime' = [runtime EXCEPT !.proxy = IF @ = "degraded" THEN @ ELSE "ready"]
     \/ runtime' = [runtime EXCEPT !.proxy = "degraded", !.degraded = @ \cup {"proxy"}]
     \/ UNCHANGED runtime
  /\ IF Current(t) THEN Goto(t, "repair_publish") /\ UNCHANGED loc ELSE RepairError(t)
  /\ UNCHANGED <<child, job, system, control, disk>>

RepairPublish(t) ==
  /\ At(t, "repair_publish") /\ LockFree
  /\ IF runtime.op # loc[t].op
     THEN SelfDeadlock(t) /\ UNCHANGED runtime
     ELSE /\ runtime' = [runtime EXCEPT !.state = "Connected"]
          /\ Goto(t, "snapshot") /\ UNCHANGED wedged
  /\ UNCHANGED <<child, job, system, opGen, stopRequested, disk, loc>>

-----------------------------------------------------------------------------
(* Network and power events.                                                 *)

\* mark_network_event_suspect; all but a suspend schedule a reassert
NetworkEvent ==
  /\ pc[Main] # "off" /\ "event" \in Inputs /\ LockFree
  /\ runtime.eventSeq < MaxEvents
  /\ runtime' = [(IF runtime.state = "Connected"
                  THEN [runtime EXCEPT !.effective = "Suspect", !.verdict = "Repairing"]
                  ELSE runtime) EXCEPT !.eventSeq = @ + 1]
  /\ \/ \E t \in Threads : /\ At(t, "idle")
                           /\ Goto(t, "repair_enter")
                           /\ Locals(t, [NoLocals EXCEPT !.origin = "event"])
     \/ UNCHANGED <<pc, loc>>
  /\ UNCHANGED <<child, job, system, control, disk>>

\* rotate_children_after_failed_reassert, which runs start_tunnel under the
\* generation it finds
Rotate(t) ==
  /\ At(t, "rotate") /\ LockFree
  /\ IF /\ runtime.state = "Connected"
        /\ runtime.rotationSeq < runtime.eventSeq
        /\ runtime.request # None
     THEN /\ runtime' = [runtime EXCEPT !.rotationSeq = runtime.eventSeq]
          /\ Goto(t, "start_check")
          /\ Locals(t, [NoLocals EXCEPT !.gen = opGen, !.request = runtime.request,
                                        !.origin = "event"])
     ELSE UNCHANGED runtime /\ Finish(t)
  /\ UNCHANGED <<child, job, system, control, disk>>

-----------------------------------------------------------------------------
(* The service process.                                                      *)

ServiceStart ==
  /\ "restart" \in Inputs /\ Step(Main, "off", "serving")
  /\ unclean' = (marker # None)
  /\ marker' = None
  /\ UNCHANGED <<memory, system, control, loc>>

ScmStop ==
  /\ pc[Main] # "off" /\ "scm_stop" \in Inputs
  /\ ~stopRequested /\ stopRequested' = TRUE
  /\ UNCHANGED <<memory, system, opGen, wedged, disk, pc, loc>>

MainStops ==
  /\ Serving /\ stopRequested
  /\ StopOwned(Main, "service_stop")
  /\ UNCHANGED <<memory, system, control, disk>>

\* the end of a process: its memory and its threads are gone, its job handles
\* are closed, and processes outside every job run on
ProcessEnds ==
  /\ runtime' = DefaultRuntime
  /\ child' = [e \in Engines |-> None]
  /\ job' = None
  /\ Exit({p \in alive : jobOf[p] # None})
  /\ opGen' = 0 /\ stopRequested' = FALSE /\ wedged' = FALSE
  /\ pc' = [t \in Actors |-> IF t = Main THEN "off" ELSE "idle"]
  /\ loc' = [t \in Actors |-> NoLocals]
  /\ unclean' = FALSE
  /\ UNCHANGED marker

\* dropping the tokio runtime waits for handlers, not for plain threads
ServiceExit ==
  /\ At(Main, "exit")
  /\ \A t \in Threads : At(t, "idle") \/ loc[t].origin # "command"
  /\ ProcessEnds

Crash == pc[Main] # "off" /\ "crash" \in Inputs /\ ProcessEnds

\* an engine exits on its own
EngineExit ==
  /\ "engine_exit" \in Inputs
  /\ \E p \in alive : Exit({p})
  /\ UNCHANGED <<memory, control, disk, pc, loc>>

-----------------------------------------------------------------------------
Init ==
  /\ runtime = DefaultRuntime
  /\ child = [e \in Engines |-> None] /\ job = None
  /\ opGen = 0 /\ stopRequested = FALSE /\ wedged = FALSE
  /\ marker = None /\ unclean = FALSE
  /\ alive = {} /\ jobOf = [p \in Pids |-> None]
  /\ pc = [t \in Actors |-> IF t = Main THEN "serving" ELSE "idle"]
  /\ loc = [t \in Actors |-> NoLocals]

StartSteps(t) ==
  \/ WarmMark(t) \/ BusyCheck(t) \/ NewGeneration(t) \/ Queue(t)
  \/ StartCheck(t) \/ Replace(t) \/ CleanedCheck(t) \/ WriteMarker(t)
  \/ CreateJob(t) \/ JobError(t) \/ Spawn(t) \/ Assign(t) \/ Store(t)
  \/ WaitAdapter(t) \/ AdapterReady(t)
  \/ AdapterError(t, "adapter_timeout") \/ AdapterError(t, "adapter_cancelled")
  \/ AliveCheck(t, "alive_check", "wait_routes", "singbox") \/ WaitRoutes(t)
  \/ RouteReady(t) \/ DnsReady(t)
  \/ AliveCheck(t, "final_alive", "final_check", "xray") \/ FinalCheck(t)
  \/ Publish(t) \/ StartFailed(t) \/ FailedCheck(t) \/ SetFailed(t)

StopSteps(t) ==
  \/ Take(t) \/ Kill(t) \/ Settle(t) \/ ClearMarker(t) \/ Linger(t)
  \/ Snapshot(t) \/ StopDelay(t) \/ Prepared(t)

RepairSteps(t) ==
  \/ RepairEnter(t) \/ RepairProbe(t) \/ RepairAdapter(t) \/ RepairReady(t)
  \/ RepairProxy(t) \/ RepairPublish(t) \/ Rotate(t)

\* one step of an operation in progress
Continue(t) == StartSteps(t) \/ StopSteps(t) \/ RepairSteps(t)

Command(t) ==
  \/ \E request \in Requests : StartTunnel(t, request)
  \/ StopTunnel(t) \/ PrepareForUpdate(t)
  \/ \E op \in Ops \cup {None} : RepairRuntime(t, op)
  \/ \E op \in Ops \cup {None}, ok \in BOOLEAN : ReportProxyCompatibility(t, op, ok)

MainSteps == StopSteps(Main) \/ MainStops \/ ServiceExit

Next ==
  \/ \E t \in Threads : Command(t) \/ Continue(t)
  \/ MainSteps \/ ServiceStart \/ GetStatus \/ NetworkEvent
  \/ ScmStop \/ Crash \/ EngineExit

Spec == Init /\ [][Next]_vars

\* every thread that can take a step eventually does; the environment need not act
Fairness == WF_vars(MainSteps) /\ \A t \in Threads : WF_vars(Continue(t))

FairSpec == Spec /\ Fairness

-----------------------------------------------------------------------------
(* Types.                                                                    *)

\* Every variable has the shape its code gives it.
TypeOK ==
  /\ runtime \in Runtimes
  /\ child \in [Engines -> Pids \cup {None}] /\ job \in Jobs \cup {None}
  /\ opGen \in Nat /\ stopRequested \in BOOLEAN /\ wedged \in BOOLEAN
  /\ marker \in Nat \cup {None} /\ unclean \in BOOLEAN
  /\ alive \subseteq Pids /\ jobOf \in [Pids -> Jobs \cup {None}]
  /\ pc \in [Actors -> Labels]
  /\ loc \in [Actors -> LocalStates]

-----------------------------------------------------------------------------
(* Safety.                                                                   *)

\* No running engine is in a job object nobody holds: it is outside every job
\* (it was not assigned yet, or never will be), in the job of the runtime, or in
\* the job a stop has taken and is about to close; and an engine whose handle is
\* stored is in a job.  So closing the service's jobs ends every assigned engine.
EnginesAreContained ==
  /\ \A p \in alive : \/ jobOf[p] \in {None, job}
                      \/ \E t \in Actors : jobOf[p] = loc[t].heldJob
  /\ \A e \in Engines : EngineAlive(e) => jobOf[child[e]] # None

\* stop_owned_processes has emptied the slots but not yet reset the status
Stopping == \E t \in Actors : pc[t] \in {"kill", "settle"}

\* A status query never answers Protected over a dead or missing engine of the
\* configuration that was started, however stops, polls and exits interleave with a
\* start (except while a stop is between its two critical sections). Two operations
\* may overlap, but not three starts: then a warm start that has lost its runtime
\* can publish over the start that has not spawned yet.
ProtectedIsReal ==
  Report.verdict \in {"Protected", "ProtectedDegraded"} /\ ~Stopping =>
    /\ runtime.request # None
    /\ \A e \in EnginesFor(runtime.request.config) : EngineAlive(e)

\* A runtime reported Failed holds no job, so no engine survives behind it.
FailedOwnsNothing == runtime.state = "Failed" => job = None

\* no operation is in progress
Quiet == Serving /\ \A t \in Threads : At(t, "idle")

Transitional == {"Connecting", "Disconnecting"}

\* The service never comes to rest in Connecting or Disconnecting, where it
\* refuses every StartTunnel as busy. docs/transport-diagnostic-report.md:637
\* promises a client that polls GetStatus a connected or failed answer.
ComesToRest ==
  Quiet /\ ~stopRequested => runtime.state \notin Transitional

\* While an engine runs in the runtime's job the session marker is on disk, so a
\* crash of the service is noticed at its next start.
EngineIsMarked == InJob(job) # {} => \/ marker # None
                                     \/ \E t \in Actors : pc[t] = "take"

\* Engines of two runtimes never run side by side, across retries, warm starts,
\* replacements and restarts.
OneRuntime == \A p, q \in alive :
  None \notin {jobOf[p], jobOf[q]} => jobOf[p] = jobOf[q]

\* An engine outside every job is one whose starter is about to assign it.
NoOrphanedEngine == \A p \in alive : jobOf[p] # None \/ \E t \in Threads : loc[t].pid = p

-----------------------------------------------------------------------------
(* Action properties.                                                        *)

\* Once the app has reported the proxy lane broken, only a successful report or
\* the end of the runtime clears it: a repair or a warm start in between does not.
ProxyFailureSticks ==
  [][runtime.state = "Connected" /\ "proxy" \in runtime.degraded \ runtime'.degraded
       => runtime'.proxy = "ready" \/ runtime'.state # "Connected"]_vars

\* A worker whose generation is no longer the current one never marks the runtime
\* Connected.
StaleWorkerCannotConnect ==
  [][runtime.state # "Connected" /\ runtime'.state = "Connected" => runtime'.gen = opGen]_vars

-----------------------------------------------------------------------------
(* Liveness.                                                                 *)

StopBegins(t) == At(t, "take") /\ loc[t].reason = "stop_tunnel"

\* A StopTunnel that arrives ends the service, whatever it interrupts.
StopEndsService == \A t \in Threads : StopBegins(t) ~> pc[Main] = "off"

\* The same, unless a thread waits for a mutex it already holds.
StopEndsServiceUnlessWedged ==
  \A t \in Threads : StopBegins(t) ~> pc[Main] = "off" \/ wedged

\* Every transition ends: whatever fails, is retried or is cancelled, the service
\* leaves Connecting and Disconnecting.
TransitionsEnd ==
  runtime.state \in Transitional ~> runtime.state \notin Transitional \/ wedged
=============================================================================
