---------------------------- MODULE Orchestrator ----------------------------
(***************************************************************************)
(* The connection commands of the application (src-tauri/src/lib.rs with   *)
(* xray.rs, singbox.rs, tun.rs, ipc.rs and app_store_tunnel.rs).           *)
(*                                                                         *)
(* connect, disconnect, repair and update preparation run one at a time    *)
(* under the fair RUNTIME_OP_LOCK. Everything else runs beside them: the   *)
(* dataplane probe that follows a connect, status polls, the repair of the *)
(* compatibility proxy, the detached sweep a disconnect leaves behind, the *)
(* cleanup of a quitting application, the tunnel service, the guardian.    *)
(* Some steps also hold the mutexes of CONNECTION_STATE and ACTIVE_ENGINE  *)
(* across calls (`guard`).                                                 *)
(*                                                                         *)
(* mem are the statics of the process, os is what outlives a function: the *)
(* engines, the service, the Network Extension and the system proxy. An    *)
(* action is what one thread does between two points where another one can *)
(* interfere; pc names the next one.                                       *)
(***************************************************************************)
EXTENDS Naturals, Sequences, FiniteSets

CONSTANTS
  Platforms,    \* builds to check: "windows", "macos", "appstore"
  Threads,      \* slots for concurrently executing commands
  Nobody,       \* the absent thread
  Requests,     \* the connect requests the interface sends
  NoRequest,
  Inputs,       \* which commands and events occur
  MaxConnects   \* bound on connect calls in a behaviour

AllInputs == {"status", "compat", "repair", "update", "quit", "restart",
              "engine_exit", "service_exit", "proxy_error", "faults"}

ASSUME ConstantsAssumption ==
  /\ Platforms \subseteq {"windows", "macos", "appstore"}
  /\ Nobody \notin Threads
  /\ Requests \subseteq [engine : {"xray", "singbox"}, tun : BOOLEAN,
                         proxy : {"set", "clear", "unchanged"}, rules : BOOLEAN]
  /\ NoRequest \notin Requests
  /\ Inputs \subseteq AllInputs
  /\ MaxConnects \in Nat

VARIABLES
  platform,  \* which build this is; never changes
  mem,       \* CONNECTION_STATE, ACTIVE_ENGINE, SYSTEM_PROXY_MANAGED, *_CONNECT_CANCELLED
  os,        \* engines, service, Network Extension and proxy
  queue,     \* RUNTIME_OP_LOCK: its head holds it, the others wait in order
  guard,     \* who keeps CONNECTION_STATE and ACTIVE_ENGINE locked across calls
  app,       \* "running", "cleaned" by full_cleanup on its way out, or "down"
  pc, loc,   \* next step and local variables of each thread
  wish,      \* history: what the user asked for last
  connects   \* history: connect calls so far

vars == <<platform, mem, os, queue, guard, app, pc, loc, wish, connects>>

up == app # "down"
Windows == platform = "windows"
MacOS == platform = "macos"
AppStore == platform = "appstore"

ServiceStates == {"Disconnected", "Connecting", "Connected", "Failed"}
ExtensionStates == {"disconnected", "connecting", "connected", "disconnecting"}
LocalEngines == {"xray", "singbox"}
NoEngine == "none"
Engines == {NoEngine, "xray", "xray+tun", "xray+tun-service", "xray+app-proxy",
  "xray+app-proxy-service", "singbox", "singbox-tun", "singbox-tun-service",
  "singbox+app-proxy", "singbox+app-proxy-service", "xray+network-extension"}

Labels == {"idle", "connect", "stop", "restore", "ports", "start", "wait_port",
  "commit_local", "apply_proxy", "rules", "bridge", "service_start", "service_poll",
  "compat", "commit_tun", "verify", "flagged", "disconnect", "return_proxy",
  "commit_down", "status", "status_write", "compat_apply", "compat_managed",
  "repair", "repair_down", "update", "stuck",
  "ne_start", "ne_wait", "ne_verify", "ne_stop", "ne_stopping"}

\* what a step under way will come back to
Returns == {"none", "tun", "rules", "abort", "teardown", "disconnect"}

NoLocals == [req |-> NoRequest, ret |-> "none", active |-> FALSE]

FreshMemory == [connected |-> FALSE, engine |-> NoEngine, managed |-> FALSE,
                cancelled |-> FALSE]

-----------------------------------------------------------------------------
(* The lock.                                                                 *)

Holds(t) == queue # << >> /\ Head(queue) = t
Wait(t) == queue' = Append(queue, t)
Release == queue' = Tail(queue)

Goto(t, label) == pc' = [pc EXCEPT ![t] = label]
Done(t) == Goto(t, "idle") /\ loc' = [loc EXCEPT ![t] = NoLocals]

\* a step of t under the lock; other threads keep what they have
Step(t, label) == up /\ Holds(t) /\ pc[t] = label
Alone == UNCHANGED <<platform, app, wish, connects>>
Locked == UNCHANGED <<queue, guard>> /\ Alone

\* the function returns: every guard is dropped
Return(t) == Release /\ guard' = Nobody /\ Alone
Fail(t) == Return(t) /\ Done(t)
Succeed(t) == Return(t) /\ Goto(t, "verify") /\ UNCHANGED loc

(* Engines, as functions from a state of os to the states they may leave.    *)

Faulty == "faults" \in Inputs

StopXray(o) == [o EXCEPT !.local = @ \ {"xray"}]
StopSingbox(o) == [o EXCEPT !.local = @ \ {"singbox"}]

\* stop_tun: on macOS the user may refuse the administrator prompt
StopTun(o) ==
  IF MacOS /\ o.bridge
  THEN {[o EXCEPT !.bridge = FALSE]} \cup
       (IF Faulty THEN {[o EXCEPT !.faulted = TRUE]} ELSE {})
  ELSE {o}

\* start_tun_elevated: stops the bridge it knows of, then launches another one
StartBridge(o) ==
  UNION {{[ok |-> TRUE, os |-> [s EXCEPT !.bridge = TRUE]],
          [ok |-> FALSE, os |-> [s EXCEPT !.bridge = FALSE]]}
         \cup (IF Faulty \* comes up after the three seconds it is given
               THEN {[ok |-> FALSE, os |-> [s EXCEPT !.bridge = TRUE, !.faulted = TRUE]]}
               ELSE {})
         : s \in StopTun(o)}

\* tunnel_service_stop: its errors are ignored by every caller
StopService(o) ==
  IF Windows
  THEN {[o EXCEPT !.svc = "Disconnected", !.transient = FALSE]} \cup
       (IF Faulty THEN {[o EXCEPT !.faulted = TRUE]} ELSE {})
  ELSE {o}

\* send_tunnel_command: an attempt that timed out may still be carried out
SendStart(o) ==
  {[ok |-> TRUE, os |-> [o EXCEPT !.svc = "Connecting"]], [ok |-> FALSE, os |-> o]}
  \cup (IF Faulty
        THEN {[ok |-> b, os |-> [o EXCEPT !.svc = IF b THEN "Connecting" ELSE @,
                                          !.late = TRUE, !.faulted = TRUE]] : b \in BOOLEAN}
        ELSE {})

\* terminate_orphaned_doodleray_engine_processes: by executable path
Sweep(o) == [o EXCEPT !.local = {}, !.orphans = {}]

ServiceActive(o) == o.svc \in {"Connecting", "Connected"}
ExtensionActive(o) == o.ne \in {"connecting", "connected"}
PortAlive(o) == o.local # {} \/ o.svc = "Connected"

(* The system proxy, as SystemProxy abstracts it: the user's settings are    *)
(* either replaced by DoodleRay's or not.                                    *)

GiveBack(o) == [o EXCEPT !.proxy = "user", !.guardian = FALSE, !.dropped = FALSE]
TakeOver(o) == [o EXCEPT !.proxy = "app", !.guardian = TRUE, !.dropped = FALSE]

\* repair_stale_system_proxy_only: every caller ignores its failure
RepairStale(o) ==
  {GiveBack(o)} \cup (IF Faulty THEN {[o EXCEPT !.dropped = o.proxy = "app"]} ELSE {})

\* mutant: a proxy is only given back while the connection is up
RestoreIfConnected(m, o) == IF m.managed /\ m.connected THEN RepairStale(o) ELSE {o}

\* restore_system_proxy_if_owned(false); whether it works or fails, its callers'
\* SYSTEM_PROXY_MANAGED is cleared as well
RestoreIfOwned(m, o) == IF m.managed THEN RepairStale(o) ELSE {o}

\* apply_doodleray_proxy returns an error: before it has written anything, once the file
\* with its new token sends the guardian away, or once its value is in force
ApplyFails(o) ==
  {o} \cup (IF Faulty
            THEN {[o EXCEPT !.guardian = FALSE],
                  [o EXCEPT !.proxy = "app", !.guardian = FALSE, !.dropped = TRUE]}
            ELSE {})

\* process_rule_names: Steam is a direct process of every tun request
NeedsRawTunPath(r) == r.tun

-----------------------------------------------------------------------------
(* vpn_connect_direct up to the branch on engine and mode.                   *)

Connect(t, r) ==
  /\ up /\ pc[t] = "idle" /\ connects < MaxConnects
  /\ Wait(t) /\ Goto(t, "connect")
  /\ loc' = [loc EXCEPT ![t] = [NoLocals EXCEPT !.req = r]]
  /\ wish' = "connect" /\ connects' = connects + 1
  /\ UNCHANGED <<platform, mem, os, guard, app>>

\* the cancellation flag is reset; a protocol or ports may be refused
ConnectBegin(t) ==
  /\ Step(t, "connect") /\ ~AppStore
  /\ mem' = [mem EXCEPT !.cancelled = IF Windows THEN FALSE ELSE @]
  /\ UNCHANGED os
  /\ \/ Goto(t, "stop") /\ UNCHANGED loc /\ Locked
     \/ Fail(t)

\* mutant: the app-proxy variants are taken for bridges only
StopEngineForgetsXray(e, o) ==
  CASE e \in {"xray", "xray+app-proxy"} -> {StopXray(o)}
    [] e = "xray+tun" -> UNION {StopTun(StopXray(s)) : s \in StopService(o)}
    [] e = "xray+app-proxy-service" -> StopService(o)
    [] e \in {"xray+tun-service", "singbox-tun-service", "singbox+app-proxy-service"} ->
         StopService(o)
    [] e = "singbox-tun" -> UNION {StopTun(s) : s \in StopService(o)}
    [] e \in {"singbox", "singbox+app-proxy"} -> {o}
    [] OTHER -> StopTun(StopXray(o))

\* what the match on the previous engine stops
StopEngine(e, o) ==
  CASE e \in {"xray", "xray+app-proxy"} -> {StopXray(o)}
    [] e = "xray+tun" -> UNION {StopTun(StopXray(s)) : s \in StopService(o)}
    [] e = "xray+app-proxy-service" -> {StopXray(s) : s \in StopService(o)}
    [] e \in {"xray+tun-service", "singbox-tun-service", "singbox+app-proxy-service"} ->
         StopService(o)
    [] e = "singbox-tun" -> UNION {StopTun(s) : s \in StopService(o)}
    [] e \in {"singbox", "singbox+app-proxy"} -> {o}
    [] OTHER -> StopTun(StopXray(o))

StopPrevious(t) ==
  /\ Step(t, "stop")
  /\ os' \in StopEngine(mem.engine, StopSingbox(os))
  /\ Goto(t, "restore") /\ UNCHANGED <<mem, loc>> /\ Locked

\* mutant: the mode is named after what has been done
ModeLeftCleared(r) == IF r.proxy = "clear" THEN "cleared" ELSE r.proxy

\* the proxy mode still to be applied when the engine runs
ModeLeft(r) == IF r.proxy = "clear" \/ NeedsRawTunPath(r) THEN "unchanged" ELSE r.proxy

\* the previous proxy is given back; "clear" and a tun request leave it alone then
RestorePrevious(t) ==
  /\ Step(t, "restore")
  /\ LET r == loc[t].req
     IN /\ os' \in IF r.proxy = "clear" THEN RepairStale(os) ELSE RestoreIfOwned(mem, os)
        /\ loc' = [loc EXCEPT ![t].req.proxy = ModeLeft(r)]
  /\ mem' = [mem EXCEPT !.managed = FALSE]
  /\ Goto(t, "ports") /\ Locked

Branch(r) == IF ~r.tun THEN "start"
             ELSE IF Windows THEN "service_start"
             ELSE IF r.engine = "xray" THEN "start" ELSE "bridge"

\* a bridge that outlived the stop is asked once more
RetryStop(e, o) == IF e \in {NoEngine, "xray+tun", "singbox-tun"} THEN StopTun(o) ELSE {o}

\* ports a user process holds are replaced, ports of an old engine are freed
FreePorts(t) ==
  /\ Step(t, "ports")
  /\ \E freed \in {{}, os.orphans} :
       os' \in RetryStop(mem.engine, [os EXCEPT !.orphans = @ \ freed])
  /\ UNCHANGED mem
  /\ \/ /\ Goto(t, Branch(loc[t].req)) /\ Locked
        /\ loc' = [loc EXCEPT ![t].ret = IF loc[t].req.tun THEN "tun" ELSE "rules"]
     \/ Windows /\ ~loc[t].req.tun /\ Fail(t)

-----------------------------------------------------------------------------
(* Engines that belong to the application.                                   *)

\* start_xray: replaces the tracked child; one that exits at once is forgotten
StartXray(o) ==
  {[ok |-> TRUE, os |-> [o EXCEPT !.local = @ \cup {"xray"}]],
   [ok |-> FALSE, os |-> StopXray(o)]}

\* start_singbox: a process, or the embedded library when that fails
StartSingbox(o) ==
  {[ok |-> TRUE, os |-> [o EXCEPT !.local = @ \cup {"singbox"}]],
   [ok |-> FALSE, os |-> StopSingbox(o)]}

StartOwn(t, outcomes) ==
  /\ Step(t, "start")
  /\ \E s \in outcomes :
       /\ os' = s.os
       /\ IF s.ok THEN Goto(t, "wait_port") /\ UNCHANGED loc /\ Locked ELSE Fail(t)
  /\ UNCHANGED mem

\* the branch of vpn_connect_direct that t is in
At(t, label, ret, e) == pc[t] = label /\ loc[t].ret = ret /\ loc[t].req.engine = e

StartXrayBridged(t) == At(t, "start", "tun", "xray") /\ StartOwn(t, StartXray(os))
StartXrayProxy(t) == At(t, "start", "rules", "xray") /\ StartOwn(t, StartXray(os))
StartSingboxProxy(t) == At(t, "start", "rules", "singbox") /\ StartOwn(t, StartSingbox(os))

StopOwn(e, o) == IF e = "xray" THEN StopXray(o) ELSE StopSingbox(o)

\* mutant: a port that does not open leaves the engine running
WaitPortLeaves(t, e, next) ==
  /\ Step(t, "wait_port") /\ UNCHANGED <<mem, os>>
  /\ \/ e \in os.local /\ Goto(t, next) /\ UNCHANGED loc /\ Locked
     \/ Fail(t)

\* wait_for_port_ready: a port that does not open ends the connect and the engine
WaitPort(t, e, next) ==
  /\ Step(t, "wait_port") /\ UNCHANGED mem
  /\ \/ e \in os.local /\ UNCHANGED <<os, loc>> /\ Locked /\ Goto(t, next)
     \/ os' = StopOwn(e, os) /\ Fail(t)

WaitXrayBridged(t) == At(t, "wait_port", "tun", "xray") /\ WaitPort(t, "xray", "bridge")
WaitXrayProxy(t) == At(t, "wait_port", "rules", "xray") /\ WaitPort(t, "xray", "commit_local")
WaitSingboxProxy(t) ==
  At(t, "wait_port", "rules", "singbox") /\ WaitPort(t, "singbox", "commit_local")

\* an engine with the system proxy: both mutexes stay locked from here on
CommitLocal(t) ==
  /\ Step(t, "commit_local") /\ guard = Nobody
  /\ mem' = [mem EXCEPT !.connected = TRUE, !.engine = loc[t].req.engine]
  /\ guard' = t /\ Goto(t, "apply_proxy")
  /\ UNCHANGED <<os, loc, queue>> /\ Alone

\* apply_system_proxy_mode; "set" is an error on macOS
ProxyOutcomes(mode) ==
  IF mode # "set" THEN {"unchanged"}
  ELSE IF Windows THEN {"set"} \cup (IF "proxy_error" \in Inputs THEN {"error"} ELSE {})
  ELSE {"error"}

\* an error stops the engine and then locks CONNECTION_STATE, which this thread holds
ApplyProxy(t, stopped) ==
  /\ Step(t, "apply_proxy")
  /\ \E outcome \in ProxyOutcomes(loc[t].req.proxy) :
       /\ Goto(t, IF outcome = "error" THEN "stuck" ELSE "rules")
       /\ os' \in CASE outcome = "set" -> {TakeOver(os)}
                    [] outcome = "error" -> IF Windows THEN ApplyFails(stopped) ELSE {stopped}
                    [] OTHER -> {os}
       /\ mem' = [mem EXCEPT !.managed = outcome = "set" \/ @]
  /\ UNCHANGED loc /\ Locked

ApplyXrayProxy(t) == At(t, "apply_proxy", "rules", "xray") /\ ApplyProxy(t, StopXray(os))
ApplySingboxProxy(t) ==
  At(t, "apply_proxy", "rules", "singbox") /\ ApplyProxy(t, StopSingbox(os))

\* application rules need a TUN bridge beside the proxy; a running one is kept
AppRules(t, name) ==
  /\ Step(t, "rules")
  /\ UNCHANGED os
  /\ IF ~loc[t].req.rules
     THEN Succeed(t) /\ UNCHANGED mem
     ELSE IF Windows
     THEN Goto(t, "service_start") /\ UNCHANGED <<mem, loc>> /\ Locked
     ELSE IF os.bridge
     THEN mem' = [mem EXCEPT !.engine = name] /\ Succeed(t)
     ELSE Goto(t, "bridge") /\ UNCHANGED <<mem, loc>> /\ Locked

XrayAppRules(t) == At(t, "rules", "rules", "xray") /\ AppRules(t, "xray+app-proxy")
SingboxAppRules(t) == At(t, "rules", "rules", "singbox") /\ AppRules(t, "singbox+app-proxy")

\* start_tun_elevated for app rules: its failure leaves a plain proxy connection
AppBridge(t, name) ==
  /\ Step(t, "bridge")
  /\ \E s \in StartBridge(os) :
       /\ os' = s.os
       /\ mem' = IF s.ok THEN [mem EXCEPT !.engine = name] ELSE mem
  /\ Succeed(t)

XrayAppBridge(t) == At(t, "bridge", "rules", "xray") /\ AppBridge(t, "xray+app-proxy")
SingboxAppBridge(t) ==
  At(t, "bridge", "rules", "singbox") /\ AppBridge(t, "singbox+app-proxy")

\* start_tun_elevated for the whole computer: its failure stops xray again
XrayTunBridge(t) ==
  /\ Step(t, "bridge") /\ At(t, "bridge", "tun", "xray")
  /\ \E s \in StartBridge(os) :
       IF s.ok THEN os' = s.os /\ Goto(t, "compat") /\ UNCHANGED loc /\ Locked
               ELSE os' = StopXray(s.os) /\ Fail(t)
  /\ UNCHANGED mem

SingboxTun(t) ==
  /\ Step(t, "bridge") /\ At(t, "bridge", "tun", "singbox")
  /\ \E s \in StartBridge(os) :
       /\ os' = s.os
       /\ IF s.ok THEN Goto(t, "compat") /\ UNCHANGED loc /\ Locked ELSE Fail(t)
  /\ UNCHANGED mem

-----------------------------------------------------------------------------
(* The tunnel service, as TunnelService abstracts it, and its client.        *)

\* tunnel_service_start up to the answer of StartTunnel
ServiceStart(t) ==
  /\ Step(t, "service_start")
  /\ \E s \in SendStart(os) :
       /\ os' = s.os
       /\ IF s.ok THEN Goto(t, "service_poll") /\ UNCHANGED loc /\ Locked ELSE Fail(t)
  /\ UNCHANGED mem

ServiceUp(t) ==
  IF loc[t].ret = "tun"
  THEN Goto(t, "compat") /\ UNCHANGED <<mem, loc>> /\ Locked
  ELSE /\ mem' = [mem EXCEPT !.engine = IF loc[t].req.engine = "xray"
                                       THEN "xray+app-proxy-service"
                                       ELSE "singbox+app-proxy-service"]
       /\ Succeed(t)

\* mutant: the poll loop has no deadline
ServicePollForever(t) ==
  /\ Step(t, "service_poll")
  /\ \/ mem.cancelled /\ os' \in StopService(os) /\ UNCHANGED mem /\ Fail(t)
     \/ ~mem.cancelled /\ os.svc = "Connected" /\ UNCHANGED os /\ ServiceUp(t)
     \/ /\ ~mem.cancelled /\ os.svc \in {"Failed", "Disconnected"}
        /\ UNCHANGED <<mem, os>> /\ Fail(t)

\* the poll loop of tunnel_service_start: a cancellation stops the service; giving
\* up after 90 seconds, or on an IPC error, leaves the start it asked for running
ServicePoll(t) ==
  /\ Step(t, "service_poll")
  /\ \/ mem.cancelled /\ os' \in StopService(os) /\ UNCHANGED mem /\ Fail(t)
     \/ ~mem.cancelled /\ os.svc = "Connected" /\ UNCHANGED os /\ ServiceUp(t)
     \/ /\ ~mem.cancelled /\ os.svc \in {"Failed", "Disconnected"} /\ ~os.transient
        /\ UNCHANGED <<mem, os>> /\ Fail(t)
     \/ /\ ~mem.cancelled /\ UNCHANGED mem /\ Fail(t)
        /\ os' = [os EXCEPT !.faulted = TRUE]

\* apply_compat_proxy_after_tun: raw TUN routing wants no proxy in force
CompatAfterTun(t) ==
  /\ Step(t, "compat")
  /\ os' \in RepairStale(os)
  /\ mem' = [mem EXCEPT !.managed = FALSE]
  /\ Goto(t, "commit_tun") /\ UNCHANGED loc /\ Locked

CommitTun(t, name) ==
  /\ Step(t, "commit_tun") /\ guard = Nobody
  /\ mem' = [mem EXCEPT !.connected = TRUE, !.engine = name]
  /\ UNCHANGED os /\ Succeed(t)

CommitXrayService(t) ==
  pc[t] = "commit_tun" /\ Windows /\ loc[t].req.engine = "xray" /\ CommitTun(t, "xray+tun-service")
CommitXrayTun(t) ==
  pc[t] = "commit_tun" /\ MacOS /\ loc[t].req.engine = "xray" /\ CommitTun(t, "xray+tun")
CommitSingboxTun(t) ==
  /\ pc[t] = "commit_tun" /\ loc[t].req.engine = "singbox"
  /\ CommitTun(t, IF Windows THEN "singbox-tun-service" ELSE "singbox-tun")

\* verify_connected_dataplane: no lock is held, and a failed probe disconnects
Verify(t) ==
  /\ up /\ pc[t] = "verify"
  /\ \/ Done(t) /\ UNCHANGED queue
     \/ Wait(t) /\ Goto(t, "disconnect") /\ UNCHANGED loc
  /\ UNCHANGED <<mem, os, guard>> /\ Alone

-----------------------------------------------------------------------------
(* vpn_disconnect and vpn_disconnect_direct.                                 *)

Disconnect(t) ==
  /\ up /\ pc[t] = "idle" /\ wish = "connect"
  /\ mem' = [mem EXCEPT !.cancelled = IF MacOS THEN @ ELSE TRUE]
  /\ Goto(t, "flagged") /\ wish' = "disconnect"
  /\ UNCHANGED <<platform, os, queue, guard, app, loc, connects>>

\* mutant: a disconnect that finds the lock busy does not wait for it
QueueDisconnectInFront(t) ==
  /\ up /\ pc[t] = "flagged"
  /\ queue' = <<t>> \o queue /\ Goto(t, "disconnect")
  /\ UNCHANGED <<mem, os, guard, loc>> /\ Alone

QueueDisconnect(t) ==
  /\ up /\ pc[t] = "flagged"
  /\ Wait(t) /\ Goto(t, IF AppStore THEN "ne_stop" ELSE "disconnect")
  /\ loc' = [loc EXCEPT ![t].ret = IF AppStore THEN "disconnect" ELSE @]
  /\ UNCHANGED <<mem, os, guard>> /\ Alone

HadTun(e) == e \notin {"xray", "singbox"}

\* all engines are stopped; a sweep by executable path is left behind
StopAll(t) ==
  /\ Step(t, "disconnect") /\ guard = Nobody
  /\ \E s \in StopService(StopXray(StopSingbox(os))) :
       \E r \in IF HadTun(mem.engine) THEN UNION {StopTun(x) : x \in StopTun(s)} ELSE {s} :
         os' = [r EXCEPT !.sweep = @ \/ Windows]
  /\ Goto(t, "return_proxy") /\ UNCHANGED <<mem, loc>> /\ Locked

ReturnProxy(t) ==
  /\ Step(t, "return_proxy")
  /\ os' \in RestoreIfOwned(mem, os) /\ mem' = [mem EXCEPT !.managed = FALSE]
  /\ Goto(t, "commit_down") /\ UNCHANGED loc /\ Locked

CommitDown(t) ==
  /\ Step(t, "commit_down") /\ guard = Nobody
  /\ mem' = [mem EXCEPT !.connected = FALSE, !.engine = NoEngine]
  /\ UNCHANGED os /\ Fail(t)

\* the detached thread kills every engine found in the installation directory
RunSweep ==
  /\ os.sweep /\ os' = [Sweep(os) EXCEPT !.sweep = FALSE]
  /\ UNCHANGED <<platform, mem, queue, guard, app, pc, loc, wish, connects>>
-----------------------------------------------------------------------------
(* The App Store build: the tunnel is a Network Extension.                   *)

ExtensionBegin(t) ==
  /\ Step(t, "connect") /\ AppStore
  /\ mem' = [mem EXCEPT !.cancelled = FALSE] /\ UNCHANGED os
  /\ Goto(t, "ne_start") /\ UNCHANGED loc /\ Locked

\* routing assets may be unavailable, the extension may refuse to start
ExtensionStart(t) ==
  /\ Step(t, "ne_start") /\ UNCHANGED mem
  /\ \/ UNCHANGED os /\ Fail(t)
     \/ os' = [os EXCEPT !.ne = "connecting"] /\ Goto(t, "ne_wait") /\ UNCHANGED loc /\ Locked
     \/ UNCHANGED os /\ Goto(t, "ne_stop") /\ loc' = [loc EXCEPT ![t].ret = "abort"] /\ Locked

\* wait_for_app_store_tunnel_connected: cancelled, connected, inactive or out of time
ExtensionWait(t) ==
  /\ Step(t, "ne_wait") /\ UNCHANGED <<mem, os>> /\ Locked
  /\ \/ ~mem.cancelled /\ os.ne = "connected" /\ Goto(t, "ne_verify") /\ UNCHANGED loc
     \/ Goto(t, "ne_stop") /\ loc' = [loc EXCEPT ![t].ret = "abort"]

\* two of three traffic probes must pass before the user cancels
ExtensionVerify(t) ==
  /\ Step(t, "ne_verify") /\ UNCHANGED os
  /\ \/ /\ mem' = [mem EXCEPT !.connected = TRUE, !.engine = "xray+network-extension"]
        /\ Fail(t)
     \/ /\ UNCHANGED mem /\ Locked
        /\ Goto(t, "ne_stop") /\ loc' = [loc EXCEPT ![t].ret = "teardown"]

\* wait_for_app_store_tunnel_disconnected: ask, then poll for five seconds
ExtensionStop(t) ==
  /\ Step(t, "ne_stop") /\ UNCHANGED mem
  /\ os' \in {[os EXCEPT !.ne = IF ExtensionActive(os) THEN "disconnecting" ELSE @]} \cup
             (IF Faulty THEN {[os EXCEPT !.faulted = TRUE]} ELSE {})
  /\ Goto(t, "ne_stopping") /\ UNCHANGED loc /\ Locked

\* a failed verification says disconnected whatever came of the stop
ExtensionStopped(t) ==
  /\ Step(t, "ne_stopping") /\ UNCHANGED os /\ Fail(t)
  /\ mem' = IF \/ loc[t].ret = "teardown"
               \/ loc[t].ret = "disconnect" /\ os.ne = "disconnected"
            THEN [mem EXCEPT !.connected = FALSE, !.engine = NoEngine] ELSE mem

-----------------------------------------------------------------------------
(* Commands beside the lock.                                                 *)

StatusActive == IF AppStore THEN ExtensionActive(os) ELSE Windows /\ ServiceActive(os)

Status(t) ==
  /\ "status" \in Inputs /\ up /\ pc[t] = "idle"
  /\ Goto(t, "status") /\ UNCHANGED <<mem, os, queue, guard, loc>> /\ Alone

\* what the service or the extension says is read first ...
StatusRead(t) ==
  /\ up /\ pc[t] = "status"
  /\ Goto(t, "status_write") /\ loc' = [loc EXCEPT ![t].active = StatusActive]
  /\ UNCHANGED <<mem, os, queue, guard>> /\ Alone

\* ... and written when CONNECTION_STATE can be locked
StatusWrite(t) ==
  /\ up /\ pc[t] = "status_write" /\ guard = Nobody
  /\ mem' = [mem EXCEPT !.connected = IF AppStore THEN loc[t].active ELSE loc[t].active \/ @]
  /\ Done(t) /\ UNCHANGED <<os, queue, guard>> /\ Alone

\* repair_active_tunnel_compatibility_proxy
RepairProxy(t) ==
  /\ "compat" \in Inputs /\ Windows /\ up /\ pc[t] = "idle" /\ os.svc = "Connected"
  /\ Goto(t, "compat_apply") /\ UNCHANGED <<mem, os, queue, guard, loc>> /\ Alone

RepairProxyApply(t) ==
  /\ up /\ pc[t] = "compat_apply"
  /\ \/ PortAlive(os) /\ os' = TakeOver(os) /\ Goto(t, "compat_managed") /\ UNCHANGED loc
     \/ UNCHANGED os /\ Done(t)
     \/ PortAlive(os) /\ os' \in ApplyFails(os) /\ Done(t)
  /\ UNCHANGED <<mem, queue, guard>> /\ Alone

RepairProxyManaged(t) ==
  /\ up /\ pc[t] = "compat_managed"
  /\ mem' = [mem EXCEPT !.managed = TRUE]
  /\ Done(t) /\ UNCHANGED <<os, queue, guard>> /\ Alone

\* repair_windows_runtime: an active service is kept, anything else is cleaned up
RepairRuntime(t) ==
  /\ "repair" \in Inputs /\ Windows /\ up /\ pc[t] = "idle"
  /\ Wait(t) /\ Goto(t, "repair") /\ UNCHANGED <<mem, os, guard, loc>> /\ Alone

RepairRuntimeState(t) ==
  /\ Step(t, "repair") /\ guard = Nobody
  /\ mem' = [mem EXCEPT !.connected = @ \/ ServiceActive(os)]
  /\ os' \in IF ServiceActive(os) THEN {os} ELSE RepairStale(os)
  /\ IF mem'.connected THEN Fail(t) ELSE Goto(t, "repair_down") /\ UNCHANGED loc /\ Locked

RepairRuntimeDown(t) ==
  /\ Step(t, "repair_down")
  /\ \E s \in StopService(os) : os' = Sweep(s)
  /\ UNCHANGED mem /\ Fail(t)

\* prepare_for_app_update
PrepareUpdate(t) ==
  /\ "update" \in Inputs /\ up /\ pc[t] = "idle"
  /\ Wait(t) /\ Goto(t, "update") /\ UNCHANGED <<mem, os, guard, loc>> /\ Alone

PrepareUpdateStop(t) ==
  /\ Step(t, "update")
  /\ \E s \in StopService(StopXray(StopSingbox(os))) :
       \E r \in StopTun(s) : os' \in RestoreIfOwned(mem, r)
  /\ mem' = [mem EXCEPT !.managed = FALSE] /\ Fail(t)

-----------------------------------------------------------------------------
(* The life of the process.                                                  *)

\* full_cleanup takes no lock, so a connect may go on beside it
Quit ==
  /\ "quit" \in Inputs /\ app = "running"
  /\ \E s \in StopService(StopXray(StopSingbox(os))) :
       \E r \in StopTun(s) :
         os' \in LET o == IF Windows THEN Sweep(r) ELSE r
                     x == IF AppStore /\ ExtensionActive(o) THEN [o EXCEPT !.ne = "disconnecting"] ELSE o
                 IN RestoreIfOwned(mem, x)
  /\ mem' = [mem EXCEPT !.managed = FALSE] /\ app' = "cleaned"
  /\ UNCHANGED <<platform, queue, guard, pc, loc, wish, connects>>

\* the process ends: engines it left running belong to nobody
Gone ==
  /\ app' = "down" /\ mem' = FreshMemory
  /\ os' = [os EXCEPT !.orphans = @ \cup os.local, !.local = {}]
  /\ queue' = << >> /\ guard' = Nobody
  /\ pc' = [t \in Threads |-> "idle"] /\ loc' = [t \in Threads |-> NoLocals]
  /\ UNCHANGED <<platform, wish, connects>>

\* full_cleanup ends by locking CONNECTION_STATE, then the process exits
Exit == app = "cleaned" /\ guard = Nobody /\ Gone
Crash == "restart" \in Inputs /\ up /\ Gone

\* run(): the guardian is an instance of the same executable and is terminated;
\* a service that is active is preserved with all it owns, else all is cleaned up
Start ==
  /\ "restart" \in Inputs /\ app = "down" /\ app' = "running"
  /\ \E kept \in IF Windows /\ ServiceActive(os) THEN {os}
                 ELSE UNION {StopTun(s) : s \in StopService(os)} :
       LET o == [kept EXCEPT !.guardian = @ /\ ~Windows,
                             !.dropped = @ \/ (Windows /\ kept.proxy = "app")]
       IN os' \in IF AppStore THEN {os}
                  ELSE IF Windows /\ ~ServiceActive(os) THEN RepairStale(Sweep(o)) ELSE {o}
  /\ wish' = "none"
  /\ UNCHANGED <<platform, mem, queue, guard, pc, loc, connects>>

-----------------------------------------------------------------------------
(* The environment.                                                          *)

External == UNCHANGED <<platform, mem, queue, guard, app, pc, loc, wish, connects>>

EngineExit ==
  /\ "engine_exit" \in Inputs /\ External
  /\ \E e \in os.local : os' = [os EXCEPT !.local = @ \ {e}]

\* a start passes through Disconnected while it replaces or repairs a runtime
ServiceStep ==
  /\ External
  /\ \/ os.svc = "Connecting" /\ os' \in {[os EXCEPT !.svc = "Connected", !.transient = FALSE],
                                          [os EXCEPT !.svc = "Failed", !.transient = FALSE],
                                          [os EXCEPT !.svc = "Disconnected", !.transient = TRUE]}
     \/ os.svc = "Disconnected" /\ os.transient
        /\ os' \in {[os EXCEPT !.svc = "Connecting", !.transient = FALSE],
                    [os EXCEPT !.svc = "Failed", !.transient = FALSE]}
     \/ os.late /\ os' = [os EXCEPT !.svc = "Connecting", !.late = FALSE]

ServiceFails ==
  /\ "service_exit" \in Inputs /\ os.svc = "Connected" /\ External
  /\ os' = [os EXCEPT !.svc = "Failed"]

ExtensionStep ==
  /\ External
  /\ \/ os.ne = "connecting" /\ os' \in {[os EXCEPT !.ne = s] : s \in {"connected", "disconnected"}}
     \/ os.ne = "disconnecting" /\ os' = [os EXCEPT !.ne = "disconnected"]

ExtensionDrops ==
  /\ "service_exit" \in Inputs /\ os.ne = "connected" /\ External
  /\ os' = [os EXCEPT !.ne = "disconnecting"]

\* the guardian returns a proxy whose owner or port is gone
GuardianHeals ==
  /\ os.guardian /\ (~up \/ ~PortAlive(os)) /\ External
  /\ os' = GiveBack(os)

Init ==
  /\ platform \in Platforms
  /\ mem = FreshMemory
  /\ os = [local |-> {}, orphans |-> {}, bridge |-> FALSE,
           svc |-> "Disconnected", transient |-> FALSE, late |-> FALSE,
           ne |-> "disconnected", proxy |-> "user", guardian |-> FALSE,
           dropped |-> FALSE, sweep |-> FALSE, faulted |-> FALSE]
  /\ queue = << >> /\ guard = Nobody /\ app = "running"
  /\ pc = [t \in Threads |-> "idle"] /\ loc = [t \in Threads |-> NoLocals]
  /\ wish = "none" /\ connects = 0

Call(t) ==
  \/ \E r \in Requests : Connect(t, r)
  \/ Disconnect(t) \/ Status(t) \/ RepairProxy(t) \/ RepairRuntime(t) \/ PrepareUpdate(t)

ConnectStep(t) ==
  \/ ConnectBegin(t) \/ StopPrevious(t) \/ RestorePrevious(t) \/ FreePorts(t)
  \/ StartXrayBridged(t) \/ StartXrayProxy(t) \/ StartSingboxProxy(t)
  \/ WaitXrayBridged(t) \/ WaitXrayProxy(t) \/ WaitSingboxProxy(t) \/ CommitLocal(t)
  \/ ApplyXrayProxy(t) \/ ApplySingboxProxy(t) \/ XrayAppRules(t) \/ SingboxAppRules(t)
  \/ XrayAppBridge(t) \/ SingboxAppBridge(t) \/ XrayTunBridge(t) \/ SingboxTun(t)
  \/ ServiceStart(t) \/ ServicePoll(t) \/ CompatAfterTun(t)
  \/ CommitXrayService(t) \/ CommitXrayTun(t) \/ CommitSingboxTun(t) \/ Verify(t)

DisconnectStep(t) == QueueDisconnect(t) \/ StopAll(t) \/ ReturnProxy(t) \/ CommitDown(t)

ExtensionCommand(t) ==
  ExtensionBegin(t) \/ ExtensionStart(t) \/ ExtensionWait(t) \/ ExtensionVerify(t)
  \/ ExtensionStop(t) \/ ExtensionStopped(t)

BesideStep(t) ==
  \/ StatusRead(t) \/ StatusWrite(t) \/ RepairProxyApply(t) \/ RepairProxyManaged(t)
  \/ RepairRuntimeState(t) \/ RepairRuntimeDown(t) \/ PrepareUpdateStop(t)

Progress(t) == ConnectStep(t) \/ DisconnectStep(t) \/ ExtensionCommand(t) \/ BesideStep(t)

System == RunSweep \/ Quit \/ Exit \/ Crash \/ Start \/ EngineExit \/ ServiceStep
          \/ ServiceFails \/ ExtensionStep \/ ExtensionDrops \/ GuardianHeals

Next == System \/ \E t \in Threads : Call(t) \/ Progress(t)

Spec == Init /\ [][Next]_vars

\* every thread is scheduled; nothing is promised of the service or the user
FairSpec == Spec /\ \A t \in Threads : WF_vars(Progress(t))

-----------------------------------------------------------------------------
(* Properties.                                                               *)

\* The variables keep their types.
TypeOK ==
  /\ platform \in Platforms
  /\ mem \in [connected : BOOLEAN, engine : Engines, managed : BOOLEAN, cancelled : BOOLEAN]
  /\ os \in [local : SUBSET LocalEngines, orphans : SUBSET LocalEngines, bridge : BOOLEAN,
             svc : ServiceStates, transient : BOOLEAN, late : BOOLEAN,
             ne : ExtensionStates, proxy : {"user", "app"}, guardian : BOOLEAN,
             dropped : BOOLEAN, sweep : BOOLEAN, faulted : BOOLEAN]
  /\ queue \in Seq(Threads) /\ guard \in Threads \cup {Nobody}
  /\ app \in {"running", "cleaned", "down"}
  /\ pc \in [Threads -> Labels]
  /\ loc \in [Threads -> [req : Requests \cup {NoRequest} \cup
                                [engine : {"xray", "singbox"}, tun : BOOLEAN,
                                 proxy : {"set", "clear", "unchanged"}, rules : BOOLEAN],
                          ret : Returns, active : BOOLEAN]]
  /\ wish \in {"none", "connect", "disconnect"} /\ connects \in 0 .. MaxConnects

Rest == app = "running" /\ \A t \in Threads : pc[t] = "idle"

NamesXray(e) == e \in {"xray", "xray+tun", "xray+app-proxy", "xray+app-proxy-service"}
NamesSingbox(e) == e \in {"singbox", "singbox+app-proxy", "singbox+app-proxy-service"}

\* Between commands an engine of the application runs only under an ACTIVE_ENGINE that
\* names it: the next connect stops what that name says, so an engine it does not name
\* would keep its ports (lib.rs:6988, the match on the previous engine).
EnginesAreNamed ==
  Rest => \A e \in os.local : IF e = "xray" THEN NamesXray(mem.engine) ELSE NamesSingbox(mem.engine)

\* Two engines of the application never run side by side, whatever sequence of connects,
\* failures and disconnects led there: they listen on the same ports.
OneLocalEngine == Cardinality(os.local) <= 1

\* When the last thing the user asked for was a disconnect and everything has come to
\* rest, nothing of any connection runs - also when the disconnect overtook a connect,
\* a probe or a cancelled start - unless a stop was refused or a start was left behind.
DisconnectWins ==
  Rest /\ wish = "disconnect" /\ ~os.faulted =>
    os.local = {} /\ ~ServiceActive(os) /\ ~ExtensionActive(os)

\* Between commands a proxy in force is one the application knows that it manages:
\* whichever commands were cancelled, refused or overtaken on the way, the next connect,
\* disconnect, update or quit gives the user's settings back (lib.rs:1763,
\* SYSTEM_PROXY_MANAGED). The exceptions are the three ways in which the code itself lets
\* go of a proxy in force (os.dropped): a start that preserves an active service clears
\* what its predecessor knew, a restore that failed is taken for one that worked
\* (lib.rs:1774), and an apply that failed may have put its value in force.
ProxyIsTracked == Rest /\ os.proxy = "app" => mem.managed \/ os.dropped

\* Every command is answered: no order of cancels, failing starts, polls and status
\* calls leaves one waiting for ever for the lock or for the service, unless a thread has
\* locked itself out: that is what an error of apply_system_proxy_mode does (lib.rs:7389).
CallsAreAnsweredUnlessWedged ==
  \A t \in Threads : pc[t] # "idle" ~> pc[t] = "idle" \/ \E u \in Threads : pc[u] = "stuck"

-----------------------------------------------------------------------------
(* What the repository says of the program and the code does not do.         *)

\* docs/solved-errors.md:281 and lib.rs:7961: the sweep is for engines "the app spawned
\* directly and lost track of"; an engine that the application tracks survives it.
SweepSparesTracked == [][os.sweep /\ ~os'.sweep => os.local \subseteq os'.local]_vars
=============================================================================
