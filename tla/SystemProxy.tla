---------------------------- MODULE SystemProxy ----------------------------
(***************************************************************************)
(* The owner of the Windows (WinINet) proxy setting: sysproxy.rs.          *)
(*                                                                         *)
(* DoodleRay borrows the user's proxy setting: it saves the user's values  *)
(* in a file, writes its own, and gives the user's back later.  What makes *)
(* this hard is that the values are written one by one, that the process   *)
(* writing them can die between any two of them, and that three parties    *)
(* write: the application, a detached guardian process, and the user or    *)
(* another program.                                                        *)
(*                                                                         *)
(* Every entry point works under a named Windows mutex, which the system   *)
(* releases when its holder dies.  job is what the holder of the mutex is  *)
(* doing: it reads and decides when it begins, then writes step by step.   *)
(***************************************************************************)
EXTENDS Integers

CONSTANTS
    Ports,          \* the HTTP ports DoodleRay uses
    DefaultPort,    \* DEFAULT_PROXY_PORT
    Foreign,        \* values of ProxyServer that are not DoodleRay's
    NoServer,       \* ProxyServer absent or empty
    LegacyServer,   \* the protocol map that old versions of DoodleRay wrote
    UserRests,      \* the other registry values, as users set them
    UserSettings,   \* the settings a user may choose
    NoPort, NoFile,
    MaxStarts,      \* bounds the starts of the application
    MaxTokens,      \* bounds the applications of the proxy
    MaxFaults,      \* bounds the failed writes and torn operations
    GuardianTicks,  \* iterations of the guardian, 3600 in the code
    UserRaces       \* may the user change the settings during an operation

\* ProxyServer is "127.0.0.1:<port>" when it is DoodleRay's: here, the port.
Servers == Ports \cup Foreign \cup {NoServer, LegacyServer}

\* ProxyOverride, AutoConfigURL, AutoDetect, ProxyHttp1.1 and the connection
\* blobs, taken together: DoodleRay's own, those of an old version, what is left
\* when ProxyOverride is deleted, or the user's.
OwnRest    == "doodleray"
LegacyRest == "gameBypass"
ClearRest  == "noOverride"
Rests == UserRests \cup {OwnRest, LegacyRest, ClearRest}

Settings == [enable : BOOLEAN, server : Servers, rest : Rests]

\* What an old version left behind, and what its repair makes of it.
Legacy  == [enable : BOOLEAN, server : {LegacyServer}, rest : {LegacyRest}]
Cleaned == [enable |-> FALSE, server |-> NoServer, rest |-> ClearRest]

\* One process id per start of the application, one owner token per apply.
Pids    == 1 .. MaxStarts
Tokens  == 1 .. MaxTokens
NoToken == 0

\* A guardian that was never started, or was killed; one that ends has 0 left.
Absent == -1

\* ProxyStateFile
StateFiles == [token : Tokens, owner : Pids, previous : Settings, port : Ports]

ASSUME ConstantsAssumption ==
    /\ DefaultPort \in Ports
    /\ Ports \cap (Foreign \cup {NoServer, LegacyServer, NoPort}) = {}
    /\ Foreign \cap {NoServer, LegacyServer} = {}
    /\ NoServer # LegacyServer
    /\ UserRests \cap {OwnRest, LegacyRest, ClearRest} = {}
    /\ UserSettings \subseteq
           [enable : BOOLEAN, server : Foreign \cup {NoServer}, rest : UserRests]
    /\ NoFile \notin StateFiles
    /\ MaxStarts \in Nat /\ MaxTokens \in Nat /\ MaxFaults \in Nat
    /\ GuardianTicks \in Nat \ {0}
    /\ UserRaces \in BOOLEAN

VARIABLES
    settings,   \* the registry values of Internet Settings
    file,       \* state.json
    marker,     \* the key Software\DoodleRay\SystemProxy
    job,        \* the holder of the mutex and where it is in its operation
    up,         \* is the application running
    pid,        \* the process id of the last application started, 0 before
    starting,   \* is it still to call recover_orphaned_proxy_on_startup
    pending,    \* the port of an apply that has passed its readiness check
    listening,  \* the ports on which an engine accepts connections
    guardian,   \* the iterations left to the guardian of each token
    issued,     \* the number of tokens issued
    faults,     \* failed writes and torn operations so far
    torn,       \* the kinds of operations cut short so far
    chosen      \* what the user, or another program, set last

appVars == <<up, pid, starting, pending>>
ghostVars == <<faults, torn, chosen>>
vars == <<settings, file, marker, job, up, pid, starting, pending, listening,
          guardian, issued, faults, torn, chosen>>

(***************************************************************************)
(* The holder of the mutex.  by is 0 for the application and t for the     *)
(* guardian of token t; state is the ProxyStateFile applied or restored.   *)
(* apply and restore write their values twice, before and after Windows is *)
(* notified; again says that the second round has begun.                   *)
(***************************************************************************)
App  == 0
Free == job.at = "idle"
IdleJob == [by |-> App, kind |-> "none", at |-> "idle",
            again |-> FALSE, state |-> NoFile]

Begin(by, kind, at, state) ==
    /\ Free
    /\ job' = [by |-> by, kind |-> kind, at |-> at, again |-> FALSE,
               state |-> state]

At(step) == job.at = step
Goto(step) == job' = [job EXCEPT !.at = step]
Repeat(step) == job' = [job EXCEPT !.at = step, !.again = TRUE]

\* The operation returns, and the mutex is released.  A guardian exits, and the
\* application's first operation ends its start.
Return ==
    /\ job' = IdleJob
    /\ guardian' = IF job.by = App THEN guardian
                   ELSE [guardian EXCEPT ![job.by] = 0]
    /\ starting' = (starting /\ job.by # App)

Continue == UNCHANGED <<guardian, starting>>

(***************************************************************************)
(* classify_current_proxy: does the current setting look like DoodleRay's? *)
(***************************************************************************)
HasStateMatch == file # NoFile /\ settings.server = file.port

HasMarker ==
    \/ marker.server # NoServer /\ marker.server = settings.server
    \/ marker.token # NoToken /\ (file # NoFile => marker.token = file.token)

Ownership ==
    IF HasStateMatch \/ (settings.server = DefaultPort /\ HasMarker)
    THEN "current"
    ELSE IF settings.server = LegacyServer
            /\ (HasMarker \/ settings.rest = LegacyRest)
    THEN "legacy"
    ELSE "notDoodleRay"

OwnerAlive == up /\ file.owner = pid

(***************************************************************************)
(* Initial states: the user's settings, or what an old version left.       *)
(***************************************************************************)
Init ==
    /\ \/ settings \in UserSettings /\ chosen = settings
       \/ settings \in Legacy /\ chosen = Cleaned
    /\ file = NoFile
    /\ marker = [token |-> NoToken, server |-> NoServer]
    /\ job = IdleJob
    /\ up = FALSE /\ pid = 0 /\ starting = FALSE /\ pending = NoPort
    /\ listening = {}
    /\ guardian = [t \in Tokens |-> Absent]
    /\ issued = 0 /\ faults = 0 /\ torn = {}

(***************************************************************************)
(* The entry points: acquire the mutex, read, decide.                      *)
(***************************************************************************)

\* apply_doodleray_proxy waits for the port before it takes the mutex.
CheckPort(p) ==
    /\ up /\ ~starting
    /\ p \in listening
    /\ pending' = p
    /\ UNCHANGED <<settings, file, marker, job, up, pid, starting, listening,
                   guardian, issued, ghostVars>>

\* mutant: the values in force are saved anew at every apply
ApplyCaptures ==
    /\ up /\ pending # NoPort /\ issued < MaxTokens
    /\ issued' = issued + 1
    /\ pending' = NoPort
    /\ Begin(App, "apply", "writeFile",
             [token |-> issued + 1, owner |-> pid, port |-> pending,
              previous |-> settings])
    /\ UNCHANGED <<settings, file, marker, up, pid, starting, listening,
                   guardian, ghostVars>>

\* The saved values are kept while the current setting is still DoodleRay's,
\* and captured anew otherwise.  The kind "switch" marks an apply that moves
\* a setting which is DoodleRay's already to another port.
Apply ==
    LET keep == file # NoFile /\ Ownership = "current"
    IN  /\ up /\ pending # NoPort /\ issued < MaxTokens
        /\ issued' = issued + 1
        /\ pending' = NoPort
        /\ Begin(App,
                 IF keep /\ file.port # pending THEN "switch" ELSE "apply",
                 "writeFile",
                 [token |-> issued + 1, owner |-> pid, port |-> pending,
                  previous |-> IF keep THEN file.previous ELSE settings])
        /\ UNCHANGED <<settings, file, marker, up, pid, starting, listening,
                       guardian, ghostVars>>

\* mutant: what the user changed meanwhile is overwritten
GiveBackAlways(by) == Begin(by, "restore", "oldEnable", file)

\* mutant: the saved values are dropped before they are back in force
GiveBackDropsFirst(by) ==
    IF Ownership = "notDoodleRay"
    THEN Begin(by, "drop", "removeFile", NoFile)
    ELSE Begin(by, "restore", "removeFile", file)

\* The common part of restore, repair, recovery and the guardian: a setting that
\* is no longer DoodleRay's is left alone, and the saved values are dropped.
GiveBack(by) ==
    IF Ownership = "notDoodleRay"
    THEN Begin(by, "drop", "removeFile", NoFile)
    ELSE Begin(by, "restore", "oldEnable", file)

\* restore_previous_proxy_state
Restore ==
    /\ up /\ ~starting
    /\ IF file = NoFile
       THEN Begin(App, "unmark", "unmarkToken", NoFile)
       ELSE GiveBack(App)
    /\ UNCHANGED <<settings, file, marker, appVars, listening, guardian, issued,
                   ghostVars>>

\* repair_stale_doodleray_proxy_only
Repair ==
    /\ up /\ ~starting
    /\ IF file # NoFile
       THEN GiveBack(App)
       ELSE IF Ownership = "notDoodleRay"
       THEN Begin(App, "unmark", "unmarkToken", NoFile)
       ELSE Begin(App, "clean", "disable", NoFile)
    /\ UNCHANGED <<settings, file, marker, appVars, listening, guardian, issued,
                   ghostVars>>

\* mutant: a port that answers is taken for an owner that lives
AbandonedByPort == Ownership = "notDoodleRay" \/ file.port \notin listening

\* The setting was changed, or its owner or the port has gone.
Abandoned ==
    \/ Ownership = "notDoodleRay"
    \/ ~OwnerAlive
    \/ file.port \notin listening

\* recover_orphaned_proxy_on_startup; without a file, it repairs what
\* detect_stale_doodleray_proxy finds.
Recover ==
    /\ up /\ starting
    /\ IF \/ file # NoFile /\ ~Abandoned
          \/ file = NoFile /\ Ownership = "notDoodleRay"
       THEN Free /\ starting' = FALSE /\ UNCHANGED job
       ELSE /\ UNCHANGED starting
            /\ IF file # NoFile
               THEN GiveBack(App)
               ELSE Begin(App, "clean", "disable", NoFile)
    /\ UNCHANGED <<settings, file, marker, up, pid, pending, listening, guardian,
                   issued, ghostVars>>

(***************************************************************************)
(* run_proxy_guardian: one iteration of the loop, once a second.           *)
(***************************************************************************)

\* mutant: a guardian that has ended, or never began, goes on
WatchesForever(t) == Free

Watches(t) == guardian[t] > 0 /\ Free

\* Another apply, or a restore, has taken over.
GuardianLeaves(t) ==
    /\ Watches(t)
    /\ file # NoFile => file.token # t
    /\ guardian' = [guardian EXCEPT ![t] = 0]
    /\ UNCHANGED <<settings, file, marker, job, appVars, listening, issued,
                   ghostVars>>

GuardianActs(t) ==
    /\ Watches(t)
    /\ file # NoFile /\ file.token = t
    /\ Abandoned
    /\ GiveBack(t)
    /\ UNCHANGED <<settings, file, marker, appVars, listening, guardian, issued,
                   ghostVars>>

\* All is well: one iteration less.
GuardianWaits(t) ==
    /\ Watches(t)
    /\ file # NoFile /\ file.token = t
    /\ ~Abandoned
    /\ guardian' = [guardian EXCEPT ![t] = @ - 1]
    /\ UNCHANGED <<settings, file, marker, job, appVars, listening, issued,
                   ghostVars>>

Guardian(t) == GuardianLeaves(t) \/ GuardianActs(t) \/ GuardianWaits(t)

(***************************************************************************)
(* The writes of apply_doodleray_proxy.                                    *)
(***************************************************************************)
WriteFile ==
    /\ At("writeFile")
    /\ file' = job.state
    /\ Goto("enable") /\ Continue
    /\ UNCHANGED <<settings, marker, up, pid, pending, listening, issued, ghostVars>>

SetEnable ==
    /\ At("enable")
    /\ settings' = [settings EXCEPT !.enable = TRUE]
    /\ Goto("server") /\ Continue
    /\ UNCHANGED <<file, marker, up, pid, pending, listening, issued, ghostVars>>

SetServer ==
    /\ At("server")
    /\ settings' = [settings EXCEPT !.server = job.state.port]
    /\ Goto("rest") /\ Continue
    /\ UNCHANGED <<file, marker, up, pid, pending, listening, issued, ghostVars>>

SetRest ==
    /\ At("rest")
    /\ settings' = [settings EXCEPT !.rest = OwnRest]
    /\ Goto(IF job.again THEN "spawn" ELSE "markToken") /\ Continue
    /\ UNCHANGED <<file, marker, up, pid, pending, listening, issued, ghostVars>>

\* write_marker
MarkToken ==
    /\ At("markToken")
    /\ marker' = [marker EXCEPT !.token = job.state.token]
    /\ Goto("markServer") /\ Continue
    /\ UNCHANGED <<settings, file, up, pid, pending, listening, issued, ghostVars>>

\* Then Windows is notified, and reassert_applied_proxy_flags writes again.
MarkServer ==
    /\ At("markServer")
    /\ marker' = [marker EXCEPT !.server = job.state.port]
    /\ Repeat("enable") /\ Continue
    /\ UNCHANGED <<settings, file, up, pid, pending, listening, issued, ghostVars>>

\* spawn_proxy_guardian ignores a failure, and can be disabled.
SpawnGuardian ==
    /\ At("spawn")
    /\ \E ticks \in {Absent, GuardianTicks} :
           guardian' = [guardian EXCEPT ![job.state.token] = ticks]
    /\ job' = IdleJob
    /\ UNCHANGED <<settings, file, marker, appVars, listening, issued, ghostVars>>

(***************************************************************************)
(* The writes of restore_snapshot, of remove_state_file, clear_marker_key, *)
(* and of the cleaning of values an old version left.                      *)
(***************************************************************************)
RestoreEnable ==
    /\ At("oldEnable")
    /\ settings' = [settings EXCEPT !.enable = job.state.previous.enable]
    /\ Goto("oldServer") /\ Continue
    /\ UNCHANGED <<file, marker, up, pid, pending, listening, issued, ghostVars>>

RestoreServer ==
    /\ At("oldServer")
    /\ settings' = [settings EXCEPT !.server = job.state.previous.server]
    /\ Goto("oldRest") /\ Continue
    /\ UNCHANGED <<file, marker, up, pid, pending, listening, issued, ghostVars>>

RestoreRest ==
    /\ At("oldRest")
    /\ settings' = [settings EXCEPT !.rest = job.state.previous.rest]
    /\ IF job.again THEN Return ELSE Goto("removeFile") /\ Continue
    /\ UNCHANGED <<file, marker, up, pid, pending, listening, issued, ghostVars>>

RemoveFile ==
    /\ At("removeFile")
    /\ file' = NoFile
    /\ Goto("unmarkToken") /\ Continue
    /\ UNCHANGED <<settings, marker, up, pid, pending, listening, issued, ghostVars>>

UnmarkToken ==
    /\ At("unmarkToken")
    /\ marker' = [marker EXCEPT !.token = NoToken]
    /\ Goto("unmarkServer") /\ Continue
    /\ UNCHANGED <<settings, file, up, pid, pending, listening, issued, ghostVars>>

\* A restore notifies Windows and writes the saved values again.
UnmarkServer ==
    /\ At("unmarkServer")
    /\ marker' = [marker EXCEPT !.server = NoServer]
    /\ IF job.kind = "restore" THEN Repeat("oldEnable") /\ Continue ELSE Return
    /\ UNCHANGED <<settings, file, up, pid, pending, listening, issued, ghostVars>>

Disable ==
    /\ At("disable")
    /\ settings' = [settings EXCEPT !.enable = FALSE]
    /\ Goto("noServer") /\ Continue
    /\ UNCHANGED <<file, marker, up, pid, pending, listening, issued, ghostVars>>

DeleteServer ==
    /\ At("noServer")
    /\ settings' = [settings EXCEPT !.server = NoServer]
    /\ Goto("noOverride") /\ Continue
    /\ UNCHANGED <<file, marker, up, pid, pending, listening, issued, ghostVars>>

DeleteOverride ==
    /\ At("noOverride")
    /\ settings' = [settings EXCEPT !.rest = ClearRest]
    /\ Goto("unmarkToken") /\ Continue
    /\ UNCHANGED <<file, marker, up, pid, pending, listening, issued, ghostVars>>

Write ==
    \/ WriteFile \/ SetEnable \/ SetServer \/ SetRest
    \/ MarkToken \/ MarkServer \/ SpawnGuardian
    \/ RestoreEnable \/ RestoreServer \/ RestoreRest
    \/ RemoveFile \/ UnmarkToken \/ UnmarkServer
    \/ Disable \/ DeleteServer \/ DeleteOverride

(***************************************************************************)
(* Failures, and the rest of the world.                                    *)
(***************************************************************************)

\* The holder of the mutex does not finish.
Tear ==
    /\ faults < MaxFaults
    /\ faults' = faults + 1
    /\ torn' = torn \cup {job.kind}
    /\ job' = IdleJob

Spare == UNCHANGED <<job, faults, torn>>

\* A write the code tests fails, and the operation returns its error at once; a
\* guardian goes on to its next iteration.
WriteFails ==
    /\ job.at \in {"writeFile", "enable", "server", "rest", "markToken",
                   "markServer", "oldEnable", "oldServer", "oldRest", "disable"}
    /\ Tear
    /\ guardian' = IF job.by = App THEN guardian
                   ELSE [guardian EXCEPT ![job.by] = @ - 1]
    /\ starting' = (starting /\ job.by # App)
    /\ UNCHANGED <<settings, file, marker, up, pid, pending, listening, issued,
                   chosen>>

KillGuardians ==
    guardian' = [t \in Tokens |-> IF guardian[t] > 0 THEN Absent ELSE guardian[t]]

\* terminate_other_doodleray_app_instances stops every process of the same
\* executable, guardians included, if its script works.  The recovery is left
\* out when the tunnel service reports an active tunnel.
StartApp ==
    /\ ~up /\ pid < MaxStarts
    /\ up' = TRUE
    /\ pid' = pid + 1
    /\ starting' \in BOOLEAN
    /\ \/ /\ KillGuardians
          /\ IF Free THEN Spare ELSE Tear
       \/ UNCHANGED guardian /\ Spare
    /\ UNCHANGED <<settings, file, marker, pending, listening, issued, chosen>>

\* The application crashes, or exits.
StopApp ==
    /\ up
    /\ up' = FALSE
    /\ starting' = FALSE
    /\ pending' = NoPort
    /\ IF Free \/ job.by # App THEN Spare ELSE Tear
    /\ UNCHANGED <<settings, file, marker, pid, listening, guardian, issued, chosen>>

\* The user signs out, or the computer stops: every process ends.
Reboot ==
    /\ up' = FALSE /\ starting' = FALSE /\ pending' = NoPort
    /\ listening' = {}
    /\ KillGuardians
    /\ IF Free THEN Spare ELSE Tear
    /\ UNCHANGED <<settings, file, marker, pid, issued, chosen>>

\* An engine opens or closes its port.
PortChanges(p) ==
    /\ listening' = IF p \in listening THEN listening \ {p} ELSE listening \cup {p}
    /\ UNCHANGED <<settings, file, marker, job, appVars, guardian, issued, ghostVars>>

\* The user, or another program, changes the settings.
UserChooses(s) ==
    /\ UserRaces \/ Free
    /\ settings' = s
    /\ chosen' = s
    /\ UNCHANGED <<file, marker, job, appVars, listening, guardian, issued, faults,
                   torn>>

Next ==
    \/ \E p \in Ports : CheckPort(p)
    \/ Apply \/ Restore \/ Repair \/ Recover
    \/ \E t \in Tokens : GuardianLeaves(t)
    \/ \E t \in Tokens : GuardianActs(t)
    \/ \E t \in Tokens : GuardianWaits(t)
    \/ Write
    \/ WriteFails \/ StartApp \/ StopApp \/ Reboot
    \/ \E p \in Ports : PortChanges(p)
    \/ \E s \in UserSettings : UserChooses(s)

Spec == Init /\ [][Next]_vars

\* The holder of the mutex goes on, and a guardian gets the mutex in its turn:
\* Windows serves the waiters of a mutex in order.
Fairness ==
    /\ WF_vars(Write)
    /\ \A t \in Tokens : SF_vars(Guardian(t))

FairSpec == Spec /\ Fairness

(***************************************************************************)
(* Type invariant.                                                         *)
(***************************************************************************)
Steps == {"idle", "writeFile", "enable", "server", "rest", "markToken",
          "markServer", "spawn", "oldEnable", "oldServer", "oldRest",
          "removeFile", "unmarkToken", "unmarkServer", "disable", "noServer",
          "noOverride"}
Kinds == {"none", "apply", "switch", "restore", "drop", "unmark", "clean"}

\* Every variable has a value the code can give it.
TypeOK ==
    /\ settings \in Settings
    /\ file \in StateFiles \cup {NoFile}
    /\ marker \in [token : Tokens \cup {NoToken}, server : Ports \cup {NoServer}]
    /\ job \in [by : Tokens \cup {App}, kind : Kinds, at : Steps, again : BOOLEAN,
                state : StateFiles \cup {NoFile}]
    /\ up \in BOOLEAN /\ pid \in 0 .. MaxStarts /\ starting \in BOOLEAN
    /\ pending \in Ports \cup {NoPort}
    /\ listening \subseteq Ports
    /\ guardian \in [Tokens -> {Absent} \cup 0 .. GuardianTicks]
    /\ issued \in 0 .. MaxTokens
    /\ faults \in 0 .. MaxFaults
    /\ torn \subseteq Kinds
    /\ chosen \in Settings

(***************************************************************************)
(* Properties.                                                             *)
(***************************************************************************)

\* A server that stands for what the user chose: the same one, or one that an
\* old version left where the user has none.
UsersServer(server) ==
    server = chosen.server \/ (server = LegacyServer /\ chosen = Cleaned)

\* The user's ProxyServer is never lost: it is in force, or it is in the file
\* while DoodleRay's is in force, whatever dies or fails between two writes.  The
\* exception is an apply to another port that is cut short (see NeverStranded).
ServerIsSafe ==
    \/ "switch" \in torn
    \/ UsersServer(settings.server)
    \/ /\ settings.server \in Ports
       /\ file # NoFile /\ UsersServer(file.previous.server)

\* What an old version left counts as no server.
AsUsers(server) == IF server = LegacyServer THEN NoServer ELSE server

\* The user's value: in force, or saved while DoodleRay's is in force.
UsersValue ==
    AsUsers(IF settings.server \notin Ports THEN settings.server
            ELSE IF file = NoFile THEN NoServer
            ELSE file.previous.server)

\* chosen is written by UserChooses alone.
Custody == INSTANCE ProxyCustody WITH
    Servers <- Foreign \cup {NoServer},
    Own     <- Ports,
    choice  <- chosen.server,
    user    <- UsersValue,
    inForce <- AsUsers(settings.server),
    running <- up,
    void    <- "switch" \in torn

\* The same promise as a state machine.  The user's ProxyServer changes in the step
\* in which the user chooses it, and in no other.  Only the application, while it
\* runs, puts DoodleRay's in force: not a guardian, nor a restore of what was saved
\* when it should not have been.  What replaces DoodleRay's is what the user chose.
KeepsCustody == Custody!Spec

\* When no operation was cut short, what the user chose comes back exactly, and
\* nothing the user chose is overwritten: with no operation running and nothing
\* saved, the settings are the user's, all values of them.
ReturnedExactly ==
    torn = {} /\ Free /\ file = NoFile =>
        settings = chosen \/ (settings \in Legacy /\ chosen = Cleaned)

\* DoodleRay's server is in force, and the application that set it has gone.
Orphaned == settings.server \in Ports /\ (file = NoFile \/ file.owner # pid)

\* A recovery at startup that runs to its end leaves no proxy of an application
\* that has gone, even if its port still answers because the service kept the tunnel.
RecoveryHeals ==
    [][ starting /\ ~starting' /\ up' /\ faults' = faults /\ "switch" \notin torn
        => ~Orphaned' ]_vars

\* A guardian that still runs gives the settings back after its owner has died,
\* provided that it has more iterations left than writes may fail, and is not killed.
GuardianHeals ==
    \A t \in Tokens :
        /\ file # NoFile /\ file.token = t /\ ~OwnerAlive
        /\ guardian[t] > MaxFaults - faults
        ~> \/ file = NoFile \/ file.token # t
           \/ guardian[t] = Absent

(***************************************************************************)
(* What the documents say, and the code does not do.                       *)
(***************************************************************************)

\* docs/proxy-win.md:706: after a crash of the application the guardian, unless
\* it was killed, gives the settings back.
CrashIsHealed ==
    \A t \in Tokens :
        /\ settings.server \in Ports /\ ~up
        /\ file # NoFile /\ file.token = t /\ guardian[t] # Absent
        ~> up \/ settings.server \notin Ports \/ guardian[t] = Absent

\* docs/proxy-win.md:706: after a crash of the application the guardian, or the
\* recovery at startup, gives the settings back.  So DoodleRay's server is never in
\* force without saved settings, which nothing could give back.
NeverStranded ==
    Free /\ settings.server \in Ports => file # NoFile

\* docs/proxy-win.md:709: settings that another program changed are not
\* overwritten by a restore.
NeverRestoredOver ==
    [][ /\ job.kind = "restore" /\ chosen' = chosen
        /\ settings.server = chosen.server
        => settings'.server = settings.server ]_vars
=============================================================================
