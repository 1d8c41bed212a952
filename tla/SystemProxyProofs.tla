------------------------- MODULE SystemProxyProofs -------------------------
(***************************************************************************)
(* For every set of ports, servers and settings and every bound:           *)
(* SystemProxy's variables keep their types, the user's server is safe     *)
(* through every operation, fault and crash, and the whole implements      *)
(* ProxyCustody.                                                           *)
(***************************************************************************)
EXTENDS SystemProxy, TLAPS

-----------------------------------------------------------------------------
(* Type correctness.  An operation that uses its ProxyStateFile has one, a   *)
(* guardian at work has iterations left, and a running application has a     *)
(* process id.                                                               *)

StateSteps == {"writeFile", "enable", "server", "rest", "markToken", "markServer",
               "spawn", "oldEnable", "oldServer", "oldRest"}

HasState ==
    job.at \in StateSteps \/ job.kind = "restore" => job.state \in StateFiles

TypeInv ==
    /\ TypeOK
    /\ HasState
    /\ Free => job = IdleJob
    /\ job.by # App => guardian[job.by] > 0
    /\ up => pid \in Pids

LEMMA SettingsTypes ==
  UserSettings \subseteq Settings /\ Legacy \subseteq Settings /\ Cleaned \in Settings
<1>1. UserSettings \subseteq Settings
  <2>. SUFFICES ASSUME NEW s \in UserSettings PROVE s \in Settings
    OBVIOUS
  <2>1. s \in [enable : BOOLEAN, server : Foreign \cup {NoServer}, rest : UserRests]
    BY ConstantsAssumption
  <2>. QED  BY <2>1 DEF Settings, Servers, Rests
<1>2. Legacy \subseteq Settings
  BY DEF Legacy, Settings, Servers, Rests
<1>3. Cleaned \in Settings
  BY DEF Cleaned, Settings, Servers, Rests
<1>. QED  BY <1>1, <1>2, <1>3

LEMMA InitType == Init => TypeInv
<1>. SUFFICES ASSUME Init PROVE TypeInv
  OBVIOUS
<1>1. settings \in Settings /\ chosen \in Settings
  BY SettingsTypes DEF Init
<1>2. marker \in [token : Tokens \cup {NoToken}, server : Ports \cup {NoServer}]
  BY DEF Init
<1>3. job \in [by : Tokens \cup {App}, kind : Kinds, at : Steps, again : BOOLEAN,
               state : StateFiles \cup {NoFile}]
  BY DEF Init, IdleJob, Kinds, Steps
<1>4. guardian \in [Tokens -> {Absent} \cup 0 .. GuardianTicks]
  BY DEF Init
<1>5. HasState /\ (Free => job = IdleJob) /\ job.by = App
  BY DEF Init, HasState, StateSteps, IdleJob, Free
<1>6. pid \in 0 .. MaxStarts /\ issued \in 0 .. MaxTokens /\ faults \in 0 .. MaxFaults
  BY ConstantsAssumption DEF Init
<1>. QED  BY <1>1, <1>2, <1>3, <1>4, <1>5, <1>6 DEF Init, TypeInv, TypeOK

\* What an operation is after it begins, after a step, and when it ends.
JobType == [by : Tokens \cup {App}, kind : Kinds, at : Steps, again : BOOLEAN,
            state : StateFiles \cup {NoFile}]

JobOK ==
    /\ job \in JobType
    /\ HasState
    /\ Free => job = IdleJob
    /\ job.by # App => guardian[job.by] > 0

LEMMA BeginOK ==
  ASSUME TypeInv, NEW by \in Tokens \cup {App}, NEW kind \in Kinds, NEW at \in Steps,
         NEW state \in StateFiles \cup {NoFile}, Begin(by, kind, at, state),
         at # "idle", by # App => guardian[by] > 0, guardian' = guardian,
         at \in StateSteps \/ kind = "restore" => state \in StateFiles
  PROVE JobOK'
  BY DEF TypeInv, TypeOK, Begin, JobOK, JobType, HasState, Free

LEMMA IdleOK == ASSUME job' = IdleJob PROVE JobOK'
  BY DEF IdleJob, JobOK, JobType, HasState, Free, Kinds, Steps, StateSteps

LEMMA GotoOK ==
  ASSUME TypeInv, NEW step \in Steps, step # "idle", Goto(step) \/ Repeat(step),
         job.at \in StateSteps \/ job.kind = "restore" \/ step \notin StateSteps,
         guardian' = guardian, ~Free
  PROVE JobOK'
<1>1. CASE Goto(step)
  BY <1>1 DEF TypeInv, TypeOK, Goto, JobOK, JobType, HasState, Free
<1>2. CASE Repeat(step)
  BY <1>2 DEF TypeInv, TypeOK, Repeat, JobOK, JobType, HasState, Free
<1>. QED  BY <1>1, <1>2

\* The variables that are not about the operation in progress.
RestOK ==
    /\ settings \in Settings
    /\ file \in StateFiles \cup {NoFile}
    /\ marker \in [token : Tokens \cup {NoToken}, server : Ports \cup {NoServer}]
    /\ up \in BOOLEAN /\ pid \in 0 .. MaxStarts /\ starting \in BOOLEAN
    /\ pending \in Ports \cup {NoPort}
    /\ listening \subseteq Ports
    /\ guardian \in [Tokens -> {Absent} \cup 0 .. GuardianTicks]
    /\ issued \in 0 .. MaxTokens
    /\ faults \in 0 .. MaxFaults
    /\ torn \subseteq Kinds
    /\ chosen \in Settings
    /\ up => pid \in Pids

LEMMA TypeParts == TypeInv <=> RestOK /\ JobOK
  BY DEF TypeInv, TypeOK, RestOK, JobOK, JobType

LEMMA ReturnType ==
  ASSUME TypeInv, Return
  PROVE /\ JobOK'
        /\ guardian' \in [Tokens -> {Absent} \cup 0 .. GuardianTicks]
        /\ starting' \in BOOLEAN
<1>1. JobOK'
  BY IdleOK DEF Return
<1>2. guardian' \in [Tokens -> {Absent} \cup 0 .. GuardianTicks]
  BY ConstantsAssumption DEF Return, TypeInv, TypeOK
<1>3. starting' \in BOOLEAN
  BY DEF Return
<1>. QED  BY <1>1, <1>2, <1>3

LEMMA WriteType == ASSUME TypeInv, Write PROVE TypeInv'
<1>1. RestOK /\ JobOK /\ ~Free
  BY TypeParts DEF Write, At, Free, WriteFile, SetEnable, SetServer, SetRest, MarkToken,
     MarkServer, SpawnGuardian, RestoreEnable, RestoreServer, RestoreRest, RemoveFile,
     UnmarkToken, UnmarkServer, Disable, DeleteServer, DeleteOverride
<1>2. job.at \in StateSteps \/ job.kind = "restore" => job.state \in StateFiles
  BY <1>1 DEF JobOK, HasState
<1>3. CASE WriteFile
  <2>1. RestOK'
    BY <1>3, <1>1, <1>2 DEF WriteFile, RestOK, Continue, ghostVars, At, StateSteps
  <2>2. JobOK'
    BY <1>3, <1>1, GotoOK DEF WriteFile, Continue, At, Steps, StateSteps
  <2>. QED  BY <2>1, <2>2 DEF TypeInv, TypeOK, RestOK, JobOK, JobType
<1>4. CASE SetEnable
  <2>1. RestOK'
    BY <1>4, <1>1 DEF SetEnable, RestOK, Continue, ghostVars, Settings
  <2>2. JobOK'
    BY <1>4, <1>1, GotoOK DEF SetEnable, Continue, At, Steps, StateSteps
  <2>. QED  BY <2>1, <2>2 DEF TypeInv, TypeOK, RestOK, JobOK, JobType
<1>5. CASE SetServer
  <2>1. RestOK'
    BY <1>5, <1>1, <1>2 DEF SetServer, RestOK, Continue, ghostVars, Settings, Servers, At, StateSteps, StateFiles
  <2>2. JobOK'
    BY <1>5, <1>1, GotoOK DEF SetServer, Continue, At, Steps, StateSteps
  <2>. QED  BY <2>1, <2>2 DEF TypeInv, TypeOK, RestOK, JobOK, JobType
<1>6. CASE SetRest
  <2>1. RestOK'
    BY <1>6, <1>1 DEF SetRest, RestOK, Continue, ghostVars, Settings, Rests
  <2>2. JobOK'
    BY <1>6, <1>1, GotoOK DEF SetRest, Continue, At, Steps, StateSteps
  <2>. QED  BY <2>1, <2>2 DEF TypeInv, TypeOK, RestOK, JobOK, JobType
<1>7. CASE MarkToken
  <2>1. RestOK'
    BY <1>7, <1>1, <1>2 DEF MarkToken, RestOK, Continue, ghostVars, At, StateSteps, StateFiles
  <2>2. JobOK'
    BY <1>7, <1>1, GotoOK DEF MarkToken, Continue, At, Steps, StateSteps
  <2>. QED  BY <2>1, <2>2 DEF TypeInv, TypeOK, RestOK, JobOK, JobType
<1>8. CASE MarkServer
  <2>1. RestOK'
    BY <1>8, <1>1, <1>2 DEF MarkServer, RestOK, Continue, ghostVars, At, StateSteps, StateFiles
  <2>2. JobOK'
    BY <1>8, <1>1, GotoOK DEF MarkServer, Continue, At, Steps, StateSteps
  <2>. QED  BY <2>1, <2>2 DEF TypeInv, TypeOK, RestOK, JobOK, JobType
<1>9. CASE SpawnGuardian
  <2>1. job.state.token \in Tokens
    BY <1>9, <1>2 DEF SpawnGuardian, At, StateSteps, StateFiles
  <2>2. guardian' \in [Tokens -> {Absent} \cup 0 .. GuardianTicks]
    BY <1>9, <1>1, <2>1, ConstantsAssumption DEF SpawnGuardian, RestOK
  <2>3. RestOK'
    BY <1>9, <1>1, <2>2 DEF SpawnGuardian, RestOK, ghostVars, appVars
  <2>4. JobOK'
    BY <1>9, IdleOK DEF SpawnGuardian
  <2>. QED  BY <2>3, <2>4 DEF TypeInv, TypeOK, RestOK, JobOK, JobType
<1>10. CASE RestoreEnable
  <2>1. RestOK'
    BY <1>10, <1>1, <1>2 DEF RestoreEnable, RestOK, Continue, ghostVars, Settings, At, StateSteps, StateFiles
  <2>2. JobOK'
    BY <1>10, <1>1, GotoOK DEF RestoreEnable, Continue, At, Steps, StateSteps
  <2>. QED  BY <2>1, <2>2 DEF TypeInv, TypeOK, RestOK, JobOK, JobType
<1>11. CASE RestoreServer
  <2>1. RestOK'
    BY <1>11, <1>1, <1>2 DEF RestoreServer, RestOK, Continue, ghostVars, Settings, At, StateSteps, StateFiles
  <2>2. JobOK'
    BY <1>11, <1>1, GotoOK DEF RestoreServer, Continue, At, Steps, StateSteps
  <2>. QED  BY <2>1, <2>2 DEF TypeInv, TypeOK, RestOK, JobOK, JobType
<1>12. CASE RestoreRest
  <2>1. RestOK'
    BY <1>12, <1>1, <1>2, ReturnType DEF RestoreRest, RestOK, Continue, ghostVars,
       Settings, At, StateSteps, StateFiles
  <2>2. JobOK'
    BY <1>12, <1>1, GotoOK, ReturnType DEF RestoreRest, Continue, At, Steps, StateSteps
  <2>. QED  BY <2>1, <2>2 DEF TypeInv, TypeOK, RestOK, JobOK, JobType
<1>13. CASE RemoveFile
  <2>1. RestOK'
    BY <1>13, <1>1 DEF RemoveFile, RestOK, Continue, ghostVars
  <2>2. JobOK'
    BY <1>13, <1>1, GotoOK DEF RemoveFile, Continue, At, Steps, StateSteps
  <2>. QED  BY <2>1, <2>2 DEF TypeInv, TypeOK, RestOK, JobOK, JobType
<1>14. CASE UnmarkToken
  <2>1. RestOK'
    BY <1>14, <1>1 DEF UnmarkToken, RestOK, Continue, ghostVars
  <2>2. JobOK'
    BY <1>14, <1>1, GotoOK DEF UnmarkToken, Continue, At, Steps, StateSteps
  <2>. QED  BY <2>1, <2>2 DEF TypeInv, TypeOK, RestOK, JobOK, JobType
<1>15. CASE UnmarkServer
  <2>1. RestOK'
    BY <1>15, <1>1, ReturnType DEF UnmarkServer, RestOK, Continue, ghostVars
  <2>2. JobOK'
    BY <1>15, <1>1, GotoOK, ReturnType DEF UnmarkServer, Continue, At, Steps, StateSteps
  <2>. QED  BY <2>1, <2>2 DEF TypeInv, TypeOK, RestOK, JobOK, JobType
<1>16. CASE Disable
  <2>1. RestOK'
    BY <1>16, <1>1 DEF Disable, RestOK, Continue, ghostVars, Settings
  <2>2. JobOK'
    BY <1>16, <1>1, GotoOK DEF Disable, Continue, At, Steps, StateSteps
  <2>. QED  BY <2>1, <2>2 DEF TypeInv, TypeOK, RestOK, JobOK, JobType
<1>17. CASE DeleteServer
  <2>1. RestOK'
    BY <1>17, <1>1 DEF DeleteServer, RestOK, Continue, ghostVars, Settings, Servers
  <2>2. JobOK'
    BY <1>17, <1>1, GotoOK DEF DeleteServer, Continue, At, Steps, StateSteps
  <2>. QED  BY <2>1, <2>2 DEF TypeInv, TypeOK, RestOK, JobOK, JobType
<1>18. CASE DeleteOverride
  <2>1. RestOK'
    BY <1>18, <1>1 DEF DeleteOverride, RestOK, Continue, ghostVars, Settings, Rests
  <2>2. JobOK'
    BY <1>18, <1>1, GotoOK DEF DeleteOverride, Continue, At, Steps, StateSteps
  <2>. QED  BY <2>1, <2>2 DEF TypeInv, TypeOK, RestOK, JobOK, JobType
<1>. QED
  BY <1>3, <1>4, <1>5, <1>6, <1>7, <1>8, <1>9, <1>10, <1>11, <1>12, <1>13, <1>14, <1>15, <1>16, <1>17, <1>18 DEF Write

LEMMA GiveBackOK ==
  ASSUME TypeInv, NEW by \in Tokens \cup {App}, by # App => guardian[by] > 0,
         file # NoFile, GiveBack(by), guardian' = guardian
  PROVE JobOK'
<1>1. file \in StateFiles /\ TypeInv
  BY DEF TypeInv, TypeOK
<1>2. CASE Begin(by, "drop", "removeFile", NoFile)
  BY <1>1, <1>2, BeginOK DEF Kinds, Steps, StateSteps
<1>3. CASE Begin(by, "restore", "oldEnable", file)
  BY <1>1, <1>3, BeginOK DEF Kinds, Steps, StateSteps
<1>. QED  BY <1>2, <1>3 DEF GiveBack

LEMMA EntryType ==
  ASSUME TypeInv, Apply \/ Restore \/ Repair \/ Recover
  PROVE TypeInv'
<1>1. RestOK /\ App \in Tokens \cup {App} /\ NoFile \in StateFiles \cup {NoFile}
  BY TypeParts
<1>2. CASE Apply
  <2> DEFINE keep  == file # NoFile /\ Ownership = "current"
             state == [token |-> issued + 1, owner |-> pid, port |-> pending,
                       previous |-> IF keep THEN file.previous ELSE settings]
  <2>1. /\ issued + 1 \in Tokens /\ issued + 1 \in 0 .. MaxTokens
        /\ pid \in Pids /\ pending \in Ports
        /\ issued' = issued + 1 /\ pending' = NoPort
        /\ UNCHANGED <<settings, file, marker, up, pid, starting, listening,
                       guardian, faults, torn, chosen>>
    BY <1>1, <1>2, ConstantsAssumption DEF Apply, RestOK, ghostVars, Tokens
  <2>2. (IF keep THEN file.previous ELSE settings) \in Settings
    BY <1>1 DEF RestOK, StateFiles
  <2>3. state \in StateFiles
    BY <2>1, <2>2 DEF StateFiles
  <2>4. PICK kind \in {"switch", "apply"} : Begin(App, kind, "writeFile", state)
    BY <1>2 DEF Apply
  <2>5. JobOK'
    <3>. HIDE DEF state
    <3>. QED  BY <1>1, <2>1, <2>3, <2>4, BeginOK DEF Kinds, Steps, StateSteps
  <2>6. RestOK'
    BY <1>1, <2>1 DEF RestOK
  <2>. QED  BY <2>5, <2>6 DEF TypeInv, TypeOK, RestOK, JobOK, JobType
<1>3. CASE Restore
  <2>1. RestOK'
    BY <1>1, <1>3 DEF Restore, RestOK, ghostVars, appVars
  <2>2. JobOK'
    BY <1>1, <1>3, GiveBackOK, BeginOK DEF Restore, Kinds, Steps, StateSteps
  <2>. QED  BY <2>1, <2>2 DEF TypeInv, TypeOK, RestOK, JobOK, JobType
<1>4. CASE Repair
  <2>1. RestOK'
    BY <1>1, <1>4 DEF Repair, RestOK, ghostVars, appVars
  <2>2. JobOK'
    BY <1>1, <1>4, GiveBackOK, BeginOK DEF Repair, Kinds, Steps, StateSteps
  <2>. QED  BY <2>1, <2>2 DEF TypeInv, TypeOK, RestOK, JobOK, JobType
<1>5. CASE Recover
  <2>1. RestOK'
    BY <1>1, <1>5 DEF Recover, RestOK, ghostVars
  <2>2. JobOK'
    <3>1. CASE UNCHANGED job /\ UNCHANGED guardian
      BY <3>1 DEF TypeInv, JobOK, JobType, TypeOK, HasState, Free
    <3>2. CASE UNCHANGED guardian /\ file # NoFile /\ GiveBack(App)
      BY <1>1, <3>2, GiveBackOK
    <3>3. CASE UNCHANGED guardian /\ Begin(App, "clean", "disable", NoFile)
      BY <1>1, <3>3, BeginOK DEF Kinds, Steps, StateSteps
    <3>. QED  BY <1>5, <3>1, <3>2, <3>3 DEF Recover
  <2>. QED  BY <2>1, <2>2 DEF TypeInv, TypeOK, RestOK, JobOK, JobType
<1>. QED  BY <1>2, <1>3, <1>4, <1>5

LEMMA GuardianType ==
  ASSUME TypeInv, NEW t \in Tokens, Guardian(t)
  PROVE TypeInv'
<1>1. RestOK /\ JobOK /\ Free /\ guardian[t] \in 1 .. GuardianTicks
  BY TypeParts, ConstantsAssumption
     DEF Guardian, GuardianLeaves, GuardianActs, GuardianWaits, Watches, RestOK, Absent
<1>2. CASE GuardianLeaves(t) \/ GuardianWaits(t)
  <2>1. guardian' \in [Tokens -> {Absent} \cup 0 .. GuardianTicks]
    BY <1>1, <1>2, ConstantsAssumption DEF GuardianLeaves, GuardianWaits, RestOK
  <2>2. RestOK'
    BY <1>1, <1>2, <2>1 DEF GuardianLeaves, GuardianWaits, RestOK, ghostVars, appVars
  <2>3. JobOK'
    BY <1>1, <1>2, IdleOK DEF GuardianLeaves, GuardianWaits, JobOK
  <2>. QED  BY <2>2, <2>3 DEF TypeInv, TypeOK, RestOK, JobOK, JobType
<1>3. CASE GuardianActs(t)
  <2>1. RestOK'
    BY <1>1, <1>3 DEF GuardianActs, RestOK, ghostVars, appVars
  <2>2. JobOK'
    BY <1>1, <1>3, GiveBackOK DEF GuardianActs
  <2>. QED  BY <2>1, <2>2 DEF TypeInv, TypeOK, RestOK, JobOK, JobType
<1>. QED  BY <1>2, <1>3 DEF Guardian

LEMMA KillGuardiansType ==
  ASSUME TypeInv, KillGuardians
  PROVE /\ guardian' \in [Tokens -> {Absent} \cup 0 .. GuardianTicks]
        /\ \A t \in Tokens : guardian'[t] <= 0
<1>1. guardian \in [Tokens -> {Absent} \cup 0 .. GuardianTicks]
  BY DEF TypeInv, TypeOK
<1>. QED  BY <1>1, ConstantsAssumption DEF KillGuardians, Absent

LEMMA TearType ==
  ASSUME TypeInv, Tear
  PROVE /\ faults' \in 0 .. MaxFaults /\ torn' \subseteq Kinds
        /\ job' = IdleJob /\ JobOK'
<1>1. faults \in 0 .. MaxFaults /\ torn \subseteq Kinds /\ job.kind \in Kinds
  BY DEF TypeInv, TypeOK
<1>2. faults' \in 0 .. MaxFaults
  BY <1>1, ConstantsAssumption DEF Tear
<1>. QED  BY <1>1, <1>2, IdleOK DEF Tear

LEMMA OutsideType ==
  ASSUME TypeInv,
         \/ \E p \in Ports : CheckPort(p)
         \/ WriteFails \/ StartApp \/ StopApp \/ Reboot
         \/ \E p \in Ports : PortChanges(p)
         \/ \E s \in UserSettings : UserChooses(s)
  PROVE TypeInv'
<1>1. RestOK /\ JobOK
  BY TypeParts
<1>2. JobOK /\ UNCHANGED <<job, guardian>> => JobOK'
  BY DEF JobOK, HasState, Free
<1>3. ASSUME NEW p \in Ports, CheckPort(p) PROVE TypeInv'
  <2>1. RestOK'
    BY <1>1, <1>3 DEF CheckPort, RestOK, ghostVars
  <2>2. JobOK'
    BY <1>1, <1>2, <1>3 DEF CheckPort
  <2>. QED  BY <2>1, <2>2 DEF TypeInv, TypeOK, RestOK, JobOK, JobType
<1>4. CASE WriteFails
  <2>1. job.by = App \/ (job.by \in Tokens /\ guardian[job.by] \in 1 .. GuardianTicks)
    BY <1>1, ConstantsAssumption DEF JobOK, JobType, RestOK, Absent
  <2>2. guardian' \in [Tokens -> {Absent} \cup 0 .. GuardianTicks]
    BY <1>1, <1>4, <2>1, ConstantsAssumption DEF WriteFails, RestOK
  <2>3. RestOK'
    BY <1>1, <1>4, <2>2, TearType DEF WriteFails, RestOK
  <2>4. JobOK'
    BY <1>4, TearType DEF WriteFails
  <2>. QED  BY <2>3, <2>4 DEF TypeInv, TypeOK, RestOK, JobOK, JobType
<1>5. CASE StartApp
  <2>1. pid' \in Pids /\ pid' \in 0 .. MaxStarts /\ up' \in BOOLEAN /\ starting' \in BOOLEAN
    BY <1>1, <1>5, ConstantsAssumption DEF StartApp, RestOK, Pids
  <2>2. UNCHANGED <<settings, file, marker, pending, listening, issued, chosen>>
    BY <1>5 DEF StartApp
  <2>3. CASE KillGuardians /\ (IF Free THEN Spare ELSE Tear)
    <3>1. RestOK'
      BY <1>1, <2>1, <2>2, <2>3, KillGuardiansType, TearType DEF RestOK, Spare
    <3>2. CASE Free
      BY <1>1, <2>3, <3>1, <3>2, IdleOK
         DEF Spare, JobOK, TypeInv, TypeOK, RestOK, JobType
    <3>3. CASE ~Free
      BY <2>3, <3>1, <3>3, TearType DEF TypeInv, TypeOK, RestOK, JobOK, JobType
    <3>. QED  BY <3>2, <3>3
  <2>4. CASE UNCHANGED guardian /\ Spare
    <3>1. RestOK'
      BY <1>1, <2>1, <2>2, <2>4 DEF RestOK, Spare
    <3>2. JobOK'
      BY <1>1, <1>2, <2>4 DEF Spare
    <3>. QED  BY <3>1, <3>2 DEF TypeInv, TypeOK, RestOK, JobOK, JobType
  <2>. QED  BY <1>5, <2>3, <2>4 DEF StartApp
<1>6. CASE StopApp
  <2>1. UNCHANGED <<settings, file, marker, pid, listening, guardian, issued, chosen>>
        /\ up' = FALSE /\ starting' = FALSE /\ pending' = NoPort
    BY <1>6 DEF StopApp
  <2>2. CASE Spare
    <3>1. RestOK'
      BY <1>1, <2>1, <2>2 DEF RestOK, Spare
    <3>2. JobOK'
      BY <1>1, <1>2, <2>1, <2>2 DEF Spare
    <3>. QED  BY <3>1, <3>2 DEF TypeInv, TypeOK, RestOK, JobOK, JobType
  <2>3. CASE Tear
    <3>1. RestOK'
      BY <1>1, <2>1, <2>3, TearType DEF RestOK
    <3>2. JobOK'
      BY <2>3, TearType
    <3>. QED  BY <3>1, <3>2 DEF TypeInv, TypeOK, RestOK, JobOK, JobType
  <2>. QED  BY <1>6, <2>2, <2>3 DEF StopApp
<1>7. CASE Reboot
  <2>1. UNCHANGED <<settings, file, marker, pid, issued, chosen>> /\ KillGuardians
        /\ up' = FALSE /\ starting' = FALSE /\ pending' = NoPort /\ listening' = {}
    BY <1>7 DEF Reboot
  <2>2. CASE Free /\ Spare
    <3>1. RestOK'
      BY <1>1, <2>1, <2>2, KillGuardiansType DEF RestOK, Spare
    <3>2. JobOK'
      BY <1>1, <2>2, IdleOK DEF Spare, JobOK
    <3>. QED  BY <3>1, <3>2 DEF TypeInv, TypeOK, RestOK, JobOK, JobType
  <2>3. CASE Tear
    <3>1. RestOK'
      BY <1>1, <2>1, <2>3, KillGuardiansType, TearType DEF RestOK
    <3>2. JobOK'
      BY <2>3, TearType
    <3>. QED  BY <3>1, <3>2 DEF TypeInv, TypeOK, RestOK, JobOK, JobType
  <2>. QED  BY <1>7, <2>2, <2>3 DEF Reboot
<1>8. ASSUME NEW p \in Ports, PortChanges(p) PROVE TypeInv'
  <2>1. RestOK'
    BY <1>1, <1>8 DEF PortChanges, RestOK, ghostVars, appVars
  <2>2. JobOK'
    BY <1>1, <1>2, <1>8 DEF PortChanges
  <2>. QED  BY <2>1, <2>2 DEF TypeInv, TypeOK, RestOK, JobOK, JobType
<1>9. ASSUME NEW s \in UserSettings, UserChooses(s) PROVE TypeInv'
  <2>1. RestOK'
    BY <1>1, <1>9, SettingsTypes DEF UserChooses, RestOK, appVars
  <2>2. JobOK'
    BY <1>1, <1>2, <1>9 DEF UserChooses
  <2>. QED  BY <2>1, <2>2 DEF TypeInv, TypeOK, RestOK, JobOK, JobType
<1>. QED  BY <1>3, <1>4, <1>5, <1>6, <1>7, <1>8, <1>9

LEMMA StepType == TypeInv /\ [Next]_vars => TypeInv'
<1>. SUFFICES ASSUME TypeInv, [Next]_vars PROVE TypeInv'
  OBVIOUS
<1>1. CASE UNCHANGED vars
  BY <1>1 DEF vars, TypeInv, TypeOK, HasState, Free
<1>2. CASE Next
  BY <1>2, EntryType, GuardianType, WriteType, OutsideType DEF Next, Guardian
<1>. QED  BY <1>1, <1>2

\* Every variable always has a value the code can give it.
THEOREM ProxyTypeCorrect == Spec => []TypeOK
<1>1. Spec => []TypeInv
  BY InitType, StepType, PTL DEF Spec
<1>2. TypeInv => TypeOK
  BY DEF TypeInv
<1>. QED  BY <1>1, <1>2, PTL

-----------------------------------------------------------------------------
(* The user's ProxyServer is never lost, for every set of ports, servers   *)
(* and settings and every bound, as long as nobody changes the settings in *)
(* the middle of an operation (UserRaces = FALSE).                         *)
(*                                                                         *)
(* ServerIsSafe is not inductive: it says nothing of what an operation in  *)
(* progress is about to write.  CustodyInv adds that: the ProxyStateFile   *)
(* an operation carries holds the user's server, and the file on disk and  *)
(* the port in force agree except while an apply moves to another port.    *)
(* ExactInv, at the end, says the same of all the values.                  *)

\* An apply has saved its new port, and not yet put it in force.
Switching == job.kind = "switch" /\ job.at \in {"enable", "server"} /\ ~job.again

Kept(state) == UsersServer(state.previous.server)

\* DoodleRay's server in force is the one of the file, which has the user's.
LentSaved ==
    settings.server \in Ports =>
        /\ file # NoFile /\ Kept(file)
        /\ settings.server = file.port \/ Switching

\* Any other server in force is the user's.
InForce == settings.server \notin Ports => UsersServer(settings.server)

\* What an old version left is also what was saved, if anything was.
LegacySaved == settings.server = LegacyServer /\ file # NoFile => Kept(file)

\* An apply carries the user's server, and moves a port only as a switch.
ApplyCarries ==
    /\ At("writeFile") =>
          /\ ~job.again /\ Kept(job.state)
          /\ settings.server \in Ports =>
                job.kind = "switch" \/ settings.server = job.state.port
    /\ job.at \in {"enable", "server", "rest", "markToken", "markServer", "spawn"} =>
          file = job.state /\ Kept(job.state)

\* A restore carries the user's server, and it is in force before the file goes.
RestoreCarries ==
    /\ job.at \in {"oldEnable", "oldServer", "oldRest"} \/ job.kind = "restore" =>
          Kept(job.state)
    /\ job.at \in {"oldRest", "removeFile"} => settings.server \notin Ports

\* Values are deleted only where an old version left them.
CleansLegacy == job.at \in {"disable", "noServer"} => chosen = Cleaned

\* A restore is of the file that is on disk, which is gone before the marker goes.
FileGoes ==
    /\ job.at \in {"oldEnable", "oldServer", "oldRest"} => file \in {job.state, NoFile}
    /\ job.at \in {"unmarkToken", "unmarkServer", "disable", "noServer", "noOverride"} =>
          file = NoFile

Held ==
    /\ LentSaved /\ InForce /\ LegacySaved
    /\ ApplyCarries /\ RestoreCarries /\ FileGoes /\ CleansLegacy

CustodyInv ==
    /\ chosen \in UserSettings \cup {Cleaned}
    /\ "switch" \notin torn => Held
-----------------------------------------------------------------------------
(* What the user chooses is never a value of DoodleRay's.                    *)

LEMMA ChosenIsForeign ==
  ASSUME chosen \in UserSettings \cup {Cleaned}
  PROVE /\ chosen.server \in Foreign \cup {NoServer}
        /\ chosen.server \notin Ports /\ chosen.server # LegacyServer
        /\ \A server : UsersServer(server) => server \notin Ports
<1>1. chosen.server \in Foreign \cup {NoServer}
  <2>1. CASE chosen \in UserSettings
    <3>1. chosen \in
             [enable : BOOLEAN, server : Foreign \cup {NoServer}, rest : UserRests]
      BY <2>1, ConstantsAssumption
    <3>. QED  BY <3>1
  <2>2. CASE chosen = Cleaned
    BY <2>2 DEF Cleaned
  <2>. QED  BY <2>1, <2>2
<1>2. \A server \in Foreign \cup {NoServer, LegacyServer} : server \notin Ports
  BY ConstantsAssumption
<1>3. chosen.server # LegacyServer
  BY <1>1, ConstantsAssumption
<1>4. ASSUME NEW server, UsersServer(server) PROVE server \notin Ports
  BY <1>1, <1>2, <1>4 DEF UsersServer
<1>. QED  BY <1>1, <1>2, <1>3, <1>4

LEMMA InitCustody == Init => CustodyInv
<1>. SUFFICES ASSUME Init PROVE CustodyInv
  OBVIOUS
<1>1. file = NoFile /\ job = IdleJob
  BY DEF Init
<1>2. ApplyCarries /\ RestoreCarries /\ FileGoes /\ CleansLegacy /\ LegacySaved
  BY <1>1 DEF ApplyCarries, RestoreCarries, FileGoes, CleansLegacy, LegacySaved, IdleJob, At
<1>3. chosen \in UserSettings \cup {Cleaned} /\ UsersServer(settings.server)
  <2>1. CASE settings \in UserSettings /\ chosen = settings
    BY <2>1 DEF UsersServer
  <2>2. CASE settings \in Legacy /\ chosen = Cleaned
    BY <2>2 DEF UsersServer, Legacy
  <2>. QED  BY <2>1, <2>2 DEF Init
<1>4. settings.server \notin Ports
  BY <1>3, ChosenIsForeign
<1>. QED  BY <1>2, <1>3, <1>4 DEF CustodyInv, Held, LentSaved, InForce

\* What is known in a state from which a step is taken.
Good == TypeInv /\ chosen \in UserSettings \cup {Cleaned} /\ Held

-----------------------------------------------------------------------------
(* An operation that ends, or begins, leaves things as they are.             *)

LEMMA IdleHeld ==
  ASSUME Good, ~Switching, job' = IdleJob, UNCHANGED <<settings, file, chosen>>
  PROVE Held'
<1>1. LentSaved' /\ InForce' /\ LegacySaved'
  BY DEF Good, Held, LentSaved, InForce, LegacySaved, Kept, UsersServer
<1>2. ApplyCarries' /\ RestoreCarries' /\ FileGoes' /\ CleansLegacy'
  BY DEF ApplyCarries, RestoreCarries, FileGoes, CleansLegacy, IdleJob, At
<1>. QED  BY <1>1, <1>2 DEF Held

LEMMA SameHeld ==
  ASSUME Held, UNCHANGED <<settings, file, chosen, job>>
  PROVE Held'
  BY DEF Held, LentSaved, InForce, LegacySaved, ApplyCarries, RestoreCarries,
     FileGoes, CleansLegacy, Kept, UsersServer, Switching, At

LEMMA BeginHeld ==
  ASSUME Good, NEW by, NEW kind, NEW at, NEW state, Begin(by, kind, at, state),
         UNCHANGED <<settings, file, chosen>>,
         at \in {"removeFile", "unmarkToken", "disable", "oldEnable"},
         kind = "restore" \/ at = "oldEnable" => Kept(state),
         at = "oldEnable" => state = file,
         at \in {"unmarkToken", "disable"} => file = NoFile,
         at = "removeFile" => settings.server \notin Ports,
         at = "disable" => chosen = Cleaned
  PROVE Held'
<1>1. LentSaved' /\ InForce' /\ LegacySaved'
  BY DEF Good, Held, LentSaved, InForce, LegacySaved, Kept, UsersServer, Begin, Free,
     Switching
<1>2. ApplyCarries' /\ RestoreCarries' /\ FileGoes' /\ CleansLegacy'
  BY DEF ApplyCarries, RestoreCarries, FileGoes, CleansLegacy, At, Begin, Kept, UsersServer
<1>. QED  BY <1>1, <1>2 DEF Held

\* With no operation in progress a port of DoodleRay's in force is recognised.
LEMMA FreeOwnership ==
  ASSUME Good, Free
  PROVE /\ settings.server \in Ports => file # NoFile /\ Ownership = "current"
        /\ Ownership = "current" => settings.server \in Ports
        /\ Ownership = "legacy" => settings.server = LegacyServer
<1>1. settings.server \in Ports => file # NoFile /\ HasStateMatch
  BY DEF Good, Held, LentSaved, Switching, Free, HasStateMatch
<1>2. HasStateMatch => settings.server \in Ports
  BY DEF HasStateMatch, Good, TypeInv, TypeOK, StateFiles
<1>3. DefaultPort \in Ports /\ LegacyServer \notin Ports
  BY ConstantsAssumption
<1>4. CASE HasStateMatch
  <2>1. Ownership = "current"
    BY <1>4, <1>2, <1>3 DEF Ownership
  <2>. QED  BY <1>1, <1>2, <1>4, <2>1
<1>5. CASE ~HasStateMatch
  <2>1. settings.server \notin Ports
    BY <1>1, <1>5
  <2>2. Ownership # "current" /\ (Ownership = "legacy" => settings.server = LegacyServer)
    BY <1>3, <1>5, <2>1 DEF Ownership
  <2>. QED  BY <2>1, <2>2
<1>. QED  BY <1>4, <1>5

LEMMA GiveBackHeld ==
  ASSUME Good, NEW by, file # NoFile, GiveBack(by), UNCHANGED <<settings, file, chosen>>
  PROVE Held'
<1>1. Free
  BY DEF GiveBack, Begin
<1>2. CASE Ownership = "notDoodleRay" /\ Begin(by, "drop", "removeFile", NoFile)
  <2>1. settings.server \notin Ports
    BY <1>1, <1>2, FreeOwnership
  <2>. QED  BY <1>2, <2>1, BeginHeld
<1>3. CASE Ownership # "notDoodleRay" /\ Begin(by, "restore", "oldEnable", file)
  <2>1. settings.server \in Ports \/ settings.server = LegacyServer
    BY <1>1, <1>3, FreeOwnership DEF Ownership
  <2>2. Kept(file)
    BY <2>1 DEF Good, Held, LentSaved, LegacySaved
  <2>. QED  BY <1>3, <2>2, BeginHeld
<1>. QED  BY <1>2, <1>3 DEF GiveBack

\* The cleaning is only ever of what an old version left.
LEMMA CleanHeld ==
  ASSUME Good, file = NoFile, Ownership # "notDoodleRay",
         Begin(App, "clean", "disable", NoFile), UNCHANGED <<settings, file, chosen>>
  PROVE Held'
<1>1. settings.server = LegacyServer
  BY FreeOwnership DEF Begin, Ownership
<1>2. settings.server \notin Ports
  BY <1>1, ConstantsAssumption
<1>3. chosen = Cleaned
  BY <1>1, <1>2, ChosenIsForeign DEF Good, Held, InForce, UsersServer
<1>. QED  BY <1>3, BeginHeld

LEMMA ApplyHeld == ASSUME Good, Apply PROVE Held'
<1>. DEFINE keep  == file # NoFile /\ Ownership = "current"
            kind  == IF keep /\ file.port # pending THEN "switch" ELSE "apply"
            state == [token |-> issued + 1, owner |-> pid, port |-> pending,
                      previous |-> IF keep THEN file.previous ELSE settings]
<1>1. Free /\ UNCHANGED <<settings, file, chosen>>
      /\ job' = [by |-> App, kind |-> kind, at |-> "writeFile", again |-> FALSE,
                 state |-> state]
  BY DEF Apply, Begin, ghostVars
<1>2. UsersServer(state.previous.server)
  <2>1. CASE keep
    <3>1. settings.server \in Ports
      BY <1>1, <2>1, FreeOwnership
    <3>. QED  BY <2>1, <3>1 DEF Good, Held, LentSaved, Kept
  <2>2. CASE ~keep
    <3>1. settings.server \notin Ports
      BY <1>1, <2>2, FreeOwnership
    <3>. QED  BY <2>2, <3>1 DEF Good, Held, InForce
  <2>. QED  BY <2>1, <2>2
<1>3. settings.server \in Ports => kind = "switch" \/ settings.server = state.port
  BY <1>1, FreeOwnership DEF Good, Held, LentSaved, Switching, Free
<1>4. LentSaved' /\ InForce' /\ LegacySaved'
  BY <1>1 DEF Good, Held, LentSaved, InForce, LegacySaved, Kept, UsersServer, Free,
     Switching
<1>5. ApplyCarries'
  <2>. HIDE DEF kind, state
  <2>. QED  BY <1>1, <1>2, <1>3 DEF ApplyCarries, At, Kept, UsersServer
<1>6. RestoreCarries' /\ FileGoes' /\ CleansLegacy'
  BY <1>1 DEF RestoreCarries, FileGoes, CleansLegacy
<1>. QED  BY <1>4, <1>5, <1>6 DEF Held

LEMMA EntryHeld ==
  ASSUME Good, Apply \/ Restore \/ Repair \/ Recover PROVE Held'
<1>1. CASE Apply
  BY <1>1, ApplyHeld
<1>2. CASE Restore
  <2>1. UNCHANGED <<settings, file, chosen>>
    BY <1>2 DEF Restore, ghostVars
  <2>. QED  BY <1>2, <2>1, GiveBackHeld, BeginHeld DEF Restore
<1>3. CASE Repair
  <2>1. UNCHANGED <<settings, file, chosen>>
    BY <1>3 DEF Repair, ghostVars
  <2>. QED  BY <1>3, <2>1, GiveBackHeld, BeginHeld, CleanHeld DEF Repair
<1>4. CASE Recover
  <2>1. UNCHANGED <<settings, file, chosen>> /\ Held
    BY <1>4 DEF Recover, ghostVars, Good
  <2>. QED  BY <1>4, <2>1, GiveBackHeld, SameHeld, CleanHeld DEF Recover
<1>. QED  BY <1>1, <1>2, <1>3, <1>4

LEMMA GuardianHeld ==
  ASSUME Good, NEW t \in Tokens, Guardian(t) PROVE Held'
<1>1. CASE GuardianActs(t)
  <2>1. UNCHANGED <<settings, file, chosen>>
    BY <1>1 DEF GuardianActs, ghostVars
  <2>. QED  BY <1>1, <2>1, GiveBackHeld DEF GuardianActs
<1>2. CASE GuardianLeaves(t) \/ GuardianWaits(t)
  BY <1>2, SameHeld DEF GuardianLeaves, GuardianWaits, ghostVars, Good
<1>. QED  BY <1>1, <1>2 DEF Guardian

-----------------------------------------------------------------------------
(* The writes.                                                               *)

\* What the writes below have in common, and the parts of Held they are about.
LEMMA ApplyWritesHeld ==
  ASSUME Good, WriteFile \/ SetEnable \/ SetServer \/ SetRest \/ MarkToken \/ MarkServer
  PROVE Held'
<1>1. Held /\ settings \in Settings /\ job.state \in StateFiles
      /\ (\A server : UsersServer(server) => server \notin Ports)
      /\ NoFile \notin StateFiles
  BY ChosenIsForeign, ConstantsAssumption
     DEF Good, TypeInv, TypeOK, HasState, StateSteps, WriteFile, SetEnable, SetServer,
         SetRest, MarkToken, MarkServer, At
<1>2. CASE WriteFile
  BY <1>1, <1>2 DEF WriteFile, Held, LentSaved, InForce, LegacySaved, ApplyCarries,
     RestoreCarries, FileGoes, CleansLegacy, Kept, UsersServer, Switching, At, Goto, Repeat, ghostVars,
     Settings, StateFiles
<1>3. CASE SetEnable
  BY <1>1, <1>3 DEF SetEnable, Held, LentSaved, InForce, LegacySaved, ApplyCarries,
     RestoreCarries, FileGoes, CleansLegacy, Kept, UsersServer, Switching, At, Goto, Repeat, ghostVars,
     Settings, StateFiles
<1>4. CASE SetServer
  BY <1>1, <1>4 DEF SetServer, Held, LentSaved, InForce, LegacySaved, ApplyCarries,
     RestoreCarries, FileGoes, CleansLegacy, Kept, UsersServer, Switching, At, Goto, Repeat, ghostVars,
     Settings, StateFiles
<1>5. CASE SetRest
  BY <1>1, <1>5 DEF SetRest, Held, LentSaved, InForce, LegacySaved, ApplyCarries,
     RestoreCarries, FileGoes, CleansLegacy, Kept, UsersServer, Switching, At, Goto, Repeat, ghostVars,
     Settings, StateFiles
<1>6. CASE MarkToken
  BY <1>1, <1>6 DEF MarkToken, Held, LentSaved, InForce, LegacySaved, ApplyCarries,
     RestoreCarries, FileGoes, CleansLegacy, Kept, UsersServer, Switching, At, Goto, Repeat, ghostVars,
     Settings, StateFiles
<1>7. CASE MarkServer
  BY <1>1, <1>7 DEF MarkServer, Held, LentSaved, InForce, LegacySaved, ApplyCarries,
     RestoreCarries, FileGoes, CleansLegacy, Kept, UsersServer, Switching, At, Goto, Repeat, ghostVars,
     Settings, StateFiles
<1>. QED  BY <1>2, <1>3, <1>4, <1>5, <1>6, <1>7

LEMMA RestoreWritesHeld ==
  ASSUME Good, RestoreEnable \/ RestoreServer \/ RestoreRest
  PROVE Held'
<1>1. Held /\ settings \in Settings /\ job.state \in StateFiles
      /\ (\A server : UsersServer(server) => server \notin Ports)
  BY ChosenIsForeign
     DEF Good, TypeInv, TypeOK, HasState, StateSteps, RestoreEnable, RestoreServer,
         RestoreRest, At
<1>2. CASE RestoreEnable
  BY <1>1, <1>2 DEF RestoreEnable, Held, LentSaved, InForce, LegacySaved, ApplyCarries,
     RestoreCarries, FileGoes, CleansLegacy, Kept, UsersServer, Switching, At, Goto, Repeat, ghostVars,
     Settings, StateFiles
<1>3. CASE RestoreServer
  BY <1>1, <1>3 DEF RestoreServer, Held, LentSaved, InForce, LegacySaved, ApplyCarries,
     RestoreCarries, FileGoes, CleansLegacy, Kept, UsersServer, Switching, At, Goto, Repeat, ghostVars,
     Settings, StateFiles
<1>4. CASE RestoreRest
  <2>1. settings'.server = settings.server /\ UNCHANGED <<file, chosen>>
    BY <1>1, <1>4 DEF RestoreRest, Settings, ghostVars
  <2>2. At("oldRest") /\ (job' = IdleJob \/ Goto("removeFile"))
    BY <1>4 DEF RestoreRest, Return
  <2>3. LentSaved' /\ InForce' /\ LegacySaved'
    BY <1>1, <2>1, <2>2 DEF Held, LentSaved, InForce, LegacySaved, Kept, UsersServer,
       Switching, At
  <2>4. ApplyCarries' /\ RestoreCarries' /\ FileGoes' /\ CleansLegacy'
    <3>1. CASE job' = IdleJob
      BY <3>1 DEF ApplyCarries, RestoreCarries, FileGoes, CleansLegacy, IdleJob, At
    <3>2. CASE Goto("removeFile")
      BY <1>1, <2>1, <2>2, <3>2 DEF Held, ApplyCarries, RestoreCarries, FileGoes,
         CleansLegacy, Kept, UsersServer, At, Goto
    <3>. QED  BY <2>2, <3>1, <3>2
  <2>. QED  BY <2>3, <2>4 DEF Held
<1>. QED  BY <1>2, <1>3, <1>4

LEMMA RemovalsHeld ==
  ASSUME Good, RemoveFile \/ UnmarkToken \/ UnmarkServer
               \/ Disable \/ DeleteServer \/ DeleteOverride
  PROVE Held'
<1>1. Held /\ settings \in Settings /\ NoServer \notin Ports /\ NoServer # LegacyServer
  BY ConstantsAssumption DEF Good, TypeInv, TypeOK
<1>2. CASE RemoveFile
  BY <1>1, <1>2 DEF RemoveFile, Held, LentSaved, InForce, LegacySaved, ApplyCarries,
     RestoreCarries, FileGoes, CleansLegacy, Kept, UsersServer, Switching, At, Goto, Repeat, ghostVars,
     Settings, StateFiles
<1>3. CASE UnmarkToken
  BY <1>1, <1>3 DEF UnmarkToken, Held, LentSaved, InForce, LegacySaved, ApplyCarries,
     RestoreCarries, FileGoes, CleansLegacy, Kept, UsersServer, Switching, At, Goto, Repeat, ghostVars,
     Settings, StateFiles
<1>4. CASE UnmarkServer
  <2>1. UNCHANGED <<settings, file, chosen>> /\ At("unmarkServer")
    BY <1>4 DEF UnmarkServer, ghostVars
  <2>2. CASE job.kind = "restore" /\ Repeat("oldEnable")
    BY <1>1, <2>1, <2>2 DEF Held, LentSaved, InForce, LegacySaved, ApplyCarries,
       RestoreCarries, FileGoes, CleansLegacy, Kept, UsersServer, Switching, At, Repeat
  <2>3. CASE job' = IdleJob
    BY <2>1, <2>3, IdleHeld DEF Switching, At
  <2>. QED  BY <1>4, <2>2, <2>3 DEF UnmarkServer, Return
<1>5. CASE Disable
  BY <1>1, <1>5 DEF Disable, Held, LentSaved, InForce, LegacySaved, ApplyCarries,
     RestoreCarries, FileGoes, CleansLegacy, Kept, UsersServer, Switching, At, Goto, Repeat, ghostVars,
     Settings, StateFiles
<1>6. CASE DeleteServer
  BY <1>1, <1>6 DEF DeleteServer, Held, LentSaved, InForce, LegacySaved, ApplyCarries,
     RestoreCarries, FileGoes, CleansLegacy, Kept, UsersServer, Switching, At, Goto, Repeat, ghostVars,
     Settings, StateFiles, Cleaned
<1>7. CASE DeleteOverride
  BY <1>1, <1>7 DEF DeleteOverride, Held, LentSaved, InForce, LegacySaved, ApplyCarries,
     RestoreCarries, FileGoes, CleansLegacy, Kept, UsersServer, Switching, At, Goto, Repeat, ghostVars,
     Settings, StateFiles
<1>. QED  BY <1>2, <1>3, <1>4, <1>5, <1>6, <1>7

LEMMA WriteHeld == ASSUME Good, Write PROVE Held'
<1>1. CASE SpawnGuardian
  BY <1>1, IdleHeld DEF SpawnGuardian, At, Switching, ghostVars
<1>. QED  BY <1>1, ApplyWritesHeld, RestoreWritesHeld, RemovalsHeld DEF Write

-----------------------------------------------------------------------------
(* Failures, and the rest of the world.                                      *)

LEMMA TearHeld ==
  ASSUME Good, Tear, "switch" \notin torn', UNCHANGED <<settings, file, chosen>>
  PROVE Held'
  BY IdleHeld DEF Tear, Switching

LEMMA OutsideHeld ==
  ASSUME Good, UserRaces = FALSE, "switch" \notin torn',
         \/ \E p \in Ports : CheckPort(p)
         \/ WriteFails \/ StartApp \/ StopApp \/ Reboot
         \/ \E p \in Ports : PortChanges(p)
         \/ \E s \in UserSettings : UserChooses(s)
  PROVE Held'
<1>1. ASSUME NEW p \in Ports, CheckPort(p) \/ PortChanges(p) PROVE Held'
  BY <1>1, SameHeld DEF CheckPort, PortChanges, ghostVars, Good
<1>2. CASE WriteFails
  BY <1>2, TearHeld DEF WriteFails
<1>3. CASE StartApp \/ StopApp \/ Reboot
  <2>1. UNCHANGED <<settings, file, chosen>> /\ (Tear \/ Spare)
    BY <1>3 DEF StartApp, StopApp, Reboot
  <2>. QED  BY <2>1, TearHeld, SameHeld DEF Spare, Good
<1>4. ASSUME NEW s \in UserSettings, UserChooses(s) PROVE Held'
  <2>1. Free /\ job' = IdleJob /\ settings' = s /\ chosen' = s /\ file' = file
    BY <1>4 DEF UserChooses, Good, TypeInv
  <2>2. s.server \notin Ports /\ s.server # LegacyServer
    <3>1. s \in [enable : BOOLEAN, server : Foreign \cup {NoServer}, rest : UserRests]
      BY ConstantsAssumption
    <3>. QED  BY <3>1, ConstantsAssumption
  <2>3. LentSaved' /\ InForce' /\ LegacySaved'
    BY <2>1, <2>2 DEF LentSaved, InForce, LegacySaved, UsersServer
  <2>4. ApplyCarries' /\ RestoreCarries' /\ FileGoes' /\ CleansLegacy'
    BY <2>1 DEF ApplyCarries, RestoreCarries, FileGoes, CleansLegacy, IdleJob, At
  <2>. QED  BY <2>3, <2>4 DEF Held
<1>. QED  BY <1>1, <1>2, <1>3, <1>4

\* What was torn stays torn, and only the user changes what the user chose.
LEMMA TornGrows == Next => torn \subseteq torn'
  BY DEF Next, CheckPort, Apply, Restore, Repair, Recover, GuardianLeaves, GuardianActs,
     GuardianWaits, Write, WriteFile, SetEnable, SetServer, SetRest, MarkToken, MarkServer,
     SpawnGuardian, RestoreEnable, RestoreServer, RestoreRest, RemoveFile, UnmarkToken,
     UnmarkServer, Disable, DeleteServer, DeleteOverride, WriteFails, StartApp, StopApp,
     Reboot, PortChanges, UserChooses, Tear, Spare, ghostVars

LEMMA OnlyUserChooses ==
  Next => chosen' = chosen \/ \E s \in UserSettings : UserChooses(s)
  BY DEF Next, CheckPort, Apply, Restore, Repair, Recover, GuardianLeaves, GuardianActs,
     GuardianWaits, Write, WriteFile, SetEnable, SetServer, SetRest, MarkToken, MarkServer,
     SpawnGuardian, RestoreEnable, RestoreServer, RestoreRest, RemoveFile, UnmarkToken,
     UnmarkServer, Disable, DeleteServer, DeleteOverride, WriteFails, StartApp, StopApp,
     Reboot, PortChanges, Tear, Spare, ghostVars

LEMMA StepCustody ==
  ASSUME UserRaces = FALSE, TypeInv, CustodyInv, [Next]_vars
  PROVE CustodyInv'
<1>1. CASE UNCHANGED vars
  BY <1>1, SameHeld DEF vars, CustodyInv
<1>2. CASE Next
  <2>1. chosen' \in UserSettings \cup {Cleaned}
    BY <1>2, OnlyUserChooses DEF CustodyInv, UserChooses
  <2>2. ASSUME "switch" \notin torn' PROVE Held'
    <3>1. Good
      BY <1>2, <2>2, TornGrows DEF Good, CustodyInv
    <3>. QED
      BY <1>2, <2>2, <3>1, EntryHeld, GuardianHeld, WriteHeld, OutsideHeld
         DEF Next, Guardian
  <2>. QED  BY <2>1, <2>2 DEF CustodyInv
<1>. QED  BY <1>1, <1>2

LEMMA CustodyAlways == ASSUME UserRaces = FALSE PROVE Spec => [](TypeInv /\ CustodyInv)
<1>1. Init => TypeInv /\ CustodyInv
  BY InitType, InitCustody
<1>2. (TypeInv /\ CustodyInv) /\ [Next]_vars => (TypeInv /\ CustodyInv)'
  BY StepType, StepCustody
<1>. QED  BY <1>1, <1>2, PTL DEF Spec

\* The user's ProxyServer is in force, or in the file while DoodleRay's is in force,
\* unless an apply to another port was cut short.
THEOREM UsersServerIsSafe == ASSUME UserRaces = FALSE PROVE Spec => []ServerIsSafe
<1>1. CustodyInv => ServerIsSafe
  BY DEF CustodyInv, Held, LentSaved, InForce, Kept, ServerIsSafe
<1>. QED  BY <1>1, CustodyAlways, PTL

-----------------------------------------------------------------------------
(* The application, the guardians and their crashes implement ProxyCustody.  *)

LEMMA UsersValueIsChosen ==
  ASSUME chosen \in UserSettings \cup {Cleaned}, LentSaved, InForce
  PROVE UsersValue = chosen.server
<1>. DEFINE server == IF settings.server \notin Ports THEN settings.server
                      ELSE IF file = NoFile THEN NoServer
                      ELSE file.previous.server
<1>1. UsersServer(server)
  BY DEF LentSaved, InForce, Kept
<1>2. CASE server = chosen.server
  BY <1>2, ChosenIsForeign DEF UsersValue, AsUsers
<1>3. CASE server = LegacyServer /\ chosen = Cleaned
  BY <1>3 DEF UsersValue, AsUsers, Cleaned
<1>. QED  BY <1>1, <1>2, <1>3 DEF UsersServer

\* What is in force is a port of DoodleRay's or the user's value.
LEMMA InForceIs ==
  /\ settings.server \in Ports => AsUsers(settings.server) = settings.server
  /\ settings.server \notin Ports => AsUsers(settings.server) = UsersValue
<1>1. LegacyServer \notin Ports
  BY ConstantsAssumption
<1>. QED  BY <1>1 DEF AsUsers, UsersValue

\* The application works while it runs, and it alone applies.
Appliers ==
    /\ ~Free /\ job.by = App => up
    /\ job.at \in {"writeFile", "enable", "server", "rest", "markToken", "markServer",
                   "spawn"} => job.by = App
    /\ up \in BOOLEAN

LEMMA InitAppliers == Init => Appliers
<1>. SUFFICES ASSUME Init PROVE Appliers
  OBVIOUS
<1>1. job.at = "idle" /\ up = FALSE
  BY DEF Init, IdleJob
<1>. QED  BY <1>1 DEF Appliers, Free

LEMMA StepAppliers ==
  ASSUME TypeInv, Appliers, [Next]_vars PROVE Appliers'
<1>. USE DEF App
<1>0. job.by \in Tokens \cup {App} /\ (Free => job = IdleJob) /\ \A t \in Tokens : t # App
  BY ConstantsAssumption DEF TypeInv, TypeOK, Tokens
<1>1. CASE UNCHANGED vars
  BY <1>1 DEF vars, Appliers, Free
<1>2. ASSUME NEW p \in Ports, CheckPort(p) \/ PortChanges(p) PROVE Appliers'
  BY <1>2 DEF CheckPort, PortChanges, Appliers, Free, appVars
<1>3. CASE Apply
  BY <1>3 DEF Apply, Begin, Appliers, Free, App
<1>4. CASE Restore \/ Repair \/ Recover
  BY <1>4 DEF Restore, Repair, Recover, GiveBack, Begin, Appliers, Free, appVars
<1>5. ASSUME NEW t \in Tokens, GuardianLeaves(t) \/ GuardianActs(t) \/ GuardianWaits(t)
      PROVE Appliers'
  BY <1>0, <1>5 DEF GuardianLeaves, GuardianActs, GuardianWaits, GiveBack, Begin, Appliers,
     Free, appVars
<1>6. CASE Write
  <2>1. CASE WriteFile \/ SetEnable \/ SetServer \/ SetRest \/ MarkToken \/ MarkServer
    <3>1. job.by = App /\ ~Free /\ up' = up /\ \E step \in Steps : Goto(step) \/ Repeat(step)
      BY <2>1 DEF WriteFile, SetEnable, SetServer, SetRest, MarkToken, MarkServer, At,
         Appliers, Free, Steps
    <3>2. job'.by = App
      BY <3>1 DEF Goto, Repeat, TypeInv, TypeOK
    <3>. QED  BY <3>1, <3>2 DEF Appliers
  <2>2. CASE SpawnGuardian
    BY <2>2 DEF SpawnGuardian, IdleJob, Appliers, Free, appVars
  <2>3. CASE RestoreEnable \/ RestoreServer \/ RestoreRest
    BY <2>3 DEF RestoreEnable, RestoreServer, RestoreRest, At, Goto, Return, IdleJob,
       Appliers, Free, TypeInv, TypeOK
  <2>4. CASE RemoveFile \/ UnmarkToken \/ UnmarkServer
    <3>1. ~Free /\ up' = up
          /\ (job' = IdleJob \/ Goto("unmarkToken") \/ Goto("unmarkServer") \/ Repeat("oldEnable"))
      BY <2>4 DEF RemoveFile, UnmarkToken, UnmarkServer, At, Return, Free
    <3>2. CASE job' = IdleJob
      BY <3>1, <3>2 DEF Appliers, IdleJob, Free
    <3>3. CASE Goto("unmarkToken") \/ Goto("unmarkServer") \/ Repeat("oldEnable")
      BY <3>1, <3>3 DEF Appliers, Free, Goto, Repeat, TypeInv, TypeOK
    <3>. QED  BY <3>1, <3>2, <3>3
  <2>5. CASE Disable \/ DeleteServer \/ DeleteOverride
    BY <2>5 DEF Disable, DeleteServer, DeleteOverride, At, Goto, Appliers, Free, TypeInv,
       TypeOK
  <2>. QED  BY <1>6, <2>1, <2>2, <2>3, <2>4, <2>5 DEF Write
<1>7. CASE WriteFails \/ StartApp \/ StopApp \/ Reboot
  <2>1. CASE Tear
    <3>1. job' = IdleJob /\ up' \in BOOLEAN
      BY <1>7, <2>1 DEF WriteFails, StartApp, StopApp, Reboot, Tear, Appliers
    <3>. QED  BY <3>1 DEF Appliers, IdleJob, Free
  <2>2. CASE job' = job /\ up' = TRUE
    BY <2>2 DEF Appliers, Free
  <2>3. CASE job' = job /\ up' = FALSE /\ (Free \/ job.by # App)
    BY <1>0, <2>3 DEF Appliers, Free, IdleJob
  <2>. QED
    BY <1>7, <2>1, <2>2, <2>3 DEF WriteFails, StartApp, StopApp, Reboot, Spare
<1>8. ASSUME NEW s \in UserSettings, UserChooses(s) PROVE Appliers'
  BY <1>8 DEF UserChooses, Appliers, Free, appVars
<1>. QED  BY <1>1, <1>2, <1>3, <1>4, <1>5, <1>6, <1>7, <1>8 DEF Next

\* DoodleRay's server comes into force while the application runs.
LEMMA LendsWhileUp ==
  ASSUME Good, Appliers, Next, chosen' = chosen,
         settings'.server \in Ports, settings'.server # settings.server
  PROVE up /\ up' = up
<1>1. SetServer
  <2>1. settings \in Settings /\ NoServer \notin Ports
        /\ (\A server : UsersServer(server) => server \notin Ports)
    BY ChosenIsForeign, ConstantsAssumption DEF Good, TypeInv, TypeOK
  <2>2. ~RestoreServer
    BY <2>1 DEF RestoreServer, Good, Held, RestoreCarries, Kept, At, Settings
  <2>3. ~DeleteServer
    BY <2>1 DEF DeleteServer, Settings
  <2>4. ~(\E s \in UserSettings : UserChooses(s))
    <3>. SUFFICES ASSUME NEW s \in UserSettings, UserChooses(s) PROVE FALSE
      OBVIOUS
    <3>1. s \in [enable : BOOLEAN, server : Foreign \cup {NoServer}, rest : UserRests]
      BY ConstantsAssumption
    <3>. QED  BY <3>1, ConstantsAssumption DEF UserChooses
  <2>5. ASSUME SetEnable \/ SetRest \/ RestoreEnable \/ RestoreRest \/ Disable
               \/ DeleteOverride
        PROVE FALSE
    BY <2>1, <2>5 DEF SetEnable, SetRest, RestoreEnable, RestoreRest, Disable,
       DeleteOverride, Settings
  <2>6. ASSUME UNCHANGED settings PROVE FALSE
    BY <2>6
  <2>. QED
    BY <2>2, <2>3, <2>4, <2>5, <2>6 DEF Next, CheckPort, Apply, Restore, Repair, Recover,
       GuardianLeaves, GuardianActs, GuardianWaits, Write, WriteFile, MarkToken, MarkServer,
       SpawnGuardian, RemoveFile, UnmarkToken, UnmarkServer, WriteFails, StartApp, StopApp,
       Reboot, PortChanges
<1>. QED  BY <1>1 DEF SetServer, At, Appliers, Free

LEMMA StartsAlone == Next => settings' = settings \/ up' = up
  BY DEF Next, CheckPort, Apply, Restore, Repair, Recover, GuardianLeaves, GuardianActs,
     GuardianWaits, Write, WriteFile, SetEnable, SetServer, SetRest, MarkToken, MarkServer,
     SpawnGuardian, RestoreEnable, RestoreServer, RestoreRest, RemoveFile, UnmarkToken,
     UnmarkServer, Disable, DeleteServer, DeleteOverride, WriteFails, StartApp, StopApp,
     Reboot, PortChanges, UserChooses, appVars

LEMMA CustodyStep ==
  ASSUME TypeInv, CustodyInv, CustodyInv', Appliers, Appliers', [Next]_vars
  PROVE [Custody!Next]_(Custody!vars)
<1>0. LegacyServer \notin Ports
  BY ConstantsAssumption
<1>1. CASE UNCHANGED vars
  BY <1>1 DEF vars, Custody!vars, UsersValue, AsUsers
<1>2. CASE Next /\ "switch" \in torn'
  BY <1>2 DEF Custody!Next
<1>3. CASE Next /\ "switch" \notin torn'
  <2>1. "switch" \notin torn /\ Good /\ Held'
    BY <1>3, TornGrows DEF CustodyInv, Good
  <2>2. UsersValue = chosen.server
    BY <2>1, UsersValueIsChosen DEF CustodyInv, Held
  <2>3. UsersValue' = chosen'.server
    <3>1. chosen' \in UserSettings \cup {Cleaned} /\ LentSaved' /\ InForce'
      BY <2>1 DEF CustodyInv, Held
    <3>2. (chosen \in UserSettings \cup {Cleaned} /\ LentSaved /\ InForce
           => UsersValue = chosen.server)'
      BY UsersValueIsChosen, PTL
    <3>. QED  BY <3>1, <3>2
  <2>4. /\ settings'.server \in Ports => AsUsers(settings.server)' = settings'.server
        /\ settings'.server \notin Ports => AsUsers(settings.server)' = UsersValue'
    BY <1>0 DEF AsUsers, UsersValue
  <2>5. CASE chosen' = chosen
    <3>1. UNCHANGED <<chosen.server, UsersValue, "switch" \in torn>>
      BY <1>3, <2>1, <2>2, <2>3, <2>5
    <3>2. CASE settings' = settings
      BY <3>1, <3>2 DEF Custody!Next, Custody!StartOrEnd, Custody!vars, Appliers, AsUsers
    <3>3. CASE settings' # settings
      <4>1. up' = up
        BY <1>3, <3>3, StartsAlone
      <4>2. CASE settings'.server \in Ports /\ settings'.server # settings.server
        <5>1. Custody!Lend(settings'.server)
          BY <1>3, <2>1, <2>4, <2>5, <3>1, <4>1, <4>2, LendsWhileUp DEF Custody!Lend
        <5>. QED  BY <4>2, <5>1 DEF Custody!Next
      <4>3. CASE settings'.server = settings.server
        BY <3>1, <4>1, <4>3 DEF Custody!vars, AsUsers
      <4>4. CASE settings'.server \notin Ports /\ settings.server \in Ports
        BY <2>4, <3>1, <4>1, <4>4, InForceIs DEF Custody!Next, Custody!Return
      <4>5. CASE settings'.server \notin Ports /\ settings.server \notin Ports
        BY <2>4, <3>1, <4>1, <4>5, InForceIs DEF Custody!vars
      <4>. QED  BY <4>2, <4>3, <4>4, <4>5
    <3>. QED  BY <3>2, <3>3
  <2>6. ASSUME NEW s \in UserSettings, UserChooses(s)
        PROVE \E server \in Foreign \cup {NoServer} : Custody!Choose(server)
    <3>1. s \in [enable : BOOLEAN, server : Foreign \cup {NoServer}, rest : UserRests]
      BY ConstantsAssumption
    <3>2. s.server \in Foreign \cup {NoServer} /\ s.server \notin Ports
      BY <3>1, ConstantsAssumption
    <3>3. settings' = s /\ chosen' = s /\ torn' = torn /\ up' = up
      BY <2>6 DEF UserChooses, appVars
    <3>4. Custody!Choose(s.server)
      BY <2>3, <2>4, <3>2, <3>3 DEF Custody!Choose
    <3>. QED  BY <3>2, <3>4
  <2>. QED  BY <1>3, <2>1, <2>5, <2>6, OnlyUserChooses DEF Custody!Next
<1>. QED  BY <1>1, <1>2, <1>3

\* The user's ProxyServer changes when the user changes it and at no other time, and
\* DoodleRay's comes into force while the application runs and at no other time,
\* whatever the application and its guardians do and wherever they die.
THEOREM ImplementsCustody == ASSUME UserRaces = FALSE PROVE Spec => KeepsCustody
<1>1. Init => Custody!Init
  <2>. SUFFICES ASSUME Init PROVE Custody!Init
    OBVIOUS
  <2>1. CustodyInv /\ "switch" \notin torn /\ up = FALSE
    BY InitCustody DEF Init
  <2>2. UsersValue = chosen.server /\ chosen.server \in Foreign \cup {NoServer}
    BY <2>1, UsersValueIsChosen, ChosenIsForeign DEF CustodyInv, Held
  <2>3. settings.server \notin Ports
    BY <2>1 DEF Init, CustodyInv, Held, LentSaved
  <2>. QED  BY <2>1, <2>2, <2>3, InForceIs DEF Custody!Init
<1>2. Spec => []Appliers
  <2>1. Spec => []TypeInv
    BY InitType, StepType, PTL DEF Spec
  <2>2. TypeInv /\ Appliers /\ [Next]_vars => Appliers'
    BY StepAppliers
  <2>. QED  BY <2>1, <2>2, InitAppliers, PTL DEF Spec
<1>3. /\ TypeInv /\ CustodyInv /\ CustodyInv' /\ Appliers /\ Appliers' /\ [Next]_vars
      => [Custody!Next]_(Custody!vars)
  BY CustodyStep
<1>. QED  BY <1>1, <1>2, <1>3, CustodyAlways, PTL DEF Spec, KeepsCustody, Custody!Spec
-----------------------------------------------------------------------------
(* What the user chose comes back exactly, all values of it, when no         *)
(* operation was cut short.  ReturnedExactly only speaks of a state in which *)
(* nothing is in progress and nothing is saved.  Exact says what it takes to *)
(* get back there: what a file or an operation carries is the user's         *)
(* setting, and how much of it is back in force at each step of a restore.   *)

\* A setting that is the user's: chosen, or left by an old version.
UsersSetting(s) == s = chosen \/ (s \in Legacy /\ chosen = Cleaned)

\* Between two operations the user's setting is in force or saved; a setting the
\* user made over DoodleRay's is in force.
RestExact ==
    Free => \/ file = NoFile /\ UsersSetting(settings)
            \/ file # NoFile /\ settings.server \in Ports /\ UsersSetting(file.previous)
            \/ file # NoFile /\ settings = chosen

ApplySteps == {"writeFile", "enable", "server", "rest", "markToken", "markServer", "spawn"}

\* An apply carries the user's setting, and its port is in force when it ends.
ApplyExact ==
    /\ job.at \in ApplySteps => job.kind # "restore" /\ UsersSetting(job.state.previous)
    /\ job.at \in {"rest", "markToken", "markServer", "spawn"} => settings.server \in Ports

\* A restore puts the user's setting back value by value, and again.
RestoreExact ==
    /\ job.at \in {"oldEnable", "oldServer", "oldRest"} => job.kind = "restore"
    /\ job.kind = "restore" =>
          /\ UsersSetting(job.state.previous)
          /\ job.at \in {"oldServer", "oldRest"} => settings.enable = job.state.previous.enable
          /\ job.at = "oldRest" => settings.server = job.state.previous.server
          /\ job.at \in {"removeFile", "unmarkToken", "unmarkServer"} \/ job.again =>
                settings = job.state.previous
          /\ job.again => file = NoFile

\* Every other operation that removes the file or the marker leaves the user's
\* setting in force, and a cleaning makes the one of a user without a proxy.
RemoveExact ==
    /\ job.at \in {"removeFile", "unmarkToken", "unmarkServer"} /\ job.kind # "restore" =>
          UsersSetting(settings)
    /\ job.at \in {"disable", "noServer", "noOverride"} =>
          job.kind # "restore" /\ chosen = Cleaned
    /\ job.at \in {"noServer", "noOverride"} => settings.enable = FALSE
    /\ job.at = "noOverride" => settings.server = NoServer

Exact == RestExact /\ ApplyExact /\ RestoreExact /\ RemoveExact

ExactInv == torn = {} => Exact
-----------------------------------------------------------------------------

\* What is known in a state from which a step is taken without cutting anything short.
Sound == Good /\ Exact /\ "switch" \notin torn

LEMMA GoodKnown ==
  ASSUME Good
  PROVE /\ settings \in Settings /\ NoFile \notin StateFiles
        /\ chosen.server \notin Ports /\ chosen.server # LegacyServer
        /\ NoServer \notin Ports /\ NoServer # LegacyServer
        /\ Held /\ chosen \in Settings
  BY ChosenIsForeign, ConstantsAssumption DEF Good, TypeInv, TypeOK

LEMMA SameSetting ==
  ASSUME NEW s \in Settings, NEW t \in Settings,
         s.enable = t.enable, s.server = t.server, s.rest = t.rest
  PROVE s = t
  BY DEF Settings

LEMMA InitExact == Init => Exact
<1>. SUFFICES ASSUME Init PROVE Exact
  OBVIOUS
<1>1. file = NoFile /\ job = IdleJob /\ UsersSetting(settings)
  BY DEF Init, UsersSetting
<1>. QED
  BY <1>1 DEF Exact, RestExact, ApplyExact, RestoreExact, RemoveExact, IdleJob, ApplySteps

\* A step that touches neither the settings, the file nor the operation.
LEMMA SameExact ==
  ASSUME Exact, UNCHANGED <<settings, file, chosen, job>> PROVE Exact'
  BY DEF Exact, RestExact, ApplyExact, RestoreExact, RemoveExact, UsersSetting, Free,
     ApplySteps

\* An operation begins.
LEMMA BeginExact ==
  ASSUME NEW by, NEW kind, NEW at, NEW state, Begin(by, kind, at, state),
         UNCHANGED <<settings, file, chosen>>,
         \/ kind = "restore" /\ at = "oldEnable" /\ UsersSetting(state.previous)
         \/ /\ kind # "restore" /\ at \in {"removeFile", "unmarkToken"}
            /\ UsersSetting(settings)
         \/ kind # "restore" /\ at = "disable" /\ chosen = Cleaned
         \/ kind # "restore" /\ at = "writeFile" /\ UsersSetting(state.previous)
  PROVE Exact'
<1>1. /\ job'.by = by /\ job'.kind = kind /\ job'.at = at /\ job'.again = FALSE
      /\ job'.state = state
  BY DEF Begin
<1>2. RestExact' /\ ApplyExact' /\ RestoreExact'
  BY <1>1 DEF RestExact, ApplyExact, RestoreExact, UsersSetting, Free, ApplySteps
<1>3. RemoveExact'
  BY <1>1 DEF RemoveExact, UsersSetting
<1>. QED  BY <1>2, <1>3 DEF Exact

LEMMA GiveBackExact ==
  ASSUME Sound, NEW by, file # NoFile, GiveBack(by), UNCHANGED <<settings, file, chosen>>
  PROVE Exact'
<1>1. Free
  BY DEF GiveBack, Begin
<1>2. CASE Ownership = "notDoodleRay" /\ Begin(by, "drop", "removeFile", NoFile)
  <2>1. settings.server \notin Ports
    BY <1>1, <1>2, FreeOwnership DEF Sound
  <2>2. UsersSetting(settings)
    BY <1>1, <2>1 DEF Sound, Exact, RestExact, UsersSetting
  <2>. QED  BY <1>2, <2>2, BeginExact
<1>3. CASE Ownership # "notDoodleRay" /\ Begin(by, "restore", "oldEnable", file)
  <2>1. settings.server \in Ports \/ settings.server = LegacyServer
    BY <1>1, <1>3, FreeOwnership DEF Ownership, Sound
  <2>2. UsersSetting(file.previous)
    BY <1>1, <2>1, GoodKnown DEF Sound, Exact, RestExact
  <2>. QED  BY <1>3, <2>2, BeginExact
<1>. QED  BY <1>2, <1>3 DEF GiveBack

LEMMA CleanExact ==
  ASSUME Sound, file = NoFile, Ownership # "notDoodleRay",
         Begin(App, "clean", "disable", NoFile), UNCHANGED <<settings, file, chosen>>
  PROVE Exact'
<1>1. settings.server = LegacyServer
  BY FreeOwnership DEF Begin, Ownership, Sound
<1>2. chosen = Cleaned
  BY <1>1, GoodKnown DEF Sound, Exact, RestExact, UsersSetting, Begin
<1>. QED  BY <1>2, BeginExact

LEMMA ApplyExactNext == ASSUME Sound, Apply PROVE Exact'
<1>. DEFINE keep  == file # NoFile /\ Ownership = "current"
            kind  == IF keep /\ file.port # pending THEN "switch" ELSE "apply"
            state == [token |-> issued + 1, owner |-> pid, port |-> pending,
                      previous |-> IF keep THEN file.previous ELSE settings]
<1>1. Free /\ UNCHANGED <<settings, file, chosen>> /\ Begin(App, kind, "writeFile", state)
  BY DEF Apply, Begin, ghostVars
<1>2. kind # "restore"
  OBVIOUS
<1>3. UsersSetting(state.previous)
  <2>1. CASE keep
    <3>1. settings.server \in Ports
      BY <1>1, <2>1, FreeOwnership DEF Sound
    <3>. QED  BY <1>1, <2>1, <3>1, GoodKnown DEF Sound, Exact, RestExact
  <2>2. CASE ~keep
    <3>1. settings.server \notin Ports
      BY <1>1, <2>2, FreeOwnership DEF Sound
    <3>2. UsersSetting(settings)
      BY <1>1, <3>1 DEF Sound, Exact, RestExact, UsersSetting
    <3>. QED  BY <2>2, <3>2
  <2>. QED  BY <2>1, <2>2
<1>. HIDE DEF kind, state
<1>. QED  BY <1>1, <1>2, <1>3, BeginExact

\* With nothing saved, the setting in force is the user's.
LEMMA UnmarkExact ==
  ASSUME Sound, file = NoFile, Begin(App, "unmark", "unmarkToken", NoFile),
         UNCHANGED <<settings, file, chosen>>
  PROVE Exact'
<1>1. UsersSetting(settings)
  BY DEF Begin, Sound, Exact, RestExact
<1>. QED  BY <1>1, BeginExact

LEMMA EntryExact ==
  ASSUME Sound, Apply \/ Restore \/ Repair \/ Recover PROVE Exact'
<1>1. CASE Apply
  BY <1>1, ApplyExactNext
<1>2. CASE Restore
  <2>1. UNCHANGED <<settings, file, chosen>>
    BY <1>2 DEF Restore, ghostVars
  <2>. QED  BY <1>2, <2>1, GiveBackExact, UnmarkExact DEF Restore
<1>3. CASE Repair
  <2>1. UNCHANGED <<settings, file, chosen>>
    BY <1>3 DEF Repair, ghostVars
  <2>. QED  BY <1>3, <2>1, GiveBackExact, UnmarkExact, CleanExact DEF Repair
<1>4. CASE Recover
  <2>1. UNCHANGED <<settings, file, chosen>> /\ Exact
    BY <1>4 DEF Recover, ghostVars, Sound
  <2>. QED  BY <1>4, <2>1, GiveBackExact, SameExact, CleanExact DEF Recover
<1>. QED  BY <1>1, <1>2, <1>3, <1>4

LEMMA GuardianExact ==
  ASSUME Sound, NEW t \in Tokens, Guardian(t) PROVE Exact'
<1>1. CASE GuardianActs(t)
  <2>1. UNCHANGED <<settings, file, chosen>>
    BY <1>1 DEF GuardianActs, ghostVars
  <2>. QED  BY <1>1, <2>1, GiveBackExact DEF GuardianActs
<1>2. CASE GuardianLeaves(t) \/ GuardianWaits(t)
  BY <1>2, SameExact DEF GuardianLeaves, GuardianWaits, ghostVars, Sound
<1>. QED  BY <1>1, <1>2 DEF Guardian

\* The values an apply writes, and the operation that carries them.
LEMMA ApplyWritesExact ==
  ASSUME Sound, WriteFile \/ SetEnable \/ SetServer \/ SetRest \/ MarkToken \/ MarkServer
  PROVE Exact'
<1>1. Exact /\ settings \in Settings /\ job.state \in StateFiles
  BY GoodKnown
     DEF Sound, Good, TypeInv, TypeOK, HasState, StateSteps, WriteFile, SetEnable,
         SetServer, SetRest, MarkToken, MarkServer, At
<1>2. CASE WriteFile
  BY <1>1, <1>2 DEF WriteFile, Exact, RestExact, ApplyExact, RestoreExact, RemoveExact, UsersSetting, Free,
     ApplySteps, At, Goto, Repeat, ghostVars, Settings, StateFiles
<1>3. CASE SetEnable
  BY <1>1, <1>3 DEF SetEnable, Exact, RestExact, ApplyExact, RestoreExact, RemoveExact, UsersSetting, Free,
     ApplySteps, At, Goto, Repeat, ghostVars, Settings, StateFiles
<1>4. CASE SetServer
  BY <1>1, <1>4 DEF SetServer, Exact, RestExact, ApplyExact, RestoreExact, RemoveExact, UsersSetting, Free,
     ApplySteps, At, Goto, Repeat, ghostVars, Settings, StateFiles
<1>5. CASE SetRest
  BY <1>1, <1>5 DEF SetRest, Exact, RestExact, ApplyExact, RestoreExact, RemoveExact, UsersSetting, Free,
     ApplySteps, At, Goto, Repeat, ghostVars, Settings, StateFiles
<1>6. CASE MarkToken
  BY <1>1, <1>6 DEF MarkToken, Exact, RestExact, ApplyExact, RestoreExact, RemoveExact, UsersSetting, Free,
     ApplySteps, At, Goto, Repeat, ghostVars, Settings, StateFiles
<1>7. CASE MarkServer
  BY <1>1, <1>7 DEF MarkServer, Exact, RestExact, ApplyExact, RestoreExact, RemoveExact, UsersSetting, Free,
     ApplySteps, At, Goto, Repeat, ghostVars, Settings, StateFiles
<1>. QED  BY <1>2, <1>3, <1>4, <1>5, <1>6, <1>7

LEMMA RestoreWritesExact ==
  ASSUME Sound, RestoreEnable \/ RestoreServer \/ RestoreRest
  PROVE Exact'
<1>1. Exact /\ settings \in Settings /\ job.state \in StateFiles
  BY GoodKnown
     DEF Sound, Good, TypeInv, TypeOK, HasState, StateSteps, RestoreEnable, RestoreServer,
         RestoreRest, At
<1>2. CASE RestoreEnable
  BY <1>1, <1>2 DEF RestoreEnable, Exact, RestExact, ApplyExact, RestoreExact, RemoveExact, UsersSetting, Free,
     ApplySteps, At, Goto, Repeat, ghostVars, Settings, StateFiles
<1>3. CASE RestoreServer
  BY <1>1, <1>3 DEF RestoreServer, Exact, RestExact, ApplyExact, RestoreExact, RemoveExact, UsersSetting, Free,
     ApplySteps, At, Goto, Repeat, ghostVars, Settings, StateFiles
<1>4. CASE RestoreRest
  <2>1. /\ job.at = "oldRest" /\ UNCHANGED <<file, chosen>>
        /\ IF job.again THEN job' = IdleJob ELSE Goto("removeFile")
    BY <1>4 DEF RestoreRest, At, Return, ghostVars
  <2>2. /\ UsersSetting(job.state.previous) /\ job.kind = "restore"
        /\ job.again => file = NoFile
    BY <1>1, <2>1 DEF Exact, RestoreExact
  <2>3. job.state.previous \in Settings
    BY <1>1 DEF StateFiles
  <2>4. settings' = job.state.previous
    <3>1. settings' = [settings EXCEPT !.rest = job.state.previous.rest]
      BY <1>4 DEF RestoreRest
    <3>2. /\ settings.enable = job.state.previous.enable
          /\ settings.server = job.state.previous.server
      BY <1>1, <2>1, <2>2 DEF Exact, RestoreExact
    <3>3. settings' \in Settings
      BY <1>1, <2>3, <3>1 DEF Settings
    <3>4. /\ settings'.enable = job.state.previous.enable
          /\ settings'.server = job.state.previous.server
          /\ settings'.rest = job.state.previous.rest
      BY <1>1, <3>1, <3>2 DEF Settings
    <3>. QED  BY <2>3, <3>3, <3>4, SameSetting
  <2>5. CASE job.again /\ job' = IdleJob
    BY <2>1, <2>2, <2>4, <2>5 DEF Exact, RestExact, ApplyExact, RestoreExact, RemoveExact,
       UsersSetting, Free, ApplySteps, At, Goto, Repeat, IdleJob
  <2>6. CASE ~job.again /\ Goto("removeFile")
    BY <2>1, <2>2, <2>4, <2>6 DEF Exact, RestExact, ApplyExact, RestoreExact, RemoveExact,
       UsersSetting, Free, ApplySteps, At, Goto, Repeat, IdleJob
  <2>. QED  BY <2>1, <2>5, <2>6
<1>. QED  BY <1>2, <1>3, <1>4

LEMMA RemovalsExact ==
  ASSUME Sound, RemoveFile \/ UnmarkToken \/ UnmarkServer
               \/ Disable \/ DeleteServer \/ DeleteOverride
  PROVE Exact'
<1>1. Exact /\ settings \in Settings
  BY GoodKnown DEF Sound
<1>2. CASE RemoveFile
  BY <1>1, <1>2 DEF RemoveFile, Exact, RestExact, ApplyExact, RestoreExact, RemoveExact, UsersSetting, Free,
     ApplySteps, At, Goto, Repeat, ghostVars, Settings, StateFiles
<1>3. CASE UnmarkToken
  BY <1>1, <1>3 DEF UnmarkToken, Exact, RestExact, ApplyExact, RestoreExact, RemoveExact, UsersSetting, Free,
     ApplySteps, At, Goto, Repeat, ghostVars, Settings, StateFiles
<1>4. CASE UnmarkServer
  <2>1. /\ job.at = "unmarkServer" /\ UNCHANGED <<settings, file, chosen>>
        /\ \/ job.kind = "restore" /\ Repeat("oldEnable")
           \/ job.kind # "restore" /\ job' = IdleJob
    BY <1>4 DEF UnmarkServer, At, Return, ghostVars
  <2>2. file = NoFile
    BY <2>1, GoodKnown DEF Sound, Held, FileGoes
  <2>3. CASE job.kind = "restore" /\ Repeat("oldEnable")
    BY <1>1, <2>1, <2>2, <2>3 DEF Exact, RestExact, ApplyExact, RestoreExact, RemoveExact,
       UsersSetting, Free, ApplySteps, At, Goto, Repeat, IdleJob
  <2>4. CASE job.kind # "restore" /\ job' = IdleJob
    BY <1>1, <2>1, <2>2, <2>4 DEF Exact, RestExact, ApplyExact, RestoreExact, RemoveExact,
       UsersSetting, Free, ApplySteps, At, Goto, Repeat, IdleJob
  <2>. QED  BY <2>1, <2>3, <2>4
<1>5. CASE Disable
  BY <1>1, <1>5 DEF Disable, Exact, RestExact, ApplyExact, RestoreExact, RemoveExact, UsersSetting, Free,
     ApplySteps, At, Goto, Repeat, ghostVars, Settings, StateFiles
<1>6. CASE DeleteServer
  BY <1>1, <1>6 DEF DeleteServer, Exact, RestExact, ApplyExact, RestoreExact, RemoveExact, UsersSetting, Free,
     ApplySteps, At, Goto, Repeat, ghostVars, Settings, StateFiles
<1>7. CASE DeleteOverride
  <2>1. /\ job.at = "noOverride" /\ UNCHANGED <<file, chosen>> /\ Goto("unmarkToken")
    BY <1>7 DEF DeleteOverride, At, ghostVars
  <2>2. chosen = Cleaned /\ job.kind # "restore"
    BY <1>1, <2>1 DEF Exact, RemoveExact
  <2>3. settings' = Cleaned
    <3>1. settings' = [settings EXCEPT !.rest = ClearRest]
      BY <1>7 DEF DeleteOverride
    <3>2. settings.enable = FALSE /\ settings.server = NoServer
      BY <1>1, <2>1 DEF Exact, RemoveExact
    <3>3. settings' \in Settings /\ Cleaned \in Settings
      BY <1>1, <2>2, <3>1, GoodKnown DEF Settings, Rests, Sound
    <3>4. /\ settings'.enable = Cleaned.enable /\ settings'.server = Cleaned.server
          /\ settings'.rest = Cleaned.rest
      BY <1>1, <3>1, <3>2 DEF Settings, Cleaned
    <3>. QED  BY <3>3, <3>4, SameSetting
  <2>. QED  BY <1>1, <2>1, <2>2, <2>3 DEF Exact, RestExact, ApplyExact, RestoreExact, RemoveExact,
       UsersSetting, Free, ApplySteps, At, Goto, Repeat, IdleJob
<1>. QED  BY <1>2, <1>3, <1>4, <1>5, <1>6, <1>7

LEMMA WriteExact == ASSUME Sound, Write PROVE Exact'
<1>1. CASE SpawnGuardian
  <2>1. /\ job.at = "spawn" /\ job' = IdleJob /\ UNCHANGED <<settings, file, chosen>>
    BY <1>1 DEF SpawnGuardian, At, ghostVars
  <2>2. file = job.state
    BY <2>1 DEF Sound, Good, Held, ApplyCarries
  <2>3. file # NoFile
    BY <2>1, <2>2, GoodKnown DEF Sound, Good, TypeInv, HasState, StateSteps
  <2>. QED
    BY <2>1, <2>2, <2>3 DEF Sound, Exact, RestExact, ApplyExact, RestoreExact, RemoveExact,
       UsersSetting, ApplySteps, IdleJob
<1>. QED
  BY <1>1, ApplyWritesExact, RestoreWritesExact, RemovalsExact DEF Write

-----------------------------------------------------------------------------

\* Whatever ends an operation before it is done leaves a trace in torn.
LEMMA OutsideExact ==
  ASSUME Sound, UserRaces = FALSE, torn' = {},
         \/ \E p \in Ports : CheckPort(p)
         \/ WriteFails \/ StartApp \/ StopApp \/ Reboot
         \/ \E p \in Ports : PortChanges(p)
         \/ \E s \in UserSettings : UserChooses(s)
  PROVE Exact'
<1>1. ASSUME NEW p \in Ports, CheckPort(p) \/ PortChanges(p) PROVE Exact'
  BY <1>1, SameExact DEF CheckPort, PortChanges, ghostVars, Sound
<1>2. ~Tear
  BY DEF Tear
<1>3. CASE WriteFails \/ StartApp \/ StopApp \/ Reboot
  <2>1. UNCHANGED <<settings, file, chosen>> /\ Spare
    BY <1>2, <1>3 DEF WriteFails, StartApp, StopApp, Reboot
  <2>. QED  BY <2>1, SameExact DEF Spare, Sound
<1>4. ASSUME NEW s \in UserSettings, UserChooses(s) PROVE Exact'
  <2>1. Free /\ UNCHANGED <<file, job>> /\ settings' = s /\ chosen' = s
    BY <1>4 DEF UserChooses
  <2>2. job' = IdleJob
    BY <2>1 DEF Sound, Good, TypeInv
  <2>. QED
    BY <2>1, <2>2 DEF Exact, RestExact, ApplyExact, RestoreExact, RemoveExact,
       UsersSetting, ApplySteps, IdleJob
<1>. QED  BY <1>1, <1>3, <1>4

LEMMA StepExact ==
  ASSUME UserRaces = FALSE, TypeInv, CustodyInv, ExactInv, [Next]_vars
  PROVE ExactInv'
<1>1. CASE UNCHANGED vars
  BY <1>1, SameExact DEF vars, ExactInv
<1>2. CASE Next
  <2>1. ASSUME torn' = {} PROVE Exact'
    <3>1. torn = {}
      BY <1>2, <2>1, TornGrows
    <3>2. Sound
      BY <3>1 DEF ExactInv, CustodyInv, Sound, Good
    <3>. QED
      BY <1>2, <2>1, <3>2, EntryExact, GuardianExact, WriteExact, OutsideExact
         DEF Next, Guardian
  <2>. QED  BY <2>1 DEF ExactInv
<1>. QED  BY <1>1, <1>2

\* When no operation was cut short, what the user chose comes back exactly, and no
\* operation of the application or of a guardian overwrites what the user chose
\* meanwhile: with nothing in progress and nothing saved, every value in force is
\* the user's.
THEOREM UsersSettingReturns == ASSUME UserRaces = FALSE PROVE Spec => []ReturnedExactly
<1>1. Init => ExactInv
  BY InitExact DEF ExactInv
<1>2. TypeInv /\ CustodyInv /\ ExactInv /\ [Next]_vars => ExactInv'
  BY StepExact
<1>3. ExactInv => ReturnedExactly
  BY DEF ExactInv, Exact, RestExact, UsersSetting, ReturnedExactly
<1>. QED  BY <1>1, <1>2, <1>3, CustodyAlways, PTL DEF Spec
-----------------------------------------------------------------------------
(* The recovery at startup.                                                  *)

\* Only these steps end the start of an application that runs on.
LEMMA StartEnds ==
  Next => \/ Recover \/ RestoreRest \/ UnmarkServer \/ WriteFails
          \/ StartApp \/ StopApp \/ Reboot
          \/ UNCHANGED <<up, starting>>
  BY DEF Next, CheckPort, Apply, Restore, Repair, GuardianLeaves, GuardianActs,
     GuardianWaits, Write, WriteFile, SetEnable, SetServer, SetRest, MarkToken, MarkServer,
     SpawnGuardian, RestoreEnable, RestoreServer, RemoveFile, UnmarkToken, Disable,
     DeleteServer, DeleteOverride, PortChanges, UserChooses, Continue, appVars

LEMMA StartingIsUp ==
  ASSUME starting => up, [Next]_vars PROVE (starting => up)'
<1>1. CASE UNCHANGED vars
  BY <1>1 DEF vars
<1>2. CASE Next
  BY <1>2, StartEnds DEF Recover, RestoreRest, UnmarkServer, WriteFails, StartApp, StopApp,
     Reboot, Return, Continue
<1>. QED  BY <1>1, <1>2

\* A recovery that leaves the setting alone does so for an owner that runs.
LEMMA RecoverHeals ==
  ASSUME Good, Recover, starting, ~starting' PROVE ~Orphaned'
<1>1. /\ Free /\ UNCHANGED <<settings, file, pid>>
      /\ \/ file # NoFile /\ ~Abandoned
         \/ file = NoFile /\ Ownership = "notDoodleRay"
  BY DEF Recover
<1>2. CASE file # NoFile /\ ~Abandoned
  BY <1>1, <1>2 DEF Abandoned, OwnerAlive, Orphaned
<1>3. CASE file = NoFile /\ Ownership = "notDoodleRay"
  BY <1>1, <1>3, FreeOwnership DEF Orphaned
<1>. QED  BY <1>1, <1>2, <1>3

\* A recovery that acts leaves the user's server in force.
LEMMA ReturnHeals ==
  ASSUME Good, RestoreRest \/ UnmarkServer, starting, ~starting' PROVE ~Orphaned'
<1>1. CASE RestoreRest
  <2>1. settings.server \notin Ports
    BY <1>1 DEF RestoreRest, At, Good, Held, RestoreCarries
  <2>2. settings'.server = settings.server
    BY <1>1 DEF RestoreRest, Good, TypeInv, TypeOK, Settings
  <2>. QED  BY <2>1, <2>2 DEF Orphaned
<1>2. CASE UnmarkServer
  <2>1. file = NoFile /\ UNCHANGED settings
    BY <1>2 DEF UnmarkServer, At, Good, Held, FileGoes
  <2>. QED  BY <2>1 DEF Orphaned, Good, Held, LentSaved
<1>. QED  BY <1>1, <1>2

\* A recovery that runs to its end leaves no proxy of an application that has gone,
\* whatever was interrupted before, unless it was an apply to another port.
THEOREM RecoveryGivesBack == ASSUME UserRaces = FALSE PROVE Spec => RecoveryHeals
<1>1. Init => (starting => up)
  BY DEF Init
<1>2. (starting => up) /\ [Next]_vars => (starting => up)'
  BY StartingIsUp
<1>3. TypeInv /\ CustodyInv /\ (starting => up) /\ [Next]_vars
      => [ starting /\ ~starting' /\ up' /\ faults' = faults /\ "switch" \notin torn
           => ~Orphaned' ]_vars
  <2>. SUFFICES ASSUME TypeInv, CustodyInv, starting => up, Next, starting, ~starting', up',
                       faults' = faults, "switch" \notin torn
                PROVE ~Orphaned'
    OBVIOUS
  <2>1. Good
    BY DEF Good, CustodyInv
  <2>2. ~WriteFails
    BY DEF WriteFails, Tear, TypeInv, TypeOK
  <2>3. Recover \/ RestoreRest \/ UnmarkServer
    BY <2>2, StartEnds DEF StartApp, StopApp, Reboot
  <2>. QED  BY <2>1, <2>3, RecoverHeals, ReturnHeals
<1>. QED  BY <1>1, <1>2, <1>3, CustodyAlways, PTL DEF Spec, RecoveryHeals
=============================================================================
