------------------------- MODULE WindowsInstallProofs -------------------------
(***************************************************************************)
(* For any set of versions, whatever fails or dies in whatever step: the      *)
(* inductive invariant of WindowsInstall, and from it that the program        *)
(* survives, that an installation that reports success has left it, and that  *)
(* an uninstallation leaves nothing that would call for it.                   *)
(***************************************************************************)
EXTENDS WindowsInstall, TLAPS

USE InstallAssumption

\* What the steps of finish that do not touch a file may do.
FinishEffect ==
    /\ UNCHANGED <<file, unsynced, companion, removing, disturbed>>
    /\ setup' \in [pc : {"ok", "failed", "agent", "open", "cleanup"} \cup PrepareSteps,
                   ver : {setup.ver}, backup : {"none", "made"},
                   finish : {"ok", "failed"}, by : {"user", "admin"}]
    /\ setup'.pc \in InstallSteps => setup.ver # "none"
    /\ image' \in {"none", image} \/ (image' = "target" /\ Whole("target"))
    /\ autostart' \in {"on", autostart}
    /\ serve' \in {"ours", serve}

\* They do no more.
LEMMA FinishHas ==
  ASSUME InstallTypeOK, CopyInv, Finish, setup.pc # "cleanup"
  PROVE  FinishEffect
<1> USE DEF FinishEffect, InstallTypeOK, CopyInv, filesVars, otherVars, At, Goto, Prepared, ServeFails, FinishFails,
        InstallSteps, PrepareSteps
<1>1. CASE Autostart
  <2>1. CASE FinishFails
    BY <1>1, <2>1 DEF Autostart
  <2>2. CASE Goto("agent")
    BY <1>1, <2>2 DEF Autostart
  <2>3. QED
    BY <1>1, <2>1, <2>2 DEF Autostart
<1>2. CASE Agent
  BY <1>2 DEF Agent
<1>3. CASE Read
  BY <1>3, ZenonT(60) DEF Read
<1>4. CASE Ensure
  <2>1. CASE Goto("verify")
    BY <1>4, <2>1 DEF Ensure
  <2>2. CASE FinishFails
    BY <1>4, <2>2 DEF Ensure
  <2>3. CASE ServeFails /\ ~FinishFails
    BY <1>4, <2>3, ZenonT(60) DEF Ensure
  <2>4. CASE Goto("set")
    BY <1>4, <2>4 DEF Ensure
  <2>5. QED
    BY <1>4, <2>1, <2>2, <2>3, <2>4 DEF Ensure
<1>5. CASE SetServe
  <2>1. CASE Goto("verify")
    BY <1>5, <2>1 DEF SetServe
  <2>2. CASE FinishFails
    BY <1>5, <2>2 DEF SetServe
  <2>3. CASE ServeFails /\ ~FinishFails
    BY <1>5, <2>3, ZenonT(60) DEF SetServe
  <2>4. QED
    BY <1>5, <2>1, <2>2, <2>3 DEF SetServe
<1>6. CASE VerifyHealth
  <2>1. CASE Prepared
    BY <1>6, <2>1 DEF VerifyHealth
  <2>2. CASE FinishFails
    BY <1>6, <2>2 DEF VerifyHealth
  <2>3. CASE ServeFails /\ ~FinishFails
    BY <1>6, <2>3, ZenonT(60) DEF VerifyHealth
  <2>4. QED
    BY <1>6, <2>1, <2>2, <2>3 DEF VerifyHealth
<1>7. CASE OpenSettings
  BY <1>7 DEF OpenSettings
<1>8. QED
  BY <1>1, <1>2, <1>3, <1>4, <1>5, <1>6, <1>7 DEF Finish, Cleanup

\* They keep the invariant.
LEMMA EffectKeeps ==
  ASSUME InstallInv, FinishEffect, setup.pc \in {"autostart", "agent", "open"} \cup PrepareSteps
  PROVE  InstallInv'
<1> USE DEF FinishEffect, InstallSteps, PrepareSteps
<1>1. InstallTypeOK'
  BY DEF InstallInv, InstallTypeOK, Ended
<1>2. FilesInv'
  BY DEF InstallInv, FilesInv, Whole
<1>3. CopyInv'
  BY DEF InstallInv, CopyInv
<1>4. ProgramInv'
  BY DEF InstallInv, ProgramInv, Program, Whole, InstallTypeOK, CopyInv, FilesInv, Running, Ended
<1>5. QED
  BY <1>1, <1>2, <1>3, <1>4 DEF InstallInv
\* The invariant holds at first.
LEMMA InitInv == Init => InstallInv
<1> SUFFICES ASSUME Init PROVE InstallInv
  OBVIOUS
<1> USE DEF Off, Files, Whole, InstallSteps, PrepareSteps, UninstallSteps, Ended, Running, Program
<1>1. setup = Off /\ setup.pc = "off" /\ setup.ver = "none" /\ unsynced = {} /\ removing = "no" /\ disturbed \in BOOLEAN
  BY DEF Init
<1>2. CASE /\ file = [f \in Files |-> "none"] /\ image = "none" /\ autostart = "off"
           /\ companion = "missing" /\ serve \in {"none", "other"}
  <2>1. file \in [Files -> Versions \cup {"none", "torn"}] /\ \A f \in Files : file[f] = "none"
    BY <1>2
  <2>2. InstallTypeOK
    BY <1>1, <1>2, <2>1 DEF InstallTypeOK
  <2>3. FilesInv /\ CopyInv
    BY <1>1, <1>2, <2>1 DEF FilesInv, CopyInv
  <2>4. ProgramInv
    BY <1>1, <1>2, <2>1 DEF ProgramInv
  <2>5. QED
    BY <2>2, <2>3, <2>4 DEF InstallInv
<1>3. CASE \E v \in Versions : file = [target |-> v, new |-> "none", old |-> "none"]
  BY <1>1, <1>3 DEF Init, InstallInv, InstallTypeOK, FilesInv, CopyInv, ProgramInv
<1>4. QED
  BY <1>2, <1>3 DEF Init

\* The steps of Install keep the invariant.
LEMMA InstallKeeps == InstallInv /\ Install => InstallInv'
<1> SUFFICES ASSUME InstallInv, Install PROVE InstallInv'
  OBVIOUS
<1>1. CASE Companion
  BY <1>1 DEF Companion, filesVars, otherVars, At, Goto, Fail,
     InstallInv, InstallTypeOK, FilesInv, CopyInv, ProgramInv, Files, Whole, Program,
     Running, Ended, InstallSteps, PrepareSteps, UninstallSteps
<1>2. CASE Same
  BY <1>2 DEF Same, filesVars, otherVars, At, Goto, Fail,
     InstallInv, InstallTypeOK, FilesInv, CopyInv, ProgramInv, Files, Whole, Program,
     Running, Ended, InstallSteps, PrepareSteps, UninstallSteps
<1>3. CASE Copy
  BY <1>3 DEF Copy, filesVars, otherVars, At, Goto, Fail,
     InstallInv, InstallTypeOK, FilesInv, CopyInv, ProgramInv, Files, Whole, Program,
     Running, Ended, InstallSteps, PrepareSteps, UninstallSteps
<1>4. CASE Sync
  BY <1>4 DEF Sync, filesVars, otherVars, At, Goto, Fail,
     InstallInv, InstallTypeOK, FilesInv, CopyInv, ProgramInv, Files, Whole, Program,
     Running, Ended, InstallSteps, PrepareSteps, UninstallSteps
<1>5. CASE CopyFails
  BY <1>5 DEF CopyFails, GiveUpCopy, Remove, filesVars, otherVars, At, Goto, Fail,
     InstallInv, InstallTypeOK, FilesInv, CopyInv, ProgramInv, Files, Whole, Program,
     Running, Ended, InstallSteps, PrepareSteps, UninstallSteps
<1>6. CASE DropOld
  BY <1>6 DEF DropOld, Remove, filesVars, otherVars, At, Goto, Fail,
     InstallInv, InstallTypeOK, FilesInv, CopyInv, ProgramInv, Files, Whole, Program,
     Running, Ended, InstallSteps, PrepareSteps, UninstallSteps
<1>7. CASE Backup
  BY <1>7, ZenonT(60) DEF Backup, Rename, filesVars, otherVars, At, Goto, Fail,
     InstallInv, InstallTypeOK, FilesInv, CopyInv, ProgramInv, Files, Whole, Program,
     Running, Ended, InstallSteps, PrepareSteps, UninstallSteps
<1>8. CASE BackupFails
  BY <1>8 DEF BackupFails, GiveUpCopy, Remove, filesVars, otherVars, At, Goto, Fail,
     InstallInv, InstallTypeOK, FilesInv, CopyInv, ProgramInv, Files, Whole, Program,
     Running, Ended, InstallSteps, PrepareSteps, UninstallSteps
<1>9. CASE Apply
  BY <1>9 DEF Apply, Rename, filesVars, otherVars, At, Goto, Fail,
     InstallInv, InstallTypeOK, FilesInv, CopyInv, ProgramInv, Files, Whole, Program,
     Running, Ended, InstallSteps, PrepareSteps, UninstallSteps
<1>10. CASE ApplyFails
  BY <1>10 DEF ApplyFails, filesVars, otherVars, At, Goto, Fail,
     InstallInv, InstallTypeOK, FilesInv, CopyInv, ProgramInv, Files, Whole, Program,
     Running, Ended, InstallSteps, PrepareSteps, UninstallSteps
<1>11. CASE DropBackup
  BY <1>11 DEF DropBackup, Remove, filesVars, otherVars, At, Goto, Fail,
     InstallInv, InstallTypeOK, FilesInv, CopyInv, ProgramInv, Files, Whole, Program,
     Running, Ended, InstallSteps, PrepareSteps, UninstallSteps
<1>12. QED
  BY <1>1, <1>2, <1>3, <1>4, <1>5, <1>6, <1>7, <1>8, <1>9, <1>10, <1>11 DEF Install

\* The steps of Uninstall keep the invariant.
LEMMA UninstallKeeps == InstallInv /\ Uninstall => InstallInv'
<1> SUFFICES ASSUME InstallInv, Uninstall PROVE InstallInv'
  OBVIOUS
<1>1. CASE StopAgent
  <2>1. UNCHANGED <<file, unsynced, companion, autostart, serve, removing>>
    BY <1>1 DEF StopAgent, filesVars
  <2>2. PICK pc \in {"readOurs", "unautostart", "failed"} :
            /\ Goto(pc)
            /\ disturbed' = (disturbed \/ (pc = "unautostart" /\ serve = "ours"))
    BY <1>1 DEF StopAgent
  <2>3. image' \in {image, "none"} /\ setup.pc = "stopAgent"
    BY <1>1 DEF StopAgent, At
  <2>4. /\ disturbed' \in BOOLEAN /\ (~disturbed' => ~disturbed)
        /\ pc = "unautostart" /\ ~disturbed' => serve # "ours"
    BY <2>2 DEF InstallInv, InstallTypeOK
  <2>5. InstallTypeOK'
    BY <2>1, <2>2, <2>3, <2>4
       DEF Goto, InstallInv, InstallTypeOK, Ended, InstallSteps, PrepareSteps, UninstallSteps
  <2>6. setup'.pc = pc /\ setup'.ver = setup.ver
    BY <2>2 DEF Goto, InstallInv, InstallTypeOK
  <2>7. FilesInv' /\ CopyInv'
    BY <2>1, <2>2, <2>3, <2>6 DEF InstallInv, FilesInv, CopyInv, InstallSteps, Whole
  <2>8. ProgramInv'
    BY <2>1, <2>2, <2>3, <2>4, <2>6
       DEF InstallInv, ProgramInv, Program, Whole, Running, Ended, PrepareSteps
  <2>9. QED
    BY <2>5, <2>7, <2>8 DEF InstallInv
<1>2. CASE ReadOurs
  BY <1>2 DEF ReadOurs, filesVars, otherVars, At, Goto, Fail,
     InstallInv, InstallTypeOK, FilesInv, CopyInv, ProgramInv, Files, Whole, Program,
     Running, Ended, InstallSteps, PrepareSteps, UninstallSteps
<1>3. CASE Unset
  BY <1>3 DEF Unset, filesVars, otherVars, At, Goto, Fail,
     InstallInv, InstallTypeOK, FilesInv, CopyInv, ProgramInv, Files, Whole, Program,
     Running, Ended, InstallSteps, PrepareSteps, UninstallSteps
<1>4. CASE Unautostart
  BY <1>4 DEF Unautostart, filesVars, otherVars, At, Goto, Fail,
     InstallInv, InstallTypeOK, FilesInv, CopyInv, ProgramInv, Files, Whole, Program,
     Running, Ended, InstallSteps, PrepareSteps, UninstallSteps
<1>5. CASE Schedule
  BY <1>5 DEF Schedule, filesVars, otherVars, At, Goto, Fail,
     InstallInv, InstallTypeOK, FilesInv, CopyInv, ProgramInv, Files, Whole, Program,
     Running, Ended, InstallSteps, PrepareSteps, UninstallSteps
<1>6. QED
  BY <1>1, <1>2, <1>3, <1>4, <1>5 DEF Uninstall

\* The steps of Finish keep the invariant.
LEMMA FinishKeeps == InstallInv /\ Finish => InstallInv'
<1> SUFFICES ASSUME InstallInv, Finish PROVE InstallInv'
  OBVIOUS
<1>1. CASE Cleanup
  BY <1>1 DEF Cleanup, Remove, filesVars, otherVars, At, Goto, Fail,
     InstallInv, InstallTypeOK, FilesInv, CopyInv, ProgramInv, Files, Whole, Program,
     Running, Ended, InstallSteps, PrepareSteps, UninstallSteps
<1>2. CASE ~Cleanup
  <2>1. setup.pc \in {"autostart", "agent", "open"} \cup PrepareSteps
    BY <1>2 DEF Finish, Autostart, Agent, Read, Ensure, SetServe, VerifyHealth, OpenSettings, At, PrepareSteps
  <2>2. FinishEffect
    BY <2>1, FinishHas DEF InstallInv, PrepareSteps
  <2>3. QED
    BY <2>1, <2>2, EffectKeeps
<1>3. QED
  BY <1>1, <1>2

\* The start of a process keeps the invariant.
LEMMA BeginKeeps ==
  ASSUME InstallInv, NEW pc, NEW v \in Versions \cup {"none"}, Begin(pc, v),
         pc \in {"companion", "autostart"} => v # "none",
         pc \in {"companion", "autostart", "stopAgent", "read"},
         pc = "autostart" => file["target"] = v,
         pc = "read" => image # "none" /\ v = "none"
  PROVE  InstallInv'
<1> USE DEF InstallSteps, PrepareSteps, UninstallSteps, Ended
<1>1. /\ UNCHANGED <<file, unsynced, companion, image, autostart, serve, removing>>
      /\ ~Running
  BY DEF Begin, filesVars
<1>2. setup' = [pc |-> pc, ver |-> v, backup |-> "none", finish |-> "ok", by |-> "user"]
  BY DEF Begin, Off
<1>3. setup'.pc = pc /\ setup'.ver = v
  BY <1>2
<1>4. disturbed' \in BOOLEAN /\ (~disturbed' => ~disturbed) /\ (removing = "soon" => disturbed')
  BY DEF Begin, InstallInv, InstallTypeOK
<1>5. InstallTypeOK'
  BY <1>1, <1>2, <1>4 DEF InstallInv, InstallTypeOK
<1>6. FilesInv'
  BY <1>1 DEF InstallInv, FilesInv, Whole
<1>7. CopyInv'
  BY <1>1, <1>3 DEF InstallInv, CopyInv
<1>8. image # "none" => Program
  BY DEF InstallInv, FilesInv, InstallTypeOK, Whole, Program
<1>9. Program' = Program /\ Whole("target")' = Whole("target")
  BY <1>1 DEF Program, Whole
<1>10. ProgramInv'
  BY <1>1, <1>3, <1>4, <1>8, <1>9 DEF InstallInv, ProgramInv, Running
<1>11. QED
  BY <1>5, <1>6, <1>7, <1>10 DEF InstallInv

LEMMA StartKeeps == InstallInv /\ Start => InstallInv'
<1> SUFFICES ASSUME InstallInv, Start PROVE InstallInv'
  OBVIOUS
<1>1. ASSUME NEW v \in Versions, Begin("companion", v) PROVE InstallInv'
  BY <1>1, BeginKeeps
<1>2. CASE Whole("target") /\ Begin("autostart", file["target"])
  BY <1>2, BeginKeeps DEF Whole
<1>3. CASE Begin("stopAgent", "none")
  BY <1>3, BeginKeeps
<1>4. CASE image # "none" /\ Begin("read", "none")
  BY <1>4, BeginKeeps
<1>5. QED
  BY <1>1, <1>2, <1>3, <1>4 DEF Start

\* Every step keeps it.
LEMMA NextKeeps == InstallInv /\ [Next]_installVars => InstallInv'
<1> SUFFICES ASSUME InstallInv, [Next]_installVars PROVE InstallInv'
  OBVIOUS
<1>1. CASE Start
  BY <1>1, StartKeeps
<1>2. CASE Install
  BY <1>2, InstallKeeps
<1>3. CASE Finish
  BY <1>3, FinishKeeps
<1>4. CASE Uninstall
  BY <1>4, UninstallKeeps
<1>5. CASE Dies
  BY <1>5 DEF Dies, filesVars, otherVars, At, Goto, Fail, InstallInv, InstallTypeOK, FilesInv, CopyInv, ProgramInv, Files, Whole, Program,
     Running, Ended, InstallSteps, PrepareSteps, UninstallSteps
<1>6. CASE RemoveDirectory
  BY <1>6 DEF RemoveDirectory, InstallInv, InstallTypeOK, FilesInv, CopyInv, ProgramInv, Files, Whole, Program,
     Running, Ended, InstallSteps, PrepareSteps, UninstallSteps
<1>7. CASE OthersServe
  BY <1>7 DEF OthersServe, filesVars, otherVars, At, Goto, Fail, InstallInv, InstallTypeOK, FilesInv, CopyInv, ProgramInv, Files, Whole, Program,
     Running, Ended, InstallSteps, PrepareSteps, UninstallSteps
<1>8. CASE AgentChanges
  BY <1>8 DEF AgentChanges, filesVars, otherVars, At, Goto, Fail, InstallInv, InstallTypeOK, FilesInv, CopyInv, ProgramInv, Files, Whole, Program,
     Running, Ended, InstallSteps, PrepareSteps, UninstallSteps
<1>9. CASE PowerFails
  BY <1>9 DEF PowerFails, Off, InstallInv, InstallTypeOK, FilesInv, CopyInv, ProgramInv, Files, Whole, Program,
     Running, Ended, InstallSteps, PrepareSteps, UninstallSteps
<1>10. CASE ToggleAutostart
  <2>1. UNCHANGED <<file, unsynced, companion, image, serve, removing, setup>>
    BY <1>10 DEF ToggleAutostart, filesVars
  <2>2. /\ image # "none" /\ autostart' \in {"off", "on"}
        /\ disturbed' \in BOOLEAN /\ (~disturbed' => ~disturbed)
        /\ ~disturbed' /\ autostart' = "on" => setup.pc # "schedule" /\ removing # "soon"
    BY <1>10 DEF ToggleAutostart, At, InstallInv, InstallTypeOK
  <2>3. Program
    BY <2>2 DEF InstallInv, InstallTypeOK, FilesInv, Program
  <2>4. InstallTypeOK' /\ FilesInv' /\ CopyInv'
    BY <2>1, <2>2 DEF InstallInv, InstallTypeOK, FilesInv, CopyInv, Whole
  <2>5. ProgramInv'
    BY <2>1, <2>2, <2>3 DEF InstallInv, InstallTypeOK, ProgramInv, Program, Whole, Running
  <2>6. QED
    BY <2>4, <2>5 DEF InstallInv
<1>11. CASE UNCHANGED installVars
  BY <1>11 DEF installVars, InstallInv, InstallTypeOK, FilesInv, CopyInv, ProgramInv, Files, Whole, Program,
     Running, Ended, InstallSteps, PrepareSteps, UninstallSteps
<1>12. QED
  BY <1>1, <1>2, <1>3, <1>4, <1>5, <1>6, <1>7, <1>8, <1>9, <1>10, <1>11 DEF Next

\* The inductive invariant of the installation.
THEOREM InstallSafe == Spec => []InstallInv
  BY InitInv, NextKeeps, PTL DEF Spec

\* As long as something would start the program or send it requests, the program or
\* its backup is there, whatever failed (platform_windows.go:235-286).
THEOREM ProgramAlwaysSurvives == Spec => []ProgramSurvives
<1>1. InstallInv => ProgramSurvives
  BY DEF InstallInv, ProgramInv, ProgramSurvives
<1>2. QED
  BY <1>1, InstallSafe, PTL

\* An installation that reports success has left its program and no backup.
THEOREM InstallIsComplete == Spec => InstallLeavesProgram
<1>1. InstallInv /\ [Next]_installVars =>
        [At("cleanup") /\ setup'.pc = "ok" /\ ~disturbed
            => file'["target"] = setup.ver /\ file'["old"] = "none"]_installVars
  <2> SUFFICES ASSUME InstallInv, Next, At("cleanup"), setup'.pc = "ok", ~disturbed
               PROVE  file'["target"] = setup.ver /\ file'["old"] = "none"
    OBVIOUS
  <2>1. setup.pc = "cleanup" /\ setup' # setup /\ setup'.pc # "off"
    BY DEF At
  <2>2. CASE Cleanup
    <3>1. file["target"] = setup.ver
      BY <2>1 DEF InstallInv, ProgramInv
    <3>2. setup'.pc = "ok" => file' = [file EXCEPT !["old"] = "none"]
      BY <2>2, <2>1 DEF Cleanup, Remove, Fail, Goto, InstallInv, InstallTypeOK
    <3>3. QED
      BY <3>1, <3>2 DEF InstallInv, InstallTypeOK, Files
  <2>3. CASE Start
    BY <2>1, <2>3 DEF Start, Begin, Running, Ended
  <2>4. CASE Install
    BY <2>1, <2>4 DEF Install, Companion, Same, Copy, Sync, CopyFails, DropOld, Backup,
       BackupFails, Apply, ApplyFails, DropBackup, At
  <2>5. CASE Finish /\ ~Cleanup
    BY <2>1, <2>5 DEF Finish, Autostart, Agent, Read, Ensure, SetServe, VerifyHealth, OpenSettings, At
  <2>6. CASE Uninstall
    BY <2>1, <2>6 DEF Uninstall, StopAgent, ReadOurs, Unset, Unautostart, Schedule, At
  <2>7. CASE Dies
    BY <2>1, <2>7 DEF Dies, Goto, InstallInv, InstallTypeOK
  <2>8. CASE PowerFails
    BY <2>1, <2>8 DEF PowerFails, Off
  <2>9. CASE RemoveDirectory \/ OthersServe \/ AgentChanges \/ ToggleAutostart
    BY <2>1, <2>9 DEF RemoveDirectory, OthersServe, AgentChanges, ToggleAutostart
  <2>10. QED
    BY <2>2, <2>3, <2>4, <2>5, <2>6, <2>7, <2>8, <2>9 DEF Next
<1>2. QED
  BY <1>1, InstallSafe, PTL DEF Spec, InstallLeavesProgram

\* The directory goes only when neither Tailscale nor the login refers to it.
THEOREM UninstallIsComplete == Spec => UninstallLeavesNothing
<1>1. InstallInv => [RemoveDirectory /\ ~disturbed => serve # "ours" /\ autostart = "off"]_installVars
  BY DEF InstallInv, ProgramInv, RemoveDirectory
<1>2. QED
  BY <1>1, InstallSafe, PTL DEF Spec, UninstallLeavesNothing
=============================================================================
