---------------------------- MODULE WindowsInstall ----------------------------
(***************************************************************************)
(* What a double click on a TailBlink.exe does on Windows: windowsInstaller   *)
(* copies the program and cloudflared into the user's directory, has it       *)
(* started at login, and asks Tailscale to serve /tailblink; and what         *)
(* uninstallAction takes back.  One of these runs at a time; the agent, other *)
(* programs and a power failure change the files, the registry and what       *)
(* Tailscale serves between its steps.  ensureAgent is in module Launcher.    *)
(***************************************************************************)
EXTENDS Naturals, TLC

CONSTANTS
    Versions    \* the programs that may be installed

ASSUME InstallAssumption == Versions \cap {"none", "torn"} = {}

VARIABLES
    file,       \* TailBlink.exe ("target"), TailBlink.exe.new and TailBlink.exe.old
    unsynced,   \* those whose content a power failure destroys
    image,      \* the file the running agent was started from
    companion,  \* whether the installed cloudflared is the one the manifest pins
    autostart,  \* the value in HKCU\...\Run
    serve,      \* what Tailscale serves under /tailblink
    removing,   \* the PowerShell that removes the directory has been started
    setup,      \* the process that installs, uninstalls or prepares Tailscale
    disturbed   \* history: a setup has begun while the directory was still to be removed, a
                \* tray has set the autostart while it was, or Tailscale's CLI was not found
                \* although Tailscale serves the path

installVars == <<file, unsynced, image, companion, autostart, serve, removing, setup, disturbed>>
filesVars == <<file, unsynced, companion>>
otherVars == <<image, autostart, serve, removing, disturbed>>

Files == {"target", "new", "old"}
Whole(f) == file[f] \in Versions
Off == [pc |-> "off", ver |-> "none", backup |-> "none", finish |-> "ok", by |-> "user"]
Ended == {"off", "ok", "failed"}
\* The steps that belong to the installation of a program.
InstallSteps == {"companion", "same", "copy", "sync", "dropOld", "backup", "apply",
                 "dropBackup", "autostart", "agent", "open", "cleanup"}
PrepareSteps == {"read", "ensure", "set", "verify"}
UninstallSteps == {"stopAgent", "readOurs", "unset", "unautostart", "schedule"}
Running == setup.pc \notin Ended

\* The type invariant.
InstallTypeOK ==
    /\ file \in [Files -> Versions \cup {"none", "torn"}]
    /\ unsynced \subseteq {f \in Files : file[f] # "none"}
    /\ image \in {"none", "target", "old"}
    /\ companion \in {"missing", "pinned"} /\ autostart \in {"off", "on"}
    /\ removing \in {"no", "soon"}
    /\ serve \in {"none", "ours", "other"}
    /\ setup \in [pc : Ended \cup InstallSteps \cup PrepareSteps \cup UninstallSteps,
                   ver : Versions \cup {"none"}, backup : {"none", "made"},
                   finish : {"ok", "failed"}, by : {"user", "admin"}]
    /\ disturbed \in BOOLEAN

\* Nothing is installed, or a version is and its agent may run.
Init ==
    /\ \/ file = [f \in Files |-> "none"] /\ image = "none" /\ autostart = "off"
          /\ companion = "missing" /\ serve \in {"none", "other"}
       \/ /\ \E v \in Versions : file = [target |-> v, new |-> "none", old |-> "none"]
          /\ image \in {"none", "target"} /\ autostart \in {"off", "on"}
          /\ companion \in {"missing", "pinned"} /\ serve \in {"none", "ours", "other"}
    /\ unsynced = {} /\ removing = "no" /\ disturbed = FALSE
    /\ setup = Off

At(pc) == setup.pc = pc
Goto(pc) == setup' = [setup EXCEPT !.pc = pc]
Fail == Goto("failed")

Begin(pc, v) ==
    /\ ~Running
    /\ setup' = [Off EXCEPT !.pc = pc, !.ver = v]
    /\ disturbed' = (disturbed \/ removing = "soon")
    /\ UNCHANGED <<filesVars, image, autostart, serve, removing>>

\* The user starts an EXE that is not the installed one, the installed one, or the
\* uninstallation; the agent is asked to use Tailscale.
Start ==
    \/ \E v \in Versions : Begin("companion", v)
    \/ Whole("target") /\ Begin("autostart", file["target"])
    \/ Begin("stopAgent", "none")
    \/ image # "none" /\ Begin("read", "none")

-----------------------------------------------------------------------------
(* installWindowsFiles.  Every operation may fail.                          *)

Rename(a, b) ==
    /\ file[a] # "none"
    /\ file' = [file EXCEPT ![b] = file[a], ![a] = "none"]
    /\ unsynced' = (unsynced \ {a, b}) \cup (IF a \in unsynced THEN {b} ELSE {})

Remove(f) ==
    /\ file' = [file EXCEPT ![f] = "none"]
    /\ unsynced' = unsynced \ {f}

\* A failure removes TailBlink.exe.new.
GiveUpCopy ==
    /\ Remove("new") /\ Fail
    /\ UNCHANGED <<companion, otherVars>>

\* InstallCompanion: a private file, verified before it is renamed.
Companion ==
    /\ At("companion")
    /\ \/ companion' = "pinned" /\ Goto("same")
       \/ companion = "missing" /\ UNCHANGED companion /\ Fail
    /\ UNCHANGED <<file, unsynced, otherVars>>

\* The installed program is this one already; or it is not, or cannot be read, and
\* TailBlink.exe.new is created and truncated.
Same ==
    /\ At("same")
    /\ \/ file["target"] = setup.ver /\ Goto("autostart") /\ UNCHANGED <<file, unsynced>>
       \/ /\ file' = [file EXCEPT !["new"] = "torn"] /\ unsynced' = unsynced \cup {"new"}
          /\ Goto("copy")
       \/ Fail /\ UNCHANGED <<file, unsynced>>
    /\ UNCHANGED <<companion, otherVars>>

Copy ==
    /\ At("copy") /\ Goto("sync")
    /\ file' = [file EXCEPT !["new"] = setup.ver]
    /\ UNCHANGED <<unsynced, companion, otherVars>>

\* Mutant of Sync: the file is closed without it.
SyncNothing ==
    /\ At("sync")
    /\ UNCHANGED <<file, unsynced>>
    /\ Goto(IF file["target"] # "none" THEN "dropOld" ELSE "apply")
    /\ UNCHANGED <<companion, otherVars>>

\* Sync and Close; then the program that is there is looked for.
Sync ==
    /\ At("sync")
    /\ unsynced' = unsynced \ {"new"} /\ UNCHANGED file
    /\ Goto(IF file["target"] # "none" THEN "dropOld" ELSE "apply")
    /\ UNCHANGED <<companion, otherVars>>

CopyFails == setup.pc \in {"copy", "sync"} /\ GiveUpCopy

\* The error of this Remove is ignored; the file an agent runs from stays.
DropOld ==
    /\ At("dropOld") /\ Goto("backup")
    /\ \/ image # "old" /\ Remove("old")
       \/ UNCHANGED <<file, unsynced>>
    /\ UNCHANGED <<companion, otherVars>>

\* A program that runs can be renamed, not replaced.
Backup ==
    /\ At("backup") /\ image # "old"
    /\ Rename("target", "old")
    /\ setup' = [setup EXCEPT !.pc = "apply", !.backup = "made"]
    /\ image' = IF image = "target" THEN "old" ELSE image
    /\ UNCHANGED <<companion, autostart, serve, removing, disturbed>>

BackupFails == At("backup") /\ GiveUpCopy

Apply ==
    /\ At("apply") /\ image # "target"
    /\ Rename("new", "target") /\ Goto("dropBackup")
    /\ UNCHANGED <<companion, otherVars>>

\* Mutant of ApplyFails: the error is dropped.
ApplyFailsIgnored ==
    /\ At("apply") /\ Goto("dropBackup")
    /\ UNCHANGED <<filesVars, otherVars>>

\* The backup is put back, unless that fails too.
ApplyFails ==
    /\ At("apply") /\ Fail
    /\ \E restored \in BOOLEAN :
        LET back == setup.backup = "made" /\ restored /\ image # "target" /\ file["old"] # "none" IN
        /\ file' = [file EXCEPT !["target"] = IF back THEN file["old"] ELSE @,
                                !["old"] = IF back THEN "none" ELSE @,
                                !["new"] = "none"]
        /\ image' = IF back /\ image = "old" THEN "target" ELSE image
    /\ unsynced' = unsynced \cap {f \in Files : file'[f] # "none"}
    /\ UNCHANGED <<companion, autostart, serve, removing, disturbed>>

\* Tried once, its error ignored.
DropBackup ==
    /\ At("dropBackup") /\ Goto("autostart")
    /\ \/ image # "old" /\ Remove("old")
       \/ UNCHANGED <<file, unsynced>>
    /\ UNCHANGED <<companion, otherVars>>

Install ==
    \/ Companion \/ Same \/ Copy \/ Sync \/ CopyFails \/ DropOld
    \/ Backup \/ BackupFails \/ Apply \/ ApplyFails \/ DropBackup

-----------------------------------------------------------------------------
(* finish, and prepare, which the agent calls too (ver is "none" then).     *)

FinishFails ==
    setup' = [setup EXCEPT !.finish = "failed",
                           !.pc = IF setup.ver = "none" THEN "failed" ELSE "cleanup"]
Prepared == Goto(IF setup.ver = "none" THEN "ok" ELSE "open")

Autostart ==
    /\ At("autostart")
    /\ \/ autostart' = "on" /\ Goto("agent")
       \/ UNCHANGED autostart /\ FinishFails
    /\ UNCHANGED <<filesVars, image, serve, removing, disturbed>>

\* ensureAgent leaves an agent of the version it wants, started from where it may
\* be; a failure may have stopped the old one.  skipTailscale: the mode needs none.
Agent ==
    /\ At("agent")
    /\ \/ Whole("target") /\ image' = "target" /\ (Goto("read") \/ Goto("open"))
       \/ image # "none" /\ UNCHANGED image /\ (Goto("read") \/ Goto("open"))
       \/ image' \in {image, "none"} /\ FinishFails
    /\ UNCHANGED <<filesVars, autostart, serve, removing, disturbed>>

\* Status and ServeConfigured; if nothing is served, the user is asked.
Read ==
    /\ At("read")
    /\ \/ serve = "ours" /\ Prepared
       \/ serve = "none" /\ Goto("ensure")
       \/ FinishFails
    /\ UNCHANGED <<filesVars, otherVars>>

\* configureServe fails: once more, elevated, unless the error is a known one.
ServeFails ==
    \/ setup.by = "user" /\ setup' = [setup EXCEPT !.pc = "ensure", !.by = "admin"]
    \/ FinishFails

\* EnsureServe reads what is served.
Ensure ==
    /\ At("ensure")
    /\ \/ serve = "ours" /\ Goto("verify")
       \/ serve = "none" /\ Goto("set")
       \/ ServeFails
    /\ UNCHANGED <<filesVars, otherVars>>

\* It sets what it has found free; a command that is cut off may have done it.
SetServe ==
    /\ At("set")
    /\ \/ serve' = "ours" /\ Goto("verify")
       \/ serve' \in {serve, "ours"} /\ ServeFails
    /\ UNCHANGED <<filesVars, image, autostart, removing, disturbed>>

VerifyHealth ==
    /\ At("verify") /\ (Prepared \/ ServeFails)
    /\ UNCHANGED <<filesVars, otherVars>>

OpenSettings ==
    /\ At("open") /\ (Goto("cleanup") \/ FinishFails)
    /\ UNCHANGED <<filesVars, otherVars>>

\* Mutant of Cleanup: a backup that stays is no error.
CleanupOnce ==
    /\ At("cleanup")
    /\ \/ image # "old" /\ Remove("old")
       \/ UNCHANGED <<file, unsynced>>
    /\ Goto(setup.finish)
    /\ UNCHANGED <<companion, otherVars>>

\* removeExecutableBackup tries for three seconds.
Cleanup ==
    /\ At("cleanup")
    /\ \/ /\ image # "old" /\ Remove("old")
          /\ Goto(setup.finish)
       \/ file["old"] # "none" /\ Fail /\ UNCHANGED <<file, unsynced>>
    /\ UNCHANGED <<companion, otherVars>>

Finish ==
    \/ Autostart \/ Agent \/ Read \/ Ensure \/ SetServe \/ VerifyHealth
    \/ OpenSettings \/ Cleanup

-----------------------------------------------------------------------------
(* uninstallAction.                                                         *)

\* The agent may not stop, which is ignored; without Tailscale's CLI nobody asks what is
\* served.
StopAgent ==
    /\ At("stopAgent") /\ image' \in {image, "none"}
    /\ \E pc \in {"readOurs", "unautostart", "failed"} :
        /\ Goto(pc)
        /\ disturbed' = (disturbed \/ (pc = "unautostart" /\ serve = "ours"))
    /\ UNCHANGED <<filesVars, autostart, serve, removing>>

\* RemoveServe reads what is served.
ReadOurs ==
    /\ At("readOurs")
    /\ \/ serve = "ours" /\ Goto("unset")
       \/ serve = "none" /\ Goto("unautostart")
       \/ Fail
    /\ UNCHANGED <<filesVars, otherVars>>

\* Mutant of Unset: a path that stays is no reason to stop.
UnsetAnyway ==
    /\ At("unset") /\ serve' \in {serve, "none"} /\ Goto("unautostart")
    /\ UNCHANGED <<filesVars, image, autostart, removing, disturbed>>

\* It takes away what is there by now.
Unset ==
    /\ At("unset")
    /\ \/ serve' = "none" /\ Goto("unautostart")
       \/ serve' \in {serve, "none"} /\ Fail
    /\ UNCHANGED <<filesVars, image, autostart, removing, disturbed>>

Unautostart ==
    /\ At("unautostart")
    /\ \/ autostart' = "off" /\ Goto("schedule")
       \/ UNCHANGED autostart /\ Fail
    /\ UNCHANGED <<filesVars, image, serve, removing, disturbed>>

\* scheduleRemove
Schedule ==
    /\ At("schedule")
    /\ \/ removing' = "soon" /\ Goto("ok")
       \/ UNCHANGED removing /\ Fail
    /\ UNCHANGED <<filesVars, image, autostart, serve, disturbed>>

\* A second later; what is in use stays.
RemoveDirectory ==
    /\ removing = "soon" /\ removing' = "no"
    /\ \E gone \in SUBSET (Files \ {image}) :
        /\ file' = [f \in Files |-> IF f \in gone THEN "none" ELSE file[f]]
        /\ unsynced' = unsynced \ gone
    /\ companion' \in {companion, "missing"}
    /\ UNCHANGED <<image, autostart, serve, setup, disturbed>>

Uninstall ==
    \/ StopAgent \/ ReadOurs \/ Unset \/ Unautostart \/ Schedule

-----------------------------------------------------------------------------
(* The rest of the computer.                                                *)

OthersServe ==
    /\ serve' \in {"none", "other"} \ {serve}
    /\ UNCHANGED <<filesVars, image, autostart, removing, setup, disturbed>>

AgentChanges ==
    /\ \/ image # "none" /\ image' = "none"
       \/ image = "none" /\ autostart = "on" /\ Whole("target") /\ image' = "target"
    /\ UNCHANGED <<filesVars, autostart, serve, removing, setup, disturbed>>

\* The tray's menu of an agent, also of one an uninstallation could not stop.
ToggleAutostart ==
    /\ image # "none"
    /\ autostart' = IF autostart = "on" THEN "off" ELSE "on"
    /\ disturbed' = (disturbed \/ (autostart = "off" /\ (At("schedule") \/ removing = "soon")))
    /\ UNCHANGED <<filesVars, image, serve, removing, setup>>

Dies ==
    /\ Running /\ Goto("off")
    /\ UNCHANGED <<filesVars, otherVars>>

PowerFails ==
    /\ file' = [f \in Files |-> IF f \in unsynced THEN "torn" ELSE file[f]]
    /\ unsynced' = {} /\ image' = "none" /\ removing' = "no"
    /\ setup' = Off
    /\ UNCHANGED <<companion, autostart, serve, disturbed>>

Next ==
    \/ Start \/ Install \/ Finish \/ Uninstall \/ Dies
    \/ RemoveDirectory \/ OthersServe \/ AgentChanges \/ ToggleAutostart
    \/ PowerFails

Spec == Init /\ [][Next]_installVars

-----------------------------------------------------------------------------
Program == Whole("target") \/ Whole("old")

\* The file an agent runs from is there, and only the new file may be unsynced or torn.
FilesInv ==
    /\ image # "none" => Whole(image)
    /\ unsynced \subseteq {"new"}
    /\ \A f \in {"target", "old"} : file[f] # "torn"

\* The new file is complete when it is renamed.
CopyInv ==
    /\ setup.pc \in {"dropOld", "backup", "apply"}
        => file["new"] \in {"none", setup.ver} /\ unsynced = {}
    /\ setup.pc = "sync" => file["new"] \in {"none", setup.ver}
    /\ setup.pc \in InstallSteps => setup.ver # "none"

\* From then on the installed program is the one that is being installed; and the
\* autostart and the path are gone before the files go.
ProgramInv ==
    /\ removing = "soon" /\ Running => disturbed
    /\ ~disturbed =>
        /\ setup.pc \in {"dropOld", "backup"} => Whole("target")
        /\ setup.pc \in {"dropBackup", "autostart", "agent", "open", "cleanup"}
            => file["target"] = setup.ver
        /\ setup.pc \in PrepareSteps =>
                Program /\ (setup.ver # "none" => file["target"] = setup.ver)
        /\ setup.pc \in {"unautostart", "schedule"} \/ removing = "soon" => serve # "ours"
        /\ setup.pc = "schedule" \/ removing = "soon" => autostart = "off"
        /\ autostart = "on" \/ serve = "ours" => Program

\* The inductive invariant.
InstallInv == InstallTypeOK /\ FilesInv /\ CopyInv /\ ProgramInv

\* Whatever fails or dies in whatever step: while something is left that would start
\* the program or hand it requests, the program is there, or was and can be put back
\* (platform_windows.go:209-219 and 267-284).  Two setups at once may lose it.
ProgramSurvives ==
    ~disturbed /\ (autostart = "on" \/ serve = "ours") => Program

\* An installation that reports success has left its own program, and no backup
\* (docs/SPEC.md:348).
InstallLeavesProgram ==
    [][At("cleanup") /\ setup'.pc = "ok" /\ ~disturbed
        => file'["target"] = setup.ver /\ file'["old"] = "none"]_installVars

\* An uninstallation that reports success leaves neither the path nor the autostart
\* behind when the files go (platform_windows.go:213-222).
UninstallLeavesNothing ==
    [][RemoveDirectory /\ ~disturbed => serve # "ours" /\ autostart = "off"]_installVars
=============================================================================
