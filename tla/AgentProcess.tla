----------------------------- MODULE AgentProcess -----------------------------
(***************************************************************************)
(* The process "tailblink agent": runAgent of cmd/tailblink/main.go, the      *)
(* tray icon's thread (tray_windows.go), its watcher of the context, and      *)
(* Agent.Run with the goroutines that change the mode, from the start to the  *)
(* end of the process.  What the icon's menu opens is in Launcher, what a      *)
(* change of mode does in Agent, the log in RotatingLog.                      *)
(***************************************************************************)
EXTENDS Integers, Sequences

CONSTANT MaxNested      \* bound: menus and message boxes on top of each other

ASSUME MaxNestedAssumption == MaxNested \in Nat

VARIABLES
    main,       \* runAgent, and main, which called it
    ready,      \* the channel ready: "none", "ok" or "error"
    errors,     \* who has returned an error: Agent.Run, the tray's thread, runAgent
    ctxDone,    \* the context of signal.NotifyContext
    stopClosed, \* Agent.stop
    run,        \* Agent.Run; "done" when agentDone holds its result
    modeMu,     \* who holds it: "nobody", a change of the mode that waits for a user
                \* ("ask") or goes on ("change"), or Run's "exit"
    tunnel,     \* the Service has a cloudflared
    ui,         \* the tray's thread; "none" where startDesktopUI does nothing
    nested,     \* the loops within its loop: a "menu" or a message "box" in another
    window,     \* tray.window
    queue,      \* the messages of that thread
    watcher,    \* the goroutine that watches the context: "off" or "on"
    icon,       \* the icon is in the notification area
    shell,      \* Explorer runs
    refused,    \* history: Explorer refused the icon, and the user was told
    gaveUp,     \* history: desktop.Close has waited for 2 seconds in vain
    latecomer   \* history: a change began after Run had closed the Service

mainVars  == <<main, ready, errors, gaveUp>>
runVars   == <<run, modeMu, tunnel, latecomer>>
stopVars  == <<ctxDone, stopClosed>>
shellVars == <<icon, shell, refused>>
trayVars  == <<ui, nested, window, queue, watcher>>
processVars == <<mainVars, runVars, stopVars, shellVars, trayVars>>

\* What can be on the thread's screen, the oldest first.
Nests == UNION {[1..n -> {"menu", "box"}] : n \in 0..MaxNested}

\* The type invariant: runAgent, Agent.Run, the tray's thread and the notification area.
MainTypeOK ==
    /\ main \in {"ready", "abort", "select", "waitRun", "close", "waitUI", "fatal", "ended"}
    /\ ready \in {"none", "ok", "error"} /\ gaveUp \in BOOLEAN
    /\ errors \subseteq {"run", "ui", "main"}
    /\ ctxDone \in BOOLEAN /\ stopClosed \in BOOLEAN
RunTypeOK ==
    /\ run \in {"listen", "serving", "closing", "closeSimple", "done"}
    /\ modeMu \in {"nobody", "ask", "change", "exit"}
    /\ tunnel \in BOOLEAN /\ latecomer \in BOOLEAN
TrayTypeOK ==
    /\ ui \in {"none", "register", "addIcon", "loop", "unwind", "done"}
    /\ nested \in Nests /\ window \in BOOLEAN
    /\ queue \subseteq {"close", "quit", "taskbar", "click"}
    /\ watcher \in {"off", "on"}
ShellTypeOK == icon \in BOOLEAN /\ shell \in BOOLEAN /\ refused \in BOOLEAN
ProcessTypeOK == MainTypeOK /\ RunTypeOK /\ TrayTypeOK /\ ShellTypeOK

Init ==
    /\ \/ main = "ready" /\ ui = "register"
       \/ main = "select" /\ ui = "none"
    /\ ready = "none" /\ errors = {}
    /\ ctxDone = FALSE /\ stopClosed = FALSE
    /\ run = "listen" /\ modeMu = "nobody" /\ tunnel = FALSE
    /\ nested = <<>> /\ window = FALSE /\ queue = {} /\ watcher = "off"
    /\ icon = FALSE /\ shell \in BOOLEAN /\ refused = FALSE
    /\ gaveUp = FALSE /\ latecomer = FALSE

Alive == main # "ended"

\* runAgent has returned; only the user may still have an error to read.
Returned == main \in {"fatal", "ended"}

\* PostMessage: nothing happens when the window is gone.
Posted(m) == IF window THEN queue \cup {m} ELSE queue

-----------------------------------------------------------------------------
(* runAgent.                                                                *)

TrayReady ==
    /\ main = "ready" /\ ready # "none"
    /\ IF ready = "ok" THEN main' = "select" /\ UNCHANGED ctxDone
       ELSE main' = "abort" /\ ctxDone' = TRUE
    /\ UNCHANGED <<ready, errors, gaveUp, stopClosed, runVars, shellVars, trayVars>>

\* runAgent is to return the error of one of these, if there is one.
ReturnErrorOf(those) ==
    errors' = errors \cup (IF errors \cap those = {} THEN {} ELSE {"main"})

\* The error of the tray's thread that could not start is returned at once.
AgentDone ==
    /\ run = "done"
    /\ \/ main = "select" /\ main' = "close" /\ ReturnErrorOf({"run"})
       \/ main = "waitRun" /\ main' = "close" /\ ReturnErrorOf({"run", "ui"})
       \/ main = "abort" /\ main' = "fatal" /\ ReturnErrorOf({"ui"})
    /\ UNCHANGED <<ready, gaveUp, stopVars, runVars, shellVars, trayVars>>

\* Mutant of TrayDone: it waits for the agent without telling it.
TrayDoneUntold ==
    /\ main = "select" /\ ui = "done" /\ main' = "waitRun"
    /\ UNCHANGED <<ready, errors, gaveUp, stopVars, runVars, shellVars, trayVars>>

TrayDone ==
    /\ main = "select" /\ ui = "done" /\ main' = "waitRun"
    /\ ctxDone' = TRUE
    /\ UNCHANGED <<ready, errors, gaveUp, stopClosed, runVars, shellVars, trayVars>>

\* desktop.Close, deferred; without a tray there is no message box either.
RequestClose ==
    /\ main = "close"
    /\ main' = (IF ui # "none" THEN "waitUI" ELSE "ended")
    /\ queue' = Posted("close")
    /\ UNCHANGED <<ready, errors, gaveUp, stopVars, runVars, shellVars, ui, nested, window,
                   watcher>>

WaitUI ==
    /\ main = "waitUI" /\ main' = (IF "main" \in errors THEN "fatal" ELSE "ended")
    /\ gaveUp' = (ui # "done")
    /\ UNCHANGED <<ready, errors, stopVars, runVars, shellVars, trayVars>>

\* The user has read what showFatal says.
ReadFatal ==
    /\ main = "fatal" /\ main' = "ended"
    /\ UNCHANGED <<ready, errors, gaveUp, stopVars, runVars, shellVars, trayVars>>

Main == TrayReady \/ AgentDone \/ TrayDone \/ RequestClose \/ WaitUI

-----------------------------------------------------------------------------
(* Agent.Run.                                                               *)

\* net.Listen succeeds, or Run returns its error.
Listen ==
    /\ Alive /\ run = "listen"
    /\ \/ run' = "serving" /\ UNCHANGED errors
       \/ run' = "done" /\ errors' = errors \cup {"run"}
    /\ UNCHANGED <<main, ready, gaveUp, modeMu, tunnel, latecomer, stopVars, shellVars, trayVars>>

\* Shutdown makes Serve return at once, also while requests are under way.
Shutdown ==
    /\ Alive /\ run = "serving" /\ run' = "closing"
    /\ ctxDone \/ stopClosed
    /\ UNCHANGED <<mainVars, modeMu, tunnel, latecomer, stopVars, shellVars, trayVars>>

\* Serve returns by itself, with an error.
ServeFails ==
    /\ Alive /\ run = "serving" /\ run' = "closing"
    /\ errors' = errors \cup {"run"}
    /\ UNCHANGED <<main, ready, gaveUp, modeMu, tunnel, latecomer, stopVars, shellVars, trayVars>>

\* Mutant of LockModeMu: the deferred Close does not wait for a change of the mode.
LockModeMuAnyway ==
    /\ Alive /\ run = "closing" /\ run' = "closeSimple"
    /\ UNCHANGED <<mainVars, modeMu, tunnel, latecomer, stopVars, shellVars, trayVars>>

LockModeMu ==
    /\ Alive /\ run = "closing" /\ modeMu = "nobody"
    /\ run' = "closeSimple" /\ modeMu' = "exit"
    /\ UNCHANGED <<mainVars, tunnel, latecomer, stopVars, shellVars, trayVars>>

CloseSimple ==
    /\ Alive /\ run = "closeSimple" /\ run' = "done"
    /\ modeMu' = "nobody" /\ tunnel' = FALSE
    /\ UNCHANGED <<mainVars, latecomer, stopVars, shellVars, trayVars>>

\* The startup goroutine and the dashboard's handlers, which nobody waits for.  On
\* Windows prepareTailnet may ask the user, with modeMu held (module Agent).
ChangeBegins ==
    /\ Alive /\ run # "listen" /\ modeMu = "nobody"
    /\ modeMu' = "change" \/ (ui # "none" /\ modeMu' = "ask")
    /\ latecomer' = (latecomer \/ run = "done")
    /\ UNCHANGED <<mainVars, run, tunnel, stopVars, shellVars, trayVars>>

\* The user has answered all there was to answer.
Answer ==
    /\ Alive /\ modeMu = "ask" /\ modeMu' = "change"
    /\ UNCHANGED <<mainVars, run, tunnel, latecomer, stopVars, shellVars, trayVars>>

ChangeEnds ==
    /\ Alive /\ modeMu = "change" /\ modeMu' = "nobody"
    /\ tunnel' \in BOOLEAN
    /\ UNCHANGED <<mainVars, run, latecomer, stopVars, shellVars, trayVars>>

\* POST /local/shutdown; a signal.
StopRequest ==
    /\ Alive /\ run = "serving" /\ ~stopClosed /\ stopClosed' = TRUE
    /\ UNCHANGED <<mainVars, runVars, ctxDone, shellVars, trayVars>>

Signal ==
    /\ Alive /\ ~ctxDone /\ ctxDone' = TRUE
    /\ UNCHANGED <<mainVars, runVars, stopClosed, shellVars, trayVars>>

-----------------------------------------------------------------------------
(* The tray's thread.                                                       *)

\* The window class, the window; an error ends the thread.
CreateWindow ==
    /\ Alive /\ ui = "register"
    /\ \/ ui' = "addIcon" /\ window' = TRUE /\ UNCHANGED <<ready, errors>>
       \/ ui' = "unwind" /\ ready' = "error" /\ errors' = errors \cup {"ui"} /\ UNCHANGED window
    /\ UNCHANGED <<main, gaveUp, runVars, stopVars, shellVars, nested, queue, watcher>>

\* LoadIcon, RegisterWindowMessage and addIcon; without Explorer there is no icon.
AddFirstIcon ==
    /\ Alive /\ ui = "addIcon"
    /\ \/ /\ shell /\ icon' = TRUE /\ ready' = "ok" /\ ui' = "loop" /\ watcher' = "on"
          /\ UNCHANGED errors
       \/ /\ ready' = "error" /\ errors' = errors \cup {"ui"} /\ ui' = "unwind"
          /\ UNCHANGED <<icon, watcher>>
    /\ UNCHANGED <<main, gaveUp, runVars, stopVars, shell, refused, nested, window, queue>>

\* Mutant of Destroyed: the handle is forgotten before removeIcon looks for it.
DestroyedForgotten ==
    /\ window' = FALSE /\ queue' = {"quit"}
    /\ UNCHANGED <<icon, shell, refused>>

\* WM_DESTROY: the icon goes, the window is forgotten, the thread is to quit; the
\* window's other messages are lost.
Destroyed ==
    /\ icon' = (IF window THEN FALSE ELSE icon) /\ UNCHANGED <<shell, refused>>
    /\ window' = FALSE /\ queue' = {"quit"}

Top(kind) == nested # <<>> /\ nested[Len(nested)] = kind
Push(kind) == Len(nested) < MaxNested /\ nested' = Append(nested, kind)
Popped == SubSeq(nested, 1, Len(nested) - 1)

\* WM_CLOSE, from any of the loops: the thread's, the menu's, a message box's.
CloseWindow ==
    /\ Alive /\ ui = "loop" /\ "close" \in queue /\ Destroyed
    /\ UNCHANGED <<mainVars, runVars, stopVars, ui, nested, watcher>>

\* Mutant of TaskbarCreated: the icon is added only if the agent is not in a menu.
TaskbarCreatedInLoop ==
    /\ Alive /\ ui = "loop" /\ "taskbar" \in queue /\ queue' = queue \ {"taskbar"}
    /\ shell /\ icon' = (icon \/ nested = <<>>)
    /\ UNCHANGED <<ui, nested, refused, mainVars, runVars, stopVars, shell, window, watcher>>

\* Explorer has come back: the icon is added again, or a message box says why not.
TaskbarCreated ==
    /\ Alive /\ ui = "loop" /\ "taskbar" \in queue /\ queue' = queue \ {"taskbar"}
    /\ \/ shell /\ icon' = TRUE /\ refused' = FALSE /\ UNCHANGED nested
       \/ refused' = TRUE /\ Push("box") /\ UNCHANGED icon
    /\ UNCHANGED <<mainVars, runVars, stopVars, shell, ui, window, watcher>>

\* A click opens the menu, from whatever loop; or what the menu shows cannot be read.
ShowMenu ==
    /\ Alive /\ ui = "loop" /\ "click" \in queue /\ queue' = queue \ {"click"}
    /\ Push("menu") \/ Push("box")
    /\ UNCHANGED <<mainVars, runVars, stopVars, shellVars, ui, window, watcher>>

\* "Exit": shutdown and requestClose, whose window the menu may have outlived.
ChooseExit ==
    /\ Alive /\ Top("menu") /\ nested' = Popped
    /\ ctxDone' = TRUE /\ queue' = Posted("close")
    /\ UNCHANGED <<mainVars, runVars, stopClosed, shellVars, ui, window, watcher>>

\* Another choice or none; a message box is read.  Both also end when the thread is
\* to quit.
Dismiss ==
    /\ Alive /\ nested # <<>> /\ nested' = Popped
    /\ UNCHANGED <<mainVars, runVars, stopVars, shellVars, ui, window, queue, watcher>>

\* The autostart could not be changed.
ChoiceFails ==
    /\ Alive /\ Top("menu") /\ nested' = Append(Popped, "box")
    /\ UNCHANGED <<mainVars, runVars, stopVars, shellVars, ui, window, queue, watcher>>

\* GetMessage tells the thread to quit when there is nothing else, or fails.
LeaveLoop ==
    /\ Alive /\ ui = "loop" /\ nested = <<>> /\ ui' = "unwind"
    /\ \/ queue = {"quit"} /\ UNCHANGED errors
       \/ errors' = errors \cup {"ui"}
    /\ UNCHANGED <<main, ready, gaveUp, runVars, stopVars, shellVars, nested, window, queue,
                   watcher>>

Quit == queue = {"quit"} /\ (LeaveLoop \/ Dismiss)

\* The deferred destruction of a window that is still there.
Unwind ==
    /\ Alive /\ ui = "unwind" /\ ui' = "done" /\ watcher' = "off"
    /\ IF window THEN Destroyed ELSE UNCHANGED <<icon, shell, refused, window, queue>>
    /\ UNCHANGED <<mainVars, runVars, stopVars, nested>>

Watch ==
    /\ Alive /\ watcher = "on" /\ ctxDone /\ watcher' = "off"
    /\ queue' = Posted("close")
    /\ UNCHANGED <<mainVars, runVars, stopVars, shellVars, ui, nested, window>>

\* What the thread does without being asked by a user.
Tray ==
    \/ CreateWindow \/ AddFirstIcon \/ CloseWindow \/ TaskbarCreated \/ ShowMenu
    \/ Quit \/ Unwind

-----------------------------------------------------------------------------
\* Clicks, and other programs that close the window.
Click ==
    /\ Alive /\ window /\ queue' \in {queue \cup {"click"}, queue \cup {"close"}}
    /\ (icon \/ "click" \notin queue')
    /\ UNCHANGED <<mainVars, runVars, stopVars, shellVars, ui, nested, window, watcher>>

\* Explorer ends, and its icons with it; when it starts, it tells all windows.
ShellEnds ==
    /\ Alive /\ ui # "none" /\ shell /\ shell' = FALSE /\ icon' = FALSE /\ refused' = FALSE
    /\ UNCHANGED <<mainVars, runVars, stopVars, trayVars>>

ShellStarts ==
    /\ Alive /\ ui # "none" /\ ~shell /\ shell' = TRUE /\ refused' = FALSE
    /\ queue' = Posted("taskbar")
    /\ UNCHANGED <<mainVars, runVars, stopVars, icon, ui, nested, window, watcher>>

Next ==
    \/ Main \/ ReadFatal \/ Tray \/ Watch
    \/ Listen \/ Shutdown \/ ServeFails \/ LockModeMu \/ CloseSimple
    \/ ChangeBegins \/ Answer \/ ChangeEnds
    \/ StopRequest \/ Signal
    \/ ChooseExit \/ ChoiceFails \/ Dismiss \/ LeaveLoop
    \/ Click \/ ShellEnds \/ ShellStarts

Spec == Init /\ [][Next]_processVars

\* Goroutines and the tray's thread go on, a change of the mode that waits for no user
\* ends (Agent's ActionsEnd), and modeMu goes to whoever waits for it.  Nobody need
\* click, answer, read a message or start Explorer.
FairSpec ==
    /\ Spec
    /\ WF_processVars(Main) /\ WF_processVars(Tray) /\ WF_processVars(Watch)
    /\ WF_processVars(Listen) /\ WF_processVars(Shutdown) /\ SF_processVars(LockModeMu)
    /\ WF_processVars(CloseSimple) /\ WF_processVars(ChangeEnds)

-----------------------------------------------------------------------------
\* The process ends only after Run has closed the Service, and without a tunnel,
\* unless a change of the mode came after that (main.go:103-112, agent.go:130-136), and
\* shows an error only where there was one.  An icon has its window, and the thread that
\* dispatches its clicks.
ProcessInv ==
    /\ ProcessTypeOK
    /\ main \in {"close", "waitUI", "fatal", "ended"} => run = "done"
    /\ main = "fatal" => ("run" \in errors \/ "ui" \in errors) /\ ui # "none"
    /\ run = "done" /\ tunnel => latecomer
    /\ modeMu = "exit" <=> run = "closeSimple"
    /\ Alive /\ icon => window
    /\ window => ui \in {"addIcon", "loop", "unwind"}

\* Whoever ends the agent, the icon goes with it, also while an error is still to be
\* read, unless the tray's thread did not answer for 2 seconds
\* (tray_windows.go:149-155, 320-326).
IconGone == Returned => ~icon \/ gaveUp

\* As long as no question of prepareTailnet stays open for ever, runAgent returns when
\* it is told to by the menu, by a signal, by another program or by an installer, and
\* when either half of it has ended (main.go:103-112); then the process ends, at once or
\* when its error has been read (main.go:26-31).
ExitEnds ==
    []<>(modeMu # "ask" \/ Returned) =>
        (ctxDone \/ stopClosed \/ run = "done" \/ ui = "done" ~> Returned)

\* The icon comes back after Explorer has, whatever the tray's thread was showing at
\* the time, unless Explorer refuses it (tray_windows.go:305-310, docs/SPEC.md:446).
IconPersists ==
    shell /\ ~icon /\ window /\ ui # "addIcon" ~> icon \/ refused \/ ~shell \/ ~window \/ ~Alive
=============================================================================
