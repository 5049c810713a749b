--------------------------- MODULE AgentProcessProofs ---------------------------
(***************************************************************************)
(* For any depth of menus and message boxes: the agent's process ends only    *)
(* after Run has, and takes its icon along unless it gave up waiting for the  *)
(* tray's thread.                                                            *)
(***************************************************************************)
EXTENDS AgentProcess, SequenceTheorems, TLAPS

\* A change of the mode needs a Run that listens, and one that ends after Run has is a
\* latecomer, whether or not it has a tunnel yet.
ChangeInv ==
    /\ run = "listen" => modeMu = "nobody" /\ ~tunnel
    /\ run = "done" /\ modeMu \in {"ask", "change"} => latecomer

\* An icon is only added to a window.  A tray that failed has none, and none will come;
\* nor does one that runAgent has waited for.
TrayInv ==
    /\ ui = "addIcon" \/ "taskbar" \in queue => window
    /\ ui \in {"none", "register", "addIcon"} => ~icon
    /\ ready = "error" => ui \in {"unwind", "done"} /\ ~icon /\ "ui" \in errors
    /\ main = "abort" => ready = "error"
    /\ main = "fatal" => gaveUp \/ ui \in {"unwind", "done"}

\* runAgent returns an error only when one of the two halves has, and before it has waited
\* for the tray's thread only when there is one.
ErrorInv ==
    /\ "main" \in errors => "run" \in errors \/ "ui" \in errors
    /\ main \in {"ready", "abort", "waitUI", "fatal"} => ui # "none"

IconInv == ProcessInv /\ ChangeInv /\ TrayInv /\ ErrorInv /\ IconGone

-----------------------------------------------------------------------------
(* The loops within the thread's loop.                                       *)

\* A stack of menus and boxes is a sequence that is not too long.
LEMMA NestsAre == \A s : s \in Nests <=> s \in Seq({"menu", "box"}) /\ Len(s) <= MaxNested
<1> USE MaxNestedAssumption DEF Nests
<1>1. ASSUME NEW s \in Nests PROVE s \in Seq({"menu", "box"}) /\ Len(s) <= MaxNested
  <2>1. PICK n \in 0..MaxNested : s \in [1..n -> {"menu", "box"}]
    OBVIOUS
  <2> QED
    BY <2>1
<1>2. ASSUME NEW s \in Seq({"menu", "box"}), Len(s) <= MaxNested PROVE s \in Nests
  <2>1. s \in [1..Len(s) -> {"menu", "box"}] /\ Len(s) \in 0..MaxNested
    BY <1>2
  <2> QED
    BY <2>1
<1> QED
  BY <1>1, <1>2

\* Opening, closing and replacing one keep it a stack.
LEMMA NestsKeep ==
  ASSUME nested \in Nests, NEW kind \in {"menu", "box"}
  PROVE  /\ Push(kind) => nested' \in Nests
         /\ nested # <<>> => Popped \in Nests /\ Append(Popped, kind) \in Nests
<1>1. nested \in Seq({"menu", "box"}) /\ Len(nested) <= MaxNested /\ Len(nested) \in Nat
  BY NestsAre
<1>2. ASSUME Push(kind) PROVE nested' \in Nests
  <2>1. nested' \in Seq({"menu", "box"}) /\ Len(nested') <= MaxNested
    BY <1>1, <1>2, MaxNestedAssumption DEF Push
  <2> QED
    BY <2>1, NestsAre
<1>3. ASSUME nested # <<>> PROVE Popped \in Nests /\ Append(Popped, kind) \in Nests
  <2>1. Popped \in Seq({"menu", "box"}) /\ Len(Popped) = Len(nested) - 1
    <3> DEFINE n == Len(nested) - 1
    <3>1. n \in Int /\ 1 \in Int /\ \A i \in 1..n : nested[i] \in {"menu", "box"}
      BY <1>1
    <3>2. Len(nested) # 0
      BY <1>1, <1>3
    <3>3. n \in Nat
      BY <1>1, <3>2
    <3> HIDE DEF n
    <3>4. (IF 1 <= n THEN n - 1 + 1 ELSE 0) = n
      BY <3>3
    <3>5. /\ SubSeq(nested, 1, n) \in Seq({"menu", "box"})
          /\ Len(SubSeq(nested, 1, n)) = IF 1 <= n THEN n - 1 + 1 ELSE 0
      BY <3>1, SubSeqProperties
    <3> QED
      BY <3>4, <3>5 DEF Popped, n
  <2>2. Append(Popped, kind) \in Seq({"menu", "box"}) /\ Len(Append(Popped, kind)) = Len(nested)
    BY <1>1, <2>1
  <2>3. Len(nested) - 1 <= MaxNested
    BY <1>1, MaxNestedAssumption
  <2> QED
    BY <1>1, <2>1, <2>2, <2>3, NestsAre
<1> QED
  BY <1>2, <1>3

-----------------------------------------------------------------------------
LEMMA InitIcon == Init => IconInv
<1>1. <<>> \in Nests
  <2>1. <<>> \in Seq({"menu", "box"}) /\ Len(<<>>) <= MaxNested
    BY MaxNestedAssumption
  <2> QED
    BY <2>1, NestsAre
<1> QED
  BY <1>1 DEF Init, IconInv, ProcessInv, ProcessTypeOK, MainTypeOK, RunTypeOK, TrayTypeOK,
              ShellTypeOK, ChangeInv, TrayInv, ErrorInv, IconGone, Alive, Returned

\* The stack of menus and boxes stays one at every step.
LEMMA NestedStep == ProcessTypeOK /\ [Next]_processVars => nested' \in Nests
<1> SUFFICES ASSUME ProcessTypeOK, [Next]_processVars PROVE nested' \in Nests
  OBVIOUS
<1>1. nested \in Nests
  BY DEF ProcessTypeOK, TrayTypeOK
<1>2. CASE nested' = nested
  BY <1>1, <1>2
<1>3. CASE \E kind \in {"menu", "box"} : Push(kind)
  BY <1>1, <1>3, NestsKeep
<1>4. CASE nested # <<>> /\ nested' \in {Popped, Append(Popped, "box")}
  BY <1>1, <1>4, NestsKeep
<1> QED
  BY <1>2, <1>3, <1>4
     DEF Next, processVars, mainVars, runVars, stopVars, shellVars, trayVars, Main, Tray,
         TrayReady, AgentDone, TrayDone, RequestClose, WaitUI, ReadFatal, Listen, Shutdown,
         ServeFails, LockModeMu, CloseSimple, ChangeBegins, Answer, ChangeEnds, StopRequest,
         Signal, CreateWindow, AddFirstIcon, CloseWindow, TaskbarCreated, ShowMenu, Quit,
         Unwind, Watch, ChooseExit, ChoiceFails, Dismiss, LeaveLoop, Click, ShellEnds,
         ShellStarts, Top

\* Every step keeps the types.
LEMMA TypeStep == ProcessTypeOK /\ [Next]_processVars => ProcessTypeOK'
<1> SUFFICES ASSUME ProcessTypeOK, [Next]_processVars PROVE ProcessTypeOK'
  OBVIOUS
<1> USE DEF ProcessTypeOK, Next, processVars, mainVars, runVars, stopVars, shellVars, trayVars,
            Main, Tray, TrayReady, AgentDone, TrayDone, RequestClose, WaitUI, ReadFatal,
            Listen, Shutdown, ServeFails, LockModeMu, CloseSimple, ChangeBegins, Answer,
            ChangeEnds, StopRequest, Signal, CreateWindow, AddFirstIcon, CloseWindow,
            TaskbarCreated, ShowMenu, Quit, Unwind, Watch, ChooseExit, ChoiceFails, Dismiss,
            LeaveLoop, Click, ShellEnds, ShellStarts, Destroyed, Posted, ReturnErrorOf
<1>1. MainTypeOK'
  <2>1. main' \in {"ready", "abort", "select", "waitRun", "close", "waitUI", "fatal", "ended"}
    BY DEF MainTypeOK
  <2>2. ready' \in {"none", "ok", "error"} /\ gaveUp' \in BOOLEAN
    BY DEF MainTypeOK
  <2>3. errors' \in {errors} \cup {errors \cup {who} : who \in {"run", "ui", "main"}}
    OBVIOUS
  <2>4. errors' \subseteq {"run", "ui", "main"}
    BY <2>3 DEF MainTypeOK
  <2>5. ctxDone' \in BOOLEAN /\ stopClosed' \in BOOLEAN
    BY DEF MainTypeOK
  <2> QED
    BY <2>1, <2>2, <2>4, <2>5 DEF MainTypeOK
<1>2. RunTypeOK'
  <2>1. run' \in {"listen", "serving", "closing", "closeSimple", "done"}
    BY DEF RunTypeOK
  <2>2. modeMu' \in {"nobody", "ask", "change", "exit"}
    BY DEF RunTypeOK
  <2>3. tunnel' \in BOOLEAN
    BY DEF RunTypeOK
  <2>4. latecomer' \in BOOLEAN
    BY DEF RunTypeOK
  <2> QED
    BY <2>1, <2>2, <2>3, <2>4 DEF RunTypeOK
<1>3. TrayTypeOK'
  <2>1. nested' \in Nests'
    BY NestedStep DEF Nests
  <2> QED
    BY <2>1 DEF TrayTypeOK
<1>4. ShellTypeOK'
  BY DEF ShellTypeOK
<1> QED
  BY <1>1, <1>2, <1>3, <1>4

\* The steps of runAgent keep the invariant.
LEMMA MainStep ==
  ASSUME IconInv, ProcessTypeOK',
         Main \/ ReadFatal
  PROVE  IconInv'
<1> USE DEF IconInv, ProcessInv, ChangeInv, TrayInv, ErrorInv, IconGone, Alive, Returned,
            mainVars, runVars, stopVars, shellVars, trayVars, ProcessTypeOK, MainTypeOK,
            RunTypeOK, TrayTypeOK, ShellTypeOK
<1>1. CASE TrayReady
  BY <1>1 DEF TrayReady
<1>2. CASE AgentDone
  BY <1>2 DEF AgentDone, ReturnErrorOf
<1>3. CASE TrayDone
  BY <1>3 DEF TrayDone
<1>4. CASE RequestClose
  BY <1>4 DEF RequestClose, Posted
<1>5. CASE WaitUI
  BY <1>5 DEF WaitUI
<1>6. CASE ReadFatal
  BY <1>6 DEF ReadFatal
<1> QED
  BY <1>1, <1>2, <1>3, <1>4, <1>5, <1>6 DEF Main

\* The steps of Agent.Run, of the changes of the mode and of whoever stops them keep it.
LEMMA RunStep ==
  ASSUME IconInv, ProcessTypeOK',
         Listen \/ Shutdown \/ ServeFails \/ LockModeMu \/ CloseSimple \/ ChangeBegins
           \/ Answer \/ ChangeEnds \/ StopRequest \/ Signal
  PROVE  IconInv'
<1> USE DEF IconInv, ProcessInv, ChangeInv, TrayInv, ErrorInv, IconGone, Alive, Returned,
            mainVars, runVars, stopVars, shellVars, trayVars, ProcessTypeOK, MainTypeOK,
            RunTypeOK, TrayTypeOK, ShellTypeOK
<1>1. CASE Listen
  BY <1>1 DEF Listen
<1>2. CASE Shutdown \/ ServeFails
  BY <1>2 DEF Shutdown, ServeFails
<1>3. CASE LockModeMu
  BY <1>3 DEF LockModeMu
<1>4. CASE CloseSimple
  BY <1>4 DEF CloseSimple
<1>5. CASE ChangeBegins
  <2>1. UNCHANGED <<mainVars, run, tunnel, stopVars, shellVars, trayVars>>
    BY <1>5 DEF ChangeBegins
  <2>2. modeMu = "nobody" /\ modeMu' \in {"ask", "change"}
    BY <1>5 DEF ChangeBegins
  <2>3. latecomer' = (latecomer \/ run = "done")
    BY <1>5 DEF ChangeBegins
  <2>4. run # "listen"
    BY <1>5 DEF ChangeBegins
  <2>5. ProcessInv' /\ ChangeInv'
    BY <2>1, <2>2, <2>3, <2>4
  <2>6. TrayInv' /\ ErrorInv' /\ IconGone'
    BY <2>1
  <2> QED
    BY <2>5, <2>6
<1>6. CASE Answer
  BY <1>6 DEF Answer
<1>7. CASE ChangeEnds
  BY <1>7 DEF ChangeEnds
<1>8. CASE StopRequest
  BY <1>8 DEF StopRequest
<1>9. CASE Signal
  BY <1>9 DEF Signal
<1> QED
  BY <1>1, <1>2, <1>3, <1>4, <1>5, <1>6, <1>7, <1>8, <1>9

\* The steps of the tray's thread and its watcher keep it.
LEMMA TrayStep ==
  ASSUME IconInv, ProcessTypeOK',
         Tray \/ Watch \/ ChooseExit \/ ChoiceFails \/ Dismiss \/ LeaveLoop
  PROVE  IconInv'
<1> USE DEF IconInv, ProcessInv, ChangeInv, TrayInv, ErrorInv, IconGone, Alive, Returned,
            mainVars, runVars, stopVars, shellVars, trayVars, ProcessTypeOK, MainTypeOK,
            RunTypeOK, TrayTypeOK, ShellTypeOK
<1>1. CASE CreateWindow
  BY <1>1 DEF CreateWindow
<1>2. CASE AddFirstIcon
  BY <1>2 DEF AddFirstIcon
<1>3. CASE CloseWindow
  BY <1>3 DEF CloseWindow, Destroyed
<1>4. CASE TaskbarCreated
  BY <1>4 DEF TaskbarCreated
<1>5. CASE ShowMenu
  BY <1>5 DEF ShowMenu
<1>6. CASE LeaveLoop
  <2>1. errors \subseteq errors'
    BY <1>6 DEF LeaveLoop
  <2> QED
    BY <1>6, <2>1 DEF LeaveLoop
<1>7. CASE Dismiss
  BY <1>7 DEF Dismiss
<1>8. CASE Unwind
  <2>1. CASE window
    BY <1>8, <2>1 DEF Unwind, Destroyed
  <2>2. CASE ~window
    BY <1>8, <2>2 DEF Unwind
  <2> QED
    BY <2>1, <2>2
<1>9. CASE Watch
  BY <1>9 DEF Watch, Posted
<1>10. CASE ChooseExit
  BY <1>10 DEF ChooseExit, Posted
<1>11. CASE ChoiceFails
  BY <1>11 DEF ChoiceFails
<1> QED
  BY <1>1, <1>2, <1>3, <1>4, <1>5, <1>6, <1>7, <1>8, <1>9, <1>10, <1>11 DEF Tray, Quit

\* Clicks, Explorer, and a step of nobody keep it.
LEMMA WorldStep ==
  ASSUME IconInv, ProcessTypeOK',
         Click \/ ShellEnds \/ ShellStarts \/ UNCHANGED processVars
  PROVE  IconInv'
<1> USE DEF IconInv, ProcessInv, ChangeInv, TrayInv, ErrorInv, IconGone, Alive, Returned,
            mainVars, runVars, stopVars, shellVars, trayVars, ProcessTypeOK, MainTypeOK,
            RunTypeOK, TrayTypeOK, ShellTypeOK
<1>1. CASE Click
  BY <1>1 DEF Click
<1>2. CASE ShellEnds
  BY <1>2 DEF ShellEnds
<1>3. CASE ShellStarts
  BY <1>3 DEF ShellStarts, Posted
<1>4. CASE UNCHANGED processVars
  BY <1>4 DEF processVars
<1> QED
  BY <1>1, <1>2, <1>3, <1>4

\* The invariant, at every step of the process, its user and Explorer.
THEOREM Inductive == Spec => []IconInv
<1>1. IconInv /\ [Next]_processVars => IconInv'
  BY TypeStep, MainStep, RunStep, TrayStep, WorldStep DEF Next, IconInv, ProcessInv
<1> QED
  BY InitIcon, <1>1, PTL DEF Spec

\* The process ends only after Run has closed the Service, without a tunnel unless a
\* change of the mode came later, and an icon has its window (main.go:103-112).
THEOREM EndsAfterRun == Spec => []ProcessInv
  BY Inductive, PTL DEF IconInv

\* Whoever ends the agent, the icon goes with it, unless the tray's thread did not
\* answer in time (tray_windows.go:149-155, 320-326).
THEOREM NoIconLeft == Spec => []IconGone
  BY Inductive, PTL DEF IconInv
=============================================================================
