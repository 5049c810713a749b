-------------------------- MODULE TunnelProcessProofs --------------------------
(***************************************************************************)
(* For any set of callers, on Windows and elsewhere: a Start that fails and   *)
(* a Close that returns leave nothing behind, and TunnelProcess implements    *)
(* TunnelHandle.                                                             *)
(***************************************************************************)
EXTENDS TunnelProcess, TLAPS

LEMMA InitInv == Init => TunnelInv
  BY DEF Init, TunnelInv, TypeOK, StartInv, WaitInv, CloseInv, Gone, JobHeld

\* The steps of startBinary keep the invariant.
LEMMA StartingStep == TunnelInv /\ Starting => TunnelInv'
<1> SUFFICES ASSUME TunnelInv, Starting PROVE TunnelInv'
  OBVIOUS
<1> USE JobObjectsAssumption
        DEF TunnelInv, TypeOK, StartInv, WaitInv, CloseInv, Gone, JobHeld, CloseJob, Waitable,
            startVars, childVars, outVars, closeVars, Goto
<1>1. CASE Refuse
  BY <1>1 DEF Refuse
<1>2. CASE MakeDir
  BY <1>2 DEF MakeDir
<1>3. CASE WriteConfig
  BY <1>3 DEF WriteConfig
<1>4. CASE GiveUp
  BY <1>4 DEF GiveUp
<1>5. CASE prepareProcess
  BY <1>5 DEF prepareProcess
<1>6. CASE StartCommand
  BY <1>6 DEF StartCommand
<1>7. CASE StartFails
  BY <1>7, ZenonT(60) DEF StartFails
<1>8. CASE attachProcess
  BY <1>8 DEF attachProcess
<1>9. CASE AttachFails
  BY <1>9, ZenonT(60) DEF AttachFails
<1>10. CASE Abandon
  BY <1>10 DEF Abandon
<1>11. CASE TakeURL
  BY <1>11 DEF TakeURL
<1>12. CASE SeeDone
  BY <1>12 DEF SeeDone
<1>13. CASE GiveUpWaiting
  BY <1>13 DEF GiveUpWaiting
<1>14. CASE Joined
  BY <1>14 DEF Joined
<1> QED
  BY <1>1, <1>2, <1>3, <1>4, <1>5, <1>6, <1>7, <1>8, <1>9, <1>10,
     <1>11, <1>12, <1>13, <1>14 DEF Starting

\* The steps of the waiting goroutine keep it.
LEMMA WaitingStep == TunnelInv /\ Waiting => TunnelInv'
<1> SUFFICES ASSUME TunnelInv, Waiting PROVE TunnelInv'
  OBVIOUS
<1> USE JobObjectsAssumption
        DEF TunnelInv, TypeOK, StartInv, WaitInv, CloseInv, Gone, JobHeld, CloseJob, Waitable,
            startVars, childVars, outVars, closeVars
<1>1. CASE Reap
  BY <1>1 DEF Reap
<1>2. CASE Cleanup
  BY <1>2 DEF Cleanup
<1>3. CASE RemoveDir
  <2>1. pc \in {"select", "join", "returned"}
    BY <1>3 DEF RemoveDir
  <2>2. TypeOK'
    BY <1>3, <2>1, ZenonT(60) DEF RemoveDir
  <2>3. (crashed => job # "open")'
    BY <1>3, <2>1 DEF RemoveDir
  <2>4. StartInv'
    BY <1>3, <2>1 DEF RemoveDir
  <2>5. WaitInv'
    BY <1>3, <2>1 DEF RemoveDir
  <2>6. CloseInv'
    BY <1>3, <2>1 DEF RemoveDir
  <2> QED
    BY <2>2, <2>3, <2>4, <2>5, <2>6
<1>4. CASE CloseDone
  BY <1>4 DEF CloseDone
<1> QED
  BY <1>1, <1>2, <1>3, <1>4 DEF Waiting

\* The callers of Close keep it.
LEMMA CloseStep ==
  ASSUME TunnelInv, NEW c \in Closers, CloseFirst(c) \/ CloseAgain(c) \/ CloseReturns(c)
  PROVE  TunnelInv'
<1> USE DEF TunnelInv, TypeOK, StartInv, WaitInv, CloseInv, Gone, JobHeld,
            startVars, childVars, outVars
<1>1. CASE CloseFirst(c)
  BY <1>1 DEF CloseFirst
<1>2. CASE CloseAgain(c)
  BY <1>2 DEF CloseAgain
<1>3. CASE CloseReturns(c)
  BY <1>3 DEF CloseReturns
<1> QED
  BY <1>1, <1>2, <1>3

\* What the world outside startBinary does: cloudflared, its output, time, and
\* the agent's death.
World == PrintURL \/ Exit \/ Write \/ Expire \/ Crash

\* None of that breaks it.
LEMMA WorldStep == TunnelInv /\ World => TunnelInv'
<1> SUFFICES ASSUME TunnelInv, World PROVE TunnelInv'
  OBVIOUS
<1> USE JobObjectsAssumption
        DEF TunnelInv, TypeOK, StartInv, WaitInv, CloseInv, Gone, JobHeld, CloseJob, Waitable,
            startVars, childVars, outVars, closeVars
<1>1. CASE PrintURL
  BY <1>1 DEF PrintURL
<1>2. CASE Exit
  BY <1>2 DEF Exit
<1>3. CASE Write
  <2>1. found' \in {"empty", "full", "taken"}
    BY <1>3 DEF Write
  <2>2. UNCHANGED <<startVars, child, killed, waiter, closeVars, expired, crashed>>
    BY <1>3 DEF Write
  <2>3. pipe' \in BOOLEAN /\ sent' \in BOOLEAN
    BY <1>3 DEF Write
  <2> QED
    BY <2>1, <2>2, <2>3
<1>4. CASE Expire
  BY <1>4 DEF Expire
<1>5. CASE Crash
  BY <1>5 DEF Crash
<1> QED
  BY <1>1, <1>2, <1>3, <1>4, <1>5 DEF World

LEMMA Stutter == TunnelInv /\ UNCHANGED procVars => TunnelInv'
  BY DEF TunnelInv, TypeOK, StartInv, WaitInv, CloseInv, Gone, JobHeld,
         procVars, startVars, childVars, outVars, closeVars

LEMMA Step == TunnelInv /\ [Next]_procVars => TunnelInv'
  BY StartingStep, WaitingStep, CloseStep, WorldStep, Stutter DEF Next, World

\* Each thing that exists is in the hands of the goroutine that will remove it
\* (process.go:52-102).
THEOREM Inductive == Spec => []TunnelInv
  BY InitInv, Step, PTL DEF Spec

\* A Start that fails leaves no process, directory or job (process.go:45-102).
THEOREM FailedStartIsClean == Spec => []ErrorLeavesNothing
<1>1. TunnelInv => ErrorLeavesNothing
  BY DEF TunnelInv, StartInv, ErrorLeavesNothing
<1> QED
  BY Inductive, <1>1, PTL

\* A Close that has returned has seen the end of it (process.go:34).
THEOREM ClosedIsClean == Spec => []ClosedIsGone
<1>1. TunnelInv => ClosedIsGone
  BY DEF TunnelInv, WaitInv, CloseInv, ClosedIsGone, Gone
<1> QED
  BY Inductive, <1>1, PTL

\* While the agent lives a running cloudflared has its own configuration, and on
\* Windows, once Start may return it, its job (process.go:61, 81, 89).
THEOREM AlwaysManaged == Spec => []RunsManaged
<1>1. TunnelInv => RunsManaged
  BY DEF TunnelInv, StartInv, WaitInv, RunsManaged, Gone, TypeOK, JobHeld
<1> QED
  BY Inductive, <1>1, PTL

-----------------------------------------------------------------------------
(* The refinement: each step is a step of the handle, or changes nothing of  *)
(* it.  The handle's variables, as Handle's substitution defines them:       *)

Outcome == CASE pc = "failed" -> "error" [] pc = "returned" -> "handle" [] OTHER -> "none"
Left    == dir \/ job = "open" \/ child \in {"running", "exited"}
Closed  == {c \in Closers : closer[c] = "returned"}

HandleStep == [Handle!Next]_(Handle!handleVars)

\* The temporary directory outlives everything else.
LEMMA LeftIsDir ==
  /\ TunnelInv => Left = dir
  /\ TunnelInv' => Left' = dir'
  BY DEF TunnelInv, TypeOK, StartInv, WaitInv, Left, Gone, JobHeld

LEMMA RefineInit == Init => Handle!Init
  BY DEF Init, Handle!Init

\* The steps on the way to a result prepare the tunnel, or only wait.
LEMMA RefinePrepare ==
  ASSUME TunnelInv, TunnelInv',
         MakeDir \/ WriteConfig \/ prepareProcess \/ StartCommand \/ attachProcess
         \/ AttachFails \/ GiveUpWaiting
  PROVE  HandleStep
<1>1. UNCHANGED <<closer, crashed>> /\ ~crashed /\ Outcome = "none" /\ Outcome' = "none"
  BY DEF Outcome, Goto, MakeDir, WriteConfig, prepareProcess, StartCommand, attachProcess,
         AttachFails, GiveUpWaiting, closeVars
<1>2. Left \in BOOLEAN /\ Left' \in BOOLEAN
  BY DEF Left
<1>3. CASE ~GiveUpWaiting
  <2>1. waiter # "over" /\ waiter' # "over"
    BY <1>3 DEF TunnelInv, StartInv, Goto, MakeDir, WriteConfig, prepareProcess, StartCommand,
             attachProcess, AttachFails
  <2> QED
    BY <1>1, <1>2, <2>1 DEF HandleStep, Handle!Next, Handle!Prepare, Outcome, Left
<1>4. CASE GiveUpWaiting
  <2>1. UNCHANGED <<dir, job, child, waiter>>
    BY <1>4 DEF GiveUpWaiting
  <2> QED
    BY <1>1, <2>1 DEF HandleStep, Handle!handleVars, Outcome
<1> QED
  BY <1>3, <1>4

\* A failure is a failure.
LEMMA RefineFail ==
  ASSUME TunnelInv, TunnelInv',
         Refuse \/ GiveUp \/ StartFails \/ Abandon \/ SeeDone \/ Joined
  PROVE  HandleStep
<1>1. /\ UNCHANGED <<waiter, closer, crashed>> /\ ~crashed
      /\ pc \notin {"failed", "returned"} /\ pc' = "failed"
  BY DEF Goto, Refuse, GiveUp, StartFails, Abandon, SeeDone, Joined, closeVars
<1>2. Left' = FALSE
  BY <1>1 DEF TunnelInv, StartInv, Gone, Left
<1> QED
  BY <1>1, <1>2 DEF HandleStep, Handle!Next, Handle!Fail, Left

\* A URL makes a handle.
LEMMA RefineReturn ==
  ASSUME TakeURL
  PROVE  HandleStep
<1>1. /\ UNCHANGED <<dir, job, child, waiter, closer, crashed>> /\ ~crashed
      /\ pc = "select" /\ pc' = "returned"
  BY DEF TakeURL, Goto, childVars, closeVars
<1> QED
  BY <1>1 DEF HandleStep, Handle!Next, Handle!Return

\* The waiting goroutine ends the tunnel, then says so.
LEMMA RefineWaiting ==
  ASSUME TunnelInv, TunnelInv', Waiting
  PROVE  HandleStep
<1>1. Left = dir /\ Left' = dir'
  BY LeftIsDir
<1>2. UNCHANGED <<pc, closer, crashed>> /\ ~crashed
  BY DEF Waiting, Reap, Cleanup, RemoveDir, CloseDone, startVars, closeVars
<1>3. CASE Reap \/ Cleanup
  <2>1. UNCHANGED dir /\ waiter # "over" /\ waiter' # "over"
    BY <1>3 DEF Reap, Cleanup, startVars
  <2> QED
    BY <1>1, <1>2, <2>1 DEF HandleStep, Handle!handleVars, Left
<1>4. CASE RemoveDir
  <2>1. dir /\ dir' = FALSE /\ pc # "failed" /\ waiter # "over" /\ waiter' # "over"
    BY <1>4 DEF RemoveDir, TunnelInv, StartInv, WaitInv
  <2> QED
    BY <1>1, <1>2, <2>1 DEF HandleStep, Handle!Next, Handle!Prepare, Handle!Vanish, Left
<1>5. CASE CloseDone
  <2>1. ~dir /\ UNCHANGED dir /\ waiter' = "over"
    BY <1>5 DEF CloseDone, TunnelInv, WaitInv, startVars
  <2> QED
    BY <1>1, <1>2, <2>1 DEF HandleStep, Handle!Next, Handle!Signal, Left
<1> QED
  BY <1>3, <1>4, <1>5 DEF Waiting

\* Close.
LEMMA RefineClose ==
  ASSUME TunnelInv, TunnelInv', NEW c \in Closers,
         CloseFirst(c) \/ CloseAgain(c) \/ CloseReturns(c)
  PROVE  HandleStep
<1>1. UNCHANGED <<pc, dir, job, child, waiter, crashed>> /\ ~crashed
  BY DEF CloseFirst, CloseAgain, CloseReturns, startVars, childVars
<1>2. CASE CloseFirst(c) \/ CloseAgain(c)
  <2>1. Closed' = Closed
    BY <1>2 DEF CloseFirst, CloseAgain, Closed, TunnelInv, TypeOK
  <2> QED
    BY <1>1, <2>1 DEF HandleStep, Handle!handleVars, Closed
<1>3. CASE CloseReturns(c)
  <2>1. Closed' = Closed \cup {c}
    BY <1>3 DEF CloseReturns, Closed, TunnelInv, TypeOK
  <2>2. pc = "returned" /\ waiter = "over"
    BY <1>3 DEF CloseReturns, TunnelInv, CloseInv
  <2> QED
    BY <1>1, <2>1, <2>2 DEF HandleStep, Handle!Next, Handle!CloseReturns, Closed
<1> QED
  BY <1>2, <1>3

\* The world outside: only the agent's death is a step of the handle.
LEMMA RefineWorld ==
  ASSUME TunnelInv, TunnelInv', World
  PROVE  HandleStep
<1>1. Left = dir /\ Left' = dir'
  BY LeftIsDir
<1>2. UNCHANGED <<pc, dir, waiter, closer>>
  BY DEF World, PrintURL, Exit, Write, Expire, Crash, startVars, closeVars
<1>3. CASE Crash
  BY <1>1, <1>2, <1>3 DEF Crash, HandleStep, Handle!Next, Handle!Crash, Left
<1>4. CASE ~Crash
  <2>1. UNCHANGED crashed
    BY <1>4 DEF World, PrintURL, Exit, Write, Expire
  <2> QED
    BY <1>1, <1>2, <2>1 DEF HandleStep, Handle!handleVars, Left
<1> QED
  BY <1>3, <1>4

\* tunnel.Start keeps the promise the Service relies on, for any callers.
THEOREM Refinement == Spec => ImplementsHandle
<1>1. TunnelInv /\ TunnelInv' /\ [Next]_procVars => HandleStep
  <2> SUFFICES ASSUME TunnelInv, TunnelInv', [Next]_procVars PROVE HandleStep
    OBVIOUS
  <2>1. CASE Starting
    BY <2>1, RefinePrepare, RefineFail, RefineReturn DEF Starting
  <2>2. CASE UNCHANGED procVars
    BY <2>2 DEF procVars, startVars, childVars, closeVars, HandleStep, Handle!handleVars
  <2> QED
    BY <2>1, <2>2, RefineWaiting, RefineClose, RefineWorld DEF Next, World
<1> QED
  BY Inductive, RefineInit, <1>1, PTL DEF Spec, ImplementsHandle, Handle!Spec, HandleStep
=============================================================================
