---------------------------- MODULE TunnelProcess ----------------------------
(***************************************************************************)
(* One call of tunnel.Start (internal/tunnel/process.go) and the handle it    *)
(* returns: the goroutine in startBinary, the one that waits for cloudflared, *)
(* the one of os/exec that copies its output into urlOutput, the callers of   *)
(* Close, cloudflared itself, and the agent's death.                          *)
(***************************************************************************)
EXTENDS FiniteSets

CONSTANTS
    Closers,        \* goroutines that may call Handle.Close
    JobObjects      \* Windows: cloudflared is put into a job of the agent's

ASSUME JobObjectsAssumption == JobObjects \in BOOLEAN

VARIABLES
    pc,         \* startBinary: the step it is about to take
    dir,        \* the temporary directory with cloudflared's config.yml exists
    job,        \* the handle of the job object: "none", "open" or "closed"
    inJob,      \* cloudflared has been assigned to the job
    child,      \* cloudflared: "none", "running", "exited", or "reaped" by Wait
    killed,     \* it has been told to die
    pipe,       \* its output holds a URL that nobody has read yet
    sent,       \* urlOutput.sent
    found,      \* the channel urlOutput.found: "empty", "full", or "taken" from
    waiter,     \* the goroutine of line 89: its next step, "over" when done closed
    once,       \* process.once: "free", "held" or "over"
    closer,     \* each caller of Close
    expired,    \* ctx is done, or the timer of 25 seconds has fired
    crashed     \* the agent has died

startVars == <<pc, dir, job, inJob>>
childVars == <<child, killed, pipe>>
outVars   == <<sent, found>>
closeVars == <<once, closer>>
procVars  == <<startVars, childVars, outVars, waiter, closeVars, expired, crashed>>

\* The type invariant.
TypeOK ==
    /\ pc \in {"begin", "config", "prepare", "start", "attach", "abandon",
               "select", "join", "failed", "returned"}
    /\ dir \in BOOLEAN /\ inJob \in BOOLEAN /\ killed \in BOOLEAN
    /\ pipe \in BOOLEAN /\ sent \in BOOLEAN
    /\ expired \in BOOLEAN /\ crashed \in BOOLEAN
    /\ job \in {"none", "open", "closed"}
    /\ child \in {"none", "running", "exited", "reaped"}
    /\ found \in {"empty", "full", "taken"}
    /\ waiter \in {"none", "wait", "cleanup", "remove", "signal", "over"}
    /\ once \in {"free", "held", "over"}
    /\ closer \in [Closers -> {"idle", "joining", "blocked", "returned"}]

Init ==
    /\ pc = "begin" /\ dir = FALSE /\ job = "none" /\ inJob = FALSE
    /\ child = "none" /\ killed = FALSE /\ pipe = FALSE
    /\ sent = FALSE /\ found = "empty"
    /\ waiter = "none"
    /\ once = "free" /\ closer = [c \in Closers |-> "idle"]
    /\ expired = FALSE /\ crashed = FALSE

Goto(from, to) == ~crashed /\ pc = from /\ pc' = to

-----------------------------------------------------------------------------
(* startBinary.  Each step has its failure and its clean-up.                *)

\* BinaryPath finds no genuine cloudflared, ctx is already done, or there is no
\* temporary directory to be had.
Refuse ==
    /\ Goto("begin", "failed")
    /\ UNCHANGED <<dir, job, inJob, childVars, outVars, waiter, closeVars, expired, crashed>>

MakeDir ==
    /\ Goto("begin", "config") /\ ~expired
    /\ dir' = TRUE
    /\ UNCHANGED <<job, inJob, childVars, outVars, waiter, closeVars, expired, crashed>>

WriteConfig ==
    /\ Goto("config", "prepare")
    /\ UNCHANGED <<dir, job, inJob, childVars, outVars, waiter, closeVars, expired, crashed>>

\* config.yml cannot be written, or prepareProcess cannot make the job.
GiveUp ==
    /\ Goto("config", "failed") \/ (JobObjects /\ Goto("prepare", "failed"))
    /\ dir' = FALSE
    /\ UNCHANGED <<job, inJob, childVars, outVars, waiter, closeVars, expired, crashed>>

prepareProcess ==
    /\ Goto("prepare", "start")
    /\ job' = IF JobObjects THEN "open" ELSE job
    /\ UNCHANGED <<dir, inJob, childVars, outVars, waiter, closeVars, expired, crashed>>

\* What cleanup does; the closures of prepareProcess do it once.
CloseJob == job' = IF job = "open" THEN "closed" ELSE job

StartCommand ==
    /\ Goto("start", "attach")
    /\ child' = "running"
    /\ UNCHANGED <<dir, job, inJob, killed, pipe, outVars, waiter, closeVars, expired, crashed>>

\* Mutant of StartFails: the job's handle stays open.
StartFailsKeepsJob ==
    /\ Goto("start", "failed")
    /\ dir' = FALSE
    /\ UNCHANGED <<job, inJob, childVars, outVars, waiter, closeVars, expired, crashed>>

StartFails ==
    /\ Goto("start", "failed")
    /\ CloseJob /\ dir' = FALSE
    /\ UNCHANGED <<inJob, childVars, outVars, waiter, closeVars, expired, crashed>>

\* attachProcess, and the goroutine that waits for cloudflared.
attachProcess ==
    /\ Goto("attach", "select")
    /\ inJob' = JobObjects
    /\ waiter' = "wait"
    /\ UNCHANGED <<dir, job, childVars, outVars, closeVars, expired, crashed>>

\* Mutant of AttachFails: the failure is ignored.
AttachFailsIgnored ==
    /\ JobObjects /\ Goto("attach", "select")
    /\ waiter' = "wait"
    /\ UNCHANGED <<dir, job, inJob, childVars, outVars, closeVars, expired, crashed>>

AttachFails ==
    /\ JobObjects /\ Goto("attach", "abandon")
    /\ killed' = TRUE
    /\ UNCHANGED <<dir, job, inJob, child, pipe, outVars, waiter, closeVars, expired, crashed>>

\* cmd.Wait: cloudflared has exited and all its output has been copied.
Waitable == child = "exited" /\ ~pipe

Abandon ==
    /\ Goto("abandon", "failed") /\ Waitable
    /\ child' = "reaped" /\ CloseJob /\ dir' = FALSE
    /\ UNCHANGED <<inJob, killed, pipe, outVars, waiter, closeVars, expired, crashed>>

-----------------------------------------------------------------------------
(* The select of startBinary; when several cases are ready any may be taken. *)

TakeURL ==
    /\ Goto("select", "returned") /\ found = "full"
    /\ found' = "taken"
    /\ UNCHANGED <<dir, job, inJob, childVars, sent, waiter, closeVars, expired, crashed>>

SeeDone ==
    /\ Goto("select", "failed") /\ waiter = "over"
    /\ UNCHANGED <<dir, job, inJob, childVars, outVars, waiter, closeVars, expired, crashed>>

\* ctx or the timer: p.Close kills the process, and waits for done (Joined).
GiveUpWaiting ==
    /\ Goto("select", "join") /\ expired
    /\ killed' = TRUE /\ once' = "held"
    /\ UNCHANGED <<dir, job, inJob, child, pipe, outVars, waiter, closer, expired, crashed>>

Joined ==
    /\ Goto("join", "failed") /\ waiter = "over"
    /\ once' = "over"
    /\ UNCHANGED <<dir, job, inJob, childVars, outVars, waiter, closer, expired, crashed>>

Starting ==
    \/ Refuse \/ MakeDir \/ WriteConfig \/ GiveUp \/ prepareProcess
    \/ StartCommand \/ StartFails \/ attachProcess \/ AttachFails \/ Abandon
    \/ TakeURL \/ SeeDone \/ GiveUpWaiting \/ Joined

-----------------------------------------------------------------------------
(* The waiting goroutine: cmd.Wait, cleanup, RemoveAll, close(done).         *)

\* Mutant of Reap: done is closed first, and the rest follows never.
ReapAndSignal ==
    /\ waiter = "wait" /\ Waitable /\ ~crashed
    /\ child' = "reaped" /\ waiter' = "over"
    /\ UNCHANGED <<startVars, killed, pipe, outVars, closeVars, expired, crashed>>

Reap ==
    /\ waiter = "wait" /\ Waitable /\ ~crashed
    /\ child' = "reaped" /\ waiter' = "cleanup"
    /\ UNCHANGED <<startVars, killed, pipe, outVars, closeVars, expired, crashed>>

Cleanup ==
    /\ waiter = "cleanup" /\ ~crashed
    /\ CloseJob /\ waiter' = "remove"
    /\ UNCHANGED <<pc, dir, inJob, childVars, outVars, closeVars, expired, crashed>>

RemoveDir ==
    /\ waiter = "remove" /\ ~crashed
    /\ dir' = FALSE /\ waiter' = "signal"
    /\ UNCHANGED <<pc, job, inJob, childVars, outVars, closeVars, expired, crashed>>

CloseDone ==
    /\ waiter = "signal" /\ ~crashed
    /\ waiter' = "over"
    /\ UNCHANGED <<startVars, childVars, outVars, closeVars, expired, crashed>>

Waiting == Reap \/ Cleanup \/ RemoveDir \/ CloseDone

-----------------------------------------------------------------------------
(* Close: sync.Once lets the first caller in, the others wait for it.        *)

CloseFirst(c) ==
    /\ pc = "returned" /\ closer[c] = "idle" /\ once = "free" /\ ~crashed
    /\ once' = "held" /\ killed' = TRUE
    /\ closer' = [closer EXCEPT ![c] = "joining"]
    /\ UNCHANGED <<startVars, child, pipe, outVars, waiter, expired, crashed>>

CloseAgain(c) ==
    /\ pc = "returned" /\ closer[c] = "idle" /\ once # "free" /\ ~crashed
    /\ closer' = [closer EXCEPT ![c] = "blocked"]
    /\ UNCHANGED <<startVars, childVars, outVars, waiter, once, expired, crashed>>

CloseReturns(c) ==
    /\ ~crashed
    /\ \/ closer[c] = "joining" /\ waiter = "over" /\ once' = "over"
       \/ closer[c] = "blocked" /\ once = "over" /\ UNCHANGED once
    /\ closer' = [closer EXCEPT ![c] = "returned"]
    /\ UNCHANGED <<startVars, childVars, outVars, waiter, expired, crashed>>

-----------------------------------------------------------------------------
(* cloudflared, the copying goroutine, time, and the agent's death.          *)

PrintURL ==
    /\ child = "running" /\ ~pipe
    /\ pipe' = TRUE
    /\ UNCHANGED <<startVars, child, killed, outVars, waiter, closeVars, expired, crashed>>

\* cloudflared exits, of itself or because it was killed.
Exit ==
    /\ child = "running"
    /\ child' = "exited"
    /\ UNCHANGED <<startVars, killed, pipe, outVars, waiter, closeVars, expired, crashed>>

\* Mutant of Write: every URL goes into the channel, which holds one.
WriteEveryURL ==
    /\ pipe /\ ~crashed
    /\ found = "empty" \/ found = "taken"
    /\ pipe' = FALSE /\ sent' = TRUE /\ found' = "full"
    /\ UNCHANGED <<startVars, child, killed, waiter, closeVars, expired, crashed>>

\* urlOutput.Write gets output with a URL: only the first one is sent.
Write ==
    /\ pipe /\ ~crashed
    /\ pipe' = FALSE /\ sent' = TRUE
    /\ \/ sent /\ UNCHANGED found
       \/ ~sent /\ found' = "full"
    /\ UNCHANGED <<startVars, child, killed, waiter, closeVars, expired, crashed>>

Expire ==
    /\ ~expired
    /\ expired' = TRUE
    /\ UNCHANGED <<startVars, childVars, outVars, waiter, closeVars, crashed>>

\* The agent dies: the system closes its handles, and a job closed that way
\* takes its processes along.
Crash ==
    /\ ~crashed /\ crashed' = TRUE
    /\ CloseJob
    /\ killed' = (killed \/ (inJob /\ job = "open"))
    /\ UNCHANGED <<pc, dir, inJob, child, pipe, outVars, waiter, closeVars, expired>>

Next ==
    \/ Starting \/ Waiting
    \/ \E c \in Closers : CloseFirst(c) \/ CloseAgain(c) \/ CloseReturns(c)
    \/ PrintURL \/ Exit \/ Write \/ Expire \/ Crash

Spec == Init /\ [][Next]_procVars

\* The goroutines go on, the timer fires, a killed process dies.  Nothing is
\* assumed of what cloudflared prints, or that it ever exits by itself.
Fairness ==
    /\ WF_procVars(Starting) /\ WF_procVars(Waiting)
    /\ \A c \in Closers : WF_procVars(CloseReturns(c))
    /\ WF_procVars(Write) /\ WF_procVars(Expire)
    /\ WF_procVars(killed /\ Exit)

FairSpec == Spec /\ Fairness

-----------------------------------------------------------------------------
(* Properties.                                                              *)

\* Nothing of this tunnel exists any more.
Gone == ~dir /\ job # "open" /\ child \in {"none", "reaped"}

\* When startBinary returns an error (lines 45 to 102) there is no process, no
\* temporary directory and no job handle for the caller to clean up: whichever
\* step failed, and whatever had exited or expired by then.
ErrorLeavesNothing == pc = "failed" => Gone

\* A Close that has returned, also a second one that raced the first, has seen
\* the end of cloudflared and of its directory (line 34).
ClosedIsGone == \A c \in Closers : closer[c] = "returned" => Gone /\ waiter = "over"

\* As long as the agent lives, cloudflared has its empty config.yml, without
\* which it would use the user's own (line 61), and from the moment the handle
\* may be given out the job that would kill it.
RunsManaged ==
    ~crashed /\ child = "running" =>
        dir /\ (JobObjects /\ pc \in {"select", "join", "returned"} => inJob /\ job = "open")

\* Where startBinary is, and what it holds there.
JobHeld == job = IF JobObjects THEN "open" ELSE "none"

StartInv ==
    /\ pc \in {"begin", "config", "prepare", "start"} => child = "none"
    /\ pc \in {"begin", "config", "prepare"} => job = "none"
    /\ pc = "begin" => ~dir
    /\ pc \in {"config", "prepare", "start", "attach", "abandon"} => dir
    /\ pc \in {"start", "attach", "abandon"} /\ ~crashed => JobHeld
    /\ pc \in {"attach", "abandon"} => child \in {"running", "exited"}
    /\ pc \in {"select", "join", "returned"} => waiter # "none"
    /\ pc = "failed" => Gone /\ waiter \in {"none", "over"}
    /\ pc \notin {"join", "failed", "returned"} => once = "free"
    /\ waiter # "none" => pc \in {"select", "join", "returned", "failed"}

\* What the waiting goroutine still has to clean up.
WaitInv ==
    /\ waiter = "wait" => /\ dir /\ child \in {"running", "exited"}
                          /\ ~crashed => JobHeld /\ inJob = JobObjects
    /\ waiter \in {"cleanup", "remove", "signal", "over"} => child = "reaped"
    /\ waiter \in {"cleanup", "remove"} => dir
    /\ waiter \in {"remove", "signal", "over"} => job # "open"
    /\ waiter \in {"signal", "over"} => ~dir

CloseInv ==
    /\ pc = "returned" /\ once = "over" => waiter = "over"
    /\ \A c \in Closers : /\ closer[c] # "idle" => pc = "returned"
                          /\ closer[c] = "returned" => waiter = "over"

\* The inductive invariant: each thing that exists is in the hands of the
\* goroutine that will remove it (lines 52 to 102).
TunnelInv == TypeOK /\ (crashed => job # "open") /\ StartInv /\ WaitInv /\ CloseInv

\* To the Service this is a TunnelHandle.
Handle == INSTANCE TunnelHandle WITH
    outcome <- CASE pc = "failed" -> "error" [] pc = "returned" -> "handle" [] OTHER -> "none",
    left    <- dir \/ job = "open" \/ child \in {"running", "exited"},
    done    <- waiter = "over",
    closed  <- {c \in Closers : closer[c] = "returned"}

ImplementsHandle == Handle!Spec

\* startBinary returns, also when cloudflared says nothing and does not exit; and
\* Close does, also when output is still on its way that nobody will read (lines 34
\* and 91-103).
CallsReturn ==
    /\ (pc # "begin") ~> (pc \in {"failed", "returned"} \/ crashed)
    /\ \A c \in Closers :
        (closer[c] \in {"joining", "blocked"}) ~> (closer[c] = "returned" \/ crashed)

\* docs/SPEC.md:522: on Windows the job object makes sure that cloudflared does
\* not remain when the agent dies.  The code starts it first and puts it into
\* the job afterwards (lines 76 and 81).
NoChildAfterCrash == JobObjects /\ crashed /\ child = "running" => killed
=============================================================================
