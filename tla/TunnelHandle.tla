----------------------------- MODULE TunnelHandle -----------------------------
(***************************************************************************)
(* What tunnel.Start promises its caller (internal/simple): it returns an    *)
(* error and has left nothing behind, or a Handle; Done closes only when     *)
(* nothing is left of that tunnel; and a Close that returns has seen that.   *)
(* Only the death of the agent breaks the promise: the agent's own process   *)
(* has gone by then.                                                         *)
(***************************************************************************)
CONSTANT Closers    \* goroutines that may call Handle.Close

VARIABLES
    outcome,    \* what Start has returned: "none" yet, "error" or "handle"
    left,       \* something of this tunnel exists: process, directory or job
    done,       \* Handle.Done() is closed
    closed,     \* the goroutines whose Close has returned
    crashed     \* the agent has died

handleVars == <<outcome, left, done, closed, crashed>>

Init ==
    /\ outcome = "none"
    /\ left = FALSE /\ done = FALSE
    /\ closed = {}
    /\ crashed = FALSE

\* Start makes something, or removes all it has made.
Prepare ==
    /\ ~crashed /\ outcome = "none" /\ ~done
    /\ left' \in BOOLEAN
    /\ UNCHANGED <<outcome, done, closed, crashed>>

\* Start gives up, and has removed what it made.
Fail ==
    /\ ~crashed /\ outcome = "none"
    /\ outcome' = "error" /\ left' = FALSE
    /\ UNCHANGED <<done, closed, crashed>>

\* Start returns a handle; cloudflared may have exited already.
Return ==
    /\ ~crashed /\ outcome = "none"
    /\ outcome' = "handle"
    /\ UNCHANGED <<left, done, closed, crashed>>

\* The tunnel ends, of itself or because it was closed; it never comes back.
Vanish ==
    /\ ~crashed /\ outcome = "handle" /\ left
    /\ left' = FALSE
    /\ UNCHANGED <<outcome, done, closed, crashed>>

\* Done closes.
Signal ==
    /\ ~crashed /\ ~left
    /\ done' = TRUE
    /\ UNCHANGED <<outcome, left, closed, crashed>>

CloseReturns(c) ==
    /\ ~crashed /\ outcome = "handle" /\ done
    /\ closed' = closed \cup {c}
    /\ UNCHANGED <<outcome, left, done, crashed>>

Crash ==
    /\ ~crashed
    /\ crashed' = TRUE
    /\ UNCHANGED <<outcome, left, done, closed>>

Next ==
    \/ Prepare \/ Fail \/ Return \/ Vanish \/ Signal \/ Crash
    \/ \E c \in Closers : CloseReturns(c)

Spec == Init /\ [][Next]_handleVars
=============================================================================
