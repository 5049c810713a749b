----------------------------- MODULE RateLimiter -----------------------------
(***************************************************************************)
(* rateLimiter of internal/api/server.go: so many requests in a window that   *)
(* starts with the first request after the last one has ended.  It is asked   *)
(* before a request is authorised.                                           *)
(***************************************************************************)
EXTENDS Integers, Sequences

CONSTANTS
    RateLimit,      \* 60
    RateWindow,     \* a minute
    LastTime        \* bound: the clock stops here

ASSUME RateAssumption == RateLimit \in Nat \ {0} /\ RateWindow \in Nat \ {0} /\ LastTime \in Nat

VARIABLES
    now,
    windowStart,    \* NoWindow: the zero time
    count,
    admitted        \* history: when each request was let in
limiterVars == <<now, windowStart, count, admitted>>

NoWindow == -1

LimiterInit ==
    /\ now = 0 /\ windowStart = NoWindow /\ count = 0 /\ admitted = <<>>

\* Mutant of WindowOver: windows of the clock, whenever the first request came.
WindowOverByTheClock == windowStart = NoWindow \/ windowStart \div RateWindow # now \div RateWindow

WindowOver == windowStart = NoWindow \/ now >= windowStart + RateWindow

Admit ==
    /\ IF WindowOver THEN windowStart' = now /\ count' = 1
       ELSE count < RateLimit /\ count' = count + 1 /\ UNCHANGED windowStart
    /\ admitted' = Append(admitted, now)
    /\ UNCHANGED now

\* The 429 answer changes nothing.
Reject == ~WindowOver /\ count >= RateLimit /\ UNCHANGED limiterVars

Later == now < LastTime /\ now' = now + 1 /\ UNCHANGED <<windowStart, count, admitted>>

LimiterNext == Admit \/ Reject \/ Later

LimiterSpec == LimiterInit /\ [][LimiterNext]_limiterVars

-----------------------------------------------------------------------------
\* A request of which the one before was let in a window or more ago.
AfterPause(i) == i = 1 \/ admitted[i] - admitted[i - 1] >= RateWindow

\* Whenever a window starts, no period as long as it has more than twice the limit,
\* and none that starts with the first request after a pause has more than the limit
\* (server.go:346-358).
RateBounded == \A i, j \in DOMAIN admitted :
    /\ j >= i + 2 * RateLimit => admitted[j] - admitted[i] >= RateWindow
    /\ AfterPause(i) /\ j >= i + RateLimit => admitted[j] - admitted[i] >= RateWindow
=============================================================================
