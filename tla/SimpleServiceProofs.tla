------------------------- MODULE SimpleServiceProofs -------------------------
(***************************************************************************)
(* What SimpleService guarantees for any number of tunnels, tickets,        *)
(* tokens, handlers and clock ticks; and, in the second part, what the      *)
(* agent that owns the Service guarantees on top of it.                     *)
(***************************************************************************)
EXTENDS Agent, TLAPS

-----------------------------------------------------------------------------
(* The inductive invariant.                                                 *)

\* Where the goroutine in Start or Close is, and what it has in hand.  The
\* runtime in the Service is always the latest one, or none.
LifecycleInv ==
    /\ lpc \in {"closePrevious", "listen", "launch", "inspect", "failed", "closing"} => runtime = 0
    /\ lpc \in {"verify", "publish", "rejected"} => runtime = runs
    /\ lpc = "idle" => runtime \in {0, runs}
    /\ lpc \in {"launch", "inspect", "verify", "publish", "rejected", "failed"} =>
           runs # 0 /\ watcher[runs] = "none"
    /\ lpc \in {"launch", "inspect", "verify", "publish"} => session = runs
    /\ lpc \in {"verify", "publish"} => host = url[runs] /\ host # NoHost
    /\ lpc \notin {"closePrevious", "closing"} => victim = 0
    /\ \A r \in Runs : r > runs => watcher[r] = "none"

\* Servers and processes that still run are within reach of somebody who will
\* close them.
ReachInv ==
    \A r \in Runs :
        LET InHand == r = victim \/ (r = runtime /\ lpc # "rejected")
        IN  /\ serverUp[r] => InHand \/ (r = runs /\ lpc \in {"launch", "inspect"})
            /\ wire[r] = "up" => InHand \/ (r = runs /\ lpc = "inspect")

\* Tickets and pairings exist only while the Service is ready, and the Service
\* is ready only between calls of Start and Close.
ReadyInv ==
    /\ ready => lpc = "idle"
    /\ ReadyIsCurrent
    /\ PairedInThisSession

\* No token has been granted for a ticket that can still be redeemed, nor for
\* one that is yet to be offered.
TicketInv ==
    /\ TicketSingleUse
    /\ ticket <= tickets
    /\ \A k \in Tokens : grantedFor[k] <= tickets
    /\ ticket # 0 => \A k \in Tokens : grantedFor[k] # ticket

IInv == TypeOK /\ LifecycleInv /\ ReachInv /\ ReadyInv /\ TicketInv

-----------------------------------------------------------------------------
(* Lemmas about the helpers.                                                *)

\* The values New and clearLocked give (service.go:61-63, 108-116) are in range.
LEMMA Zeros ==
    /\ 0 \in 0..MaxRuns /\ 0 \in 0..MaxTickets /\ 0 \in 0..MaxTokens /\ 0 \in 0..MaxTime
    /\ 0 \in 0..(MaxTime + TicketLife) /\ 0 \in 0..(PairLimit + 1)
    /\ -AttemptWindow \in (-AttemptWindow)..MaxTime
  BY ConstantsAssumption

\* runtime.Close behind its nil check (service.go:40, 133-135, 256-258) stops the
\* server and the process of the runtime that was taken out of the Service, and
\* starts nothing.
LEMMA VictimCloses ==
    ASSUME FunctionsOK, victim \in 0..MaxRuns, closeVictim
    PROVE  /\ serverUp' \in [Runs -> BOOLEAN] /\ wire' \in [Runs -> {"none", "up", "done"}]
           /\ \A r \in Runs : serverUp'[r] => serverUp[r] /\ r # victim
           /\ \A r \in Runs : wire'[r] = "up" => wire[r] = "up" /\ r # victim
           /\ url' = url /\ watcher' = watcher
<1>1. CASE victim = 0
  BY <1>1, ConstantsAssumption DEF closeVictim, tunnels, Runs, FunctionsOK
<1>2. CASE victim # 0
  <2>1. victim \in Runs /\ runtimeClose(victim)
    BY <1>2, ConstantsAssumption DEF closeVictim, Runs
  <2>. QED
    BY <2>1 DEF runtimeClose, FunctionsOK
<1>. QED
  BY <1>1, <1>2

-----------------------------------------------------------------------------
(* The initial Service has all of it.                                       *)

\* A Service that New has just made (service.go:61-63) satisfies the invariant.
LEMMA InitIInv == Init => IInv
<1>. SUFFICES ASSUME Init PROVE IInv
  OBVIOUS
<1>. USE ConstantsAssumption DEF Init, Runs, Tickets, Tokens
<1>1. ScalarsOK
  BY Zeros DEF ScalarsOK
<1>4. FunctionsOK
  BY DEF FunctionsOK, NoCall
<1>2. LifecycleInv /\ ReachInv
  BY DEF LifecycleInv, ReachInv
<1>3. ReadyInv /\ TicketInv
  BY DEF ReadyInv, ReadyIsCurrent, PairedInThisSession, TicketInv, TicketSingleUse
<1>. QED
  BY <1>1, <1>2, <1>3, <1>4 DEF IInv, TypeOK

-----------------------------------------------------------------------------
(* Every step keeps it.                                                     *)

\* Every call, goroutine step and request keeps every variable in its type.  The
\* host InspectURL publishes is one because a Start under way has a number.
LEMMA TypeStep == TypeOK /\ LifecycleInv /\ [Next]_vars => TypeOK'
<1>. SUFFICES ASSUME TypeOK, LifecycleInv PROVE [Next]_vars => TypeOK'
  OBVIOUS
<1>. USE ConstantsAssumption DEF TypeOK, Runs, Tickets, Tokens
<1>1. CASE StartHealthy
  <2>1. ScalarsOK'
    BY <1>1 DEF ScalarsOK, fields, limiter, lifecycle, tunnels, counters, history,
       StartHealthy, vars
  <2>2. FunctionsOK'
    BY <1>1 DEF FunctionsOK, fields, limiter, lifecycle, tunnels, counters, history,
       StartHealthy, vars
  <2>. QED
    BY <2>1, <2>2
<1>2. CASE StartFresh
  <2>1. ScalarsOK'
    BY <1>2, Zeros DEF ScalarsOK, limiter, tunnels, counters, history, StartFresh, clearLocked
  <2>2. FunctionsOK'
    BY <1>2, Zeros DEF FunctionsOK, limiter, tunnels, counters, history, StartFresh, clearLocked
  <2>. QED
    BY <2>1, <2>2
<1>3. CASE ClosePrevious
  <2>1. ScalarsOK'
    BY <1>3, VictimCloses DEF ScalarsOK, fields, limiter, counters, history, ClosePrevious
  <2>2. FunctionsOK'
    BY <1>3, VictimCloses DEF FunctionsOK, fields, limiter, counters, history, ClosePrevious,
       ScalarsOK
  <2>. QED
    BY <2>1, <2>2
<1>4. CASE Listen
  <2>1. ScalarsOK'
    BY <1>4 DEF ScalarsOK, limiter, history, Listen, setCredentialLocked
  <2>2. FunctionsOK'
    BY <1>4 DEF FunctionsOK, limiter, history, Listen, setCredentialLocked, ScalarsOK
  <2>. QED
    BY <2>1, <2>2
<1>5. CASE ListenFails
  <2>1. ScalarsOK'
    BY <1>5 DEF ScalarsOK, fields, limiter, tunnels, counters, history, ListenFails
  <2>2. FunctionsOK'
    BY <1>5 DEF FunctionsOK, fields, limiter, tunnels, counters, history, ListenFails
  <2>. QED
    BY <2>1, <2>2
<1>6. CASE Launch
  <2>1. ScalarsOK'
    BY <1>6 DEF ScalarsOK, fields, limiter, counters, history, Launch
  <2>2. FunctionsOK'
    BY <1>6, ZenonT(60) DEF FunctionsOK, fields, limiter, counters, history, Launch
  <2>. QED
    BY <2>1, <2>2
<1>7. CASE LaunchFails
  <2>1. ScalarsOK'
    BY <1>7 DEF ScalarsOK, fields, limiter, counters, history, LaunchFails
  <2>2. FunctionsOK'
    BY <1>7 DEF FunctionsOK, fields, limiter, counters, history, LaunchFails
  <2>. QED
    BY <2>1, <2>2
<1>8. CASE InspectURL
  <2>1. ScalarsOK'
    BY <1>8 DEF ScalarsOK, limiter, tunnels, counters, history, InspectURL, FunctionsOK,
       LifecycleInv
  <2>2. FunctionsOK'
    BY <1>8 DEF FunctionsOK, limiter, tunnels, counters, history, InspectURL
  <2>. QED
    BY <2>1, <2>2
<1>9. CASE RefuseURL
  <2>1. ScalarsOK'
    BY <1>9 DEF ScalarsOK, fields, limiter, counters, history, RefuseURL, runtimeClose
  <2>2. FunctionsOK'
    BY <1>9 DEF FunctionsOK, fields, limiter, counters, history, RefuseURL, runtimeClose
  <2>. QED
    BY <2>1, <2>2
<1>10. CASE Abandon
  <2>1. ScalarsOK'
    BY <1>10, Zeros DEF ScalarsOK, limiter, tunnels, counters, history, Abandon, clearLocked
  <2>2. FunctionsOK'
    BY <1>10, Zeros DEF FunctionsOK, limiter, tunnels, counters, history, Abandon, clearLocked
  <2>. QED
    BY <2>1, <2>2
<1>11. CASE VerifyOk
  <2>1. ScalarsOK'
    BY <1>11 DEF ScalarsOK, fields, limiter, tunnels, counters, history, VerifyOk
  <2>2. FunctionsOK'
    BY <1>11 DEF FunctionsOK, fields, limiter, tunnels, counters, history, VerifyOk
  <2>. QED
    BY <2>1, <2>2
<1>12. CASE VerifyFails
  <2>1. ScalarsOK'
    BY <1>12 DEF ScalarsOK, fields, limiter, counters, history, VerifyFails, runtimeClose
  <2>2. FunctionsOK'
    BY <1>12 DEF FunctionsOK, fields, limiter, counters, history, VerifyFails, runtimeClose
  <2>. QED
    BY <2>1, <2>2
<1>13. CASE Reject
  <2>1. ScalarsOK'
    BY <1>13, Zeros DEF ScalarsOK, limiter, tunnels, counters, history, Reject, clearLocked
  <2>2. FunctionsOK'
    BY <1>13, Zeros DEF FunctionsOK, limiter, tunnels, counters, history, Reject, clearLocked
  <2>. QED
    BY <2>1, <2>2
<1>14. CASE Publish
  <2>1. ScalarsOK'
    BY <1>14 DEF ScalarsOK, limiter, counters, history, Publish
  <2>2. FunctionsOK'
    BY <1>14 DEF FunctionsOK, limiter, counters, history, Publish
  <2>. QED
    BY <2>1, <2>2
<1>15. CASE Close
  <2>1. ScalarsOK'
    BY <1>15, Zeros DEF ScalarsOK, limiter, tunnels, counters, history, Close, clearLocked
  <2>2. FunctionsOK'
    BY <1>15, Zeros DEF FunctionsOK, limiter, tunnels, counters, history, Close, clearLocked
  <2>. QED
    BY <2>1, <2>2
<1>16. CASE CloseRuntime
  <2>1. ScalarsOK'
    BY <1>16, VictimCloses DEF ScalarsOK, fields, limiter, counters, history, CloseRuntime
  <2>2. FunctionsOK'
    BY <1>16, VictimCloses DEF FunctionsOK, fields, limiter, counters, history, CloseRuntime,
       ScalarsOK
  <2>. QED
    BY <2>1, <2>2
<1>17. CASE NewPairing
  <2>1. ScalarsOK'
    BY <1>17 DEF ScalarsOK, limiter, lifecycle, tunnels, NewPairing
  <2>2. FunctionsOK'
    BY <1>17 DEF FunctionsOK, limiter, lifecycle, tunnels, NewPairing, ScalarsOK
  <2>. QED
    BY <2>1, <2>2
<1>18. CASE Revoke
  <2>. USE <1>18 DEF Revoke, setCredentialLocked, ScalarsOK
  <2>3. credential' \in 0..MaxTokens /\ tokens' \in 0..MaxTokens
    OBVIOUS
  <2>4. ticket' \in 0..MaxTickets /\ expires' \in 0..(MaxTime + TicketLife) /\ paired' \in BOOLEAN
    BY Zeros
  <2>1. ScalarsOK'
    BY <2>3, <2>4 DEF limiter, lifecycle, tunnels, history
  <2>2. FunctionsOK'
    BY <1>18, Zeros DEF FunctionsOK, limiter, lifecycle, tunnels, history, Revoke,
       setCredentialLocked
  <2>. QED
    BY <2>1, <2>2
<1>19. CASE DesktopCopies
  <2>1. ScalarsOK'
    BY <1>19, Zeros DEF ScalarsOK, fields, limiter, lifecycle, tunnels, counters, history,
       DesktopCopies
  <2>2. FunctionsOK'
    BY <1>19, Zeros DEF FunctionsOK, fields, limiter, lifecycle, tunnels, counters, history,
       DesktopCopies
  <2>. QED
    BY <2>1, <2>2
<1>20. CASE Tick
  <2>1. ScalarsOK'
    BY <1>20 DEF ScalarsOK, fields, limiter, lifecycle, tunnels, history, Tick
  <2>2. FunctionsOK'
    BY <1>20 DEF FunctionsOK, fields, limiter, lifecycle, tunnels, history, Tick
  <2>. QED
    BY <2>1, <2>2
<1>21. ASSUME NEW b \in BOOLEAN, SetActive(b) PROVE TypeOK'
  <2>1. ScalarsOK'
    BY <1>21 DEF ScalarsOK, limiter, lifecycle, tunnels, counters, history, SetActive
  <2>2. FunctionsOK'
    BY <1>21 DEF FunctionsOK, limiter, lifecycle, tunnels, counters, history, SetActive
  <2>. QED
    BY <2>1, <2>2
<1>22. ASSUME NEW r \in Runs, TunnelExits(r) PROVE TypeOK'
  <2>1. ScalarsOK'
    BY <1>22 DEF ScalarsOK, fields, limiter, lifecycle, counters, history, TunnelExits
  <2>2. FunctionsOK'
    BY <1>22 DEF FunctionsOK, fields, limiter, lifecycle, counters, history, TunnelExits
  <2>. QED
    BY <2>1, <2>2
<1>23. ASSUME NEW r \in Runs, WatcherWakes(r) PROVE TypeOK'
  <2>1. ScalarsOK'
    BY <1>23 DEF ScalarsOK, fields, limiter, lifecycle, counters, history, WatcherWakes
  <2>2. FunctionsOK'
    BY <1>23 DEF FunctionsOK, fields, limiter, lifecycle, counters, history, WatcherWakes
  <2>. QED
    BY <2>1, <2>2
<1>24. ASSUME NEW r \in Runs, WatcherClears(r) PROVE TypeOK'
  <2>1. ScalarsOK'
    BY <1>24, Zeros DEF ScalarsOK, limiter, lifecycle, counters, history, WatcherClears,
       clearLocked
  <2>2. FunctionsOK'
    BY <1>24, Zeros DEF FunctionsOK, limiter, lifecycle, counters, history, WatcherClears,
       clearLocked
  <2>. QED
    BY <2>1, <2>2
<1>25. ASSUME NEW c \in Calls, NEW t \in 0..tickets, ReceivePair(c, t) PROVE TypeOK'
  <2>1. ScalarsOK'
    BY <1>25 DEF ScalarsOK, fields, limiter, lifecycle, tunnels, counters, history, ReceivePair
  <2>2. FunctionsOK'
    BY <1>25, SMTT(40) DEF FunctionsOK, fields, limiter, lifecycle, tunnels, counters, history,
       ReceivePair, ScalarsOK
  <2>. QED
    BY <2>1, <2>2
<1>26. ASSUME NEW c \in Calls, NEW k \in 1..tokens, ReceiveWrite(c, k) PROVE TypeOK'
  <2>1. ScalarsOK'
    BY <1>26 DEF ScalarsOK, fields, limiter, lifecycle, tunnels, counters, history, ReceiveWrite
  <2>2. FunctionsOK'
    BY <1>26, SMTT(40) DEF FunctionsOK, fields, limiter, lifecycle, tunnels, counters, history,
       ReceiveWrite, ScalarsOK
  <2>. QED
    BY <2>1, <2>2
<1>27. ASSUME NEW c \in Calls, CallRefused(c) PROVE TypeOK'
  <2>1. ScalarsOK'
    BY <1>27 DEF ScalarsOK, fields, limiter, lifecycle, tunnels, counters, history,
       CallRefused, Finish, NoCall
  <2>2. FunctionsOK'
    BY <1>27, SMTT(40) DEF FunctionsOK, fields, limiter, lifecycle, tunnels, counters, history,
       CallRefused, Finish, NoCall
  <2>. QED
    BY <2>1, <2>2
<1>28. ASSUME NEW c \in Calls, pairLocked(c) PROVE TypeOK'
  <2>1. ScalarsOK'
    BY <1>28 DEF ScalarsOK, lifecycle, tunnels, pairLocked, setCredentialLocked, Finish,
       NoCall, CountAttempt, Attempt, WindowOver
  <2>3. call[c].secret \in 0..MaxTickets
    BY <1>28 DEF pairLocked, Redeemable, ScalarsOK
  <2>4. grantedFor' \in [Tokens -> 0..MaxTickets] /\ grantedIn' \in [Tokens -> 0..MaxRuns]
    BY <1>28, <2>3 DEF pairLocked, ScalarsOK, FunctionsOK
  <2>5. UNCHANGED <<tunnels, offeredIn>> /\ Finish(c)
    BY <1>28 DEF pairLocked
  <2>2. FunctionsOK'
    BY <2>4, <2>5 DEF FunctionsOK, tunnels, Finish, NoCall
  <2>. QED
    BY <2>1, <2>2
<1>29. ASSUME NEW c \in Calls, pairRefused(c) PROVE TypeOK'
  <2>1. ScalarsOK'
    BY <1>29 DEF ScalarsOK, fields, lifecycle, tunnels, counters, history, pairRefused,
       Finish, NoCall, CountAttempt, Attempt, WindowOver
  <2>2. FunctionsOK'
    BY <1>29, SMTT(40) DEF FunctionsOK, fields, lifecycle, tunnels, counters, history, pairRefused,
       Finish, NoCall, CountAttempt, Attempt, WindowOver, ScalarsOK
  <2>. QED
    BY <2>1, <2>2
<1>30. ASSUME NEW c \in Calls, ServeWrite(c) PROVE TypeOK'
  <2>1. ScalarsOK'
    BY <1>30 DEF ScalarsOK, fields, limiter, lifecycle, tunnels, counters, history,
       ServeWrite, Finish, NoCall, authorizedLocked
  <2>2. FunctionsOK'
    BY <1>30, SMTT(40) DEF FunctionsOK, fields, limiter, lifecycle, tunnels, counters, history,
       ServeWrite, Finish, NoCall, authorizedLocked
  <2>. QED
    BY <2>1, <2>2
<1>31. ASSUME NEW k \in 1..tokens, ServeRead(k) PROVE TypeOK'
  <2>1. ScalarsOK'
    BY <1>31 DEF ScalarsOK, fields, limiter, lifecycle, tunnels, counters, history, ServeRead,
       authorizedLocked
  <2>2. FunctionsOK'
    BY <1>31 DEF FunctionsOK, fields, limiter, lifecycle, tunnels, counters, history,
       ServeRead, authorizedLocked
  <2>. QED
    BY <2>1, <2>2
<1>32. CASE UNCHANGED vars
  <2>1. ScalarsOK'
    BY <1>32 DEF ScalarsOK, vars, fields, limiter, lifecycle, counters
  <2>2. FunctionsOK'
    BY <1>32 DEF FunctionsOK, vars, tunnels, history
  <2>. QED
    BY <2>1, <2>2
<1>. QED
  BY <1>1, <1>2, <1>3, <1>4, <1>5, <1>6, <1>7, <1>8, <1>9, <1>10, <1>11, <1>12, <1>13, <1>14,
     <1>15, <1>16, <1>17, <1>18, <1>19, <1>20, <1>21, <1>22, <1>23, <1>24, <1>25, <1>26,
     <1>27, <1>28, <1>29, <1>30, <1>31, <1>32
  DEF Next, Internal, Owner, LifecycleStep, Watcher, Handler

\* The goroutine in Start or Close leaves lpc, runtime, session and host in step.
LEMMA LifecycleKept == TypeOK /\ LifecycleInv /\ [Next]_vars => LifecycleInv'
<1>. SUFFICES ASSUME TypeOK, LifecycleInv PROVE [Next]_vars => LifecycleInv'
  OBVIOUS
<1>. USE ConstantsAssumption DEF TypeOK, ScalarsOK, FunctionsOK, Runs, Tickets, Tokens, LifecycleInv
<1>1. CASE StartHealthy
  BY <1>1 DEF fields, limiter, lifecycle, tunnels, counters, history, StartHealthy, vars
<1>2. CASE StartFresh
  BY <1>2, Zeros DEF limiter, tunnels, counters, history, StartFresh, clearLocked
<1>3. CASE ClosePrevious
  BY <1>3, VictimCloses DEF fields, limiter, counters, history, ClosePrevious
<1>4. CASE Listen
  BY <1>4 DEF limiter, history, Listen, setCredentialLocked
<1>5. CASE ListenFails
  BY <1>5 DEF fields, limiter, tunnels, counters, history, ListenFails
<1>6. CASE Launch
  BY <1>6 DEF fields, limiter, counters, history, Launch
<1>7. CASE LaunchFails
  BY <1>7 DEF fields, limiter, counters, history, LaunchFails
<1>8. CASE InspectURL
  BY <1>8 DEF limiter, tunnels, counters, history, InspectURL
<1>9. CASE RefuseURL
  BY <1>9 DEF fields, limiter, counters, history, RefuseURL, runtimeClose
<1>10. CASE Abandon
  BY <1>10, Zeros DEF limiter, tunnels, counters, history, Abandon, clearLocked
<1>11. CASE VerifyOk
  BY <1>11 DEF fields, limiter, tunnels, counters, history, VerifyOk
<1>12. CASE VerifyFails
  BY <1>12 DEF fields, limiter, counters, history, VerifyFails, runtimeClose
<1>13. CASE Reject
  BY <1>13, Zeros DEF limiter, tunnels, counters, history, Reject, clearLocked
<1>14. CASE Publish
  BY <1>14 DEF limiter, counters, history, Publish
<1>15. CASE Close
  BY <1>15, Zeros DEF limiter, tunnels, counters, history, Close, clearLocked
<1>16. CASE CloseRuntime
  BY <1>16, VictimCloses DEF fields, limiter, counters, history, CloseRuntime
<1>17. CASE NewPairing
  BY <1>17 DEF limiter, lifecycle, tunnels, NewPairing
<1>18. CASE Revoke
  BY <1>18, Zeros DEF limiter, lifecycle, tunnels, history, Revoke, setCredentialLocked
<1>19. CASE DesktopCopies
  BY <1>19, Zeros DEF fields, limiter, lifecycle, tunnels, counters, history, DesktopCopies
<1>20. CASE Tick
  BY <1>20 DEF fields, limiter, lifecycle, tunnels, history, Tick
<1>21. ASSUME NEW b \in BOOLEAN, SetActive(b) PROVE LifecycleInv'
  BY <1>21 DEF limiter, lifecycle, tunnels, counters, history, SetActive
<1>22. ASSUME NEW r \in Runs, TunnelExits(r) PROVE LifecycleInv'
  BY <1>22 DEF fields, limiter, lifecycle, counters, history, TunnelExits
<1>23. ASSUME NEW r \in Runs, WatcherWakes(r) PROVE LifecycleInv'
  BY <1>23 DEF fields, limiter, lifecycle, counters, history, WatcherWakes
<1>24. ASSUME NEW r \in Runs, WatcherClears(r) PROVE LifecycleInv'
  BY <1>24, Zeros DEF limiter, lifecycle, counters, history, WatcherClears, clearLocked
<1>25. ASSUME NEW c \in Calls, NEW t \in 0..tickets, ReceivePair(c, t) PROVE LifecycleInv'
  BY <1>25 DEF fields, limiter, lifecycle, tunnels, counters, history, ReceivePair
<1>26. ASSUME NEW c \in Calls, NEW k \in 1..tokens, ReceiveWrite(c, k) PROVE LifecycleInv'
  BY <1>26 DEF fields, limiter, lifecycle, tunnels, counters, history, ReceiveWrite
<1>27. ASSUME NEW c \in Calls, CallRefused(c) PROVE LifecycleInv'
  BY <1>27 DEF fields, limiter, lifecycle, tunnels, counters, history, CallRefused
<1>28. ASSUME NEW c \in Calls, pairLocked(c) PROVE LifecycleInv'
  BY <1>28 DEF lifecycle, tunnels, pairLocked, setCredentialLocked
<1>29. ASSUME NEW c \in Calls, pairRefused(c) PROVE LifecycleInv'
  BY <1>29 DEF fields, lifecycle, tunnels, counters, history, pairRefused
<1>30. ASSUME NEW c \in Calls, ServeWrite(c) PROVE LifecycleInv'
  BY <1>30 DEF fields, limiter, lifecycle, tunnels, counters, history, ServeWrite
<1>31. ASSUME NEW k \in 1..tokens, ServeRead(k) PROVE LifecycleInv'
  BY <1>31 DEF fields, limiter, lifecycle, tunnels, counters, history, ServeRead
<1>32. CASE UNCHANGED vars
  BY <1>32 DEF vars, fields, limiter, lifecycle, tunnels, counters, history
<1>. QED
  BY <1>1, <1>2, <1>3, <1>4, <1>5, <1>6, <1>7, <1>8, <1>9, <1>10, <1>11, <1>12, <1>13, <1>14,
     <1>15, <1>16, <1>17, <1>18, <1>19, <1>20, <1>21, <1>22, <1>23, <1>24, <1>25, <1>26,
     <1>27, <1>28, <1>29, <1>30, <1>31, <1>32
  DEF Next, Internal, Owner, LifecycleStep, Watcher, Handler

\* No step loses sight of a server or a process that runs.
LEMMA ReachKept == TypeOK /\ LifecycleInv /\ ReachInv /\ [Next]_vars => ReachInv'
<1>. SUFFICES ASSUME TypeOK, LifecycleInv, ReachInv PROVE [Next]_vars => ReachInv'
  OBVIOUS
<1>. USE ConstantsAssumption DEF TypeOK, ScalarsOK, FunctionsOK, Runs, Tickets, Tokens, LifecycleInv, ReachInv
<1>1. CASE StartHealthy
  BY <1>1 DEF fields, limiter, lifecycle, tunnels, counters, history, StartHealthy, vars
<1>2. CASE StartFresh
  BY <1>2, Zeros DEF limiter, tunnels, counters, history, StartFresh, clearLocked
<1>3. CASE ClosePrevious
  BY <1>3, VictimCloses DEF fields, limiter, counters, history, ClosePrevious
<1>4. CASE Listen
  BY <1>4 DEF limiter, history, Listen, setCredentialLocked
<1>5. CASE ListenFails
  BY <1>5 DEF fields, limiter, tunnels, counters, history, ListenFails
<1>6. CASE Launch
  BY <1>6 DEF fields, limiter, counters, history, Launch
<1>7. CASE LaunchFails
  BY <1>7 DEF fields, limiter, counters, history, LaunchFails
<1>8. CASE InspectURL
  BY <1>8 DEF limiter, tunnels, counters, history, InspectURL
<1>9. CASE RefuseURL
  BY <1>9 DEF fields, limiter, counters, history, RefuseURL, runtimeClose
<1>10. CASE Abandon
  BY <1>10, Zeros DEF limiter, tunnels, counters, history, Abandon, clearLocked
<1>11. CASE VerifyOk
  BY <1>11 DEF fields, limiter, tunnels, counters, history, VerifyOk
<1>12. CASE VerifyFails
  BY <1>12 DEF fields, limiter, counters, history, VerifyFails, runtimeClose
<1>13. CASE Reject
  BY <1>13, Zeros DEF limiter, tunnels, counters, history, Reject, clearLocked
<1>14. CASE Publish
  BY <1>14 DEF limiter, counters, history, Publish
<1>15. CASE Close
  BY <1>15, Zeros DEF limiter, tunnels, counters, history, Close, clearLocked
<1>16. CASE CloseRuntime
  BY <1>16, VictimCloses DEF fields, limiter, counters, history, CloseRuntime
<1>17. CASE NewPairing
  BY <1>17 DEF limiter, lifecycle, tunnels, NewPairing
<1>18. CASE Revoke
  BY <1>18, Zeros DEF limiter, lifecycle, tunnels, history, Revoke, setCredentialLocked
<1>19. CASE DesktopCopies
  BY <1>19, Zeros DEF fields, limiter, lifecycle, tunnels, counters, history, DesktopCopies
<1>20. CASE Tick
  BY <1>20 DEF fields, limiter, lifecycle, tunnels, history, Tick
<1>21. ASSUME NEW b \in BOOLEAN, SetActive(b) PROVE ReachInv'
  BY <1>21 DEF limiter, lifecycle, tunnels, counters, history, SetActive
<1>22. ASSUME NEW r \in Runs, TunnelExits(r) PROVE ReachInv'
  BY <1>22 DEF fields, limiter, lifecycle, counters, history, TunnelExits
<1>23. ASSUME NEW r \in Runs, WatcherWakes(r) PROVE ReachInv'
  BY <1>23 DEF fields, limiter, lifecycle, counters, history, WatcherWakes
<1>24. ASSUME NEW r \in Runs, WatcherClears(r) PROVE ReachInv'
  BY <1>24, Zeros DEF limiter, lifecycle, counters, history, WatcherClears, clearLocked
<1>25. ASSUME NEW c \in Calls, NEW t \in 0..tickets, ReceivePair(c, t) PROVE ReachInv'
  BY <1>25 DEF fields, limiter, lifecycle, tunnels, counters, history, ReceivePair
<1>26. ASSUME NEW c \in Calls, NEW k \in 1..tokens, ReceiveWrite(c, k) PROVE ReachInv'
  BY <1>26 DEF fields, limiter, lifecycle, tunnels, counters, history, ReceiveWrite
<1>27. ASSUME NEW c \in Calls, CallRefused(c) PROVE ReachInv'
  BY <1>27 DEF fields, limiter, lifecycle, tunnels, counters, history, CallRefused
<1>28. ASSUME NEW c \in Calls, pairLocked(c) PROVE ReachInv'
  BY <1>28 DEF lifecycle, tunnels, pairLocked, setCredentialLocked
<1>29. ASSUME NEW c \in Calls, pairRefused(c) PROVE ReachInv'
  BY <1>29 DEF fields, lifecycle, tunnels, counters, history, pairRefused
<1>30. ASSUME NEW c \in Calls, ServeWrite(c) PROVE ReachInv'
  BY <1>30 DEF fields, limiter, lifecycle, tunnels, counters, history, ServeWrite
<1>31. ASSUME NEW k \in 1..tokens, ServeRead(k) PROVE ReachInv'
  BY <1>31 DEF fields, limiter, lifecycle, tunnels, counters, history, ServeRead
<1>32. CASE UNCHANGED vars
  BY <1>32 DEF vars, fields, limiter, lifecycle, tunnels, counters, history
<1>. QED
  BY <1>1, <1>2, <1>3, <1>4, <1>5, <1>6, <1>7, <1>8, <1>9, <1>10, <1>11, <1>12, <1>13, <1>14,
     <1>15, <1>16, <1>17, <1>18, <1>19, <1>20, <1>21, <1>22, <1>23, <1>24, <1>25, <1>26,
     <1>27, <1>28, <1>29, <1>30, <1>31, <1>32
  DEF Next, Internal, Owner, LifecycleStep, Watcher, Handler

\* No step leaves a ticket, a pairing or ready behind from another tunnel.
LEMMA ReadyKept ==
    TypeOK /\ LifecycleInv /\ ReadyInv /\ TicketInv /\ [Next]_vars => ReadyInv'
<1>. SUFFICES ASSUME TypeOK, LifecycleInv, ReadyInv, TicketInv PROVE [Next]_vars => ReadyInv'
  OBVIOUS
<1>. USE ConstantsAssumption DEF TypeOK, ScalarsOK, FunctionsOK, Runs, Tickets, Tokens,
    LifecycleInv, ReadyInv, ReadyIsCurrent, PairedInThisSession, TicketInv
<1>1. CASE StartHealthy
  BY <1>1 DEF fields, limiter, lifecycle, tunnels, counters, history, StartHealthy, vars
<1>2. CASE StartFresh
  BY <1>2, Zeros DEF limiter, tunnels, counters, history, StartFresh, clearLocked
<1>3. CASE ClosePrevious
  BY <1>3, VictimCloses DEF fields, limiter, counters, history, ClosePrevious
<1>4. CASE Listen
  BY <1>4 DEF limiter, history, Listen, setCredentialLocked
<1>5. CASE ListenFails
  BY <1>5 DEF fields, limiter, tunnels, counters, history, ListenFails
<1>6. CASE Launch
  BY <1>6 DEF fields, limiter, counters, history, Launch
<1>7. CASE LaunchFails
  <2>1. ~ready /\ ~ready'
    BY <1>7 DEF LaunchFails, fields
  <2>. QED
    BY <1>7, <2>1 DEF LaunchFails, fields
<1>8. CASE InspectURL
  BY <1>8 DEF limiter, tunnels, counters, history, InspectURL
<1>9. CASE RefuseURL
  BY <1>9 DEF fields, limiter, counters, history, RefuseURL, runtimeClose
<1>10. CASE Abandon
  BY <1>10, Zeros DEF limiter, tunnels, counters, history, Abandon, clearLocked
<1>11. CASE VerifyOk
  BY <1>11 DEF fields, limiter, tunnels, counters, history, VerifyOk
<1>12. CASE VerifyFails
  BY <1>12 DEF fields, limiter, counters, history, VerifyFails, runtimeClose
<1>13. CASE Reject
  <2>1. runtime = runs
    BY <1>13 DEF Reject
  <2>2. ~ready' /\ ~paired' /\ ticket' = 0
    BY <1>13, <2>1 DEF Reject, clearLocked
  <2>. QED
    BY <2>2
<1>14. CASE Publish
  BY <1>14 DEF limiter, counters, history, Publish
<1>15. CASE Close
  BY <1>15, Zeros DEF limiter, tunnels, counters, history, Close, clearLocked
<1>16. CASE CloseRuntime
  BY <1>16, VictimCloses DEF fields, limiter, counters, history, CloseRuntime
<1>17. CASE NewPairing
  BY <1>17 DEF limiter, lifecycle, tunnels, NewPairing
<1>18. CASE Revoke
  BY <1>18, Zeros DEF limiter, lifecycle, tunnels, history, Revoke, setCredentialLocked
<1>19. CASE DesktopCopies
  BY <1>19, Zeros DEF fields, limiter, lifecycle, tunnels, counters, history, DesktopCopies
<1>20. CASE Tick
  BY <1>20 DEF fields, limiter, lifecycle, tunnels, history, Tick
<1>21. ASSUME NEW b \in BOOLEAN, SetActive(b) PROVE ReadyInv'
  BY <1>21 DEF limiter, lifecycle, tunnels, counters, history, SetActive
<1>22. ASSUME NEW r \in Runs, TunnelExits(r) PROVE ReadyInv'
  BY <1>22 DEF fields, limiter, lifecycle, counters, history, TunnelExits
<1>23. ASSUME NEW r \in Runs, WatcherWakes(r) PROVE ReadyInv'
  BY <1>23 DEF fields, limiter, lifecycle, counters, history, WatcherWakes
<1>24. ASSUME NEW r \in Runs, WatcherClears(r) PROVE ReadyInv'
  <2>1. CASE runtime = r
    <3>1. ~ready' /\ ~paired' /\ ticket' = 0
      BY <1>24, <2>1 DEF WatcherClears, clearLocked
    <3>. QED
      BY <3>1
  <2>2. CASE runtime # r
    <3>1. UNCHANGED <<ready, paired, host, session, credential, ticket, runtime, url, lpc,
                      history>>
      BY <1>24, <2>2 DEF WatcherClears, lifecycle
    <3>2. ready => watcher'[runtime] = watcher[runtime]
      BY <1>24, <2>2 DEF WatcherClears
    <3>. QED
      BY <3>1, <3>2 DEF history
  <2>. QED
    BY <2>1, <2>2
<1>25. ASSUME NEW c \in Calls, NEW t \in 0..tickets, ReceivePair(c, t) PROVE ReadyInv'
  BY <1>25 DEF fields, limiter, lifecycle, tunnels, counters, history, ReceivePair
<1>26. ASSUME NEW c \in Calls, NEW k \in 1..tokens, ReceiveWrite(c, k) PROVE ReadyInv'
  BY <1>26 DEF fields, limiter, lifecycle, tunnels, counters, history, ReceiveWrite
<1>27. ASSUME NEW c \in Calls, CallRefused(c) PROVE ReadyInv'
  BY <1>27 DEF fields, limiter, lifecycle, tunnels, counters, history, CallRefused
<1>28. ASSUME NEW c \in Calls, pairLocked(c) PROVE ReadyInv'
  BY <1>28 DEF lifecycle, tunnels, pairLocked, setCredentialLocked, Redeemable, Admitted
<1>29. ASSUME NEW c \in Calls, pairRefused(c) PROVE ReadyInv'
  BY <1>29 DEF fields, lifecycle, tunnels, counters, history, pairRefused
<1>30. ASSUME NEW c \in Calls, ServeWrite(c) PROVE ReadyInv'
  BY <1>30 DEF fields, limiter, lifecycle, tunnels, counters, history, ServeWrite
<1>31. ASSUME NEW k \in 1..tokens, ServeRead(k) PROVE ReadyInv'
  BY <1>31 DEF fields, limiter, lifecycle, tunnels, counters, history, ServeRead
<1>32. CASE UNCHANGED vars
  BY <1>32 DEF vars, fields, limiter, lifecycle, tunnels, counters, history
<1>. QED
  BY <1>1, <1>2, <1>3, <1>4, <1>5, <1>6, <1>7, <1>8, <1>9, <1>10, <1>11, <1>12, <1>13, <1>14,
     <1>15, <1>16, <1>17, <1>18, <1>19, <1>20, <1>21, <1>22, <1>23, <1>24, <1>25, <1>26,
     <1>27, <1>28, <1>29, <1>30, <1>31, <1>32
  DEF Next, Internal, Owner, LifecycleStep, Watcher, Handler

\* No step grants a second token for a ticket.
LEMMA TicketKept == TypeOK /\ TicketInv /\ [Next]_vars => TicketInv'
<1>. SUFFICES ASSUME TypeOK, TicketInv PROVE [Next]_vars => TicketInv'
  OBVIOUS
<1>. USE ConstantsAssumption DEF TypeOK, ScalarsOK, FunctionsOK, Runs, Tickets, Tokens, TicketInv, TicketSingleUse
<1>1. CASE StartHealthy
  BY <1>1 DEF fields, limiter, lifecycle, tunnels, counters, history, StartHealthy, vars
<1>2. CASE StartFresh
  BY <1>2, Zeros DEF limiter, tunnels, counters, history, StartFresh, clearLocked
<1>3. CASE ClosePrevious
  BY <1>3, VictimCloses DEF fields, limiter, counters, history, ClosePrevious
<1>4. CASE Listen
  BY <1>4 DEF limiter, history, Listen, setCredentialLocked
<1>5. CASE ListenFails
  BY <1>5 DEF fields, limiter, tunnels, counters, history, ListenFails
<1>6. CASE Launch
  BY <1>6 DEF fields, limiter, counters, history, Launch
<1>7. CASE LaunchFails
  BY <1>7 DEF fields, limiter, counters, history, LaunchFails
<1>8. CASE InspectURL
  BY <1>8 DEF limiter, tunnels, counters, history, InspectURL
<1>9. CASE RefuseURL
  BY <1>9 DEF fields, limiter, counters, history, RefuseURL, runtimeClose
<1>10. CASE Abandon
  BY <1>10, Zeros DEF limiter, tunnels, counters, history, Abandon, clearLocked
<1>11. CASE VerifyOk
  BY <1>11 DEF fields, limiter, tunnels, counters, history, VerifyOk
<1>12. CASE VerifyFails
  BY <1>12 DEF fields, limiter, counters, history, VerifyFails, runtimeClose
<1>13. CASE Reject
  BY <1>13, Zeros DEF limiter, tunnels, counters, history, Reject, clearLocked
<1>14. CASE Publish
  BY <1>14 DEF limiter, counters, history, Publish
<1>15. CASE Close
  BY <1>15, Zeros DEF limiter, tunnels, counters, history, Close, clearLocked
<1>16. CASE CloseRuntime
  BY <1>16, VictimCloses DEF fields, limiter, counters, history, CloseRuntime
<1>17. CASE NewPairing
  BY <1>17, SMTT(40) DEF limiter, lifecycle, tunnels, NewPairing
<1>18. CASE Revoke
  BY <1>18, Zeros DEF limiter, lifecycle, tunnels, history, Revoke, setCredentialLocked
<1>19. CASE DesktopCopies
  BY <1>19, Zeros DEF fields, limiter, lifecycle, tunnels, counters, history, DesktopCopies
<1>20. CASE Tick
  BY <1>20 DEF fields, limiter, lifecycle, tunnels, history, Tick
<1>21. ASSUME NEW b \in BOOLEAN, SetActive(b) PROVE TicketInv'
  BY <1>21 DEF limiter, lifecycle, tunnels, counters, history, SetActive
<1>22. ASSUME NEW r \in Runs, TunnelExits(r) PROVE TicketInv'
  BY <1>22 DEF fields, limiter, lifecycle, counters, history, TunnelExits
<1>23. ASSUME NEW r \in Runs, WatcherWakes(r) PROVE TicketInv'
  BY <1>23 DEF fields, limiter, lifecycle, counters, history, WatcherWakes
<1>24. ASSUME NEW r \in Runs, WatcherClears(r) PROVE TicketInv'
  BY <1>24, Zeros, SMTT(40) DEF limiter, lifecycle, counters, history, WatcherClears, clearLocked
<1>25. ASSUME NEW c \in Calls, NEW t \in 0..tickets, ReceivePair(c, t) PROVE TicketInv'
  BY <1>25 DEF fields, limiter, lifecycle, tunnels, counters, history, ReceivePair
<1>26. ASSUME NEW c \in Calls, NEW k \in 1..tokens, ReceiveWrite(c, k) PROVE TicketInv'
  BY <1>26 DEF fields, limiter, lifecycle, tunnels, counters, history, ReceiveWrite
<1>27. ASSUME NEW c \in Calls, CallRefused(c) PROVE TicketInv'
  BY <1>27 DEF fields, limiter, lifecycle, tunnels, counters, history, CallRefused
<1>28. ASSUME NEW c \in Calls, pairLocked(c) PROVE TicketInv'
  <2>1. tokens + 1 \in Tokens /\ ticket # 0 /\ ticket' = 0 /\ tickets' = tickets
    BY <1>28 DEF pairLocked, setCredentialLocked, Redeemable
  <2>2. grantedFor' = [grantedFor EXCEPT ![tokens + 1] = ticket]
    BY <1>28 DEF pairLocked, Redeemable
  <2>3. \A k \in Tokens : grantedFor'[k] = IF k = tokens + 1 THEN ticket ELSE grantedFor[k]
    BY <2>1, <2>2
  <2>4. \A k \in Tokens : grantedFor[k] # ticket
    BY <2>1
  <2>5. TicketSingleUse'
    <3>. SUFFICES ASSUME NEW j \in Tokens, NEW k \in Tokens,
                         grantedFor'[j] # 0, grantedFor'[j] = grantedFor'[k]
                  PROVE  j = k
      BY DEF TicketSingleUse
    <3>1. CASE j = tokens + 1 \/ k = tokens + 1
      BY <3>1, <2>1, <2>3, <2>4
    <3>2. CASE j # tokens + 1 /\ k # tokens + 1
      BY <3>2, <2>3 DEF TicketSingleUse
    <3>. QED
      BY <3>1, <3>2
  <2>6. \A k \in Tokens : grantedFor'[k] <= tickets'
    BY <2>1, <2>3
  <2>7. ticket' <= tickets'
    BY <2>1
  <2>. QED
    BY <2>1, <2>5, <2>6, <2>7 DEF TicketInv
<1>29. ASSUME NEW c \in Calls, pairRefused(c) PROVE TicketInv'
  BY <1>29 DEF fields, lifecycle, tunnels, counters, history, pairRefused
<1>30. ASSUME NEW c \in Calls, ServeWrite(c) PROVE TicketInv'
  BY <1>30 DEF fields, limiter, lifecycle, tunnels, counters, history, ServeWrite
<1>31. ASSUME NEW k \in 1..tokens, ServeRead(k) PROVE TicketInv'
  BY <1>31 DEF fields, limiter, lifecycle, tunnels, counters, history, ServeRead
<1>32. CASE UNCHANGED vars
  BY <1>32 DEF vars, fields, limiter, lifecycle, tunnels, counters, history
<1>. QED
  BY <1>1, <1>2, <1>3, <1>4, <1>5, <1>6, <1>7, <1>8, <1>9, <1>10, <1>11, <1>12, <1>13, <1>14,
     <1>15, <1>16, <1>17, <1>18, <1>19, <1>20, <1>21, <1>22, <1>23, <1>24, <1>25, <1>26,
     <1>27, <1>28, <1>29, <1>30, <1>31, <1>32
  DEF Next, Internal, Owner, LifecycleStep, Watcher, Handler

-----------------------------------------------------------------------------
\* The invariant holds in every state the Service can get to.
THEOREM Inductive == Spec => []IInv
<1>1. Init => IInv
  BY InitIInv
<1>2. IInv /\ [Next]_vars => IInv'
  BY TypeStep, LifecycleKept, ReachKept, ReadyKept, TicketKept DEF IInv
<1>. QED
  BY <1>1, <1>2, PTL DEF Spec

\* The fields of the Service, its goroutines and its handlers stay well typed,
\* whatever its owner, its tunnels and the phones do.
THEOREM TypeCorrect == Spec => []TypeOK
<1>1. IInv => TypeOK
  BY DEF IInv
<1>. QED
  BY <1>1, Inductive, PTL

\* One ticket yields one token, however many phones race to redeem it
\* (pairLocked, service.go:399-411).
THEOREM SingleUse == Spec => []TicketSingleUse
<1>1. IInv => TicketSingleUse
  BY DEF IInv, TicketInv
<1>. QED
  BY <1>1, Inductive, PTL

\* No ticket and no token outlives the tunnel it was made on (clearLocked,
\* service.go:108-116), however often the tunnel is restarted.
THEOREM SessionBound == Spec => []PairedInThisSession
<1>1. IInv => PairedInThisSession
  BY DEF IInv, ReadyInv
<1>. QED
  BY <1>1, Inductive, PTL

\* ready always speaks of the tunnel in use, and the watcher of an older one
\* never disturbs it (service.go:190-198).
THEOREM ReadyTunnel == Spec => []ReadyIsCurrent
<1>1. IInv => ReadyIsCurrent
  BY DEF IInv, ReadyInv
<1>. QED
  BY <1>1, Inductive, PTL

\* Between calls nothing runs that Close would not reach: no path through Start
\* leaks a server or a cloudflared (service.go:155-186).
THEOREM NothingLeaks == Spec => []NoOrphan
<1>1. IInv => NoOrphan
  BY ConstantsAssumption DEF IInv, TypeOK, ReachInv, LifecycleInv, NoOrphan, Runs
<1>. QED
  BY <1>1, Inductive, PTL

-----------------------------------------------------------------------------
(* The promise of PairingAuthority.                                         *)

\* No token has been granted that is yet to be generated.
FreshTokens == \A k \in Tokens : k > tokens => grantedFor[k] = 0

LEMMA FreshTokensKept == TypeOK /\ FreshTokens /\ [Next]_vars => FreshTokens'
<1>. SUFFICES ASSUME TypeOK, FreshTokens, [Next]_vars PROVE FreshTokens'
  OBVIOUS
<1>. USE ConstantsAssumption DEF TypeOK, ScalarsOK, FunctionsOK, Tokens, FreshTokens
<1>1. CASE UNCHANGED <<tokens, grantedFor>>
  BY <1>1
<1>2. CASE (Listen \/ Revoke) /\ UNCHANGED grantedFor
  BY <1>2 DEF Listen, Revoke, setCredentialLocked
<1>3. ASSUME NEW c \in Calls, pairLocked(c) PROVE FreshTokens'
  BY <1>3 DEF pairLocked, setCredentialLocked
<1>. HIDE DEF TypeOK, FreshTokens
<1>. QED
  BY <1>1, <1>2, <1>3
  DEF Next, Internal, Owner, LifecycleStep, Watcher, Handler, vars, fields, limiter, lifecycle,
      tunnels, counters, history, StartHealthy, StartFresh, ClosePrevious, Listen, ListenFails,
      Launch, LaunchFails, InspectURL, RefuseURL, Abandon, VerifyOk, VerifyFails, Reject, Publish,
      Close, CloseRuntime, SetActive, NewPairing, Revoke, TunnelExits, WatcherWakes,
      WatcherClears, ReceivePair, ReceiveWrite, CallRefused, pairRefused, ServeWrite, ServeRead,
      DesktopCopies, Tick

LEMMA AuthorityInit == Init => Authority!Init
<1>. SUFFICES ASSUME Init PROVE Authority!Init
  OBVIOUS
<1>1. Granted = {} /\ LiveTicket = 0 /\ LiveGrant = 0 /\ Serving = FALSE
  BY DEF Init, Granted, LiveTicket, LiveGrant, Serving
<1>2. Offered = {}
  BY DEF Init, Offered
<1>. QED
  BY <1>1, <1>2 DEF Init, Authority!Init

AuthoritySame == UNCHANGED <<Offered, Granted, LiveTicket, LiveGrant, Serving, touchedBy>>

\* Every step is one of the authority's, or shows nothing.
LEMMA AuthorityStep == IInv /\ FreshTokens /\ [Next]_vars => Authority!Next \/ AuthoritySame
<1>. SUFFICES ASSUME IInv, FreshTokens, [Next]_vars PROVE Authority!Next \/ AuthoritySame
  OBVIOUS
<1>. USE ConstantsAssumption
<1>0. /\ TypeOK /\ (ticket # 0 => ready) /\ (paired => ready) /\ (ready => lpc = "idle")
      /\ (paired => credential # 0)
  BY DEF IInv, ReadyInv, PairedInThisSession
<1>1. CASE UNCHANGED <<active, ready, paired, credential, ticket, expires, now, tickets, grantedFor,
                       touchedBy>>
  BY <1>1 DEF AuthoritySame, Offered, Granted, LiveTicket, LiveGrant, Serving, PairingPending
<1>2. ASSUME clearLocked, UNCHANGED <<tickets, grantedFor, touchedBy>> PROVE Authority!End
  <2>1. LiveTicket' = 0 /\ LiveGrant' = 0 /\ Serving' = FALSE
    BY <1>2 DEF clearLocked, LiveTicket, LiveGrant, Serving, PairingPending
  <2>2. UNCHANGED <<Offered, Granted>>
    BY <1>2 DEF Offered, Granted
  <2>. QED
    BY <1>2, <2>1, <2>2 DEF Authority!End
<1>3. CASE Listen
  <2>1. ~ready /\ ~paired /\ UNCHANGED <<active, ready, paired, ticket, tickets, grantedFor, touchedBy>>
    BY <1>0, <1>3 DEF Listen, history
  <2>. QED
    BY <2>1 DEF AuthoritySame, Offered, Granted, LiveTicket, LiveGrant, Serving, PairingPending
<1>4. ASSUME UNCHANGED <<paired, credential, tickets, grantedFor, touchedBy, LiveTicket>>
      PROVE  Authority!Switch \/ AuthoritySame
  <2>1. UNCHANGED <<Offered, Granted, LiveGrant>>
    BY <1>4 DEF Offered, Granted, LiveGrant
  <2>2. Serving \in BOOLEAN /\ Serving' \in BOOLEAN
    BY DEF Serving
  <2>. QED
    BY <1>4, <2>1, <2>2 DEF Authority!Switch, AuthoritySame
<1>5. CASE Publish
  <2>1. LiveTicket = 0 /\ LiveTicket' = 0
    BY <1>0, <1>5 DEF Publish, LiveTicket, PairingPending
  <2>. QED
    BY <1>4, <1>5, <2>1 DEF Publish, counters, history, Authority!Next
<1>6. ASSUME NEW b \in BOOLEAN, SetActive(b) PROVE Authority!Next \/ AuthoritySame
  <2>1. UNCHANGED LiveTicket
    BY <1>6 DEF SetActive, LiveTicket, PairingPending, counters
  <2>. QED
    BY <1>4, <1>6, <2>1 DEF SetActive, counters, history, Authority!Next
<1>7. CASE NewPairing
  <2>1. tickets + 1 \in Tickets \ Offered /\ Offered' = Offered \cup {tickets + 1}
    BY <1>0, <1>7 DEF NewPairing, Offered, Tickets, TypeOK, ScalarsOK
  <2>2. LiveTicket' = tickets + 1
    BY <1>0, <1>7 DEF NewPairing, LiveTicket, PairingPending, TypeOK, ScalarsOK
  <2>3. UNCHANGED <<Granted, LiveGrant, Serving, touchedBy>>
    BY <1>7 DEF NewPairing, Granted, LiveGrant, Serving
  <2>. QED
    BY <2>1, <2>2, <2>3 DEF Authority!Next, Authority!Offer
<1>8. CASE Revoke
  <2>1. LiveTicket' = 0 /\ LiveGrant' = 0
    BY <1>8 DEF Revoke, LiveTicket, LiveGrant, PairingPending
  <2>2. UNCHANGED <<Offered, Granted, Serving, touchedBy>>
    BY <1>8 DEF Revoke, Offered, Granted, Serving, history
  <2>. QED
    BY <2>1, <2>2 DEF Authority!Next, Authority!End
<1>9. ASSUME NEW c \in Calls, pairLocked(c) PROVE Authority!Redeem
  <2>1. /\ active /\ ready /\ ticket # 0 /\ now < expires /\ tokens < MaxTokens
        /\ call[c].secret = ticket
    BY <1>9 DEF pairLocked, Admitted, Redeemable, setCredentialLocked
  <2>2. tokens + 1 \in Tokens \ Granted
    BY <1>0, <2>1 DEF FreshTokens, Granted, Tokens, TypeOK, ScalarsOK
  <2>3. Granted' = Granted \cup {tokens + 1}
    BY <1>0, <1>9, <2>1, <2>2 DEF pairLocked, Granted, Tokens, TypeOK, ScalarsOK, FunctionsOK
  <2>4. Serving /\ LiveTicket # 0 /\ LiveTicket' = 0 /\ LiveGrant' = tokens + 1
    BY <1>9, <2>1 DEF pairLocked, setCredentialLocked, Serving, LiveTicket, LiveGrant, PairingPending
  <2>5. UNCHANGED <<Offered, Serving, touchedBy>>
    BY <1>9 DEF pairLocked, Offered, Serving
  <2>. QED
    BY <2>2, <2>3, <2>4, <2>5 DEF Authority!Redeem
<1>10. ASSUME NEW k, Serving, authorizedLocked(k), touchedBy' = k,
              UNCHANGED <<fields, counters, history>>
       PROVE  Authority!Use
  <2>1. LiveGrant = k /\ k # 0
    BY <1>10 DEF LiveGrant, authorizedLocked
  <2>2. UNCHANGED <<Offered, Granted, LiveTicket, LiveGrant, Serving>>
    BY <1>10 DEF Offered, Granted, LiveTicket, LiveGrant, Serving, PairingPending, fields, counters, history
  <2>. QED
    BY <1>10, <2>1, <2>2 DEF Authority!Use
<1>11. ASSUME NEW c \in Calls, ServeWrite(c) PROVE Authority!Next
  BY <1>10, <1>11 DEF ServeWrite, Admitted, Serving, Authority!Next
<1>12. ASSUME NEW k \in 1..tokens, ServeRead(k) PROVE Authority!Next
  BY <1>10, <1>12 DEF ServeRead, Admitted, Serving, Authority!Next
<1>13. CASE DesktopCopies
  <2>1. UNCHANGED <<Offered, Granted, LiveTicket, LiveGrant, Serving>>
    BY <1>13 DEF DesktopCopies, Offered, Granted, LiveTicket, LiveGrant, Serving, PairingPending,
                 fields, counters, history
  <2>. QED
    BY <1>13, <2>1 DEF DesktopCopies, Authority!Next, Authority!DesktopCopy
<1>14. CASE Tick
  <2>1. UNCHANGED <<Offered, Granted, LiveGrant, Serving, touchedBy>>
    BY <1>14 DEF Tick, Offered, Granted, LiveGrant, Serving, fields, history
  <2>2. LiveTicket' \in {LiveTicket, 0}
    BY <1>0, <1>14 DEF Tick, LiveTicket, PairingPending, fields, TypeOK, ScalarsOK
  <2>. QED
    BY <2>1, <2>2 DEF Authority!Next, Authority!Expire, AuthoritySame
<1>15. CASE \/ StartFresh \/ Abandon \/ Close \/ Reject
            \/ \E r \in Runs : WatcherClears(r)
  BY <1>1, <1>2, <1>15 DEF StartFresh, Abandon, Close, Reject, WatcherClears, fields, counters, history, Authority!Next
<1>16. CASE \/ StartHealthy \/ ClosePrevious \/ ListenFails \/ Launch \/ LaunchFails \/ InspectURL
            \/ RefuseURL \/ VerifyOk \/ VerifyFails \/ CloseRuntime
            \/ \E r \in Runs : TunnelExits(r) \/ WatcherWakes(r)
            \/ \E c \in Calls : CallRefused(c) \/ pairRefused(c)
            \/ \E c \in Calls, t \in 0..tickets : ReceivePair(c, t)
            \/ \E c \in Calls, k \in 1..tokens : ReceiveWrite(c, k)
            \/ UNCHANGED vars
  BY <1>1, <1>16
  DEF StartHealthy, ClosePrevious, ListenFails, Launch, LaunchFails, InspectURL, RefuseURL,
      VerifyOk, VerifyFails, CloseRuntime, TunnelExits, WatcherWakes, CallRefused, pairRefused,
      ReceivePair, ReceiveWrite, vars, fields, counters, history
<1>. QED
  BY <1>3, <1>5, <1>6, <1>7, <1>8, <1>9, <1>11, <1>12, <1>13, <1>14, <1>15, <1>16
  DEF Next, Internal, Owner, LifecycleStep, Watcher, Handler, Authority!Next

\* The Service is the pairing authority it promises to be: no ticket is redeemed and no
\* clipboard touched but in the way PairingAuthority allows, whatever is in flight when the
\* pairing changes (ImplementsAuthority; service.go:299-316, 336-411).
THEOREM KeepsAuthority == Spec => ImplementsAuthority
<1>1. Init => FreshTokens
  BY DEF Init, FreshTokens
<1>2. IInv /\ FreshTokens /\ [Next]_vars => FreshTokens'
  BY FreshTokensKept DEF IInv
<1>3. IInv /\ FreshTokens /\ [Next]_vars => [Authority!Next]_(Authority!vars)
  BY AuthorityStep DEF AuthoritySame, Authority!vars
<1>. QED
  BY <1>1, <1>2, <1>3, AuthorityInit, Inductive, PTL DEF Spec, ImplementsAuthority, Authority!Spec
-----------------------------------------------------------------------------
(* Secrets.                                                                 *)

\* A secret that has been replaced, redeemed, revoked or cleared never comes back, also
\* not for a request that was under way; what is still in force lasts as long as it was
\* said to, keeps its pairing and stays with its tunnel (service.go:81-116, 136-154,
\* 403-413).
SecretsStep ==
    /\ \A k \in 1..tokens : credential' = k => credential = k
    /\ \A t \in 1..tickets : ticket' = t => ticket = t /\ expires' = expires
    /\ credential' = credential /\ credential # 0 =>
           session' = session /\ (paired => paired')
SecretsAreFinal == [][SecretsStep]_vars

\* What is in force has been generated.
Issued == credential <= tokens

\* One step: whoever changes a secret clears it or takes the next one.
LEMMA SecretsMove ==
    TypeOK /\ ticket <= tickets /\ Issued /\ [Next]_vars => Issued' /\ SecretsStep
<1>. SUFFICES ASSUME TypeOK, ticket <= tickets, Issued, [Next]_vars PROVE Issued' /\ SecretsStep
  OBVIOUS
<1>0. /\ credential \in Nat /\ tokens \in Nat /\ ticket \in Nat /\ tickets \in Nat
      /\ credential <= tokens /\ ticket <= tickets
  BY ConstantsAssumption DEF TypeOK, ScalarsOK, Issued
<1>1. CASE /\ UNCHANGED <<tokens, tickets>>
           /\ UNCHANGED <<credential, ticket, expires, session, paired>> \/ clearLocked
  BY <1>0, <1>1 DEF clearLocked, Issued, SecretsStep
<1>2. CASE Listen \/ Revoke
  BY <1>0, <1>2 DEF Listen, Revoke, setCredentialLocked, Issued, SecretsStep
<1>3. CASE NewPairing
  BY <1>0, <1>3 DEF NewPairing, Issued, SecretsStep
<1>4. ASSUME NEW c \in Calls, pairLocked(c) PROVE Issued' /\ SecretsStep
  BY <1>0, <1>4 DEF pairLocked, setCredentialLocked, Issued, SecretsStep
<1>. HIDE DEF TypeOK, Issued
<1>. QED
  BY <1>1, <1>2, <1>3, <1>4
  DEF Next, Internal, Owner, LifecycleStep, Watcher, Handler, vars, fields, limiter, lifecycle,
      tunnels, counters, history, StartHealthy, StartFresh, ClosePrevious, ListenFails,
      Launch, LaunchFails, InspectURL, RefuseURL, Abandon, VerifyOk, VerifyFails, Reject, Publish,
      Close, CloseRuntime, SetActive, TunnelExits, WatcherWakes,
      WatcherClears, ReceivePair, ReceiveWrite, CallRefused, pairRefused, ServeWrite, ServeRead,
      DesktopCopies, Tick

\* For any number of tunnels, phones and pairings a secret of the Service that is over is
\* over for good, and one that is not is what it was (SecretsAreFinal).
THEOREM SecretsOver == Spec => SecretsAreFinal
<1>1. Init => Issued
  BY DEF Init, Issued
<1>2. IInv /\ Issued /\ [Next]_vars => Issued' /\ SecretsStep
  BY SecretsMove DEF IInv, TicketInv
<1>3. IInv /\ Issued /\ [Next]_vars => [SecretsStep]_vars
  BY <1>2
<1>4. IInv /\ Issued /\ [Next]_vars => Issued'
  BY <1>2
<1>. QED
  BY <1>1, <1>3, <1>4, Inductive, PTL DEF Spec, SecretsAreFinal

-----------------------------------------------------------------------------
(* The second part: what the agent guarantees about the two entries,        *)
(* whatever the Service does and however long, proved on top of the         *)
(* Service's own invariant.                                                 *)


\* Who holds modeMu is in Start, in Close, or leaves the Service alone.
StageInv ==
    /\ apc = "starting" <=> lpc \notin {"idle", "closing"}
    /\ apc \in {"undoClosing", "switchClosing", "exitClosing"} <=> lpc = "closing"

\* The quick tunnel serves phones only in its mode; it has been told to stop before
\* the mode changes, to go on before a QR is offered, and serves on while Tailscale is
\* being prepared.
EntryInv ==
    /\ EntriesExclusive
    /\ apc \in {"activate", "askPaired", "askPending", "newPairing"} => mode = "simple"
    /\ apc \in {"askPaired", "askPending", "newPairing"} => active
    /\ apc \in {"switch", "restore", "switchClose", "switchClosing"} => ~active
    /\ apc \in {"free", "prepare", "confirm", "serve", "elevate"} /\ mode = "simple" /\ ready
           => active

\* There is a tunnel without its mode only between a Start and the save of the mode, or
\* the Close that takes it back.
TunnelInv ==
    apc \notin {"starting", "save", "undo", "switchClose"} /\ mode # "simple" => runtime = 0

\* The dashboard has every ticket that can be redeemed.
QRInv == ticket # 0 => qr = ticket /\ qrExpires = expires

\* What the agent adds to the Service's invariant.
ModeInv == StageInv /\ EntryInv /\ TunnelInv /\ QRInv

AgentIInv == IInv /\ AgentTypeOK /\ ModeInv

-----------------------------------------------------------------------------
\* Whatever the agent does is a step of the Service, or leaves it.
LEMMA ServiceMoves == [AgentNext]_allVars => [Next]_vars
<1>. USE DEF Next, Internal, Owner, LifecycleStep, Watcher, Handler
<1>1. ConfigureStep => [Next]_vars
  BY DEF ConfigureStep, Prepare, ConfigureServe, CallStart, StartContinues, StartReturns, SaveSimple, UndoStart, Activate,
         AskPaired, AskPending, OfferQR, OfferFails, Deactivate, SwitchToTailscale, Restore,
         SwitchClose, CloseReturns
<1>2. TunnelAnswers \/ ServiceStep => [Next]_vars
  BY DEF TunnelAnswers, ServiceStep
<1>3. (\E a \in {"simple", "pair"} : ConfigureSimple(a)) => [Next]_vars
  BY DEF ConfigureSimple
<1>4. StartupConfigures \/ ConfigureTailscale \/ ConfigureRevoke \/ Shutdown \/ ExitClose => [Next]_vars
  BY DEF StartupConfigures, ConfigureTailscale, ConfigureRevoke, Shutdown, ExitClose
<1>5. Prepare \/ ConfirmHTTPS \/ ConfigureServe \/ RunElevated => [Next]_vars
  BY DEF Prepare, ConfirmHTTPS, ConfigureServe, RunElevated
<1>6. Exited \/ UNCHANGED allVars => [Next]_vars
  BY DEF Exited, allVars
<1>. QED
  BY <1>1, <1>2, <1>3, <1>4, <1>5, <1>6 DEF AgentNext

-----------------------------------------------------------------------------
(* Every step keeps it.                                                     *)

LEMMA ModeKept == IInv /\ ModeInv /\ [AgentNext]_allVars => ModeInv'
<1>. SUFFICES ASSUME IInv, ModeInv, [AgentNext]_allVars PROVE ModeInv'
  OBVIOUS
<1>. USE ConstantsAssumption DEF IInv, TypeOK, ScalarsOK, LifecycleInv, ReadyInv,
         PairedInThisSession, ModeInv, StageInv, EntryInv, EntriesExclusive, TunnelInv, QRInv,
         Goto
<1>1. ASSUME NEW a \in {"simple", "pair"}, ConfigureSimple(a) PROVE ModeInv'
  BY <1>1 DEF ConfigureSimple, vars, fields, limiter, lifecycle, tunnels, counters, history,
     agentVars
<1>2. CASE StartupConfigures
  BY <1>2 DEF StartupConfigures, vars, fields, limiter, lifecycle, tunnels, counters, history,
     agentVars
<1>3. CASE CallStart
  BY <1>3 DEF CallStart, StartHealthy, StartFresh, clearLocked, Healthy, vars, fields, limiter,
     lifecycle, tunnels, counters, history, agentVars
<1>4. CASE StartContinues
  BY <1>4 DEF StartContinues, ClosePrevious, Listen, LaunchFails, InspectURL, RefuseURL,
     VerifyFails, setCredentialLocked, vars, fields, limiter, lifecycle, tunnels, counters,
     history, agentVars
<1>5. CASE TunnelAnswers
  BY <1>5 DEF TunnelAnswers, Launch, VerifyOk, vars, fields, limiter, lifecycle, tunnels,
     counters, history, agentVars
<1>6. CASE StartReturns
  BY <1>6 DEF StartReturns, Publish, ListenFails, Abandon, Reject, clearLocked, vars, fields,
     limiter, lifecycle, tunnels, counters, history, agentVars
<1>7. CASE SaveSimple
  BY <1>7 DEF SaveSimple, vars, fields, limiter, lifecycle, tunnels, counters, history,
     agentVars
<1>8. CASE UndoStart
  BY <1>8 DEF UndoStart, Close, clearLocked, vars, fields, limiter, lifecycle, tunnels,
     counters, history, agentVars
<1>9. CASE Activate
  BY <1>9 DEF Activate, SetActive, vars, fields, limiter, lifecycle, tunnels, counters, history,
     agentVars
<1>10. CASE AskPaired
  BY <1>10 DEF AskPaired, vars, fields, limiter, lifecycle, tunnels, counters, history,
     agentVars
<1>11. CASE AskPending
  BY <1>11 DEF AskPending, vars, fields, limiter, lifecycle, tunnels, counters, history,
     agentVars
<1>12. CASE OfferQR
  BY <1>12 DEF OfferQR, NewPairing, vars, fields, limiter, lifecycle, tunnels, counters,
     history, agentVars
<1>13. CASE OfferFails
  BY <1>13 DEF OfferFails, vars, fields, limiter, lifecycle, tunnels, counters, history,
     agentVars
<1>14. CASE ConfigureTailscale \/ Prepare \/ ConfirmHTTPS \/ ConfigureServe \/ RunElevated
  <2>1. /\ UNCHANGED <<vars, mode, qr, qrExpires>>
        /\ apc \in {"free", "prepare", "confirm", "serve", "elevate"}
        /\ apc' \in {"free", "prepare", "confirm", "serve", "elevate", "deactivate"}
    BY <1>14 DEF ConfigureTailscale, Prepare, ConfirmHTTPS, ConfigureServe, RunElevated
  <2>. QED
    BY <2>1 DEF vars, fields, limiter, lifecycle, tunnels, counters, history
<1>15. CASE Deactivate
  BY <1>15 DEF Deactivate, SetActive, vars, fields, limiter, lifecycle, tunnels, counters,
     history, agentVars
<1>16. CASE SwitchToTailscale
  BY <1>16 DEF SwitchToTailscale, vars, fields, limiter, lifecycle, tunnels, counters, history,
     agentVars
<1>17. CASE Restore
  BY <1>17 DEF Restore, SetActive, vars, fields, limiter, lifecycle, tunnels, counters, history,
     agentVars
<1>18. CASE SwitchClose
  BY <1>18 DEF SwitchClose, Close, clearLocked, vars, fields, limiter, lifecycle, tunnels,
     counters, history, agentVars
<1>19. CASE ConfigureRevoke
  BY <1>19 DEF ConfigureRevoke, Revoke, setCredentialLocked, vars, fields, limiter, lifecycle,
     tunnels, counters, history, agentVars
<1>20. CASE Shutdown
  BY <1>20 DEF Shutdown, vars, fields, limiter, lifecycle, tunnels, counters, history, agentVars
<1>21. CASE ExitClose
  BY <1>21 DEF ExitClose, Close, clearLocked, vars, fields, limiter, lifecycle, tunnels,
     counters, history, agentVars
<1>22. CASE CloseReturns
  BY <1>22 DEF CloseReturns, CloseRuntime, vars, fields, limiter, lifecycle, tunnels, counters,
     history, agentVars
<1>23. CASE ServiceStep
  BY <1>23 DEF ServiceStep, TunnelExits, Watcher, WatcherWakes, WatcherClears, clearLocked,
     CallRefused, pairLocked, pairRefused, ReceivePair, Tick, vars, fields, limiter,
     lifecycle, tunnels, counters, history, agentVars
<1>24. CASE UNCHANGED allVars
  BY <1>24 DEF allVars, vars, fields, limiter, lifecycle, tunnels, counters, history, agentVars
<1>. HIDE DEF IInv, TypeOK, ScalarsOK, LifecycleInv, ReadyInv, PairedInThisSession, ModeInv,
         StageInv, EntryInv, EntriesExclusive, TunnelInv, QRInv
<1>. QED
  BY <1>1, <1>2, <1>3, <1>4, <1>5, <1>6, <1>7, <1>8, <1>9, <1>10, <1>11, <1>12, <1>13, <1>14,
     <1>15, <1>16, <1>17, <1>18, <1>19, <1>20, <1>21, <1>22, <1>23, <1>24 DEF AgentNext,
     ConfigureStep, Exited

LEMMA AgentTypeStep == IInv /\ AgentTypeOK /\ [AgentNext]_allVars => AgentTypeOK'
<1>. SUFFICES ASSUME IInv, AgentTypeOK, [AgentNext]_allVars PROVE AgentTypeOK'
  OBVIOUS
<1>1. TypeOK'
  BY ServiceMoves, TypeStep DEF IInv
<1>. USE DEF AgentTypeOK, AgentNext, ConfigureStep, allVars, agentVars, Goto, ConfigureSimple,
         StartupConfigures, CallStart, StartContinues, TunnelAnswers, StartReturns, SaveSimple,
         UndoStart, Activate, AskPaired, AskPending, OfferQR, OfferFails, ConfigureTailscale,
         Prepare, ConfirmHTTPS, ConfigureServe, RunElevated, Deactivate, SwitchToTailscale, Restore, SwitchClose, ConfigureRevoke, Shutdown, ExitClose,
         CloseReturns, ServiceStep, Exited
<1>2. mode' \in Modes
  BY DEF Modes
<1>3. apc' \in {"free", "start", "starting", "save", "undo", "undoClosing", "activate",
               "askPaired", "askPending", "newPairing",
               "prepare", "confirm", "serve", "elevate",
               "deactivate", "switch", "restore", "switchClose", "switchClosing", "exitClosing"}
  OBVIOUS
<1>4. action' \in {"simple", "pair"}
  OBVIOUS
<1>5. qr' \in 0..MaxTickets /\ qrExpires' \in 0..(MaxTime + TicketLife)
  BY <1>1, Zeros DEF TypeOK, ScalarsOK
<1>6. startup' \in BOOLEAN /\ phase' \in {"running", "stopping", "stopped"}
  OBVIOUS
<1>. QED
  BY <1>1, <1>2, <1>3, <1>4, <1>5, <1>6

LEMMA AgentStep == AgentIInv /\ [AgentNext]_allVars => AgentIInv'
<1>1. IInv /\ [AgentNext]_allVars => IInv'
  BY ServiceMoves, TypeStep, LifecycleKept, ReachKept, ReadyKept, TicketKept DEF IInv
<1>. QED
  BY <1>1, AgentTypeStep, ModeKept DEF AgentIInv

LEMMA InitAgent == AgentInit => AgentIInv
<1>. SUFFICES ASSUME AgentInit PROVE AgentIInv
  OBVIOUS
<1>1. IInv
  BY InitIInv DEF AgentInit
<1>2. AgentTypeOK
  BY <1>1, Zeros DEF AgentInit, AgentTypeOK, IInv
<1>3. ModeInv
  BY DEF AgentInit, Init, ModeInv, StageInv, EntryInv, EntriesExclusive, TunnelInv, QRInv
<1>. QED
  BY <1>1, <1>2, <1>3 DEF AgentIInv

-----------------------------------------------------------------------------
\* The Service's invariant and the agent's hold however the two interleave.
THEOREM AgentInductive == AgentSpec => []AgentIInv
BY InitAgent, AgentStep, PTL DEF AgentSpec

\* At no point of a switch, of a failed save or of a failed Start are both entries open
\* (EntriesExclusive; agent.go:272-318).
THEOREM OneEntry == AgentSpec => []EntriesExclusive
<1>1. AgentIInv => EntriesExclusive
  BY DEF AgentIInv, ModeInv, EntryInv
<1>. QED
  BY <1>1, AgentInductive, PTL

\* A switch that fails leaves the quick tunnel serving (ChosenEntryServes;
\* agent.go:286-288).
THEOREM SomeEntry == AgentSpec => []ChosenEntryServes
<1>1. AgentIInv => ChosenEntryServes
  BY DEF AgentIInv, ModeInv, EntryInv, ChosenEntryServes
<1>. QED
  BY <1>1, AgentInductive, PTL

\* The dashboard shows the ticket that the Service accepts, and only while phones can
\* redeem it (QRIsTheTicket; agent.go:312-325).
THEOREM ShownQRRedeems == AgentSpec => []QRIsTheTicket
<1>1. AgentIInv => QRIsTheTicket
  <2>. SUFFICES ASSUME AgentIInv, apc = "free", PairingPending
                PROVE  qr = ticket /\ qrExpires = expires /\ active
    BY DEF QRIsTheTicket
  <2>1. ready /\ ticket # 0 /\ runtime # 0
    BY DEF PairingPending, AgentIInv, IInv, ReadyInv, ReadyIsCurrent
  <2>. QED
    BY <2>1 DEF AgentIInv, ModeInv, EntryInv, TunnelInv, QRInv
<1>. QED
  BY <1>1, AgentInductive, PTL

\* In another mode than simple nothing is left of the quick tunnel, whatever went wrong on
\* the way (AgentInv; docs/SPEC.md:522, agent.go:265-325).
THEOREM NothingLeftBehind == AgentSpec => []AgentInv
<1>1. AgentIInv => AgentInv
  <2>. SUFFICES ASSUME AgentIInv, apc = "free", mode # "simple", NEW r \in Runs
                PROVE  ~serverUp[r] /\ wire[r] # "up"
    BY DEF AgentInv, AgentIInv
  <2>1. runtime = 0 /\ lpc = "idle"
    BY DEF AgentIInv, ModeInv, TunnelInv, StageInv
  <2>. QED
    BY <2>1, ConstantsAssumption DEF AgentIInv, IInv, ReachInv, LifecycleInv, Runs
<1>. QED
  BY <1>1, AgentInductive, PTL

\* Driven by the agent, through switches that fail and are undone, through Run's start and
\* its deferred Close, the Service still is a PairingAuthority, and its secrets never come
\* back (agent.go:118-172, 268-330).
THEOREM AgentKeepsAuthority == AgentSpec => ImplementsAuthority /\ SecretsAreFinal
<1>1. AgentInit => Authority!Init /\ FreshTokens /\ Issued
  BY AuthorityInit DEF AgentInit, Init, FreshTokens, Issued
<1>2. AgentIInv /\ FreshTokens /\ Issued /\ [AgentNext]_allVars
        => FreshTokens' /\ Issued' /\ [Authority!Next]_(Authority!vars) /\ [SecretsStep]_vars
  <2>. SUFFICES ASSUME AgentIInv, FreshTokens, Issued, [AgentNext]_allVars
               PROVE  /\ FreshTokens' /\ Issued'
                      /\ [Authority!Next]_(Authority!vars) /\ [SecretsStep]_vars
    OBVIOUS
  <2>1. IInv /\ TypeOK /\ ticket <= tickets /\ [Next]_vars
    BY ServiceMoves DEF AgentIInv, IInv, TicketInv
  <2>2. FreshTokens' /\ Issued' /\ SecretsStep
    BY <2>1, FreshTokensKept, SecretsMove
  <2>3. Authority!Next \/ AuthoritySame
    BY <2>1, AuthorityStep
  <2>. QED
    BY <2>2, <2>3 DEF AuthoritySame, Authority!vars
<1>. QED
  BY <1>1, <1>2, AgentInductive, PTL DEF AgentSpec, ImplementsAuthority, Authority!Spec, SecretsAreFinal
=============================================================================
