---------------------------- MODULE SimpleService ----------------------------
(***************************************************************************)
(* The quick-tunnel entry of TailBlink (internal/simple/service.go): the   *)
(* Service, the goroutine that runs Start or Close, the watcher goroutine   *)
(* of every tunnel, and the HTTP handler goroutines.                        *)
(*                                                                          *)
(* Every step below is one critical section of Service.mu, or one action    *)
(* taken with no lock held.  Service.lifecycle lets one Start or Close run  *)
(* at a time, so one program counter, lpc, stands for both.                 *)
(*                                                                          *)
(* GenerateToken never repeats itself: tokens, tickets and sessions are     *)
(* numbered in the order they are generated, and 0 is the empty string.     *)
(* The session of a tunnel is the number of the Start that made it.         *)
(***************************************************************************)
EXTENDS Integers

CONSTANTS
    Hosts,          \* the valid *.trycloudflare.com hosts cloudflared may print
    NoHost,         \* no host; as a tunnel's URL, one that validation refuses
    Calls,          \* POST handlers that can be in flight at once
    TicketLife,     \* how long a ticket lasts (5 minutes)
    AttemptWindow,  \* the window of the pairing limiter (1 minute)
    PairLimit,      \* pairing attempts per window (30)
    MaxRuns,        \* bound: tunnels started
    MaxTickets,     \* bound: tickets offered
    MaxTokens,      \* bound: tokens generated
    MaxTime         \* bound: clock ticks

ASSUME ConstantsAssumption ==
    /\ NoHost \notin Hosts
    /\ TicketLife \in Nat \ {0} /\ AttemptWindow \in Nat \ {0} /\ PairLimit \in Nat \ {0}
    /\ MaxRuns \in Nat /\ MaxTickets \in Nat /\ MaxTokens \in Nat /\ MaxTime \in Nat

VARIABLES
    \* The fields of Service.  runtime is the number of the Start that made it.
    active, ready, paired, host, session, credential, ticket, expires,
    attempts, attemptWindow, runtime,
    \* The goroutine in Start or Close: where it is, the runtime it took out of
    \* the Service and must still close, and whether the last Start failed.
    lpc, victim,
    \* Per Start: is its http.Server listening, its cloudflared process, the
    \* host of the URL that printed, its watcher goroutine.
    serverUp, wire, url, watcher,
    \* POST handlers between the first check and serveBuffered.
    call,
    \* The clock, the generators, and the clipboard: the token whose holder last
    \* touched what is on it, 0 when the desktop's user put it there.
    now, runs, tickets, tokens, touchedBy,
    \* History: for each ticket the session it was offered in, for each token
    \* the ticket it was granted for and the session that happened in.
    offeredIn, grantedFor, grantedIn

fields    == <<active, ready, paired, host, session, credential, ticket, expires, runtime>>
limiter   == <<attempts, attemptWindow>>
lifecycle == <<lpc, victim>>
tunnels   == <<serverUp, wire, url, watcher>>
counters  == <<now, runs, tickets, tokens>>
history   == <<offeredIn, grantedFor, grantedIn>>
vars      == <<fields, limiter, lifecycle, tunnels, call, counters, touchedBy, history>>

Runs    == 1..MaxRuns
Tickets == 1..MaxTickets
Tokens  == 1..MaxTokens

NoCall == [kind |-> "none", host |-> NoHost, secret |-> 0]

ScalarsOK ==
    /\ active \in BOOLEAN /\ ready \in BOOLEAN /\ paired \in BOOLEAN
    /\ host \in Hosts \cup {NoHost}
    /\ session \in 0..MaxRuns /\ runtime \in 0..MaxRuns /\ victim \in 0..MaxRuns
    /\ credential \in 0..MaxTokens /\ ticket \in 0..MaxTickets
    /\ expires \in 0..(MaxTime + TicketLife)
    /\ attempts \in 0..(PairLimit + 1)
    /\ attemptWindow \in (-AttemptWindow)..MaxTime
    /\ lpc \in {"idle", "closePrevious", "listen", "launch", "inspect", "verify",
                "publish", "failed", "rejected", "closing"}
    /\ now \in 0..MaxTime /\ runs \in 0..MaxRuns
    /\ tickets \in 0..MaxTickets /\ tokens \in 0..MaxTokens
    /\ touchedBy \in 0..MaxTokens

FunctionsOK ==
    /\ serverUp \in [Runs -> BOOLEAN]
    /\ wire \in [Runs -> {"none", "up", "done"}]
    /\ url \in [Runs -> Hosts \cup {NoHost}]
    /\ watcher \in [Runs -> {"none", "waiting", "woken", "ended"}]
    /\ call \in [Calls -> [kind : {"none", "pair", "write"},
                           host : Hosts \cup {NoHost},
                           secret : 0..(MaxTickets + MaxTokens)]]
    /\ offeredIn \in [Tickets -> 0..MaxRuns]
    /\ grantedFor \in [Tokens -> 0..MaxTickets]
    /\ grantedIn \in [Tokens -> 0..MaxRuns]

\* The type invariant.
TypeOK == ScalarsOK /\ FunctionsOK

\* New: nothing runs.  attemptWindow is the zero time, long past.
Init ==
    /\ active = FALSE /\ ready = FALSE /\ paired = FALSE
    /\ host = NoHost /\ session = 0 /\ credential = 0
    /\ ticket = 0 /\ expires = 0 /\ runtime = 0
    /\ attempts = 0 /\ attemptWindow = -AttemptWindow
    /\ lpc = "idle" /\ victim = 0
    /\ serverUp = [r \in Runs |-> FALSE]
    /\ wire = [r \in Runs |-> "none"]
    /\ url = [r \in Runs |-> NoHost]
    /\ watcher = [r \in Runs |-> "none"]
    /\ call = [c \in Calls |-> NoCall]
    /\ now = 0 /\ runs = 0 /\ tickets = 0 /\ tokens = 0
    /\ touchedBy = 0
    /\ offeredIn = [t \in Tickets |-> 0]
    /\ grantedFor = [k \in Tokens |-> 0]
    /\ grantedIn = [k \in Tokens |-> 0]

-----------------------------------------------------------------------------
(* Helpers that run under Service.mu.                                       *)

\* Mutant of clearLocked: the ticket survives.
clearLockedKeepsTicket ==
    /\ ready' = FALSE /\ paired' = FALSE
    /\ credential' = 0
    /\ host' = NoHost /\ session' = 0
    /\ UNCHANGED <<ticket, expires>>

\* clearLocked: no secret and no address survives; active and runtime stay.
clearLocked ==
    /\ ready' = FALSE /\ paired' = FALSE
    /\ credential' = 0 /\ ticket' = 0 /\ expires' = 0
    /\ host' = NoHost /\ session' = 0

\* setCredentialLocked with a token GenerateToken has just made.
setCredentialLocked ==
    /\ tokens < MaxTokens
    /\ tokens' = tokens + 1
    /\ credential' = tokens + 1

\* runtime.Close: close the http.Server, kill cloudflared and wait for it.
runtimeClose(r) ==
    /\ serverUp' = [serverUp EXCEPT ![r] = FALSE]
    /\ wire' = [wire EXCEPT ![r] = "done"]
    /\ UNCHANGED <<url, watcher>>

\* previous.Close() or rt.Close() behind its nil check.
closeVictim ==
    IF victim = 0 THEN UNCHANGED tunnels ELSE runtimeClose(victim)

\* The ticket can be redeemed now.
PairingPending == ready /\ ticket # 0 /\ now < expires

\* A request that names host h is one for the tunnel in use.
HostMatches(h) == host # NoHost /\ h = host

\* authorizedLocked for a request that carries token k.
authorizedLocked(k) == paired /\ credential # 0 /\ k = credential

\* The checks of serveBuffered that come before the paths are told apart.
Admitted(h) == HostMatches(h) /\ active /\ ready

\* The session GET /v1/health reports to a request for host h, 0 when refused.
HealthSession(h) == IF HostMatches(h) THEN session ELSE 0

-----------------------------------------------------------------------------
(* Start, called by the agent (or by its startup goroutine).                *)

\* Lines 118-132: nothing to do for a tunnel that works; otherwise the Service
\* is emptied and the old runtime taken out of it.
Healthy == runtime # 0 /\ ready /\ wire[runtime] # "done"

StartHealthy ==
    /\ lpc = "idle" /\ Healthy
    /\ UNCHANGED <<fields, limiter, lifecycle, tunnels, call, counters, touchedBy, history>>

StartFresh ==
    /\ lpc = "idle" /\ ~Healthy
    /\ victim' = runtime /\ runtime' = 0
    /\ clearLocked
    /\ lpc' = "closePrevious"
    /\ UNCHANGED <<active, limiter, tunnels, call, counters, touchedBy, history>>

\* Lines 133-135, with no lock held.
ClosePrevious ==
    /\ lpc = "closePrevious"
    /\ closeVictim
    /\ victim' = 0 /\ lpc' = "listen"
    /\ UNCHANGED <<fields, limiter, call, counters, touchedBy, history>>

\* Lines 136-154: a local port, a session and a credential nobody holds yet.
Listen ==
    /\ lpc = "listen"
    /\ runs < MaxRuns
    /\ runs' = runs + 1
    /\ session' = runs + 1
    /\ setCredentialLocked
    /\ serverUp' = [serverUp EXCEPT ![runs + 1] = TRUE]
    /\ lpc' = "launch"
    /\ UNCHANGED <<active, ready, paired, host, ticket, expires, runtime, limiter, victim, wire, url, watcher, call, now, tickets, touchedBy, history>>

ListenFails ==
    /\ lpc = "listen"
    /\ lpc' = "idle"
    /\ UNCHANGED <<fields, limiter, victim, tunnels, call, counters, touchedBy, history>>

\* Lines 155-163: cloudflared runs and prints some URL (external) ...
Launch ==
    /\ lpc = "launch"
    /\ wire' = [wire EXCEPT ![runs] = "up"]
    /\ \E h \in Hosts \cup {NoHost} : url' = [url EXCEPT ![runs] = h]
    /\ lpc' = "inspect"
    /\ UNCHANGED <<fields, limiter, victim, serverUp, watcher, call, counters,
                   touchedBy, history>>

\* ... or it does not start, prints nothing for 25 s, or exits.
LaunchFails ==
    /\ lpc = "launch"
    /\ serverUp' = [serverUp EXCEPT ![runs] = FALSE]
    /\ lpc' = "failed"
    /\ UNCHANGED <<fields, limiter, victim, wire, url, watcher, call, counters,
                   touchedBy, history>>

\* Lines 164-166 and 172-175: publish the address and the runtime, or refuse it.
InspectURL ==
    /\ lpc = "inspect" /\ url[runs] # NoHost
    /\ host' = url[runs] /\ runtime' = runs
    /\ lpc' = "verify"
    /\ UNCHANGED <<active, ready, paired, session, credential, ticket, expires, limiter,
                   victim, tunnels, call, counters, touchedBy, history>>

\* Mutant of RefuseURL: the process that printed a bad URL is left running.
RefuseURLLeaks ==
    /\ lpc = "inspect" /\ url[runs] = NoHost
    /\ serverUp' = [serverUp EXCEPT ![runs] = FALSE]
    /\ lpc' = "failed"
    /\ UNCHANGED <<fields, limiter, victim, wire, url, watcher, call, counters, touchedBy, history>>

RefuseURL ==
    /\ lpc = "inspect" /\ url[runs] = NoHost
    /\ runtimeClose(runs)
    /\ lpc' = "failed"
    /\ UNCHANGED <<fields, limiter, victim, call, counters, touchedBy, history>>

\* Lines 158-161 and 167-170: the end of a Start that has no runtime yet.
Abandon ==
    /\ lpc = "failed"
    /\ clearLocked
    /\ lpc' = "idle"
    /\ UNCHANGED <<active, runtime, limiter, victim, tunnels, call, counters, touchedBy, history>>

\* verify: one GET through the tunnel came back with this session ...
VerifyOk ==
    /\ lpc = "verify"
    /\ wire[runs] = "up" /\ serverUp[runs]
    /\ HealthSession(url[runs]) = runs
    /\ lpc' = "publish"
    /\ UNCHANGED <<fields, limiter, victim, tunnels, call, counters, touchedBy, history>>

\* Mutant of VerifyFails: no timeout, it only notices that the process ended.
VerifyFailsOnExitOnly ==
    /\ lpc = "verify" /\ wire[runs] = "done"
    /\ runtimeClose(runs)
    /\ lpc' = "rejected"
    /\ UNCHANGED <<fields, limiter, victim, call, counters, touchedBy, history>>

\* ... or none did within 90 s, or the process ended, or the caller gave up.
VerifyFails ==
    /\ lpc = "verify"
    /\ runtimeClose(runs)
    /\ lpc' = "rejected"
    /\ UNCHANGED <<fields, limiter, victim, call, counters, touchedBy, history>>

\* Lines 179-185.
Reject ==
    /\ lpc = "rejected"
    /\ IF runtime = runs
       THEN runtime' = 0 /\ clearLocked
       ELSE UNCHANGED <<ready, paired, host, session, credential, ticket, expires, runtime>>
    /\ lpc' = "idle"
    /\ UNCHANGED <<active, limiter, victim, tunnels, call, counters, touchedBy, history>>

\* Mutant of Publish: no goroutine watches the tunnel.
PublishUnwatched ==
    /\ lpc = "publish"
    /\ ready' = TRUE
    /\ lpc' = "idle"
    /\ UNCHANGED <<active, paired, host, session, credential, ticket, expires, runtime, limiter,
                   victim, tunnels, call, counters, touchedBy, history>>

\* Lines 187-199.
Publish ==
    /\ lpc = "publish"
    /\ ready' = TRUE
    /\ watcher' = [watcher EXCEPT ![runs] = "waiting"]
    /\ lpc' = "idle"
    /\ UNCHANGED <<active, paired, host, session, credential, ticket, expires, runtime, limiter,
                   victim, serverUp, wire, url, call, counters, touchedBy, history>>

\* Close, in its two halves: under mu, then the runtime with no lock held.
Close ==
    /\ lpc = "idle"
    /\ victim' = runtime /\ runtime' = 0
    /\ active' = FALSE
    /\ clearLocked
    /\ lpc' = "closing"
    /\ UNCHANGED <<limiter, tunnels, call, counters, touchedBy, history>>

CloseRuntime ==
    /\ lpc = "closing"
    /\ closeVictim
    /\ victim' = 0 /\ lpc' = "idle"
    /\ UNCHANGED <<fields, limiter, call, counters, touchedBy, history>>

-----------------------------------------------------------------------------
(* The other calls of the agent.                                            *)

SetActive(b) ==
    /\ active' = b
    /\ UNCHANGED <<ready, paired, host, session, credential, ticket, expires, runtime, limiter,
                   lifecycle, tunnels, call, counters, touchedBy, history>>

\* Mutant of NewPairing: the ticket lasts twice as long.
NewPairingLastsLonger ==
    /\ ready /\ runtime # 0
    /\ tickets < MaxTickets
    /\ tickets' = tickets + 1
    /\ ticket' = tickets + 1
    /\ expires' = now + 2 * TicketLife
    /\ offeredIn' = [offeredIn EXCEPT ![tickets + 1] = session]
    /\ UNCHANGED <<active, ready, paired, host, session, credential, runtime, limiter, lifecycle,
                   tunnels, call, now, runs, tokens, touchedBy, grantedFor, grantedIn>>

NewPairing ==
    /\ ready /\ runtime # 0
    /\ tickets < MaxTickets
    /\ tickets' = tickets + 1
    /\ ticket' = tickets + 1
    /\ expires' = now + TicketLife
    /\ offeredIn' = [offeredIn EXCEPT ![tickets + 1] = session]
    /\ UNCHANGED <<active, ready, paired, host, session, credential, runtime, limiter, lifecycle,
                   tunnels, call, now, runs, tokens, touchedBy, grantedFor, grantedIn>>

Revoke ==
    /\ setCredentialLocked
    /\ paired' = FALSE /\ ticket' = 0 /\ expires' = 0
    /\ UNCHANGED <<active, ready, host, session, runtime, limiter, lifecycle, tunnels, call,
                   now, runs, tickets, touchedBy, history>>

-----------------------------------------------------------------------------
(* The tunnel process (external) and the watcher goroutine of each tunnel.  *)

TunnelExits(r) ==
    /\ wire[r] = "up"
    /\ wire' = [wire EXCEPT ![r] = "done"]
    /\ UNCHANGED <<fields, limiter, lifecycle, serverUp, url, watcher, call, counters,
                   touchedBy, history>>

WatcherWakes(r) ==
    /\ watcher[r] = "waiting" /\ wire[r] = "done"
    /\ serverUp' = [serverUp EXCEPT ![r] = FALSE]
    /\ watcher' = [watcher EXCEPT ![r] = "woken"]
    /\ UNCHANGED <<fields, limiter, lifecycle, wire, url, call, counters, touchedBy, history>>

\* Mutant of WatcherClears: whichever tunnel is in use is cleared.
WatcherClearsAny(r) ==
    /\ watcher[r] = "woken"
    /\ clearLocked
    /\ watcher' = [watcher EXCEPT ![r] = "ended"]
    /\ UNCHANGED <<active, runtime, limiter, lifecycle, serverUp, wire, url, call, counters,
                   touchedBy, history>>

WatcherClears(r) ==
    /\ watcher[r] = "woken"
    /\ IF runtime = r
       THEN clearLocked
       ELSE UNCHANGED <<ready, paired, host, session, credential, ticket, expires>>
    /\ watcher' = [watcher EXCEPT ![r] = "ended"]
    /\ UNCHANGED <<active, runtime, limiter, lifecycle, serverUp, wire, url, call, counters,
                   touchedBy, history>>

-----------------------------------------------------------------------------
(* ServeHTTP.  A request that is refused changes nothing, so only the ones  *)
(* that pass the first check become a call.  What a call carries was chosen *)
(* before its body was read; serveBuffered checks it again.                 *)

Listening == \E r \in Runs : serverUp[r]

\* The first check of POST /v1/pair; t is any ticket ever offered, or 0 for a
\* body that is malformed or holds no such ticket.
ReceivePair(c, t) ==
    /\ call[c] = NoCall /\ Listening
    /\ Admitted(host)
    /\ call' = [call EXCEPT ![c] = [kind |-> "pair", host |-> host, secret |-> t]]
    /\ UNCHANGED <<fields, limiter, lifecycle, tunnels, counters, touchedBy, history>>

\* The first check of POST /v1/clipboard/text with token k.
ReceiveWrite(c, k) ==
    /\ call[c] = NoCall /\ Listening
    /\ Admitted(host) /\ authorizedLocked(k)
    /\ call' = [call EXCEPT ![c] = [kind |-> "write", host |-> host, secret |-> k]]
    /\ UNCHANGED <<fields, limiter, lifecycle, tunnels, counters, touchedBy, history>>

Finish(c) == call' = [call EXCEPT ![c] = NoCall]

\* The body is too long or never arrives, or serveBuffered refuses the request
\* before it gets to a handler (host, active, ready, Origin, client header).
CallRefused(c) ==
    /\ call[c].kind # "none"
    /\ Finish(c)
    /\ UNCHANGED <<fields, limiter, lifecycle, tunnels, counters, touchedBy, history>>

\* pairLocked, its limiter first.  attempts stops counting one above the limit,
\* where the code's int goes on: both mean refused.
WindowOver == now - attemptWindow >= AttemptWindow
Attempt    == IF WindowOver THEN 1 ELSE attempts + 1

CountAttempt ==
    /\ attemptWindow' = IF WindowOver THEN now ELSE attemptWindow
    /\ attempts' = IF Attempt > PairLimit THEN PairLimit + 1 ELSE Attempt

Redeemable(t) == ticket # 0 /\ now < expires /\ t = ticket

\* Mutant of pairLocked: a redeemed ticket is not used up.
pairLockedKeepsTicket(c) ==
    /\ call[c].kind = "pair" /\ Admitted(call[c].host)
    /\ CountAttempt
    /\ Attempt <= PairLimit /\ Redeemable(call[c].secret)
    /\ setCredentialLocked
    /\ paired' = TRUE
    /\ grantedFor' = [grantedFor EXCEPT ![tokens + 1] = call[c].secret]
    /\ grantedIn' = [grantedIn EXCEPT ![tokens + 1] = session]
    /\ Finish(c)
    /\ UNCHANGED <<active, ready, host, session, ticket, expires, runtime, lifecycle, tunnels,
                   now, runs, tickets, touchedBy, offeredIn>>

pairLocked(c) ==
    /\ call[c].kind = "pair" /\ Admitted(call[c].host)
    /\ CountAttempt
    /\ Attempt <= PairLimit /\ Redeemable(call[c].secret)
    /\ setCredentialLocked
    /\ paired' = TRUE /\ ticket' = 0 /\ expires' = 0
    /\ grantedFor' = [grantedFor EXCEPT ![tokens + 1] = call[c].secret]
    /\ grantedIn' = [grantedIn EXCEPT ![tokens + 1] = session]
    /\ Finish(c)
    /\ UNCHANGED <<active, ready, host, session, runtime, lifecycle, tunnels, now, runs, tickets,
                   touchedBy, offeredIn>>

pairRefused(c) ==
    /\ call[c].kind = "pair" /\ Admitted(call[c].host)
    /\ CountAttempt
    /\ Attempt > PairLimit \/ ~Redeemable(call[c].secret)
    /\ Finish(c)
    /\ UNCHANGED <<fields, lifecycle, tunnels, counters, touchedBy, history>>

\* Mutant of ServeWrite: the check made before the body was read is trusted.
ServeWriteUnchecked(c) ==
    /\ call[c].kind = "write"
    /\ Admitted(call[c].host)
    /\ touchedBy' = call[c].secret
    /\ Finish(c)
    /\ UNCHANGED <<fields, limiter, lifecycle, tunnels, counters, history>>

\* POST /v1/clipboard/text reaches the API handler, which may still refuse it
\* (CallRefused) or write the text, all under Service.mu.
ServeWrite(c) ==
    /\ call[c].kind = "write"
    /\ Admitted(call[c].host) /\ authorizedLocked(call[c].secret)
    /\ touchedBy' = call[c].secret
    /\ Finish(c)
    /\ UNCHANGED <<fields, limiter, lifecycle, tunnels, counters, history>>

\* GET /v1/clipboard/text with token k: one critical section, nothing to await.
ServeRead(k) ==
    /\ Listening
    /\ Admitted(host) /\ authorizedLocked(k)
    /\ touchedBy' = k
    /\ UNCHANGED <<fields, limiter, lifecycle, tunnels, call, counters, history>>

-----------------------------------------------------------------------------
(* The environment.                                                         *)

DesktopCopies ==
    /\ touchedBy' = 0
    /\ UNCHANGED <<fields, limiter, lifecycle, tunnels, call, counters, history>>

Tick ==
    /\ now < MaxTime
    /\ now' = now + 1
    /\ UNCHANGED <<fields, limiter, lifecycle, tunnels, call, runs, tickets, tokens, touchedBy,
                   history>>

-----------------------------------------------------------------------------
\* The steps Start and Close take once they are under way.
LifecycleStep ==
    \/ ClosePrevious \/ Listen \/ ListenFails \/ Launch \/ LaunchFails
    \/ InspectURL \/ RefuseURL \/ Abandon \/ VerifyOk \/ VerifyFails \/ Reject \/ Publish
    \/ CloseRuntime

Watcher(r) == WatcherWakes(r) \/ WatcherClears(r)

Handler(c) == CallRefused(c) \/ pairLocked(c) \/ pairRefused(c) \/ ServeWrite(c)

\* What goes on in the Service whoever calls it ...
Internal ==
    \/ LifecycleStep
    \/ \E r \in Runs : TunnelExits(r) \/ Watcher(r)
    \/ \E c \in Calls : Handler(c)
    \/ \E c \in Calls, t \in 0..tickets : ReceivePair(c, t)
    \/ \E c \in Calls, k \in 1..tokens : ReceiveWrite(c, k)
    \/ \E k \in 1..tokens : ServeRead(k)
    \/ DesktopCopies \/ Tick

\* ... and the calls of its owner, in any order.
Owner ==
    \/ StartHealthy \/ StartFresh \/ Close
    \/ \E b \in BOOLEAN : SetActive(b)
    \/ NewPairing \/ Revoke

Next == Internal \/ Owner

Spec == Init /\ [][Next]_vars

-----------------------------------------------------------------------------
(* Properties.                                                              *)

\* However many phones race to redeem a QR (pairLocked, service.go:399-411), one
\* ticket yields one token, ever.
TicketSingleUse ==
    \A j, k \in Tokens : grantedFor[j] # 0 /\ grantedFor[j] = grantedFor[k] => j = k

\* A QR and a pairing belong to the tunnel they were made on: no ticket and no
\* token outlives a restart, a failed Start or an exited tunnel, although the
\* host may be the same again (clearLocked, service.go:108-116).
PairedInThisSession ==
    /\ ticket # 0 => ready /\ offeredIn[ticket] = session
    /\ paired => /\ ready /\ credential # 0
                 /\ grantedFor[credential] # 0
                 /\ grantedIn[credential] = session
                 /\ offeredIn[grantedFor[credential]] = session

\* ready means the tunnel in use: its session, its address, and a watcher that
\* will take ready back when it exits.  No watcher of an older tunnel disturbs
\* it (the test of runtime at service.go:194).
ReadyIsCurrent ==
    ready => /\ runtime # 0
             /\ session = runtime
             /\ host = url[runtime] /\ host # NoHost
             /\ watcher[runtime] \in {"waiting", "woken"}

\* Between calls, the only server that listens and the only cloudflared that
\* runs are the ones Close would reach: no error path of Start leaks one.
NoOrphan ==
    lpc = "idle" => \A r \in Runs : serverUp[r] \/ wire[r] = "up" => r = runtime

\* What a phone or the desktop's user can make out of it.
Offered    == 1..tickets
Granted    == {k \in Tokens : grantedFor[k] # 0}
LiveTicket == IF PairingPending THEN ticket ELSE 0
LiveGrant  == IF paired THEN credential ELSE 0
Serving    == active /\ ready

\* The Service is a pairing authority: a ticket that has run out, was redeemed,
\* replaced or revoked cannot be redeemed, and every clipboard operation is done
\* for the token in force at that moment, also when the request was admitted
\* before a Revoke, a new pairing or a restart and its body came after it
\* (service.go:299-316 against 336-367).
Authority == INSTANCE PairingAuthority WITH
    None <- 0, offered <- Offered, granted <- Granted,
    ticket <- LiveTicket, grant <- LiveGrant, enabled <- Serving

ImplementsAuthority == Authority!Spec

\* The Service does not stay ready on a tunnel that has exited, and the local server
\* of that tunnel stops listening, whoever was to notice it (lines 187 to 198).
ExitNoticed ==
    /\ (ready /\ runtime # 0 /\ wire[runtime] = "done") ~> ~ready
    /\ \A r \in Runs : wire[r] = "done" ~> ~serverUp[r]
=============================================================================
