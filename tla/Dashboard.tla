------------------------------ MODULE Dashboard ------------------------------
(***************************************************************************)
(* The settings pages of the desktop: DashboardHost (internal/webui), which   *)
(* listens on 127.0.0.1 when a page is asked for and stops when no page has   *)
(* been used for 20 minutes; dashboardData (internal/agent), which fills a    *)
(* page with a QR and rotates the pairing token; and Manager                  *)
(* (internal/pairing), which keeps what a QR stands for until it expires.     *)
(*                                                                         *)
(* Every request runs in a goroutine of its own and takes the mutexes of      *)
(* host, Store and Manager one after the other, never two at once; what it    *)
(* has read under one of them may be out of date under the next.              *)
(***************************************************************************)
EXTENDS Naturals, Functions

CONSTANTS
    N,          \* bound on the requests to the Agent and to the pages of the host
    Lifetime,   \* SessionLifetime, in ticks
    MaxNow      \* bound on the clock

ASSUME DashboardAssumption == N \in Nat /\ Lifetime \in Nat \ {0} /\ MaxNow \in Nat

\* Requests are numbered in the order in which they begin; number 0 began and ended
\* before the others.
Requests == 1..N
NoRequest == N + 1

VARIABLES
    mode,       \* Store: the connection mode
    token,      \* Store: PairingToken; every rotation makes the next number
    sessions,   \* Manager.sessions
    nonces,     \* the number of nonces made
    up,         \* host: server and listener are not nil
    entries,    \* host: page -> what was put in it last
    pages,      \* the number of page identifiers made
    timer,      \* host: "armed" until it fires or is stopped
    firing,     \* timers that have fired and whose callback waits for mu
    req,        \* each request: its step, and the local variables of its handler
    now,
    stopped     \* Run has returned from Serve: no request comes any more

hostVars == <<up, entries, pages, timer, firing>>
storeVars == <<mode, token>>
managerVars == <<sessions, nonces>>
dashboardVars == <<storeVars, managerVars, hostVars, req, now, stopped>>

Modes == {"tailscale", "simple"}
\* The data of a page: a QR (the nonce of a session and the token in it; 0 when the
\* page has none) and the request whose failure it reports.
NoQR == [nonce |-> 0, token |-> 0, exp |-> 0]
QRs == [nonce : Nat, token : Nat, exp : Nat]
Entries == [qr : QRs, failed : 0..NoRequest]

\* The handler of a request: its step and its local variables.
Steps == {"idle", "configure", "mode", "update", "snapshot", "create", "finish", "done", "shown",
          "refused"}
Handlers == [kind : {"none", "open", "get", "action", "rotate"}, pc : Steps, page : Nat,
             began : Nat, token : Nat, entry : Entries]
Idle == [kind |-> "none", pc |-> "idle", page |-> 0, began |-> 0, token |-> 0,
         entry |-> [qr |-> NoQR, failed |-> NoRequest]]

\* The type invariant: Store and Manager, the host, the requests.
StoreTypeOK ==
    /\ mode \in Modes /\ token \in Nat \ {0}
    /\ sessions \subseteq QRs /\ nonces \in Nat
    /\ now \in Nat /\ stopped \in BOOLEAN
HostTypeOK ==
    /\ up \in BOOLEAN /\ pages \in Nat
    /\ DOMAIN entries \subseteq 1..pages /\ \A p \in DOMAIN entries : entries[p] \in Entries
    /\ timer \in {"off", "armed"} /\ firing \in Nat
ReqTypeOK == req \in [Requests -> Handlers]
DashboardTypeOK == StoreTypeOK /\ HostTypeOK /\ ReqTypeOK

\* The Agent has just started, or a launcher has opened a first page, and perhaps an
\* operation has failed on it already.
Init ==
    /\ mode \in Modes /\ token = 1
    /\ \/ /\ sessions = {} /\ nonces = 0
          /\ up = FALSE /\ entries = <<>> /\ pages = 0 /\ timer = "off"
       \/ /\ nonces = (IF mode = "tailscale" THEN 1 ELSE 0)
          /\ sessions = {[nonce |-> n, token |-> 1, exp |-> Lifetime] : n \in 1..nonces}
          /\ up = TRUE /\ pages = 1 /\ timer = "armed"
          /\ \E qr \in sessions \cup {NoQR}, failed \in {0, NoRequest} :
                entries = <<[qr |-> qr, failed |-> failed]>>
    /\ firing = 0
    /\ req = [r \in Requests |-> Idle]
    /\ now = 0 /\ stopped = FALSE

At(r, pc) == req[r].pc = pc
Goto(r, pc) == req' = [req EXCEPT ![r].pc = pc]
End(r, pc) == req' = [req EXCEPT ![r] = [Idle EXCEPT !.pc = pc]]

\* The next request.
New(r) == At(r, "idle") /\ \A q \in 1..(r - 1) : ~At(q, "idle")

-----------------------------------------------------------------------------
(* DashboardHost, under mu.                                                 *)

\* Page p now has the entry e.
Put(p, e) == [q \in DOMAIN entries \cup {p} |-> IF q = p THEN e ELSE entries[q]]

\* Stop does not wait for a callback that has been started.
resetTimerLocked == timer' = "armed" /\ UNCHANGED firing

\* Mutant of closeLocked: the callback of a timer that was replaced gives way to
\* its successor, which it has already stopped.
closeLockedUnlessReset ==
    /\ timer' = "off"
    /\ up' = (up /\ timer = "armed")
    /\ entries' = IF up' THEN entries ELSE <<>>
    /\ UNCHANGED pages

closeLocked ==
    /\ timer' = "off"
    /\ up' = FALSE
    /\ entries' = IF up THEN <<>> ELSE entries
    /\ UNCHANGED pages

TimerFires ==
    /\ timer = "armed" /\ timer' = "off" /\ firing' = firing + 1
    /\ UNCHANGED <<storeVars, managerVars, up, entries, pages, req, now, stopped>>

Callback ==
    /\ firing > 0 /\ firing' = firing - 1
    /\ closeLocked
    /\ UNCHANGED <<storeVars, managerVars, req, now, stopped>>

\* Run has returned from Serve, and closes the host.
Close ==
    /\ ~stopped /\ stopped' = TRUE
    /\ closeLocked
    /\ UNCHANGED <<storeVars, managerVars, firing, req, now>>

-----------------------------------------------------------------------------
(* A request begins.                                                        *)

\* openSetup, with the right token, calls Open, which calls the provider first.
BeginOpen(r) ==
    /\ New(r) /\ ~stopped
    /\ req' = [req EXCEPT ![r].kind = "open", ![r].pc = "mode", ![r].began = token]
    /\ UNCHANGED <<storeVars, managerVars, hostVars, now, stopped>>

\* Mutant of Lookup: the operation's error is taken off the page when it has been
\* shown.
LookupKeepsError(r, kind, p) ==
    /\ New(r) /\ up /\ p \in DOMAIN entries
    /\ resetTimerLocked
    /\ req' = [req EXCEPT ![r].kind = kind, ![r].page = p, ![r].began = token,
                          ![r].entry = entries[p],
                          ![r].pc = IF kind = "action" THEN "configure" ELSE "mode"]
    /\ UNCHANGED <<storeVars, managerVars, up, entries, pages, now, stopped>>

\* ServeHTTP finds the page, keeps a copy of it and, for GET, takes the error off.
Lookup(r, kind, p) ==
    /\ New(r) /\ up /\ p \in DOMAIN entries
    /\ resetTimerLocked
    /\ req' = [req EXCEPT ![r].kind = kind, ![r].page = p, ![r].began = token,
                          ![r].entry = entries[p],
                          ![r].pc = IF kind = "action" THEN "configure" ELSE "mode"]
    /\ entries' = IF kind = "get" THEN [entries EXCEPT ![p].failed = NoRequest] ELSE entries
    /\ UNCHANGED <<storeVars, managerVars, up, pages, now, stopped>>

\* The page is gone, and the timer is left alone.
LookupFails(r, p) ==
    /\ New(r) /\ up /\ p \notin DOMAIN entries
    /\ End(r, "refused")
    /\ UNCHANGED <<storeVars, managerVars, hostVars, now, stopped>>

\* The page is there, but not for this method, path, origin or form; a GET has taken
\* the error off all the same.
Unsupported(r, p) ==
    /\ New(r) /\ up /\ p \in DOMAIN entries
    /\ resetTimerLocked
    /\ \E failed \in {entries[p].failed, NoRequest} :
            entries' = [entries EXCEPT ![p].failed = failed]
    /\ End(r, "refused")
    /\ UNCHANGED <<storeVars, managerVars, up, pages, now, stopped>>

\* configureConnection (module Agent) succeeds or fails, with the mode saved or not.
Configure(r) ==
    /\ At(r, "configure")
    /\ \E m \in Modes, failed \in {r, NoRequest} :
        /\ mode' = m
        /\ m = "tailscale" /\ failed = r => mode = "tailscale"
        /\ req' = [req EXCEPT ![r].pc = "mode", ![r].entry.failed = failed]
    /\ UNCHANGED <<token, managerVars, hostVars, now, stopped>>

-----------------------------------------------------------------------------
(* The provider, dashboardData.                                             *)

Provide(r, qr) ==
    req' = [req EXCEPT ![r].entry.qr = qr, ![r].token = 0, ![r].pc = "finish"]

\* Mutant of ReadMode: a page that has its data is rendered from it.
ReadModeCached(r) ==
    /\ At(r, "mode")
    /\ \/ mode = "tailscale" /\ Goto(r, IF req[r].kind = "get" THEN "finish" ELSE "update")
       \/ Provide(r, NoQR)
    /\ UNCHANGED <<storeVars, managerVars, hostVars, now, stopped>>

\* Every page of the Agent has a Configure, so a GET reads its data anew like the
\* others (dashboard_host.go:108).  The mode is read first; in the other mode, or
\* when Tailscale does not answer, the page is one without a QR.
ReadMode(r) ==
    /\ At(r, "mode")
    /\ \/ mode = "tailscale" /\ Goto(r, "update")
       \/ Provide(r, NoQR)
    /\ UNCHANGED <<storeVars, managerVars, hostVars, now, stopped>>

\* Store.Update saves the name of the device, and a new token if asked to.
Update(r) ==
    /\ At(r, "update")
    /\ \/ token' = (IF req[r].kind = "rotate" THEN token + 1 ELSE token) /\ Goto(r, "snapshot")
       \/ UNCHANGED token /\ End(r, "refused")
    /\ UNCHANGED <<mode, managerVars, hostVars, now, stopped>>

Snapshot(r) ==
    /\ At(r, "snapshot")
    /\ req' = [req EXCEPT ![r].token = token, ![r].pc = "create"]
    /\ UNCHANGED <<storeVars, managerVars, hostVars, now, stopped>>

Session(r) == [nonce |-> nonces + 1, token |-> req[r].token, exp |-> now + Lifetime]

\* Mutant of Create: a new session takes the place of all the others.
CreateAlone(r) ==
    /\ At(r, "create")
    /\ \/ /\ nonces' = nonces + 1 /\ sessions' = {Session(r)}
          /\ Provide(r, Session(r))
       \/ End(r, "refused") /\ UNCHANGED managerVars
    /\ UNCHANGED <<storeVars, hostVars, now, stopped>>

\* Manager.Create, which refuses data that are not complete: a rotation has been saved
\* by then.
Create(r) ==
    /\ At(r, "create")
    /\ \/ /\ nonces' = nonces + 1
          /\ sessions' = {s \in sessions : s.exp > now} \cup {Session(r)}
          /\ Provide(r, Session(r))
       \/ End(r, "refused") /\ UNCHANGED managerVars
    /\ UNCHANGED <<storeVars, hostVars, now, stopped>>

\* What a phone that asks for /setup/<nonce> is given now: the token of the session, also
\* one that has been revoked, and none in the other mode.
Setup(nonce) ==
    {s.token : s \in {t \in sessions : mode = "tailscale" /\ t.nonce = nonce /\ now < t.exp}}

\* Manager.Get forgets the session of such a phone that has expired.
Get ==
    /\ mode = "tailscale"
    /\ \E s \in sessions : s.exp <= now /\ sessions' = sessions \ {s}
    /\ UNCHANGED <<storeVars, nonces, hostVars, req, now, stopped>>

-----------------------------------------------------------------------------
(* The host has the data; mu is taken again.                                *)

\* The Agent's client gets the address of a new page.
FinishOpen(r) ==
    /\ At(r, "finish") /\ req[r].kind = "open"
    /\ \/ /\ up' = TRUE
          /\ pages' = pages + 1 /\ entries' = Put(pages + 1, req[r].entry)
          /\ resetTimerLocked
          /\ End(r, "done")
       \/ ~up /\ End(r, "refused") /\ UNCHANGED hostVars
    /\ UNCHANGED <<storeVars, managerVars, now, stopped>>

\* The page is rendered, with the data just read and the error found before.
FinishGet(r) ==
    /\ At(r, "finish") /\ req[r].kind = "get" /\ Goto(r, "shown")
    /\ UNCHANGED <<storeVars, managerVars, hostVars, now, stopped>>

\* The page is put back, whether it is still there or not.
FinishAction(r) ==
    /\ At(r, "finish") /\ req[r].kind = "action" /\ End(r, "done")
    /\ entries' = Put(req[r].page, req[r].entry)
    /\ UNCHANGED <<storeVars, managerVars, up, pages, timer, firing, now, stopped>>

\* rotate: the page moves to a new address.
FinishRotate(r) ==
    /\ At(r, "finish") /\ req[r].kind = "rotate"
    /\ Goto(r, "done")
    /\ pages' = pages + 1
    /\ entries' = Restrict(Put(pages + 1, [req[r].entry EXCEPT !.failed = NoRequest]),
                           (DOMAIN entries \ {req[r].page}) \cup {pages + 1})
    /\ resetTimerLocked
    /\ UNCHANGED <<storeVars, managerVars, up, now, stopped>>

-----------------------------------------------------------------------------

Tick == now < MaxNow /\ now' = now + 1
        /\ UNCHANGED <<storeVars, managerVars, hostVars, req, stopped>>

Begin(r) ==
    \/ BeginOpen(r)
    \/ \E p \in 1..pages :
        \/ LookupFails(r, p) \/ Unsupported(r, p)
        \/ \E kind \in {"get", "action", "rotate"} : Lookup(r, kind, p)

Handle(r) ==
    \/ Configure(r) \/ ReadMode(r) \/ Update(r) \/ Snapshot(r) \/ Create(r)
    \/ FinishOpen(r) \/ FinishGet(r) \/ FinishAction(r) \/ FinishRotate(r)

Next ==
    \/ \E r \in Requests : Begin(r) \/ Handle(r)
    \/ TimerFires \/ Callback \/ Close \/ Get \/ Tick

Spec == Init /\ [][Next]_dashboardVars

\* Time passes, and the goroutine of a timer that has fired gets the mutex.
FairSpec == Spec /\ WF_dashboardVars(TimerFires) /\ WF_dashboardVars(Callback)

-----------------------------------------------------------------------------
\* While the host listens, a timer runs that will close it, or the callback of one
\* waits to: stopping a timer that has already fired changes nothing about that
\* (dashboard_host.go:193-202).
OpenIsWatched == up => timer = "armed" \/ firing > 0

\* A request goes on with a token that is no older than the request, newer if it has
\* rotated it, and no newer than the Store's.
Newer(r, t) ==
    t \in req[r].began..token /\ (req[r].kind = "rotate" => t > req[r].began)
TokenOf(r) ==
    /\ token >= req[r].began
    /\ req[r].pc \in {"snapshot", "create"} => Newer(r, token)
    /\ req[r].pc = "create" => Newer(r, req[r].token)
    /\ req[r].pc \in {"finish", "shown"} \/ (req[r].kind = "rotate" /\ At(r, "done"))
        => req[r].entry.qr = NoQR \/ Newer(r, req[r].entry.qr.token)
TokenInv == \A r \in Requests : TokenOf(r)

\* A request goes on with a QR that the Manager keeps.
SessionInv ==
    \A r \in Requests :
        LET qr == req[r].entry.qr IN
        req[r].pc \in {"finish", "shown"} /\ qr # NoQR /\ now < qr.exp => qr \in sessions

\* What a request may rely on, whatever the others have done since it began.
DashboardInv == DashboardTypeOK /\ OpenIsWatched /\ TokenInv /\ SessionInv

Shown(r) == req[r].kind = "get" /\ req[r].pc = "shown"

\* A page never shows a token that was revoked before it was asked for, whatever
\* page it was revoked on (dashboard_host.go:107), and one whose token was revoked
\* with the page itself shows a newer one.
FreshQR ==
    \A r \in Requests :
        LET qr == req[r].entry.qr IN
        qr # NoQR => /\ Shown(r) => qr.token >= req[r].began
                     /\ req[r].kind = "rotate" /\ At(r, "done") => qr.token > req[r].began

\* Until it expires, the QR of a page gives every phone that asks, whatever other pages
\* have been asked for since, the token the Agent accepts, unless the token has been
\* rotated or the mode changed since the page was asked for (manager.go:57-64,
\* agent.go:85-91 and 225).
QRWorks ==
    \A r \in Requests :
        LET qr == req[r].entry.qr
            lasting == now < qr.exp /\ mode = "tailscale" /\ token = req[r].began
        IN  Shown(r) /\ qr # NoQR /\ lasting => Setup(qr.nonce) = {token}

\* The failure of an operation is shown on one page, once (dashboard_host.go:96).
ErrorShownOnce ==
    \A r, s \in Requests :
        Shown(r) /\ Shown(s) /\ req[r].entry.failed = req[s].entry.failed
            => r = s \/ req[r].entry.failed = NoRequest

\* When no more pages are asked for, the host stops listening
\* (dashboard_host.go:25).
IdleCloses == up ~> ~up
=============================================================================
