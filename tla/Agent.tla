-------------------------------- MODULE Agent --------------------------------
(***************************************************************************)
(* The agent (internal/agent/agent.go) driving the quick-tunnel Service:    *)
(* which of the two entries is chosen, the dashboard's actions, the start   *)
(* and the end of Run.  The Tailscale entry's requests are in ClipboardAPI. *)
(*                                                                          *)
(* modeMu is held by one goroutine at a time, from the first to the last    *)
(* step of configureConnection; apc is where that goroutine is, "free" when *)
(* nobody holds modeMu.  A Service that was never needed is nil in the code *)
(* and is the initial Service here.                                         *)
(***************************************************************************)
EXTENDS SimpleService

VARIABLES
    mode,       \* Store.Mode(): the entry the user chose
    apc,        \* the goroutine that holds modeMu
    action,     \* what it was asked for: "simple" or "pair"
    qr,         \* simplePairing: the ticket of the QR, 0 for none
    qrExpires,  \* simplePairing.ExpiresAt
    startup,    \* Run's goroutine for mode simple has not got modeMu yet
    phase       \* Run: serving, past Serve, past its deferred Close

agentVars == <<mode, apc, action, qr, qrExpires, startup, phase>>
allVars   == <<vars, agentVars>>

Modes == {"choose", "tailscale", "simple"}

AgentTypeOK ==
    /\ TypeOK
    /\ mode \in Modes
    /\ apc \in {"free", "start", "starting", "save", "undo", "undoClosing", "activate",
                "askPaired", "askPending", "newPairing",
                "prepare", "confirm", "serve", "elevate",
                "deactivate", "switch", "restore", "switchClose", "switchClosing",
                "exitClosing"}
    /\ action \in {"simple", "pair"}
    /\ qr \in 0..MaxTickets /\ qrExpires \in 0..(MaxTime + TicketLife)
    /\ startup \in BOOLEAN
    /\ phase \in {"running", "stopping", "stopped"}

\* Run, lines 126-143, with the mode that was saved.
AgentInit ==
    /\ Init
    /\ mode \in Modes
    /\ apc = "free" /\ action = "simple"
    /\ qr = 0 /\ qrExpires = 0
    /\ startup = (mode = "simple")
    /\ phase = "running"

\* The goroutine that holds modeMu moves from one step to the next; what it was
\* asked for is forgotten when it returns.
Goto(from, to) ==
    /\ apc = from /\ apc' = to
    /\ action' = IF to = "free" THEN "simple" ELSE action

-----------------------------------------------------------------------------
(* configureConnection "simple" and "pair", lines 295-318.                  *)

ConfigureSimple(a) ==
    /\ apc = "free" /\ apc' = "start"
    /\ action' = a
    /\ UNCHANGED <<vars, mode, qr, qrExpires, startup, phase>>

\* The goroutine of lines 138-142 gets modeMu, however late that is.
StartupConfigures ==
    /\ startup /\ startup' = FALSE
    /\ Goto("free", "start")
    /\ UNCHANGED <<vars, mode, qr, qrExpires, phase>>

CallStart ==
    /\ \/ StartHealthy /\ Goto("start", "save")
       \/ StartFresh /\ Goto("start", "starting")
    /\ UNCHANGED <<mode, qr, qrExpires, startup, phase>>

\* Start goes on, and returns with nil or with an error.
StartContinues ==
    /\ apc = "starting"
    /\ \/ ClosePrevious \/ Listen \/ LaunchFails \/ InspectURL \/ RefuseURL \/ VerifyFails
    /\ UNCHANGED agentVars

TunnelAnswers ==
    /\ apc = "starting"
    /\ Launch \/ VerifyOk
    /\ UNCHANGED agentVars

StartReturns ==
    /\ \/ Publish /\ Goto("starting", "save")
       \/ (ListenFails \/ Abandon \/ Reject) /\ Goto("starting", "free")
    /\ UNCHANGED <<mode, qr, qrExpires, startup, phase>>

\* Lines 305-310: Store.Update keeps the old mode when Save fails.
SaveSimple ==
    /\ \/ Goto("save", "activate") /\ mode' = "simple"
       \/ Goto("save", "undo") /\ mode # "simple" /\ UNCHANGED mode
    /\ UNCHANGED <<vars, qr, qrExpires, startup, phase>>

\* Mutant of UndoStart: the tunnel outlives the save that failed.
UndoStartForgets ==
    /\ UNCHANGED vars /\ Goto("undo", "free")
    /\ UNCHANGED <<mode, qr, qrExpires, startup, phase>>

UndoStart ==
    /\ Close /\ Goto("undo", "undoClosing")
    /\ UNCHANGED <<mode, qr, qrExpires, startup, phase>>

Activate ==
    /\ SetActive(TRUE) /\ Goto("activate", "askPaired")
    /\ UNCHANGED <<mode, qr, qrExpires, startup, phase>>

\* Line 312 asks the Service twice, and phones go on between the questions.
AskPaired ==
    /\ \/ action = "pair" /\ Goto("askPaired", "newPairing")
       \/ action # "pair" /\ ready /\ paired /\ Goto("askPaired", "free")
       \/ action # "pair" /\ ~(ready /\ paired) /\ Goto("askPaired", "askPending")
    /\ UNCHANGED <<vars, mode, qr, qrExpires, startup, phase>>

AskPending ==
    /\ \/ PairingPending /\ Goto("askPending", "free")
       \/ ~PairingPending /\ Goto("askPending", "newPairing")
    /\ UNCHANGED <<vars, mode, qr, qrExpires, startup, phase>>

\* Mutant of OfferQR: the dashboard keeps the QR it had.
OfferQRUnshown ==
    /\ NewPairing /\ Goto("newPairing", "free")
    /\ UNCHANGED <<mode, qr, qrExpires, startup, phase>>

\* Lines 313-317; the tunnel may have exited since Start.
OfferQR ==
    /\ NewPairing /\ Goto("newPairing", "free")
    /\ qr' = ticket' /\ qrExpires' = expires'
    /\ UNCHANGED <<mode, startup, phase>>

OfferFails ==
    /\ Goto("newPairing", "free")
    /\ ~ready \/ runtime = 0 \/ tickets = MaxTickets
    /\ UNCHANGED <<vars, mode, qr, qrExpires, startup, phase>>

-----------------------------------------------------------------------------
(* configureConnection "tailscale", lines 272-294.  Tailscale's status and   *)
(* prepareTailnet come first; until they are in order nothing changes, but   *)
(* modeMu is held.  prepareTailnet is that of Windows, the only one that     *)
(* asks the user; elsewhere it succeeds or fails at once.                   *)

ConfigureTailscale ==
    /\ Goto("free", "prepare")
    /\ UNCHANGED <<vars, mode, qr, qrExpires, startup, phase>>

\* Tailscale does not run, or is set up, or the user has to agree to HTTPS first.
Prepare ==
    /\ \E next \in {"free", "deactivate", "confirm"} : Goto("prepare", next)
    /\ UNCHANGED <<vars, mode, qr, qrExpires, startup, phase>>

\* A message box, which has no timeout.
ConfirmHTTPS ==
    /\ \E next \in {"free", "serve"} : Goto("confirm", next)
    /\ UNCHANGED <<vars, mode, qr, qrExpires, startup, phase>>

\* Tailscale is set up, or cannot be, or an administrator may be able to.
ConfigureServe ==
    /\ \E next \in {"free", "deactivate", "elevate"} : Goto("serve", next)
    /\ UNCHANGED <<vars, mode, qr, qrExpires, startup, phase>>

\* The prompt for an administrator and the process it starts have no timeout either.
RunElevated ==
    /\ \E next \in {"free", "deactivate"} : Goto("elevate", next)
    /\ UNCHANGED <<vars, mode, qr, qrExpires, startup, phase>>

\* modeMu waits for a user.
Asking == apc \in {"confirm", "elevate"}

\* Mutant of Deactivate: the quick tunnel serves on until it is closed.
DeactivateLater ==
    /\ UNCHANGED vars /\ Goto("deactivate", "switch")
    /\ UNCHANGED <<mode, qr, qrExpires, startup, phase>>

Deactivate ==
    /\ SetActive(FALSE) /\ Goto("deactivate", "switch")
    /\ UNCHANGED <<mode, qr, qrExpires, startup, phase>>

SwitchToTailscale ==
    /\ \/ Goto("switch", "switchClose") /\ mode' = "tailscale"
       \/ Goto("switch", "restore") /\ UNCHANGED mode
    /\ UNCHANGED <<vars, qr, qrExpires, startup, phase>>

\* Mutant of Restore: an error is reported, and that is all.
RestoreNothing ==
    /\ UNCHANGED vars /\ Goto("restore", "free")
    /\ UNCHANGED <<mode, qr, qrExpires, startup, phase>>

Restore ==
    /\ IF mode = "simple" THEN SetActive(TRUE) ELSE UNCHANGED vars
    /\ Goto("restore", "free")
    /\ UNCHANGED <<mode, qr, qrExpires, startup, phase>>

SwitchClose ==
    /\ Close /\ Goto("switchClose", "switchClosing")
    /\ UNCHANGED <<mode, qr, qrExpires, startup, phase>>

\* configureConnection "revoke", lines 319-325.
ConfigureRevoke ==
    /\ apc = "free"
    /\ Revoke
    /\ qr' = 0 /\ qrExpires' = 0
    /\ UNCHANGED <<mode, apc, action, startup, phase>>

-----------------------------------------------------------------------------
(* The end of Run: Serve has returned (lines 165-171), then the deferred    *)
(* function of lines 130-136 takes modeMu and closes the Service.  Handlers  *)
(* that are under way may still get modeMu before it, or after.             *)

Shutdown ==
    /\ phase = "running" /\ phase' = "stopping"
    /\ UNCHANGED <<vars, mode, apc, action, qr, qrExpires, startup>>

ExitClose ==
    /\ phase = "stopping"
    /\ Close /\ Goto("free", "exitClosing")
    /\ UNCHANGED <<mode, qr, qrExpires, startup, phase>>

\* Service.Close returns to whoever called it.
CloseReturns ==
    /\ CloseRuntime
    /\ \/ Goto("undoClosing", "free") /\ UNCHANGED <<qr, qrExpires, phase>>
       \/ Goto("switchClosing", "free") /\ qr' = 0 /\ qrExpires' = 0 /\ UNCHANGED phase
       \/ Goto("exitClosing", "free") /\ phase' = "stopped" /\ UNCHANGED <<qr, qrExpires>>
    /\ UNCHANGED <<mode, startup>>

\* The process is gone, or about to be.
Exited == phase = "stopped" /\ apc = "free" /\ UNCHANGED allVars

-----------------------------------------------------------------------------
ConfigureStep ==
    \/ CallStart \/ StartContinues \/ StartReturns \/ SaveSimple \/ UndoStart
    \/ Activate \/ AskPaired \/ AskPending \/ OfferQR \/ OfferFails
    \/ Prepare \/ ConfigureServe
    \/ Deactivate \/ SwitchToTailscale \/ Restore \/ SwitchClose \/ CloseReturns

\* What the Service does on its own: tunnels, watchers, phones that pair, the
\* clock.  Clipboard operations, which SimpleService has, change nothing that the
\* agent looks at.
ServiceStep ==
    /\ \/ \E r \in Runs : TunnelExits(r) \/ Watcher(r)
       \/ \E c \in Calls : CallRefused(c) \/ pairLocked(c) \/ pairRefused(c)
       \/ \E c \in Calls, t \in 0..tickets : ReceivePair(c, t)
       \/ Tick
    /\ UNCHANGED agentVars

AgentNext ==
    \/ \E a \in {"simple", "pair"} : ConfigureSimple(a)
    \/ StartupConfigures \/ ConfigureTailscale \/ ConfigureRevoke
    \/ ConfigureStep \/ ConfirmHTTPS \/ RunElevated \/ TunnelAnswers
    \/ Shutdown \/ ExitClose \/ Exited
    \/ ServiceStep

AgentSpec == AgentInit /\ [][AgentNext]_allVars

\* The goroutine that holds modeMu goes on: every wait of a Start or Close and every
\* Tailscale command ends in its own timeout, so this holds even when cloudflared never
\* prints a URL (Launch) and when no probe ever comes back (VerifyOk), which no fairness
\* is assumed of.  The deferred function of Run gets modeMu before the other goroutines
\* that wait for it have had it again and again, as sync.Mutex promises; a watcher whose
\* tunnel is gone goes on.  No user, phone or tunnel has to do anything: a question of
\* prepareTailnet may stay open for ever.
AgentFairness ==
    /\ WF_allVars(ConfigureStep)
    /\ SF_allVars(ExitClose)
    /\ \A r \in Runs : WF_allVars(Watcher(r) /\ UNCHANGED agentVars)

FairAgentSpec == AgentSpec /\ AgentFairness

-----------------------------------------------------------------------------
(* Properties.                                                              *)

\* The quick-tunnel entry serves phones only while the saved mode is simple, when the
\* Tailscale entry, which wants the mode tailscale, refuses them: at no point of a
\* switch, a failed save or a failed Start are both open (agent.go:282-311 against 106).
EntriesExclusive == active => mode = "simple"

\* A switch to Tailscale that could not be saved leaves the quick tunnel serving
\* as before (agent.go:286-288): nobody is left with no entry.
ChosenEntryServes == apc = "free" /\ mode = "simple" /\ ready => active

\* The QR on the dashboard is the one the Service accepts, and a ticket the
\* Service accepts is on the dashboard: simplePairing, which the agent keeps,
\* never goes its own way (agent.go:262, 294, 317, 325).
QRIsTheTicket ==
    apc = "free" /\ PairingPending => qr = ticket /\ qrExpires = expires /\ active

\* With modeMu free and another mode than simple there is no server and no
\* cloudflared (docs/SPEC.md:522), whatever went wrong on the way.
AgentInv ==
    /\ AgentTypeOK
    /\ apc = "free" /\ mode # "simple" => \A r \in Runs : ~serverUp[r] /\ wire[r] # "up"

\* As long as no question stays open for ever, every action of the dashboard comes to an
\* end and gives modeMu back, although cloudflared may print no URL and no probe may be
\* answered, and Run returns once Serve has, however many actions wait for modeMu with
\* it (agent.go:130-136, 269).  A question that is never answered holds them all
\* (platform_windows.go:168, 182).
ActionsEnd ==
    []<>~Asking => /\ apc # "free" ~> apc = "free"
                   /\ phase = "stopping" ~> phase = "stopped"
=============================================================================
