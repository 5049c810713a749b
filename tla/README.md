# TailBlink in TLA+

TailBlink shares the text clipboard of a desktop (Windows, Linux/Wayland) with an
iPhone. A desktop agent serves an HTTP API; iOS shortcuts send and fetch text.
There are two ways in, of which the user chooses one:

* **A, the Tailscale entry**: `tailscale serve` proxies `/tailblink` to the agent
  on `127.0.0.1:17733`; the phone holds a long-lived token of the saved
  configuration.
* **B, the quick tunnel**: the agent runs `cloudflared`, which gets a random
  `*.trycloudflare.com` host; the phone scans a QR with a one-time ticket and
  exchanges it for a token that lives as long as the tunnel.

All paths below are relative to the repository (`src/` here).
`PROJECT.json` lists the components, runs, mutants, hazards and theorems, and maps
every definition to the lines it models.

## 1. Inventory

| Part | State | Operations | Talks to |
|---|---|---|---|
| `internal/simple/service.go` Service | active, ready, paired, host, session, credential, ticket, expires, limiter, runtime; two mutexes | Start, verify, Close, SetActive, NewPairing, Revoke, ServeHTTP, the tunnel's watcher | agent (calls), tunnel (process), phones (HTTP), clipboard |
| `internal/tunnel` | one cloudflared process, its temp directory and job object, the `done` and `found` channels | Start, Close, output parser, InstallCompanion | Service, the operating system |
| `internal/agent` | modeMu, the saved mode, simplePairing, stop channel | Run, configureConnection, dashboardData, openSetup, shutdown | all the others |
| `internal/config` | the Store in memory, `config.json` on disk | OpenStore, Update, Save, RotateToken | agent, and every other TailBlink process through the file |
| `internal/webui/dashboard_host.go` | listener, server, entries, idle timer | Open, GET, action, rotate, Close | browser on the desktop, agent |
| `internal/pairing` | sessions of the Tailscale entry, 15 minutes each | Create, Get | dashboardData, `/setup/` pages |
| `internal/api` | rate limiter; a request's checks | health, status, read, write | clipboard, Store, tailscale (whose account) |
| `internal/clipboard` | the mutex; on Windows an owner window and memory handles, on Linux a command | Available, ReadText, WriteText | Windows/Wayland, other programs |
| `internal/tailscale` | `tailscale serve` configuration (external) | Status, ServeConfigured, EnsureServe, RemoveServe | tailscale CLI |
| `internal/logging` | the log file and its size | Write, rotate, Close | agent |
| `cmd/tailblink` | processes: launchers, the agent with its tray (window, icon, message queue) | runAgent, defaultAction, ensureAgent, stopAgent, openSettings, install, uninstall | agent over HTTP, files, registry, Explorer |
| `shortcuts`, `packaging`, `tools` | build scripts and signed shortcuts | | not part of the running program |

What is hard in it: request bodies that arrive after the check that admitted
them; watchers of tunnels that are no longer in use; many places where one step of
several fails, each with its own clean-up; a switch of entries made of three steps;
copies of tickets and tokens kept for a page; timers whose callback is already on its
way when they are stopped; a clipboard that all programs share; commands killed before or
after they have done their work; a mutex held while a user is asked; a thread with message loops within one another that two
other goroutines wait for; files replaced while processes die, and agents and launchers
that share them. `PROJECT.json` lists each
at its line under `hazards`.

What makes each part correct:

* Service: a ticket is redeemed once, in time, on the tunnel it was shown for; a
  clipboard operation is done only for the token in force at that moment; nothing
  outlives its tunnel; Start and Close return; an exit is noticed.
* tunnel: a Start that fails leaves nothing; a Close that returns has seen the end;
  the address is found however the output is cut.
* agent: at most one entry serves; the chosen entry serves after a failed switch;
  the QR shown is the ticket accepted; no tunnel without mode simple; every action
  ends, as long as no question it asks the user stays open.
* config and launchers: the file is always whole; nothing is in force that was not
  saved; an agent alone serves what the file says; every launcher ends.
* dashboard and pairing: no page shows a token revoked before it was asked for; a QR
  works until it expires, the token is rotated or the mode changed; a failure is shown
  once; the host closes when it is idle.
* clipboard and API: a request does its work at one moment and its answer says so;
  the clipboard is closed and cleaned up between calls, or a caller has been told; only a
  credential that was valid while the request was there gets in; every request is
  answered; the limit holds.
* logging: the log is bounded and loses its oldest part only.
* agent process: told to end by whomever, it ends, with its icon and without a tunnel,
  once the user has answered what it asks; the icon survives Explorer.
* installation: while the login or Tailscale refers to the program, it is there; a
  success reported is a success.

## 2. Modules

| Module | Models | |
|---|---|---|
| `PairingAuthority` | the abstract promise of the quick tunnel: tickets, one token in force, clipboard use | specification |
| `SimpleService` | `simple/service.go`, whole | implements `PairingAuthority` |
| `SimpleServiceProofs` | | theorems about `SimpleService`, the refinement among them, and on top of them those about `Agent` |
| `Agent` | `agent.go` driving `SimpleService` (EXTENDS it) | composition |
| `AgentProcess` | `runAgent`, `Agent.Run` and the tray's thread | composition |
| `AgentProcessProofs` | | theorems about `AgentProcess` |
| `TunnelHandle` | the abstract promise of `tunnel.Start` | specification |
| `TunnelProcess` | `tunnel/process.go` and its Windows part, the goroutines of one call of Start | implements `TunnelHandle` |
| `TunnelProcessProofs` | | theorems about `TunnelProcess`, the refinement among them |
| `UrlOutput` | the parser of cloudflared's output | pure algorithm |
| `ConfigFile` | the steps of `config.Save`, LoadOrCreate and Update, in several processes | used by `Launcher` |
| `Launcher` | agents and launchers of `cmd/tailblink/main.go` that meet over the port and the file (EXTENDS `ConfigFile`) | composition |
| `LauncherProofs` | | theorems about `Launcher` and the file |
| `SharedClipboard` | the abstract promise of the clipboard API | specification |
| `ClipboardSession` | the system clipboard on Windows and Linux | used by `ClipboardAPI` |
| `ClipboardAPI` | requests of the Tailscale entry, `internal/api` and its mode check (EXTENDS `ClipboardSession`) | implements `SharedClipboard` |
| `ClipboardAPIProofs` | | theorems about `ClipboardAPI` and its sessions, the refinement among them |
| `RateLimiter` | the limiter of `internal/api` | |
| `RotatingLog` | `internal/logging` | |
| `PartsProofs` | | theorems about `UrlOutput`, `RateLimiter` and `RotatingLog` |
| `Dashboard` | the dashboard host, `dashboardData` and the pairing sessions | composition |
| `DashboardProofs` | | theorems about `Dashboard` |
| `WindowsInstall` | installation, preparation of Tailscale, uninstallation | |
| `WindowsInstallProofs` | | theorems about `WindowsInstall` |
| `MC...` | | instances for TLC; `MCParts` is the sum of `UrlOutput`, `RateLimiter` and `RotatingLog` |

### SimpleService

One step is one critical section of `Service.mu`, or one action taken with no lock
held (closing a server, waiting for cloudflared). `lifecycle` admits one Start or
Close at a time, so a single program counter `lpc` serves for both, and `victim` is
the runtime they took out of the Service. A tunnel (`runtime`) is the number of the
Start that made it; so is its session. Tokens and tickets are numbered as they are
generated, 0 being the empty string: `GenerateToken` never repeats itself. A POST is
two steps with the lock released in between (`Receive...`, then `pairLocked`,
`pairRefused`, `ServeWrite` or `CallRefused`); a GET is one. The watcher of a tunnel
has its own two steps. Which URL cloudflared prints, whether a probe through the
tunnel comes back, and when it exits are free choices (`Launch`, `VerifyOk`,
`TunnelExits`).

`offeredIn`, `grantedFor` and `grantedIn` are history: no action reads them.

### Agent

`modeMu` is held from the first to the last step of `configureConnection`; `apc` is
where its holder is. The steps that call the Service are the Service's own actions,
conjoined with the move of `apc`. Saving the mode either succeeds or leaves the old
mode. A switch to Tailscale first asks Tailscale and then, on Windows, the user, with
`modeMu` held: `Prepare`, `ConfirmHTTPS` (a message box), `ConfigureServe` and
`RunElevated` (a prompt for an administrator); in the second and the last it waits for
the user (`Asking`), who may not answer. Handlers that are under way when Serve
returns may still get `modeMu`, before the deferred Close and after it. Run's startup goroutine, its deferred Close and the dashboard's four actions
compete. A Service that was never needed (nil) is the initial one.

### TunnelProcess and UrlOutput

Each goroutine has its own program counter: `pc` for startBinary, `waiter` for the one
of line 89, `closer` for callers of Close, `once` for the sync.Once they share; `Write`
is os/exec's copying goroutine. `killed` and `child` are apart because a killed process
is gone only when it has been waited for. The text of the output is one bit here (it
holds an address or not); `UrlOutput` has the text, with short addresses and a small
buffer in the same proportions as the code's. Its addresses are what the pattern matches
but for the `\b` at its end, which is modelled: the text ends after an address, or a
character follows that is not part of a word.

### ConfigFile and Launcher

A configuration is a number, new for every Update, so that the token of one is not that
of another. `disk` is what readers see, `settled` what a power failure leaves; Windows
writes a rename through. `overlap` marks agents that started while another process had
the file open: what they serve may differ from the file (section 6). Every wait of a
launcher may end in success or in its timeout; an agent answers `/local/shutdown` and
gives the port back later (`Stop`, `Leave`), and one that does not answer in time is
taken for gone (`WaitGone`, `WaitUp`).

### ClipboardSession and ClipboardAPI

`holder` has `Synchronized.mu`; `pc` walks through WriteText or ReadText and the
transaction, with its deferred steps `close`, `destroy` and `free` in their order, or on
Linux through the command, which may do its work and still be killed or fail. `did` is
what the call has done to the clipboard, to be compared with its answer.

A request arrives once, with an operation and a credential: the number of the rotation
that made its token, or the number of its account. `at` is the check it waits for: the
mode and the limiter as it arrives, then the credential, the body, the mutex. `good` is
history: its credential has been valid since it arrived.

`SharedClipboard` has no mutex, no window, no command: a request writes once, wipes or
looks at one moment and is then told something true. What a transaction changes counts
when it closes the clipboard, because nobody else can look before; hence `before` in the
mapping. A write that was cancelled may have happened on Linux; only a request told
"written" must have, and one told "busy", "empty" or "refused" must not.

### AgentProcess

`main` is runAgent and the main function that shows its error in a message box, if there
is one (`errors`), before the process ends (`fatal`); `run` is Agent.Run, `ui` the tray's thread and `nested` the loops it
is within: a menu or a message box opens in the middle of a message of another and
dispatches messages in turn. `queue` holds each kind of message once, which loses nothing,
as a second one of a kind finds nothing left to do. PostMessage to a window that has gone
does nothing; WM_QUIT comes when nothing else is left. What a change of the mode does is
one step (module `Agent` has them), after which there may be a tunnel; on Windows it may
wait for the user before (`ask`, `Answer`).

### RateLimiter, RotatingLog

The limiter's clock stops after three windows; `admitted`, history, has the time at
which each request was let in. The log's steps each fail or succeed; records may be cut
by a full disk; the agent may end in each step and start again. A file is the numbers of
its records and its bytes; a record that was cut counts, with fewer bytes.

### Dashboard

A request is a record of its handler's local variables; its steps are the critical
sections of the three mutexes it takes one after the other. `Tailscale` answering or
not, whether data for a session are complete, and Configure's outcome (module `Agent`),
are free choices. `Setup` is what a phone that opens the QR's page is given at this
moment. An idle timer that has
fired is a callback that waits for `mu` (`firing`), whatever is done to the timer since.

### WindowsInstall

One process installs, uninstalls or prepares at a time, one step per system call that
matters; it may fail, die or lose power in each. `image` is the file the running agent
was started from: Windows lets a running program be renamed, not replaced or removed.
The running agent's tray may set or clear the autostart between any two steps
(`ToggleAutostart`). `disturbed` is history and marks what the program itself does not
guard against, so that the properties exclude it: a process that began while the
directory of an uninstalled program was still to be removed, a second after the
uninstallation; a tray that set the autostart again after the uninstallation had
removed it; an uninstallation that found no Tailscale CLI while Tailscale served the path.

## 3. Runs

| Run | Bounds | Shows |
|---|---|---|
| `simple_service` | 2 tunnels, 2 hosts, 2 handlers, 2 tickets, 3 tokens, 1 tick, ticket life 1, 2 attempts per tick | types; nothing outlives its tunnel, nothing leaks; `SimpleService` implements `PairingAuthority` |
| `agent_modes` | 2 tunnels, 1 handler, 2 tickets, 2 tokens, 1 tick | the entries exclude each other, the QR is the ticket, no tunnel without its mode |
| `agent_liveness` | 2 tunnels, 1 ticket, 2 tokens, 1 tick, no phones | every action of the dashboard ends and Run returns unless a question stays open, an exit is noticed, the server follows its tunnel |
| `tunnel_process` | 2 callers of Close, Windows | it implements `TunnelHandle`, `TunnelInv`, cloudflared is always managed, Start and Close return |
| `tunnel_crash` | as above | counterexample: see section 6 |
| `parts` | 8 characters (two of words, one not) in chunks of up to 3, buffer 4 cut to 2, two addresses; limit 2 in a window of 3, 9 ticks; 5 records of 1, 2 or 5 bytes, files of 4 | the first address is found; the limit holds; the log is the end of what was written, and bounded |
| `launcher` | 1 launcher, 1 old and 2 new agents, 2 configurations, not Windows | the file is whole and what is in force was in it, an agent alone owns the file, launchers end |
| `clipboard_api` | 2 requests, one change of token, account or mode, both platforms | clean-up, only the trusted get in, `ClipboardAPI` implements `SharedClipboard`, every request is answered |
| `api_late_write` | 1 request | counterexample: see section 6 |
| `dashboard` | 2 requests after a first page that may hold an error, 1 tick, session life 1 | fresh QRs, which give phones the token in force, errors shown once, an idle host closes |
| `windows_install` | 2 versions, one setup after another without bound | the program survives, reported results are true |
| `agent_process` | with and without a tray, Explorer that restarts without bound, 2 nested loops | runAgent returns unless a question stays open, without icon and tunnel; the icon comes back |

The bounds are constants that stop generators and the clock (`MaxRuns`, `MaxTickets`,
`MaxTokens`, `MaxTime`, `MaxConfigs`, `MaxChunk`, `MaxPrinted`, `MaxChanges`, `LastTime`,
`MaxRecords`, `MaxNested`, `N`, `MaxNow`); at a
bound the operation is simply not called any more (`Listen` of the Service may still
fail). Two tunnels are enough for a watcher of the first to meet the second; two
handlers for two phones to race for a ticket; two tickets for one to replace the
other; a tick lets a ticket be redeemed before and refused at its expiry, and the limiter
start anew; the host of a second tunnel may or may not be that of the first. Eight
characters exceed the buffer twice. Two configurations are one in force and one being
saved, and three processes are an agent, one that ends and one that starts. Two
requests and the first page of the initial state give a page that is read while it is
rotated, acted on or closed. Two requests of the API contend for the mutex, and one change
suffices to make a credential or the mode stale between its check and its use. Three
windows let two of them touch; five records fill the log, its backup and one more. A menu
in which a message box opens, and the reverse, are two nested loops. Handler slots, hosts and versions are symmetric. What the
theorems of section 5 cover holds for all bounds.

Runs with `CHECK_DEADLOCK FALSE` may stop: all generators used up, every request
answered, nothing installed and nobody who installs.

Every property has a mutant: a definition changed as a plausible bug would change
it, under which the same run fails. The mutated forms stand before the definitions
they mutate, commented as mutants.

## 4. Fairness

Assumed of the program's own goroutines and processes only.

* `SimpleService`, `Agent`: the goroutine in Start or Close goes on (every wait in it
  has a timeout, so `LaunchFails` and `VerifyFails` suffice and neither a URL nor a
  successful probe is assumed), a watcher whose tunnel has exited goes on, and the holder
  of modeMu goes on, except where it waits for a user: `ConfirmHTTPS` and `RunElevated`
  have no fairness, because the message box and the prompt have no timeout. `ActionsEnd`
  therefore has the premise `[]<>~Asking`, that no question stays open for ever. The
  deferred Close gets the mutex although others want it again and again (strong
  fairness of `ExitClose`: Go's mutex starves nobody).
* `TunnelProcess`: its goroutines go on, the timer of 25 seconds fires, and a process
  that was killed dies.
* `Launcher`: a launcher goes on; its waits have deadlines, so nothing is assumed of
  agents.
* `ClipboardAPI`: handlers go on, the second of retryOpenClipboard passes, and a mutex is
  handed to those who wait (strong fairness of `Call`: Go's mutex starves nobody); other
  programs need not let the clipboard go. On Linux `Exit` is among the steps: it is
  assumed that wl-copy and wl-paste end. wl-copy leaves a process behind; whether that
  keeps the captured stderr open, for which `command.Run` would wait
  (`backend_linux.go:61`), is not decided in this repository.
* `AgentProcess`: runAgent, Run and the watcher go on; a change of the mode that waits for
  no user ends (`Agent`'s `ActionsEnd`; `Answer` has no fairness, so `ExitEnds` has the
  premise that no question stays open for ever) and modeMu goes to those who wait (strong fairness of `LockModeMu`); the
  tray's thread takes its messages. It is not assumed that a user answers a menu or a
  message box, the one with the error of runAgent among them (`ReadFatal`), nor that the tray answers within the 2 seconds of its Close.
* `Dashboard`: a timer fires, and its callback gets `mu`, which nobody keeps.

None is assumed of users, phones, cloudflared that nobody killed, or the clock of
tickets.

## 5. Proofs

TLAPS proves, for all values of the constants that satisfy the modules' assumptions,
every safety invariant and every action property of the passing runs, and the three
refinements. Each module has an inductive invariant, one lemma per conjunct or per
group of actions that preserves it, and theorems that follow from it.

* `SimpleServiceProofs`: `Spec => []TypeOK`, `[]TicketSingleUse`,
  `[]PairedInThisSession`, `[]ReadyIsCurrent` and `[]NoOrphan`. None is inductive by
  itself. `IInv` adds where the goroutine in Start or Close is and what it holds
  (`LifecycleInv`: a `Publish` finds the session, host and runtime of its own Start),
  that whatever still runs is in somebody's hands (`ReachInv`), that the Service is
  ready only between calls (`ReadyInv`), and that no token has been granted for a
  ticket that is still open (`TicketInv`). One lemma per conjunct has one step per
  action; `TypeStep` carries the types. `KeepsAuthority` is the refinement: each step
  is one of `PairingAuthority` or a stutter. It needs one more invariant, that what is
  generated next has not been granted (`FreshTokens`). `SecretsOver` proves an action
  property, `SecretsAreFinal`: no step brings back a token or a ticket that is over,
  moves the expiry of a ticket, takes a token to another tunnel or ends a pairing whose
  token stays. It needs that a token in force has been generated (`Issued`), because
  Listen, Revoke and pairLocked put the next one in force.
* The second part of `SimpleServiceProofs`: `[]EntriesExclusive`, `[]ChosenEntryServes`, `[]QRIsTheTicket` and
  `[]AgentInv` of the composition. Every step of the agent is a step of the Service or
  leaves it (`ServiceMoves`), so `IInv` comes from the first part and is not proved
  again; nor are `ImplementsAuthority` and `SecretsAreFinal`, which `AgentKeepsAuthority`
  carries over to the composition. What the agent adds is at which stages of a switch the Service's own goroutine
  is at work (`StageInv`), which mode and `active` each stage has (`EntryInv`; all
  properties but `EntriesExclusive` speak of the moment when modeMu is free and say
  nothing of the stages; the four steps of prepareTailnet leave both as they are), and that a tunnel without its mode is on its way to be saved
  or taken back (`TunnelInv`). `QRInv`, in contrast, holds in every stage: the agent's
  copy of the ticket is overwritten in the step that gets a new one.
* `TunnelProcessProofs`: `Spec => []TunnelInv`, from it `[]ErrorLeavesNothing`,
  `[]ClosedIsGone`, `[]RunsManaged`, and that `TunnelProcess` implements
  `TunnelHandle`: each step maps to a step of the handle or to a stutter. `TunnelInv`
  says which goroutine will remove what exists: startBinary until `attach`, then the
  waiting goroutine.
* `LauncherProofs`: `[]OnlyTheSaved`, `[]LauncherInv` and `[]LoneAgentOwnsFile`, for
  any number of agents and launchers. The last is the delicate one. `LoneInv` says what
  makes an agent alone: until it listens nobody else has a Store, and once it does the
  others have at most loaded the file, so nobody else saves and what it has renamed is
  still there when Save returns. A launcher or a failure takes a process through one of
  a few steps (`ProcStep`), so the launchers' own program counters stay out of it.
  `ConfigInv` says of a save under way that the configuration it writes had been made,
  without which it is not inductive. `MaxConfigs` is at least 1: an agent that finds no
  file makes one.
* `ClipboardAPIProofs`: `[]APIInv`, `[]OnlyTheTrusted` and the refinement of
  `SharedClipboard`. `SessionInv` says what is open, owned or left behind, not why.
  `TransactionInv` adds which steps a platform and an operation take (`PathInv`), that
  a memory block is the transaction's own until it is set (`BlockInv`), that only a
  write changes the content, and that `res`, `did` and `copy` agree in every step
  (`DidInv`, `SeenInv`), and that
  while the agent has the clipboard open its content is what the agent has made of
  `before` (`HeldInv`); the last three are what the mapping needs. A call that answers
  without an error has closed the clipboard (`ClosedInv`), so that its effect shows when
  the request is answered. `TrustInv` is the step before `OnlyTheTrusted`: whoever
  brings a credential that is valid now is marked as having had one. No request and no
  desktop text has the name of an answer (`AnswersAssumption`): in the model a text is
  the name of who wrote it, and "written" must not be mistaken for one.
* `AgentProcessProofs`: `[]ProcessInv` and `[]IconGone`, for any depth of nested menus
  and message boxes. `ChangeInv` says which changes of the mode can still leave a tunnel
  after Run's deferred Close; `TrayInv` that an icon is only ever added to a window that
  is there, also by a message that waits while a menu is open, and that a tray that
  failed to start has no icon and gets none. That an error is shown only where there is
  one, and where there is a tray, needs to know who has returned which (`ErrorInv`).
* `DashboardProofs`: `[]DashboardInv`, `[]FreshQR`, `[]QRWorks` and `[]ErrorShownOnce`,
  for any number of requests. `DashboardInv` needs only that a request's page is one there
  has been (`RequestInv`); its `TokenInv` bounds the token a request has got on its way
  from both sides (`TokenOf`): no older than the request, no newer than the Store's. With
  the token unchanged since then both are the same, and with no two sessions of one nonce
  (`NonceInv`) `Setup` finds that session and no other: that is `QRWorks`. `ErrorShownOnce` needs to know where a failure is: `ErrorInv`
  says that it waits on one page or is carried by one request, never both, and that a
  request that may still fail has left nothing anywhere. The copy that an action or a
  rotation takes of a page does not count until the operation has been tried, as nobody
  sees it.
* `WindowsInstallProofs`: `Spec => []InstallInv`, from it `[]ProgramSurvives`,
  `InstallLeavesProgram` and `UninstallLeavesNothing`. `InstallInv` adds that only the
  new file is ever unsynced, that it is complete when it is renamed, and from which
  step on the installed program is the new one, and that the autostart and the path, once
  removed, stay so until the files go (`ProgramInv`, unless `disturbed`). What the steps of finish may do is one
  formula (`FinishEffect`), which keeps the invariant whatever step it was.

* `PartsProofs`: `[]FirstAddressFound`, `[]RateBounded` and `[]LogIsTheEnd`.
  `OutputInv` says that the buffer is the end of what was printed, all of it or at least
  `Keep` characters (`BufferInv`). A match that a chunk completes begins less than an
  address before the chunk (`NewMatch`), so the buffer has it (`BufferSuffices`); and what
  was found first stays first, as an address that ends later and begins earlier would
  contain the one found (`FoundStays`). `AddressAssumption` has what these need: an
  address has at most `Keep + 1` characters and none is part of another. The pattern
  gives the second: an address begins with `https://`, and no `:` or `/` comes after it.
  It does not give the first, but the names of the domain do, which have at most 63
  characters where 4096 are kept. That a text with a match has a leftmost one
  (`LeastExists`) is taken from the well-foundedness of inclusion among finite sets, as
  induction is out of reach. `WindowInv` counts back from the last request: the last
  `count` are in the window, what is `RateLimit` further back, or follows a pause, is a
  window older than `windowStart`; the two lemmas about `Admit` are its two branches.
  `LogInv` says that the records of the log count up to `written` and those of the
  backup up to where the log begins (`LastRecords`), and at each step of a rotation
  which of the files may be given up (`RotationInv`: the log is renamed only when it
  has something, created only when it has been renamed).

`SecretsAreFinal` has no run of its own; TLC confirmed it within the bounds of
`simple_service`, without symmetry (7,124,616 states). `ErrorLeavesNothing` and
`ClosedIsGone` follow from `TunnelInv` and need no run of their
own. Nothing is assumed but what the modules state of their constants, which TLC
evaluates in every run.

Model-checked only: all liveness (`ExitNoticed`, `ActionsEnd`, `CallsReturn`,
`LauncherEnds`, `RequestEnds`, `IdleCloses`, `ExitEnds`, `IconPersists`), for which the
prover has no rules, and the two counterexamples of section 6.

## 6. Findings

* `NoLateWrite` (`agent.go:106`): README.md:28 says only one entry is on at a time.
  The Tailscale entry looks at the mode once, before it reads the body; a POST whose
  body ends after the switch still writes the clipboard, while the quick tunnel
  already serves. The quick tunnel repeats its checks after the body.
* `NoChildAfterCrash` (`process.go:76`): docs/SPEC.md:522 says that on Windows the job
  object leaves no child behind when the agent dies. cloudflared is started before it
  is assigned to the job; an agent that dies in between leaves it.

Seen while modelling, in the models, and stated by no run:

* Two agents started together at the first run both create a configuration
  (`main.go:68`, before `agent.go:126` takes the port). The one that listens may hold
  the token that the other's rename replaced, and refuses every launcher until it is
  restarted; README.md:38 expects its page to open. `overlap` excludes it.
* A chmod that fails after the rename (`config.go:201`) makes Update report a failure
  with the new token in the file; `dashboard_host.go:168` then says that nothing has
  changed. `half` excludes it.
* The answer to `/local/shutdown` may be lost as the agent ends (`agent.go:183`): the
  launcher reports a failure and starts no new agent, where docs/SPEC.md:23 has the new
  version started (`StopUnanswered`).
* An agent that no longer listens may still save its mode over what its successor has
  saved (`agent.go:130`; `leaving` in `Launcher`).
* The path under `tailscale serve` is read and set by two commands; another user of it
  may set it in between (`OthersServe`; the comment at internal/tailscale/client.go:159 says it stops if the path has another target).
* An action that ends after its page was rotated away puts the page back under its old
  address (`dashboard_host.go:153`, `FinishAction`), and a rotation asked for when
  Tailscale is offline answers with a page and rotates nothing (`agent.go:209`).
* The limiter's window starts with a request: two windows may touch, and a minute that
  spans both admits up to 120 requests, where docs/SPEC.md:289 speaks of 60 per minute
  (`RateBounded` states the double bound, and the single one after a pause).
* A chunk of cloudflared's output may end right after `.trycloudflare.com`; the `\b` of
  the pattern (`process.go:106`) then holds, whatever the next chunk goes on with
  (`FirstAddressFound` says so).
* A rotation that fails after `w.file.Close()` leaves a closed file that is not nil: every
  later rotation closes it again and fails, and nothing is logged until the agent
  restarts (`logging.go:88`; `file = "closed"` in `RotatingLog`).
* Shutdown makes Run return without waiting for requests under way, and runAgent does not
  wait for the startup goroutine: a change of the mode that gets modeMu after Run's
  deferred Close starts a tunnel just before the process ends (`agent.go:130-143`;
  `latecomer` in `AgentProcess`).
* An icon that Explorer refuses after its restart is not tried again; docs/SPEC.md:446
  has it stay (`refused`).
* A switch to Tailscale holds modeMu while it waits for a message box or for UAC
  (`agent.go:278`, `platform_windows.go:168, 182`). agent_test.go:59 wants no deadline
  there, whereas the comment at dashboard_host.go:137 says that the operations have timeouts
  of their own. As long as the question is open the dashboard waits for its answer, and
  so does the end of the process: Serve has returned and the port is free, but the
  deferred Close has not (`Asking`, `ask`; hence the premises of `ActionsEnd` and
  `ExitEnds`). Likewise an error of runAgent keeps the process until it has been read
  (`main.go:28`).
* A rotation on one page leaves the sessions of others, whose QRs go on handing out the
  token it has revoked (`webui.go:46`), and in the other mode they answer 404
  (`agent.go:86`): `QRWorks` speaks of the time before. dashboard_host.go:107 prevents
  it for pages that are asked for again.
* A rotation is saved before the data for its session are checked (`agent.go:222`,
  `manager.go:43`): a request that is refused then has revoked the token all the same
  (`Create`).
* A setup within a second of an uninstallation loses its files; an agent that the
  uninstallation could not stop may set the autostart again from its menu
  (`tray_windows.go:384`) before they go; and without Tailscale's CLI the uninstallation
  leaves the path to them (`platform_windows.go:209`). All three are `disturbed`.

## 7. Not modelled

* Texts, pages, headers, JSON: a body is a ticket or a token, well formed or not.
* `GET /setup`, `/shortcuts`, `/v1/status`, `/v1/health` change no state; health is
  modelled only as what `verify` and the launchers ask for.
* The syntax of requests: a refusal is one outcome of a step, whatever was wrong.
* `openingSettings`, which lets a double click open one page at a time
  (`tray_windows.go:412`), and what the page's opening does (`Launcher`).
* Failures of `crypto/rand`: they cannot happen in the Go version used.
* Two processes with one log: a second agent opens it before it finds the port taken
  (`main.go:76`), and one whose Serve has returned may still log (`agent.go:140`).
  `RotatingLog` has one writer.
* The time between the answer of the tailscale command and its comparison in authorize
  (`identity.go:50`): the two are one step, because the comparison only looks at what the
  request has brought. The request is admitted on the account that the command has read,
  and does its work in later steps, when the account may be another.
* Message boxes other than those of prepareTailnet, of runAgent's error and of the tray's
  thread: dialogs of the installer are choices.
* A system call of the clipboard that hangs while `Service.mu` is held.
* Two setups at once: nothing keeps them from sharing `TailBlink.exe.new`.
* Rendering (`simple/page.go`, `webui.go`): pages computed from what `Dashboard` and
  `SimpleService` provide, with no state of their own. `shortcuts`, `packaging`, `tools`,
  `.github`: not part of the running program.

## 8. Plan

The modules are complete but for section 7, and what the prover can state of the
properties the runs check is proved. What is left:

1. `NoLateWrite` and `NoChildAfterCrash` with the repairs that suggest themselves (a
   second look at the mode after the body; a process started suspended), to see that
   they hold then.
2. Two setups at once, in a model of their own.
3. Action properties of the parts without an abstract specification: what a rotation of
   the dashboard's page or a Save may never undo.
