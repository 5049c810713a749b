----------------------------- MODULE ClipboardAPI -----------------------------
(***************************************************************************)
(* The Tailscale entry's clipboard requests (internal/api, behind the mode    *)
(* check of internal/agent), from their arrival to their answer: the mode,    *)
(* the rate limit, the token or the account, the body, and the call of the    *)
(* system clipboard, each at a time of its own.  RateLimiter has the limit.   *)
(***************************************************************************)
EXTENDS ClipboardSession, Integers

CONSTANTS
    MaxChanges      \* bound: rotations of the pairing token, changes of the account
                    \* and of the mode

ASSUME MaxChangesAssumption == MaxChanges \in Nat

\* What an answer says, unless it is the text that was read.
Words == {"refused", "busy", "empty", "available", "written", "error"}

ASSUME AnswersAssumption == (Requests \cup {Desk}) \cap (Words \cup {"none", "idle", "asked"}) = {}

VARIABLES
    at,         \* the step each request takes next
    want,       \* its operation
    cred,       \* the credential it brings; NoCredential when it is no longer needed
    answer,     \* "none", or what it was answered; a read, by its text
    entry,      \* the mode is "tailscale"
    token,      \* the pairing token: the number of the rotation that made it
    account,    \* the account of this computer, likewise
    good        \* history: the credential has been valid since the request arrived

requestVars == <<at, want, cred, answer, good>>
configVars  == <<entry, token, account>>
apiVars     == <<sessionVars, requestVars, configVars>>

NoCredential == <<"none", 0>>
Credentials == {<<"token", t>> : t \in 0..token} \cup {<<"login", a>> : a \in 0..MaxChanges}
Valid == {<<"token", token>>, <<"login", account>>}

\* The type invariant.
APITypeOK ==
    /\ at \in [Requests -> {"idle", "authorize", "body", "call", "inside", "answered"}]
    /\ want \in [Requests -> {"available", "read", "write"}]
    /\ cred \in [Requests -> Credentials \cup {NoCredential}]
    /\ answer \in [Requests -> {"none"} \cup Words \cup Requests \cup {Desk}]
    /\ good \in [Requests -> BOOLEAN]
    /\ entry \in BOOLEAN /\ token \in 0..MaxChanges /\ account \in 0..MaxChanges

Init ==
    /\ SessionInit
    /\ at = [r \in Requests |-> "idle"] /\ want = [r \in Requests |-> "available"]
    /\ cred = [r \in Requests |-> NoCredential] /\ answer = [r \in Requests |-> "none"]
    /\ good = [r \in Requests |-> FALSE]
    /\ entry = TRUE /\ token = 0 /\ account = 0

Answer(r, a) ==
    /\ at' = [at EXCEPT ![r] = "answered"] /\ answer' = [answer EXCEPT ![r] = a]
    /\ cred' = [cred EXCEPT ![r] = NoCredential] /\ good' = [good EXCEPT ![r] = FALSE]
    /\ UNCHANGED want

Proceed(r, to) == at' = [at EXCEPT ![r] = to] /\ UNCHANGED <<want, answer, good>>

-----------------------------------------------------------------------------
\* The request arrives, and is refused in another mode or over the limit.
Arrive(r, o, c) ==
    /\ at[r] = "idle"
    /\ want' = [want EXCEPT ![r] = o]
    /\ \/ /\ entry
          /\ at' = [at EXCEPT ![r] = "authorize"] /\ UNCHANGED answer
          /\ cred' = [cred EXCEPT ![r] = c] /\ good' = [good EXCEPT ![r] = c \in Valid]
       \/ /\ at' = [at EXCEPT ![r] = "answered"] /\ answer' = [answer EXCEPT ![r] = "refused"]
          /\ UNCHANGED <<cred, good>>
    /\ UNCHANGED <<sessionVars, configVars>>

\* Another token, another account, or none that tailscale status can tell.
TurnAway(r) ==
    /\ at[r] = "authorize" /\ cred[r] # <<"token", token>> /\ Answer(r, "refused")
    /\ UNCHANGED <<sessionVars, configVars>>

\* Mutant of Authorize: the account is the one the agent found when it started.
AuthorizeCached(r) ==
    /\ at[r] = "authorize"
    /\ \/ cred[r] = <<"token", token>>
       \/ cred[r] = <<"login", 0>>
    /\ Proceed(r, IF want[r] = "write" THEN "body" ELSE "call")
    /\ cred' = [cred EXCEPT ![r] = NoCredential]
    /\ UNCHANGED <<sessionVars, configVars>>

\* The token is compared with the configuration's, the login with the account that
\* tailscale status tells.  The command has read the account in this step; what follows
\* it, the comparison included, only concerns the request, and is in the step "call".
Authorize(r) ==
    /\ at[r] = "authorize" /\ cred[r] \in Valid
    /\ Proceed(r, IF want[r] = "write" THEN "body" ELSE "call")
    /\ cred' = [cred EXCEPT ![r] = NoCredential]
    /\ UNCHANGED <<sessionVars, configVars>>

\* The body is read, and may be too large, not text, or not arrive.
ReadBody(r) ==
    /\ at[r] = "body"
    /\ \/ Proceed(r, "call") /\ UNCHANGED cred
       \/ Answer(r, "refused")
    /\ UNCHANGED <<sessionVars, configVars>>

Call(r) ==
    /\ at[r] = "call" /\ Lock(r, want[r])
    /\ Proceed(r, "inside") /\ UNCHANGED <<cred, configVars>>

\* What the handler makes of the result.  A text that was read may be too long.
Response ==
    CASE op = "available" -> {"available"}
      [] res = "ok" /\ op = "write" -> {"written"}
      [] res = "ok" /\ op = "read" -> {copy, "error"}
      [] res = "noText" -> {"empty"}
      [] res = "busy" -> {"busy"}
      [] OTHER -> {"error"}

Return ==
    /\ Unlock
    /\ \E a \in Response : Answer(holder, a)
    /\ UNCHANGED configVars

-----------------------------------------------------------------------------
\* The phone gives up.  Nobody looks at a request's context before the call.
Cancel(r) ==
    /\ at[r] \in {"call", "inside"} /\ r \notin gone
    /\ gone' = gone \cup {r}
    /\ UNCHANGED <<callVars, pc, answerVars, late, systemVars, blockVars, unclean, requestVars, configVars>>

Became == good' = [r \in Requests |-> good[r] \/ cred[r] \in Valid']

Changeable == token + account + (IF entry THEN 0 ELSE 1) < MaxChanges

Rotate ==
    /\ Changeable /\ token' = token + 1
    /\ UNCHANGED <<entry, account, at, want, cred, answer, sessionVars>> /\ Became

SwitchAccount ==
    /\ Changeable /\ account' = account + 1
    /\ UNCHANGED <<entry, token, at, want, cred, answer, sessionVars>> /\ Became

\* Another entry is chosen, once.
SwitchMode ==
    /\ Changeable /\ entry /\ entry' = FALSE
    /\ UNCHANGED <<token, account, requestVars, sessionVars>>

Inside == Step /\ UNCHANGED <<requestVars, configVars>>
TimePasses == Expire /\ UNCHANGED <<requestVars, configVars>>
Desktop == OthersUse /\ UNCHANGED <<requestVars, configVars>>

Next ==
    \/ \E r \in Requests :
        \/ \E o \in {"available", "read", "write"}, c \in Credentials : Arrive(r, o, c)
        \/ TurnAway(r) \/ Authorize(r) \/ ReadBody(r) \/ Call(r) \/ Cancel(r)
    \/ Inside \/ Return \/ TimePasses \/ Desktop
    \/ Rotate \/ SwitchAccount \/ SwitchMode

Spec == Init /\ [][Next]_apiVars

\* Handlers go on, a body ends within ReadTimeout, wl-copy and wl-paste exit, a Go
\* mutex is handed to those who wait, and time passes; other programs need not let
\* go of the clipboard.
FairSpec ==
    /\ Spec
    /\ WF_apiVars(Inside) /\ WF_apiVars(Return) /\ WF_apiVars(TimePasses)
    /\ \A r \in Requests :
        /\ WF_apiVars(TurnAway(r) \/ Authorize(r)) /\ WF_apiVars(ReadBody(r))
        /\ SF_apiVars(Call(r))

-----------------------------------------------------------------------------
\* A request is in the clipboard with the operation it asked for, and carries its
\* credential only to the authorisation.
RequestInv ==
    \A r \in Requests :
        /\ at[r] = "inside" <=> holder = r
        /\ at[r] = "inside" => op = want[r]
        /\ at[r] = "body" => want[r] = "write"
        /\ at[r] = "answered" <=> answer[r] # "none"
        /\ at[r] = "authorize" <=> cred[r] # NoCredential

\* One request at a time is in the clipboard, with the operation it asked for, and
\* each is answered once it is out (clipboard.go:32-57); what its transaction leaves
\* behind is SessionInv.
APIInv == APITypeOK /\ SessionInv /\ RequestInv

\* A revoked token, and an account that this computer has left, stay out: whoever
\* gets past the authorisation has brought a credential that was valid at some time
\* since the request arrived (server.go:117-145, identity.go:22-60).
OnlyTheTrusted == \A r \in Requests : at[r] \in {"body", "call", "inside"} => good[r]

\* Every request is answered, also when another program never closes the clipboard
\* and when others wait for the same mutex (native_session.go:52, clipboard.go:32).
RequestEnds == \A r \in Requests : at[r] \in {"authorize", "body", "call", "inside"} ~> at[r] = "answered"

\* What the others see of a transaction: what it changes shows when it closes the
\* clipboard.
Shown == IF user = "agent" THEN before ELSE content
Done == [r \in Requests |-> IF r = holder /\ user # "agent" THEN did ELSE "none"]
Seen == [r \in Requests |-> IF r = holder THEN copy ELSE Nobody]
Told == [r \in Requests |-> IF at[r] = "idle" THEN "idle"
                            ELSE IF at[r] = "answered" THEN answer[r] ELSE "asked"]

\* The API keeps the promise of SharedClipboard, whichever platform it runs on.
Shared == INSTANCE SharedClipboard WITH
    shown <- Shown, want <- want, did <- Done, seen <- Seen, answer <- Told
ImplementsClipboard == Shared!Spec

\* "It is refused while another entry is chosen": a request does not write once the
\* Tailscale entry is no longer the mode (agent.go:106, README.md:28).
NoLateWrite == [][did = "none" /\ did' = "written" => entry]_apiVars
=============================================================================
