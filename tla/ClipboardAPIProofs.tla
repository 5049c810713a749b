--------------------------- MODULE ClipboardAPIProofs ---------------------------
(***************************************************************************)
(* For any requests, and as many rotations, accounts and calls as they like:  *)
(* one transaction at a time, nothing of it left behind without a word, only   *)
(* for those who were trusted, and to the promise of SharedClipboard.         *)
(***************************************************************************)
EXTENDS ClipboardAPI, TLAPS

\* Which steps a platform takes, and which an operation.
PathInv ==
    /\ holder = Nobody <=> pc = "enter"
    /\ platform = "wayland" => user = "nobody" /\ pc \in {"enter", "find", "run", "exit", "free"}
    /\ platform = "windows" => pc \notin {"find", "run", "exit"}
    /\ pc \in {"alloc", "fill", "empty", "set"} => op = "write"
    /\ pc = "read" => op = "read"
    /\ pc \in {"run", "exit"} => op # "available"
    /\ pc \in {"opened", "read", "empty", "set", "close"} => user = "agent"

\* WriteText's block is its own until it is set.
BlockInv ==
    op = "write" /\ pc \in {"fill", "owner", "open", "opened", "empty", "set"} => block = "ours"

\* Only a write changes the content, and is told "written" when it has; "busy" and "no
\* text" are only said when nothing was changed.
DidInv ==
    /\ holder = Nobody => did = "none"
    /\ did # "none" => /\ op = "write" /\ pc \in {"set", "close", "destroy", "exit", "free"}
                       /\ res \notin {"noText", "busy"}
    /\ res = "ok" /\ op = "write" /\ pc \in {"close", "destroy", "exit", "free"} => did = "written"
    /\ res = "noText" => op = "read"
    /\ pc \in {"alloc", "fill", "owner", "open", "opened", "empty", "set", "find", "run"} =>
         res = "ok"

\* Only a read has a text, and answers with it.
SeenInv ==
    /\ holder = Nobody => copy = Nobody
    /\ copy # Nobody => op = "read" /\ pc \in {"close", "destroy", "exit", "free"}
    /\ res = "ok" /\ op = "read" /\ pc \in {"close", "destroy", "exit", "free"} => copy # Nobody

\* While the agent has the clipboard open only the agent changes it.
HeldInv ==
    pc \in {"opened", "read", "empty", "set", "close"} =>
        /\ did = "none" => content = before
        /\ did = "wiped" => content = NoText
        /\ did = "written" => content = holder

\* A call that has nothing to report has closed what it opened.
ClosedInv == pc \in {"destroy", "free"} /\ res = "ok" => user # "agent"

WorkInv == DidInv /\ SeenInv /\ HeldInv /\ ClosedInv

\* Whoever brings a credential that is valid now has had a valid one.
TrustInv ==
    \A r \in Requests : at[r] = "authorize" /\ cred[r] \in Valid => good[r]

\* What a transaction keeps to.
TransactionInv == SessionInv /\ PathInv /\ BlockInv /\ WorkInv

-----------------------------------------------------------------------------
(* The transaction.                                                          *)

\* What a step of the API does to the session: a step of the transaction or of the
\* other programs, the mutex, a context that is done, or nothing.
SessionMove ==
    \/ Step \/ Expire \/ OthersUse \/ Unlock
    \/ \E r \in Requests, o \in {"available", "read", "write"} : Lock(r, o)
    \/ /\ \E r \in Requests : gone' = gone \cup {r}
       /\ UNCHANGED <<callVars, pc, answerVars, late, systemVars, blockVars, unclean>>
    \/ UNCHANGED sessionVars

LEMMA TransactionStep == TransactionInv /\ SessionMove => TransactionInv'
<1> SUFFICES ASSUME TransactionInv, SessionMove PROVE TransactionInv'
  OBVIOUS
<1> USE ContentsAssumption
    DEF SessionMove, Step, At, Goto, callVars, answerVars, blockVars, systemVars, sessionVars,
        Refuse, Alloc, Fill, CreateOwner, TryOpen, OpenCancelled, OpenLate, Opened, Read,
        EmptyFails, EmptyClipboard, SetFails, SetClipboardData, Close, DestroyOwner,
        Find, Run, Exit, Expire, OthersUse, Unlock, Lock
<1>1. SessionTypeOK /\ PathInv /\ BlockInv /\ WorkInv
  BY DEF TransactionInv, SessionInv
<1>2. /\ op = "write" => AfterOpened = "empty"
      /\ op = "read" => AfterOpened = "read"
      /\ op \notin {"read", "write"} => AfterOpened = "close"
  BY DEF AfterOpened
<1>3. res = "cleanup" => At("destroy") \/ At("free")
  BY DEF TransactionInv, SessionInv
<1>4. SessionTypeOK'
  <2>1. CallTypeOK'
    <3>1. platform' \in {"windows", "wayland"} /\ op' \in {"available", "read", "write"}
      BY <1>1, <1>2 DEF SessionTypeOK, CallTypeOK
    <3>2. holder' \in Requests \cup {Nobody}
      BY <1>1, <1>2 DEF SessionTypeOK, CallTypeOK
    <3>3. pc' \in {"enter", "alloc", "fill", "owner", "open", "opened", "read", "empty", "set",
               "close", "destroy", "free", "find", "run", "exit"}
      BY <1>1, <1>2 DEF SessionTypeOK, CallTypeOK
    <3>4. res' \in Results
      BY <1>1, <1>2 DEF SessionTypeOK, CallTypeOK, Results
    <3>5. copy' \in Requests \cup {Desk, Nobody}
      BY <1>1, <1>2 DEF SessionTypeOK, CallTypeOK, SystemTypeOK, Contents
    <3>6. gone' \subseteq Requests /\ late' \in BOOLEAN
      BY <1>1, <1>2 DEF SessionTypeOK, CallTypeOK
    <3> QED
      BY <3>1, <3>2, <3>3, <3>4, <3>5, <3>6 DEF CallTypeOK
  <2>2. SystemTypeOK'
    <3>1. window' \in BOOLEAN
      BY <1>1, <1>2 DEF SessionTypeOK, SystemTypeOK
    <3>2. user' \in {"nobody", "agent", "other"}
      BY <1>1, <1>2 DEF SessionTypeOK, SystemTypeOK
    <3>3. content' \in Contents
      BY <1>1, <1>2 DEF SessionTypeOK, CallTypeOK, SystemTypeOK, Contents
    <3>4. before' \in Contents
      BY <1>1, <1>2 DEF SessionTypeOK, CallTypeOK, SystemTypeOK, Contents
    <3>5. did' \in {"none", "wiped", "written"}
      BY <1>1, <1>2 DEF SessionTypeOK, SystemTypeOK
    <3> QED
      BY <3>1, <3>2, <3>3, <3>4, <3>5 DEF SystemTypeOK
  <2>3. BlockTypeOK'
    <3>1. block' \in {"none", "ours", "system"}
      BY <1>1, <1>2 DEF SessionTypeOK, BlockTypeOK
    <3>2. owned' \in BOOLEAN
      BY <1>1, <1>2 DEF SessionTypeOK, BlockTypeOK
    <3>3. unclean' \in BOOLEAN /\ dangling' \in BOOLEAN
      BY <1>1, <1>2 DEF SessionTypeOK, BlockTypeOK
    <3> QED
      BY <3>1, <3>2, <3>3 DEF BlockTypeOK
  <2> QED
    BY <2>1, <2>2, <2>3 DEF SessionTypeOK
<1> USE DEF SessionTypeOK, CallTypeOK, SystemTypeOK, BlockTypeOK
<1>5. PathInv'
  BY <1>1, <1>2 DEF Contents, PathInv
<1>6. BlockInv'
  BY <1>1, <1>2 DEF Contents, PathInv, BlockInv
<1>7. DidInv'
  BY <1>1, <1>2 DEF Contents, WorkInv, PathInv, DidInv
<1>8. SeenInv'
  BY <1>1, <1>2 DEF Contents, WorkInv, PathInv, SeenInv
<1>9. HeldInv'
  BY <1>1, <1>2 DEF Contents, WorkInv, PathInv, DidInv, HeldInv
<1>10. ClosedInv'
  BY <1>1, <1>2 DEF Contents, WorkInv, PathInv, ClosedInv
<1>11. SessionInv'
  <2>1. user' = "agent" =>
       unclean' \/ res' = "cleanup" \/ At("opened")' \/ At("read")' \/ At("empty")' \/ At("set")' \/ At("close")'
    <3>1. user = "agent" =>
            unclean \/ res = "cleanup" \/ At("opened") \/ At("read") \/ At("empty") \/ At("set") \/ At("close")
      BY DEF TransactionInv, SessionInv
    <3> SUFFICES ASSUME user' = "agent", ~unclean', res' # "cleanup"
                 PROVE  holder' # Nobody /\ pc' \in {"opened", "read", "empty", "set", "close"}
      OBVIOUS
    <3>2. ~unclean
      BY <1>1
    <3>3. res # "cleanup"
      BY <1>1, <1>3
    <3>4. CASE user = "agent"
      BY <3>1, <3>2, <3>3, <3>4, <1>1, <1>2 DEF PathInv
    <3>5. CASE user # "agent"
      BY <3>5, <1>1, <1>2 DEF PathInv
    <3> QED
      BY <3>4, <3>5
  <2>2. window' =>
       \/ unclean' \/ res' = "cleanup"
       \/ holder' # Nobody /\ pc' \in {"open", "opened", "read", "empty", "set", "close", "destroy"}
    <3>1. window =>
            \/ unclean \/ res = "cleanup"
            \/ holder # Nobody /\ pc \in {"open", "opened", "read", "empty", "set", "close", "destroy"}
      BY DEF TransactionInv, SessionInv
    <3> SUFFICES ASSUME window', ~unclean', res' # "cleanup"
                 PROVE  /\ holder' # Nobody
                        /\ pc' \in {"open", "opened", "read", "empty", "set", "close", "destroy"}
      OBVIOUS
    <3>2. ~unclean
      BY <1>1
    <3>3. res # "cleanup"
      BY <1>1, <1>3
    <3>4. CASE window
      BY <3>1, <3>2, <3>3, <3>4, <1>1, <1>2 DEF PathInv
    <3>5. CASE ~window
      BY <3>5, <1>1, <1>2 DEF PathInv
    <3> QED
      BY <3>4, <3>5
  <2>3. res' = "cleanup" => At("destroy")' \/ At("free")'
    BY <1>1, <1>2 DEF TransactionInv, SessionInv, PathInv, BlockInv
  <2>4. (owned' <=> block' = "ours") /\ ~dangling'
    BY <1>1, <1>2 DEF TransactionInv, SessionInv, PathInv, BlockInv
  <2>5. holder' = Nobody => ~owned'
    BY <1>1, <1>2 DEF TransactionInv, SessionInv, PathInv, BlockInv
  <2>6. At("empty")' \/ At("set")' \/ At("fill")' \/ (At("owner")' /\ op' = "write") => block' = "ours"
    BY <1>1, <1>2 DEF TransactionInv, SessionInv, PathInv, BlockInv
  <2> HIDE DEF SessionMove, At
  <2> QED
    BY <1>4, <2>1, <2>2, <2>3, <2>4, <2>5, <2>6 DEF SessionInv
<1> HIDE DEF SessionMove, SessionTypeOK
<1> QED
  BY <1>5, <1>6, <1>7, <1>8, <1>9, <1>10, <1>11 DEF TransactionInv, WorkInv

-----------------------------------------------------------------------------
(* The requests.                                                             *)

IInv == TransactionInv /\ APITypeOK /\ RequestInv /\ OnlyTheTrusted /\ TrustInv

\* Every step of the API moves the session, or leaves it.
LEMMA SessionMoves == APITypeOK /\ [Next]_apiVars => SessionMove
<1> SUFFICES ASSUME APITypeOK, [Next]_apiVars PROVE SessionMove
  OBVIOUS
<1>1. CASE Inside \/ Return \/ TimePasses \/ Desktop
  BY <1>1 DEF Inside, Return, TimePasses, Desktop, SessionMove
<1>2. ASSUME NEW r \in Requests, Call(r) PROVE SessionMove
  <2>1. want[r] \in {"available", "read", "write"}
    BY DEF APITypeOK
  <2> QED
    BY <1>2, <2>1 DEF Call, SessionMove
<1>3. ASSUME NEW r \in Requests, Cancel(r) PROVE SessionMove
  BY <1>3 DEF Cancel, SessionMove
<1>4. CASE UNCHANGED sessionVars
  BY <1>4 DEF SessionMove
<1> QED
  BY <1>1, <1>2, <1>3, <1>4
     DEF Next, apiVars, Arrive, TurnAway, Authorize, ReadBody, Rotate, SwitchAccount, SwitchMode

\* What the handler may say, by what the transaction has done.
LEMMA ResponseIs ==
  ASSUME NEW a \in Response
  PROVE  \/ a = "error"
         \/ op = "available" /\ a = "available"
         \/ op = "write" /\ res = "ok" /\ a = "written"
         \/ op = "read" /\ res = "ok" /\ a = copy
         \/ res = "noText" /\ a = "empty"
         \/ res = "busy" /\ a = "busy"
<1>1. CASE op = "available"
  BY <1>1 DEF Response
<1>2. CASE op # "available" /\ res = "ok" /\ op = "write"
  BY <1>2 DEF Response
<1>3. CASE op # "available" /\ res = "ok" /\ op = "read"
  BY <1>3 DEF Response
<1>4. CASE op # "available" /\ res = "noText"
  BY <1>4 DEF Response
<1>5. CASE op # "available" /\ res = "busy"
  BY <1>5 DEF Response
<1>6. CASE op # "available" /\ res \notin {"noText", "busy"} /\ ~(res = "ok" /\ op \in {"read", "write"})
  BY <1>6 DEF Response
<1> QED
  BY <1>1, <1>2, <1>3, <1>4, <1>5, <1>6

\* It is a word, or a text that has been read.
LEMMA ResponseType ==
  ASSUME SessionTypeOK, PathInv, WorkInv, At("free"), NEW a \in Response
  PROVE  a \in Words \cup Requests \cup {Desk} /\ a # "none"
<1>1. op = "read" /\ res = "ok" => copy \in Requests \cup {Desk}
  BY DEF SessionTypeOK, CallTypeOK, WorkInv, SeenInv, At
<1> QED
  BY <1>1, ResponseIs, AnswersAssumption DEF Words

\* Nobody brings no credential; those that were valid can always be brought.
LEMMA CredentialsAre ==
    /\ NoCredential \notin Credentials
    /\ UNCHANGED token => Credentials' = Credentials
    /\ APITypeOK /\ token' = token + 1 => Credentials \subseteq Credentials'
BY DEF Credentials, NoCredential, APITypeOK

LEMMA APITypeStep == TransactionInv /\ APITypeOK /\ [Next]_apiVars => APITypeOK'
<1> SUFFICES ASSUME TransactionInv, APITypeOK, [Next]_apiVars PROVE APITypeOK'
  OBVIOUS
<1> USE MaxChangesAssumption, CredentialsAre DEF APITypeOK, requestVars, configVars
<1>1. ASSUME NEW r \in Requests, NEW o \in {"available", "read", "write"}, NEW c \in Credentials,
             Arrive(r, o, c)
      PROVE  APITypeOK'
  <2>1. cred' \in [Requests -> Credentials \cup {NoCredential}]
    BY <1>1 DEF Arrive
  <2>2. good' \in [Requests -> BOOLEAN]
    <3> DEFINE valid == c \in Valid
    <3>1. valid \in BOOLEAN
      OBVIOUS
    <3>2. good' \in {good, [good EXCEPT ![r] = valid]}
      BY <1>1 DEF Arrive
    <3> HIDE DEF valid
    <3> QED
      BY <3>1, <3>2
  <2>3. /\ at' \in [Requests -> {"idle", "authorize", "body", "call", "inside", "answered"}]
        /\ want' \in [Requests -> {"available", "read", "write"}]
    BY <1>1 DEF Arrive
  <2>4. answer' \in [Requests -> {"none"} \cup Words \cup Requests \cup {Desk}]
    BY <1>1 DEF Arrive, Words
  <2>5. UNCHANGED configVars
    BY <1>1 DEF Arrive
  <2> QED
    BY <2>1, <2>2, <2>3, <2>4, <2>5
<1>2. ASSUME NEW r \in Requests, TurnAway(r) \/ ReadBody(r) \/ Authorize(r)
      PROVE  APITypeOK'
  BY <1>2 DEF TurnAway, ReadBody, Authorize, Answer, Proceed, Words
<1>3. ASSUME NEW r \in Requests, Call(r) PROVE APITypeOK'
  BY <1>3 DEF Call, Proceed
<1>4. CASE Return
  <2>1. PICK a \in Response : Answer(holder, a)
    BY <1>4 DEF Return
  <2>2. a \in Words \cup Requests \cup {Desk}
    BY <1>4, ResponseType DEF Return, Unlock, TransactionInv, SessionInv
  <2>3. holder \in Requests
    BY <1>4 DEF Return, Unlock, At, TransactionInv, SessionInv, SessionTypeOK, CallTypeOK
  <2> QED
    BY <1>4, <2>1, <2>2, <2>3 DEF Return, Answer
<1>5. CASE Rotate
  BY <1>5 DEF Rotate, Changeable, Became
<1>6. CASE SwitchAccount
  BY <1>6 DEF SwitchAccount, Changeable, Became
<1>8. CASE SwitchMode
  BY <1>8 DEF SwitchMode
<1>7. CASE UNCHANGED <<requestVars, configVars>>
  BY <1>7
<1> HIDE DEF APITypeOK
<1> QED
  BY <1>1, <1>2, <1>3, <1>4, <1>5, <1>6, <1>7, <1>8
     DEF Next, Inside, TimePasses, Desktop, Cancel, apiVars

LEMMA RequestStep == TransactionInv /\ APITypeOK /\ RequestInv /\ [Next]_apiVars => RequestInv'
<1> SUFFICES ASSUME TransactionInv, APITypeOK, RequestInv, [Next]_apiVars PROVE RequestInv'
  OBVIOUS
<1> USE ContentsAssumption, CredentialsAre
    DEF APITypeOK, RequestInv, requestVars, configVars, sessionVars, callVars
<1>1. ASSUME NEW r \in Requests, NEW o \in {"available", "read", "write"}, NEW c \in Credentials,
             Arrive(r, o, c)
      PROVE  RequestInv'
  BY <1>1 DEF Arrive
<1>2. ASSUME NEW r \in Requests, TurnAway(r) \/ ReadBody(r) PROVE RequestInv'
  BY <1>2 DEF TurnAway, ReadBody, Answer, Proceed
<1>3. ASSUME NEW r \in Requests, Authorize(r) PROVE RequestInv'
  BY <1>3 DEF Authorize, Proceed
<1>4. ASSUME NEW r \in Requests, Call(r) PROVE RequestInv'
  BY <1>4 DEF Call, Lock, Proceed
<1>5. CASE Return
  <2>1. PICK a \in Response : Answer(holder, a)
    BY <1>5 DEF Return
  <2>2. a # "none"
    BY <1>5, ResponseType DEF Return, Unlock, TransactionInv, SessionInv
  <2>3. holder \in Requests
    BY <1>5 DEF Return, Unlock, At, TransactionInv, SessionInv, SessionTypeOK, CallTypeOK
  <2> QED
    BY <1>5, <2>1, <2>2, <2>3 DEF Return, Unlock, Answer
<1>6. CASE Rotate \/ SwitchAccount \/ SwitchMode
  BY <1>6 DEF Rotate, SwitchAccount, SwitchMode
<1>7. CASE UNCHANGED <<holder, op, requestVars, configVars>>
  BY <1>7
<1>8. Inside \/ TimePasses \/ Desktop => UNCHANGED <<holder, op, requestVars, configVars>>
  BY DEF Inside, TimePasses, Desktop, Step, Expire, OthersUse, Goto, Refuse, Alloc, Fill,
         CreateOwner, TryOpen, OpenCancelled, OpenLate, Opened, Read, EmptyFails, EmptyClipboard,
         SetFails, SetClipboardData, Close, DestroyOwner, Find, Run, Exit
<1> HIDE DEF APITypeOK, RequestInv
<1> QED
  BY <1>1, <1>2, <1>3, <1>4, <1>5, <1>6, <1>7, <1>8 DEF Next, Cancel, apiVars

\* Whoever gets on with a credential that is valid now has had a valid one.
LEMMA TrustStep ==
    APITypeOK /\ OnlyTheTrusted /\ TrustInv /\ [Next]_apiVars => OnlyTheTrusted' /\ TrustInv'
<1> SUFFICES ASSUME APITypeOK, OnlyTheTrusted, TrustInv, [Next]_apiVars
             PROVE  OnlyTheTrusted' /\ TrustInv'
  OBVIOUS
<1> USE CredentialsAre DEF APITypeOK, OnlyTheTrusted, TrustInv, requestVars, configVars
<1>1. ASSUME NEW r \in Requests, NEW o \in {"available", "read", "write"}, NEW c \in Credentials,
             Arrive(r, o, c)
      PROVE  OnlyTheTrusted' /\ TrustInv'
  BY <1>1 DEF Arrive, Valid
<1>2. ASSUME NEW r \in Requests, TurnAway(r) \/ ReadBody(r) \/ Authorize(r)
      PROVE  OnlyTheTrusted' /\ TrustInv'
  BY <1>2 DEF TurnAway, ReadBody, Authorize, Answer, Proceed, Valid
<1>3. ASSUME NEW r \in Requests, Call(r) PROVE OnlyTheTrusted' /\ TrustInv'
  BY <1>3 DEF Call, Proceed, Valid
<1>4. CASE Return
  BY <1>4 DEF Return, Answer, Valid
<1>5. CASE Rotate \/ SwitchAccount
  BY <1>5 DEF Rotate, SwitchAccount, Became
<1>6. CASE UNCHANGED <<requestVars, token, account>>
  BY <1>6 DEF Valid
<1> HIDE DEF APITypeOK, OnlyTheTrusted, TrustInv
<1> QED
  BY <1>1, <1>2, <1>3, <1>4, <1>5, <1>6
     DEF Next, Inside, TimePasses, Desktop, Cancel, SwitchMode, apiVars

LEMMA InitClipboard == Init => IInv
<1> USE MaxChangesAssumption, ContentsAssumption DEF Init, SessionInit
<1>1. Init => TransactionInv
  BY DEF TransactionInv, SessionInv, SessionTypeOK, CallTypeOK, SystemTypeOK, BlockTypeOK, Results,
         Contents, PathInv, BlockInv, WorkInv, DidInv, SeenInv, HeldInv, ClosedInv, At
<1>2. Init => APITypeOK
  BY DEF APITypeOK
<1>3. Init => RequestInv /\ OnlyTheTrusted /\ TrustInv
  BY DEF RequestInv, OnlyTheTrusted, TrustInv
<1> QED
  BY <1>1, <1>2, <1>3 DEF IInv

LEMMA ClipboardStep == IInv /\ [Next]_apiVars => IInv'
BY SessionMoves, TransactionStep, APITypeStep, RequestStep, TrustStep DEF IInv

\* Every reachable state has it: the transaction's clean-up, the requests' steps and
\* the trust put in them.
THEOREM Inductive == Spec => []IInv
BY InitClipboard, ClipboardStep, PTL DEF Spec

\* Requests use the clipboard one at a time, each with the operation it asked for, and a
\* transaction leaves nothing behind without saying so (APIInv; clipboard.go:32-57,
\* native_session.go:29-49).
THEOREM OneAtATime == Spec => []APIInv
<1>1. IInv => APIInv
  BY DEF IInv, APIInv, TransactionInv
<1> QED
  BY <1>1, Inductive, PTL

\* A revoked token and a former account stay out (OnlyTheTrusted; server.go:117-145).
THEOREM StrangersStayOut == Spec => []OnlyTheTrusted
<1>1. IInv => OnlyTheTrusted
  BY DEF IInv
<1> QED
  BY <1>1, Inductive, PTL

-----------------------------------------------------------------------------
(* The promise of SharedClipboard.                                           *)

Same == UNCHANGED <<Shown, want, Done, Seen, Told>>

LEMMA SharedInit == Init => Shared!Init
<1> USE ContentsAssumption DEF Init, SessionInit, Shared!Init
<1> SUFFICES ASSUME Init PROVE Shared!Init
  OBVIOUS
<1>1. Shown \in {Desk, NoText} /\ want = [r \in Requests |-> "available"]
  BY DEF Shown
<1>2. Done = [r \in Requests |-> "none"]
  BY DEF Done
<1>3. Seen = [r \in Requests |-> Nobody]
  BY DEF Seen
<1>4. Told = [r \in Requests |-> "idle"]
  BY DEF Told
<1> QED
  BY <1>1, <1>2, <1>3, <1>4

\* The transaction does what shows in one step, or nothing that shows.
LEMMA SharedInside == IInv /\ Inside => Shared!Next \/ Same
<1> SUFFICES ASSUME IInv, Inside PROVE Shared!Next \/ Same
  OBVIOUS
<1>1. /\ SessionTypeOK /\ PathInv /\ WorkInv /\ APITypeOK /\ RequestInv
      /\ holder # Nobody
  BY DEF IInv, TransactionInv, SessionInv, Inside, Step, At, Goto, Refuse, Alloc, Fill, CreateOwner, TryOpen,
         OpenCancelled, OpenLate, Opened, Read, EmptyFails, EmptyClipboard, SetFails,
         SetClipboardData, Close, DestroyOwner, Find, Run, Exit
<1>2. holder \in Requests /\ Told[holder] = "asked" /\ want[holder] = op
  BY <1>1 DEF SessionTypeOK, CallTypeOK, RequestInv, Told
<1>3. UNCHANGED <<holder, op, want, Told>>
  BY DEF Inside, requestVars, Told, Step, Goto, callVars, Refuse, Alloc, Fill, CreateOwner, TryOpen,
         OpenCancelled, OpenLate, Opened, Read, EmptyFails, EmptyClipboard, SetFails,
         SetClipboardData, Close, DestroyOwner, Find, Run, Exit
<1>4. ASSUME UNCHANGED <<Shown, copy>>, user' = "agent" \/ did' = "none", user = "agent" \/ did = "none"
      PROVE  Same
  BY <1>3, <1>4 DEF Same, Done, Seen
<1>5. CASE UNCHANGED <<user, content, before, did, copy>>
  BY <1>3, <1>5 DEF Same, Shown, Done, Seen
<1>6. CASE Refuse \/ Alloc \/ Fill \/ CreateOwner \/ OpenCancelled \/ OpenLate \/ Opened \/ EmptyFails
           \/ SetFails \/ DestroyOwner \/ Find \/ Exit
  BY <1>5, <1>6 DEF Refuse, Alloc, Fill, CreateOwner, OpenCancelled, OpenLate, Opened, EmptyFails,
           SetFails, DestroyOwner, Find, Exit, systemVars, answerVars
<1>7. CASE TryOpen
  BY <1>1, <1>4, <1>5, <1>7 DEF TryOpen, Goto, At, Shown, WorkInv, DidInv
<1>8. CASE EmptyClipboard \/ SetClipboardData
  BY <1>1, <1>4, <1>8 DEF EmptyClipboard, SetClipboardData, Goto, At, PathInv, Shown, answerVars
<1>9. ASSUME op = "read", copy' = Shown, Shown # NoText, UNCHANGED <<Shown, user, did>>
      PROVE  Shared!Look(holder)
  <2>1. Shown \in Shared!Texts
    BY <1>1, <1>9 DEF Shown, Shared!Texts, SessionTypeOK, SystemTypeOK, Contents
  <2>2. Seen' = [Seen EXCEPT ![holder] = Shown]
    BY <1>2, <1>3, <1>9 DEF Seen
  <2>3. Done' = Done
    BY <1>3, <1>9 DEF Done
  <2> QED
    BY <1>2, <1>3, <1>9, <2>1, <2>2, <2>3 DEF Shared!Look
<1>10. ASSUME op = "write", user = "agent" \/ did = "none", user' # "agent", UNCHANGED copy,
              \/ did' = "written" /\ Shown' = holder
              \/ did' = "wiped" /\ Shown' = NoText
       PROVE  Shared!Write(holder) \/ Shared!Wipe(holder)
  <2>1. Done' = [Done EXCEPT ![holder] = did'] /\ Done[holder] = "none"
    BY <1>2, <1>3, <1>10 DEF Done
  <2>2. Seen' = Seen
    BY <1>3, <1>10 DEF Seen
  <2> QED
    BY <1>2, <1>3, <1>10, <2>1, <2>2 DEF Shared!Write, Shared!Wipe
<1>11. CASE Read
  <2>1. Shown = content /\ UNCHANGED <<Shown, user, content, before, did>> /\ op = "read"
    BY <1>1, <1>11 DEF Read, Goto, At, systemVars, PathInv, WorkInv, DidInv, HeldInv, Shown
  <2>2. CASE UNCHANGED copy
    BY <2>1, <2>2, <1>5
  <2> QED
    BY <1>2, <1>9, <1>11, <2>1, <2>2 DEF Read, Shared!Next
<1>12. CASE Close
  <2>1. /\ user = "agent" /\ UNCHANGED <<content, did, copy>>
        /\ did = "none" => content = before
        /\ did = "wiped" => content = NoText
        /\ did = "written" => content = holder
        /\ did # "none" => op = "write"
    BY <1>1, <1>12 DEF Close, Goto, At, PathInv, WorkInv, DidInv, HeldInv
  <2>2. CASE UNCHANGED <<user, before>>
    BY <2>1, <2>2, <1>5
  <2>3. CASE user' = "nobody"
    <3>1. Shown = before /\ Shown' = content
      BY <2>1, <2>3 DEF Shown
    <3>2. CASE did = "none"
      BY <1>4, <2>1, <3>1, <3>2
    <3>3. CASE did # "none"
      <4>1. did \in {"wiped", "written"}
        BY <1>1, <3>3 DEF SessionTypeOK, SystemTypeOK
      <4> QED
        BY <1>2, <1>10, <2>1, <2>3, <3>1, <4>1 DEF Shared!Next
    <3> QED
      BY <3>2, <3>3
  <2> QED
    BY <1>12, <2>2, <2>3 DEF Close
<1>13. CASE Run
  <2>1. user # "agent" /\ UNCHANGED user /\ Shown = content /\ Shown' = content'
    BY <1>1, <1>13 DEF Run, Goto, At, PathInv, SessionTypeOK, CallTypeOK, Shown
  <2>2. CASE op = "write"
    <3>1. content' = holder /\ did' = "written" /\ UNCHANGED copy /\ did = "none"
      BY <1>1, <1>13, <2>2 DEF Run, answerVars, Goto, At, WorkInv, DidInv
    <3> QED
      BY <1>2, <1>10, <2>1, <2>2, <3>1 DEF Shared!Next
  <2>3. CASE op # "write" /\ UNCHANGED copy
    BY <1>5, <1>13, <2>3 DEF Run
  <2>4. CASE op # "write" /\ ~UNCHANGED copy
    BY <1>2, <1>9, <1>13, <2>1, <2>4 DEF Run, Shared!Next
  <2> QED
    BY <2>2, <2>3, <2>4
<1> QED
  BY <1>6, <1>7, <1>8, <1>11, <1>12, <1>13 DEF Inside, Step

\* What the computer's programs do.
LEMMA SharedDesktop == IInv /\ Desktop => Shared!Next \/ Same
<1> SUFFICES ASSUME IInv, Desktop PROVE Shared!Next \/ Same
  OBVIOUS
<1>1. user # "agent" /\ user' # "agent" /\ (content' \in {Desk, NoText} \/ UNCHANGED content)
  BY DEF IInv, TransactionInv, PathInv, Desktop, OthersUse
<1>2. Shown' = content' /\ Shown = content
  BY <1>1 DEF Shown
<1>3. UNCHANGED <<want, Done, Seen, Told>>
  BY <1>1 DEF Desktop, OthersUse, callVars, answerVars, requestVars, Done, Seen, Told
<1> QED
  BY <1>1, <1>2, <1>3 DEF Shared!Next, Shared!CopyOnDesk, Same

\* A request comes, is refused or gets on; the clipboard is as it was.
LEMMA SharedRequest ==
  ASSUME IInv, NEW r \in Requests,
         \/ \E o \in {"available", "read", "write"}, c \in Credentials : Arrive(r, o, c)
         \/ TurnAway(r) \/ Authorize(r) \/ ReadBody(r)
  PROVE  Shared!Next \/ Same
<1>1. /\ APITypeOK /\ RequestInv
      /\ UNCHANGED sessionVars /\ at[r] \in {"idle", "authorize", "body"}
  BY DEF IInv, Arrive, TurnAway, Authorize, ReadBody
<1>2. UNCHANGED <<Shown, Done, Seen>> /\ r # holder
  BY <1>1 DEF Shown, Done, Seen, RequestInv, sessionVars, callVars, answerVars, systemVars
<1>3. Done[r] = "none" /\ Seen[r] = Nobody
  BY <1>2 DEF Done, Seen
<1>4. ASSUME NEW o \in {"available", "read", "write"}, NEW c \in Credentials, Arrive(r, o, c)
      PROVE  Shared!Ask(r, o) \/ Shared!Reject(r, o)
  <2>1. Told[r] = "idle" /\ want' = [want EXCEPT ![r] = o]
    BY <1>4 DEF Arrive, Told
  <2>2. \/ Told' = [Told EXCEPT ![r] = "asked"]
        \/ Told' = [Told EXCEPT ![r] = "refused"]
    BY <1>1, <1>4 DEF Arrive, Told, APITypeOK
  <2> QED
    BY <1>2, <2>1, <2>2 DEF Shared!Ask, Shared!Reject
<1>5. ASSUME at[r] # "idle", at[r] # "answered", Answer(r, "refused") PROVE Shared!Tell(r, "refused")
  <2>1. Told[r] = "asked" /\ Told' = [Told EXCEPT ![r] = "refused"]
    BY <1>1, <1>5 DEF Answer, Told, APITypeOK
  <2>2. Shared!True(r, "refused")
    BY <1>3, AnswersAssumption DEF Shared!True, Shared!Texts, Words
  <2>3. Done' = [Done EXCEPT ![r] = "none"] /\ Seen' = [Seen EXCEPT ![r] = Nobody]
    BY <1>2, <1>3 DEF Done, Seen
  <2> QED
    BY <1>2, <1>5, <2>1, <2>2, <2>3 DEF Shared!Tell, Answer
<1>6. ASSUME NEW to \in {"body", "call"}, at[r] \in {"authorize", "body"}, Proceed(r, to) PROVE Same
  <2>1. UNCHANGED <<want, Told>>
    BY <1>1, <1>6 DEF Proceed, Told, APITypeOK
  <2> QED
    BY <1>2, <2>1 DEF Same
<1>7. CASE TurnAway(r) \/ Authorize(r) \/ ReadBody(r)
  BY <1>5, <1>6, <1>7 DEF TurnAway, Authorize, ReadBody, Shared!Next, Shared!Replies
<1> QED
  BY <1>4, <1>7 DEF Shared!Next

\* A call begins with nothing done, and its end says truly what has been.
LEMMA SharedCall == ASSUME IInv, NEW r \in Requests, Call(r) PROVE Same
<1>1. holder = Nobody /\ holder' = r /\ UNCHANGED systemVars /\ did = "none" /\ copy' = Nobody
      /\ at' = [at EXCEPT ![r] = "inside"] /\ at[r] = "call" /\ UNCHANGED <<want, answer>>
  BY DEF Call, Lock, Proceed, IInv, TransactionInv, WorkInv, DidInv
<1>2. UNCHANGED <<Shown, Done, Seen>>
  BY <1>1, ContentsAssumption DEF Shown, Done, Seen, systemVars
<1>3. UNCHANGED Told
  BY <1>1 DEF Told, IInv, APITypeOK
<1> QED
  BY <1>1, <1>2, <1>3 DEF Same

LEMMA SharedReturn == IInv /\ Return => Shared!Next
<1> SUFFICES ASSUME IInv, Return PROVE Shared!Next
  OBVIOUS
<1>1. PICK a \in Response : Answer(holder, a)
  BY DEF Return
<1>2. /\ SessionTypeOK /\ PathInv /\ WorkInv /\ APITypeOK /\ RequestInv
      /\ At("free") /\ holder \in Requests /\ holder' = Nobody /\ UNCHANGED <<user, content, before>>
      /\ at[holder] = "inside" /\ want[holder] = op
  BY DEF IInv, TransactionInv, SessionInv, Return, Unlock, At, SessionTypeOK, CallTypeOK, RequestInv
<1>3. a \in Words \cup Requests \cup {Desk}
  BY <1>2, ResponseType
<1>4. Told[holder] = "asked" /\ Told' = [Told EXCEPT ![holder] = a]
  BY <1>1, <1>2 DEF Answer, Told, APITypeOK
<1>5. Shared!True(holder, a)
  <2>1. Done[holder] = (IF user # "agent" THEN did ELSE "none") /\ Seen[holder] = copy
    BY <1>2 DEF Done, Seen
  <2>2. a = "written" => Done[holder] = "written"
    BY <1>2, <2>1, ResponseIs, AnswersAssumption
       DEF At, WorkInv, DidInv, SeenInv, ClosedInv, SessionTypeOK, CallTypeOK, Words
  <2>3. a = "available" => want[holder] = "available"
    BY <1>2, ResponseIs, AnswersAssumption
       DEF At, WorkInv, SeenInv, SessionTypeOK, CallTypeOK, Words
  <2>4. a \in Shared!Texts => a = Seen[holder]
    BY <2>1, ResponseIs, AnswersAssumption DEF Shared!Texts, Words
  <2>5. a \in {"refused", "busy", "empty"} => Done[holder] = "none"
    BY <1>2, <2>1, ResponseIs, AnswersAssumption
       DEF At, WorkInv, DidInv, SeenInv, SessionTypeOK, CallTypeOK, Words
  <2> QED
    BY <2>2, <2>3, <2>4, <2>5 DEF Shared!True
<1>6. UNCHANGED Shown /\ UNCHANGED want
  BY <1>1, <1>2 DEF Shown, Answer
<1>7. Done' = [Done EXCEPT ![holder] = "none"] /\ Seen' = [Seen EXCEPT ![holder] = Nobody]
  BY <1>2, ContentsAssumption DEF Done, Seen
<1>8. Shared!Tell(holder, a)
  BY <1>4, <1>5, <1>6, <1>7 DEF Shared!Tell
<1>9. a \in Shared!Replies \cup Shared!Texts
  BY <1>3 DEF Words, Shared!Replies, Shared!Texts
<1> QED
  BY <1>2, <1>8, <1>9 DEF Shared!Next

LEMMA SharedStep == IInv /\ [Next]_apiVars => [Shared!Next]_<<Shown, want, Done, Seen, Told>>
<1> SUFFICES ASSUME IInv, [Next]_apiVars PROVE Shared!Next \/ Same
  BY DEF Same
<1>1. ASSUME NEW r \in Requests, Cancel(r) PROVE Same
  BY <1>1 DEF Cancel, callVars, answerVars, systemVars, requestVars, Same, Shown, Done, Seen, Told
<1>2. CASE TimePasses
  BY <1>2 DEF TimePasses, Expire, callVars, answerVars, systemVars, requestVars, Same, Shown, Done, Seen, Told
<1>3. CASE Rotate \/ SwitchAccount \/ SwitchMode \/ UNCHANGED apiVars
  BY <1>3 DEF Rotate, SwitchAccount, SwitchMode, apiVars, sessionVars, callVars, answerVars, systemVars,
              requestVars, Same, Shown, Done, Seen, Told
<1> QED
  BY <1>1, <1>2, <1>3, SharedInside, SharedDesktop, SharedRequest, SharedCall, SharedReturn DEF Next

\* The clipboard API does what SharedClipboard promises: a request's work is done at one
\* moment between its arrival and its answer, and the answer is true
\* (ImplementsClipboard; native_session.go:29-77, clipboard.go:32-57, server.go:165-276).
THEOREM KeepsThePromise == Spec => ImplementsClipboard
<1> USE DEF ImplementsClipboard, Shared!Spec, Shared!sharedVars
<1> QED
  BY SharedInit, SharedStep, Inductive, PTL DEF Spec
=============================================================================
