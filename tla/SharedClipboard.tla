---------------------------- MODULE SharedClipboard ----------------------------
(***************************************************************************)
(* What the clipboard API promises: one clipboard that the computer's         *)
(* programs and the phones' requests share.  A request does its work at one   *)
(* moment between its arrival and its answer, and the answer says so.         *)
(***************************************************************************)
CONSTANTS
    Requests,       \* a request that writes, writes a text of its own
    Desk,           \* a text copied on the computer
    NoText,         \* an empty clipboard, or a picture
    Nobody

VARIABLES
    shown,      \* what a program that opens the clipboard finds
    want,       \* what a request asks for: "available", "read" or "write"
    did,        \* what it has done to the clipboard: "none", "wiped" or "written"
    seen,       \* the text it has read, or Nobody
    answer      \* "idle", "asked", or how it was answered; a read, by its text
sharedVars == <<shown, want, did, seen, answer>>

Texts == Requests \cup {Desk}
Replies == {"refused", "busy", "empty", "available", "written", "error"}

Init ==
    /\ shown \in {Desk, NoText}
    /\ want = [r \in Requests |-> "available"]
    /\ did = [r \in Requests |-> "none"] /\ seen = [r \in Requests |-> Nobody]
    /\ answer = [r \in Requests |-> "idle"]

\* Somebody copies on the computer.
CopyOnDesk ==
    shown' \in {Desk, NoText} /\ UNCHANGED <<want, did, seen, answer>>

Ask(r, o) ==
    /\ answer[r] = "idle"
    /\ want' = [want EXCEPT ![r] = o] /\ answer' = [answer EXCEPT ![r] = "asked"]
    /\ UNCHANGED <<shown, did, seen>>

\* It may be refused as it comes.
Reject(r, o) ==
    /\ answer[r] = "idle"
    /\ want' = [want EXCEPT ![r] = o] /\ answer' = [answer EXCEPT ![r] = "refused"]
    /\ UNCHANGED <<shown, did, seen>>

\* The work of a write, once and whole.
Write(r) ==
    /\ answer[r] = "asked" /\ want[r] = "write" /\ did[r] = "none"
    /\ shown' = r /\ did' = [did EXCEPT ![r] = "written"]
    /\ UNCHANGED <<want, seen, answer>>

\* Windows may take the old content and refuse the new.
Wipe(r) ==
    /\ answer[r] = "asked" /\ want[r] = "write" /\ did[r] = "none"
    /\ shown' = NoText /\ did' = [did EXCEPT ![r] = "wiped"]
    /\ UNCHANGED <<want, seen, answer>>

Look(r) ==
    /\ answer[r] = "asked" /\ want[r] = "read" /\ shown \in Texts
    /\ seen' = [seen EXCEPT ![r] = shown]
    /\ UNCHANGED <<shown, want, did, answer>>

\* "written" has been done, a text has been on the clipboard, and whoever is told
\* that he was refused, that it is busy (and tries again) or that there is no text
\* has changed nothing.  Only after an error may anything have happened.
True(r, a) ==
    /\ a = "written" => did[r] = "written"
    /\ a = "available" => want[r] = "available"
    /\ a \in Texts => a = seen[r]
    /\ a \in {"refused", "busy", "empty"} => did[r] = "none"

Tell(r, a) ==
    /\ answer[r] = "asked" /\ True(r, a)
    /\ answer' = [answer EXCEPT ![r] = a]
    /\ did' = [did EXCEPT ![r] = "none"] /\ seen' = [seen EXCEPT ![r] = Nobody]
    /\ UNCHANGED <<shown, want>>

Next ==
    \/ CopyOnDesk
    \/ \E r \in Requests :
        \/ \E o \in {"available", "read", "write"} : Ask(r, o) \/ Reject(r, o)
        \/ Write(r) \/ Wipe(r) \/ Look(r)
        \/ \E a \in Replies \cup Texts : Tell(r, a)

Spec == Init /\ [][Next]_sharedVars
=============================================================================
