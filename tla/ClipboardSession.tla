--------------------------- MODULE ClipboardSession ---------------------------
(***************************************************************************)
(* The system clipboard (internal/clipboard).  Synchronized lets one request  *)
(* in at a time.  On Windows its transaction makes a window, opens the        *)
(* clipboard that all programs share, and closes and destroys what it made;   *)
(* a write prepares a block of memory that the system owns once it is set.    *)
(* On Linux it runs wl-copy or wl-paste.  ClipboardAPI has the requests.      *)
(***************************************************************************)
CONSTANTS
    Requests,       \* a request that writes, writes a text of its own
    Desk,           \* a text copied on the computer
    NoText,         \* an empty clipboard, or a picture
    Nobody

ASSUME ContentsAssumption ==
    /\ Nobody \notin Requests /\ Desk \notin Requests /\ NoText \notin Requests
    /\ Desk # NoText /\ Nobody \notin {Desk, NoText}

Contents == Requests \cup {Desk, NoText}

VARIABLES
    platform,   \* "windows" or "wayland"
    holder,     \* the request that has Synchronized.mu
    op,         \* what it does: "available", "read" or "write"
    pc,         \* the step it takes next
    res,        \* the error it is about to return, or "ok"
    copy,       \* the text it has read, or Nobody
    gone,       \* the requests whose context is done
    late,       \* the second of retryOpenClipboard is over
    window,     \* there is an owner window
    user,       \* who has the clipboard open: "nobody", "agent" or "other"
    content,    \* what the clipboard holds
    block,      \* the memory of the last write: "none", "ours" or the "system"'s
    owned,      \* WriteText's flag: the block is to be freed
    did,        \* history: what the holder did to the content: "none", "wiped" or "written"
    before,     \* history: the content when the agent opened the clipboard
    unclean,    \* history: a clean-up has failed, and a request was told
    dangling    \* history: memory of the system has been freed

callVars    == <<platform, holder, op>>
answerVars  == <<res, copy>>
blockVars   == <<block, owned, dangling>>
systemVars  == <<window, user, content, before, did>>
sessionVars == <<callVars, pc, answerVars, gone, late, systemVars, blockVars, unclean>>

Results == {"ok", "noText", "busy", "cancelled", "failed", "unavailable", "cleanup"}

\* The type invariant.
CallTypeOK ==
    /\ platform \in {"windows", "wayland"}
    /\ holder \in Requests \cup {Nobody} /\ op \in {"available", "read", "write"}
    /\ pc \in {"enter", "alloc", "fill", "owner", "open", "opened", "read", "empty", "set",
               "close", "destroy", "free", "find", "run", "exit"}
    /\ res \in Results /\ copy \in Requests \cup {Desk, Nobody}
    /\ gone \subseteq Requests /\ late \in BOOLEAN

SystemTypeOK ==
    /\ window \in BOOLEAN /\ user \in {"nobody", "agent", "other"}
    /\ content \in Contents /\ before \in Contents
    /\ did \in {"none", "wiped", "written"}

BlockTypeOK ==
    /\ block \in {"none", "ours", "system"} /\ owned \in BOOLEAN
    /\ unclean \in BOOLEAN /\ dangling \in BOOLEAN

SessionTypeOK == CallTypeOK /\ SystemTypeOK /\ BlockTypeOK

SessionInit ==
    /\ platform \in {"windows", "wayland"}
    /\ holder = Nobody /\ op = "available" /\ pc = "enter" /\ res = "ok" /\ copy = Nobody
    /\ gone = {} /\ late = FALSE
    /\ window = FALSE /\ user = "nobody" /\ content \in {Desk, NoText} /\ before = NoText
    /\ did = "none"
    /\ block = "none" /\ owned = FALSE
    /\ unclean = FALSE /\ dangling = FALSE

At(step) == holder # Nobody /\ pc = step
Goto(from, to) == At(from) /\ pc' = to /\ UNCHANGED callVars
Cancelled == holder \in gone

-----------------------------------------------------------------------------
\* A call begins when it gets Synchronized.mu.
Lock(r, o) ==
    /\ holder = Nobody
    /\ holder' = r /\ op' = o /\ res' = "ok" /\ copy' = Nobody
    /\ pc' = IF platform = "wayland" THEN "find" ELSE IF o = "write" THEN "alloc" ELSE "owner"
    /\ block' = "none" /\ owned' = FALSE /\ late' = FALSE
    /\ UNCHANGED <<platform, gone, systemVars, unclean, dangling>>

\* It ends: the deferred GlobalFree of a block that is still the writer's, and the
\* mutex.
Unlock ==
    /\ At("free")
    /\ dangling' = (dangling \/ (owned /\ block = "system"))
    /\ block' = "none" /\ owned' = FALSE
    /\ unclean' = (unclean \/ res = "cleanup")
    /\ holder' = Nobody /\ pc' = "enter" /\ did' = "none"
    /\ op' = "available" /\ res' = "ok" /\ copy' = Nobody /\ late' = FALSE
    /\ UNCHANGED <<platform, gone, window, user, content, before>>

\* The context is looked at before anything is made; there may be no memory for
\* WriteText, or no window.
Refuse ==
    /\ Goto("alloc", "free") \/ Goto("owner", "free")
    /\ \/ Cancelled /\ res' = "cancelled"
       \/ res' = "failed"
    /\ UNCHANGED <<copy, gone, late, systemVars, blockVars, unclean>>

Alloc ==
    /\ Goto("alloc", "fill") /\ ~Cancelled
    /\ block' = "ours" /\ owned' = TRUE
    /\ UNCHANGED <<answerVars, gone, late, systemVars, dangling, unclean>>

Fill ==
    /\ \/ Goto("fill", "owner") /\ UNCHANGED res
       \/ Goto("fill", "free") /\ res' = "failed"
    /\ UNCHANGED <<copy, gone, late, systemVars, blockVars, unclean>>

CreateOwner ==
    /\ Goto("owner", "open") /\ ~Cancelled
    /\ window' = TRUE
    /\ UNCHANGED <<answerVars, gone, late, user, content, before, did, blockVars, unclean>>

\* One round of retryOpenClipboard; while another program has the clipboard open
\* it waits and tries again.
TryOpen ==
    /\ ~Cancelled /\ ~late
    /\ \/ user = "nobody" /\ user' = "agent" /\ before' = content
          /\ Goto("open", "opened") /\ UNCHANGED res
       \/ Goto("open", "destroy") /\ res' = "failed" /\ UNCHANGED <<user, before>>
    /\ UNCHANGED <<copy, gone, late, window, content, did, blockVars, unclean>>

OpenCancelled ==
    /\ Cancelled /\ Goto("open", "destroy") /\ res' = "cancelled"
    /\ UNCHANGED <<copy, gone, late, systemVars, blockVars, unclean>>

\* Mutant of OpenLate: the time is looked at only when the clipboard is free.
OpenLateOnceFree ==
    /\ late /\ user = "nobody" /\ Goto("open", "destroy") /\ res' = "busy"
    /\ UNCHANGED <<copy, gone, late, systemVars, blockVars, unclean>>

OpenLate ==
    /\ late /\ Goto("open", "destroy") /\ res' = "busy"
    /\ UNCHANGED <<copy, gone, late, systemVars, blockVars, unclean>>

AfterOpened == CASE op = "write" -> "empty" [] op = "read" -> "read" [] OTHER -> "close"

\* Mutant of Opened: a cancelled call forgets that it has opened the clipboard.
OpenedForgotten ==
    /\ \/ Cancelled /\ res' = "cancelled" /\ Goto("opened", "destroy")
       \/ ~Cancelled /\ UNCHANGED res /\ Goto("opened", AfterOpened)
    /\ UNCHANGED <<copy, gone, late, systemVars, blockVars, unclean>>

Opened ==
    /\ \/ Cancelled /\ res' = "cancelled" /\ Goto("opened", "close")
       \/ ~Cancelled /\ UNCHANGED res /\ Goto("opened", AfterOpened)
    /\ UNCHANGED <<copy, gone, late, systemVars, blockVars, unclean>>

\* The text is copied; it may also be empty, or a Win32 call may fail.
Read ==
    /\ Goto("read", "close")
    /\ \/ content # NoText /\ copy' = content /\ UNCHANGED res
       \/ content # NoText /\ res' \in {"noText", "failed"} /\ UNCHANGED copy
       \/ content = NoText /\ res' = "noText" /\ UNCHANGED copy
    /\ UNCHANGED <<gone, late, systemVars, blockVars, unclean>>

EmptyFails ==
    /\ Goto("empty", "close") /\ res' = "failed"
    /\ UNCHANGED <<copy, gone, late, systemVars, blockVars, unclean>>

EmptyClipboard ==
    /\ Goto("empty", "set")
    /\ content' = NoText /\ did' = "wiped"
    /\ UNCHANGED <<answerVars, gone, late, window, user, before, blockVars, unclean>>

\* Mutant of SetFails: reported as OpenClipboard's refusals are.
SetFailsBusy ==
    /\ Goto("set", "close") /\ res' = "busy"
    /\ UNCHANGED <<copy, gone, late, systemVars, blockVars, unclean>>

SetFails ==
    /\ Goto("set", "close") /\ res' = "failed"
    /\ UNCHANGED <<copy, gone, late, systemVars, blockVars, unclean>>

SetClipboardData ==
    /\ Goto("set", "close")
    /\ content' = holder /\ did' = "written"
    /\ block' = "system" /\ owned' = FALSE
    /\ UNCHANGED <<answerVars, gone, late, window, user, before, dangling, unclean>>

\* The deferred clean-up; its failure replaces any other result.
Close ==
    /\ Goto("close", "destroy")
    /\ \/ user' = "nobody" /\ before' = NoText /\ UNCHANGED res
       \/ res' = "cleanup" /\ UNCHANGED <<user, before>>
    /\ UNCHANGED <<copy, gone, late, window, content, did, blockVars, unclean>>

DestroyOwner ==
    /\ Goto("destroy", "free")
    /\ \/ window' = FALSE /\ UNCHANGED res
       \/ res' = "cleanup" /\ UNCHANGED window
    /\ UNCHANGED <<copy, gone, late, user, content, before, did, blockVars, unclean>>

-----------------------------------------------------------------------------
(* Linux: one command for each call.                                        *)

\* Synchronized looks at the context, Available at the environment and the
\* commands; a status asks for no more.
Find ==
    /\ \/ Cancelled /\ Goto("find", "free") /\ res' = "cancelled"
       \/ Goto("find", "free") /\ res' = "unavailable"
       \/ ~Cancelled /\ UNCHANGED res
          /\ Goto("find", IF op = "available" THEN "free" ELSE "run")
    /\ UNCHANGED <<copy, gone, late, systemVars, blockVars, unclean>>

\* wl-copy takes the selection; wl-paste reads it.  There may be no text.
Run ==
    /\ Goto("run", "exit")
    /\ \/ op = "write" /\ content' = holder /\ did' = "written" /\ UNCHANGED answerVars
       \/ op = "read" /\ content # NoText /\ copy' = content /\ UNCHANGED <<res, content, did>>
       \/ op = "read" /\ res' = "noText" /\ UNCHANGED <<copy, content, did>>
    /\ UNCHANGED <<gone, late, window, user, before, blockVars, unclean>>

\* It exits, having done its work or, by an error of its own or killed because the
\* context is done, at any point.
Exit ==
    /\ \/ Goto("exit", "free") /\ UNCHANGED answerVars
       \/ (Goto("run", "free") \/ Goto("exit", "free"))
          /\ res' = (IF Cancelled THEN "cancelled" ELSE "unavailable") /\ UNCHANGED copy
    /\ UNCHANGED <<gone, late, systemVars, blockVars, unclean>>

Step ==
    \/ Refuse \/ Alloc \/ Fill \/ CreateOwner \/ TryOpen \/ OpenCancelled \/ OpenLate
    \/ Opened \/ Read \/ EmptyFails \/ EmptyClipboard \/ SetFails \/ SetClipboardData
    \/ Close \/ DestroyOwner
    \/ Find \/ Run \/ Exit

-----------------------------------------------------------------------------
Expire ==
    /\ At("open") /\ ~late /\ late' = TRUE
    /\ UNCHANGED <<callVars, pc, answerVars, gone, systemVars, blockVars, unclean>>

\* Other programs use the clipboard, and copy.  On Linux nobody keeps it open.
OthersUse ==
    /\ \/ platform = "windows" /\ user = "nobody" /\ user' = "other" /\ UNCHANGED content
       \/ user = "other" /\ user' \in {"other", "nobody"} /\ content' \in {Desk, NoText}
       \/ platform = "wayland" /\ content' \in {Desk, NoText} /\ UNCHANGED user
    /\ UNCHANGED <<callVars, pc, answerVars, gone, late, window, before, did, blockVars, unclean>>

-----------------------------------------------------------------------------
\* Whatever a transaction on Windows has made, the steps still to come will clean
\* up, or its result says that they could not: between calls the clipboard is not
\* open and there is no window, never behind an answer such as "no text" or "busy"
\* (native_session.go:29-49).  Memory is freed or handed to the system, never both
\* (backend_windows.go:101-123).
SessionInv ==
    /\ SessionTypeOK
    /\ user = "agent" =>
         unclean \/ res = "cleanup" \/ At("opened") \/ At("read") \/ At("empty") \/ At("set") \/ At("close")
    /\ window =>
         \/ unclean \/ res = "cleanup"
         \/ holder # Nobody /\ pc \in {"open", "opened", "read", "empty", "set", "close", "destroy"}
    /\ res = "cleanup" => At("destroy") \/ At("free")
    /\ owned <=> block = "ours"
    /\ holder = Nobody => ~owned
    /\ At("empty") \/ At("set") \/ At("fill") \/ (At("owner") /\ op = "write") => block = "ours"
    /\ ~dangling
=============================================================================
