------------------------------- MODULE Launcher -------------------------------
(***************************************************************************)
(* The processes of cmd/tailblink that meet over 127.0.0.1:17733 and          *)
(* config.json: agents (runAgent), and launchers (openSettings with           *)
(* ensureAgent and stopAgent) that look for an agent, replace one of an older *)
(* version, start one, and ask it for its settings page with the token they   *)
(* read from the file.                                                       *)
(***************************************************************************)
EXTENDS ConfigFile

CONSTANTS
    Launchers,
    Old,            \* the agents of an older version: none is started any more
    NoAgent

ASSUME LauncherAssumption == Old \subseteq Procs /\ NoAgent \notin Procs

VARIABLES
    port,       \* the agent that listens on 17733
    leaving,    \* agents that no longer listen and have not ended yet
    lpc,        \* each launcher: the step it takes next, or how it ended
    token,      \* the configuration whose token a launcher has read
    overlap     \* history: agents that started while another process had a Store

launcherVars == <<configVars, port, leaving, lpc, token, overlap>>

\* How a launcher may end: the page is open; the agent refused the token; the old
\* agent could not be stopped; anything else went wrong.
Ended == {"opened", "refused", "stopFailed", "failed"}

\* The type invariant.
LauncherTypeOK ==
    /\ ConfigTypeOK
    /\ port \in Procs \cup {NoAgent}
    /\ lpc \in [Launchers -> Ended \cup {"check", "stopLoad", "stop", "waitGone", "spawn",
                                        "waitUp", "load", "ask"}]
    /\ token \in [Launchers -> Configs \cup {0}]
    /\ leaving \subseteq Procs /\ overlap \subseteq Procs

\* Nobody runs, or an agent of the old version serves the configuration it has
\* loaded.
Init ==
    /\ made \in {0, 1} /\ disk = made /\ settled = made /\ saved = 1..made
    /\ port \in (IF made = 1 THEN Old ELSE {}) \cup {NoAgent}
    /\ temp = [p \in Procs |-> "none"]
    /\ pc = [p \in Procs |-> IF p = port THEN "up" ELSE "off"]
    /\ mem = [p \in Procs |-> IF p = port THEN disk ELSE 0]
    /\ next = [p \in Procs |-> 0] /\ half = [p \in Procs |-> FALSE]
    /\ lpc = [l \in Launchers |-> "check"]
    /\ token = [l \in Launchers |-> 0]
    /\ leaving = {} /\ overlap = {}

Move(l, from, to) == lpc[l] = from /\ lpc' = [lpc EXCEPT ![l] = to]

-----------------------------------------------------------------------------
(* Agents.                                                                  *)

\* A process "tailblink agent" starts: at login, or by a launcher.
Start(p) ==
    /\ pc[p] = "off" /\ p \notin Old
    /\ pc' = [pc EXCEPT ![p] = "load"]
    /\ LET others == {q \in Procs \ {p} : pc[q] # "off"} IN
       overlap' = (overlap \ {p}) \cup (others \ {port}) \cup (IF others = {} THEN {} ELSE {p})
    /\ UNCHANGED <<disk, settled, temp, mem, next, made, saved, half, leaving>>

\* Mutant of Listen: before the configuration has been loaded.
ListenFirst(p) ==
    /\ pc[p] \in {"load", "up"} /\ port = NoAgent /\ p \notin leaving
    /\ port' = p
    /\ UNCHANGED <<configVars, leaving, lpc, token, overlap>>

\* Listen, the first step of Run: an agent that finds the port taken ends.
Listen(p) ==
    /\ pc[p] = "up" /\ port # p /\ p \notin leaving
    /\ \/ port = NoAgent /\ port' = p /\ UNCHANGED <<pc, mem, temp, half>>
       \/ port # NoAgent /\ Gone({p}) /\ UNCHANGED port
    /\ UNCHANGED <<disk, settled, next, made, saved, leaving, lpc, token, overlap>>

\* The agent is told to end: it listens no more, but what its dashboard or its
\* startup goroutine has begun goes on, and its end waits for that (Agent).
Leave ==
    /\ port' = NoAgent /\ leaving' = leaving \cup {port}
    /\ UNCHANGED <<configVars, overlap>>

\* Ends, whatever it is doing.
End(p) ==
    /\ Gone({p})
    /\ port' = IF port = p THEN NoAgent ELSE port
    /\ leaving' = leaving \ {p}
    /\ UNCHANGED <<disk, settled, next, made, saved, overlap>>

Agents ==
    \E p \in Procs :
        \/ (SaveStep(p) \/ (p \in leaving \cup {port} /\ Update(p)))
           /\ UNCHANGED <<port, leaving, lpc, token, overlap>>
        \/ Listen(p)

\* Logins, agents that have been told to end, by a launcher or a user, crashes.
World ==
    \/ \E p \in Procs :
        \/ Start(p) /\ UNCHANGED <<port, lpc, token>>
        \/ pc[p] # "off" /\ End(p) /\ UNCHANGED <<lpc, token>>
    \/ port # NoAgent /\ Leave /\ UNCHANGED <<lpc, token>>
    \/ Settle /\ UNCHANGED <<port, leaving, lpc, token, overlap>>
    \/ PowerFails
       /\ port' = NoAgent /\ leaving' = {} /\ overlap' = {}
       /\ lpc' = [l \in Launchers |-> IF lpc[l] \in Ended THEN lpc[l] ELSE "failed"]
       /\ UNCHANGED token

-----------------------------------------------------------------------------
(* A launcher.  Every wait of it has a time limit.                          *)

\* localAgentVersion; an agent that does not answer in 600 ms is none.
Check(l) ==
    /\ \/ Move(l, "check", "spawn")
       \/ port \in Old /\ Move(l, "check", "stopLoad")
       \/ port \in Procs \ Old /\ Move(l, "check", "load")
    /\ UNCHANGED <<configVars, port, leaving, token, overlap>>

\* config.Load, before a request to the agent.
Load(l, from, to) ==
    /\ \/ disk \in Configs /\ Move(l, from, to) /\ token' = [token EXCEPT ![l] = disk]
       \/ Move(l, from, "failed") /\ UNCHANGED token
    /\ UNCHANGED <<configVars, port, leaving, overlap>>

\* The agent compares the token once no Update is under way.
Answers(l) == port # NoAgent /\ pc[port] = "up"
Accepts(l) == Answers(l) /\ token[l] = mem[port]

\* stopAgent succeeds: the agent answers, and lets the port go some time after (Leave).
Stop(l) ==
    /\ Accepts(l) /\ Move(l, "stop", "waitGone")
    /\ UNCHANGED <<configVars, port, leaving, token, overlap>>

\* Run returns as soon as Serve does and the process ends, with the answer
\* perhaps still unsent.
StopUnanswered(l) ==
    /\ Accepts(l) /\ Move(l, "stop", "stopFailed") /\ End(port)
    /\ UNCHANGED token

\* The connection is refused, the token is, or no answer comes in 5 seconds.
StopFails(l) ==
    /\ ~Accepts(l) /\ Move(l, "stop", "stopFailed")
    /\ UNCHANGED <<configVars, port, leaving, token, overlap>>

\* Mutant of WaitGone: without the deadline.
WaitGoneForever(l) ==
    /\ port = NoAgent /\ Move(l, "waitGone", "spawn")
    /\ UNCHANGED <<configVars, port, leaving, token, overlap>>

\* An agent that lives and does not answer in 600 ms is gone, here as in Check.
WaitGone(l) ==
    /\ \/ Move(l, "waitGone", "spawn")
       \/ port # NoAgent /\ Move(l, "waitGone", "failed")
    /\ UNCHANGED <<configVars, port, leaving, token, overlap>>

Spawn(l) ==
    \/ \E p \in Procs : Start(p) /\ Move(l, "spawn", "waitUp") /\ UNCHANGED <<port, token>>
    \/ Move(l, "spawn", "failed") /\ UNCHANGED <<configVars, port, leaving, token, overlap>>

WaitUp(l) ==
    /\ \/ port # NoAgent /\ Move(l, "waitUp", "load")
       \/ Move(l, "waitUp", "failed")
    /\ UNCHANGED <<configVars, port, leaving, token, overlap>>

\* POST /local/open-setup.
Ask(l) ==
    /\ \/ Accepts(l) /\ Move(l, "ask", "opened")
       \/ Answers(l) /\ ~Accepts(l) /\ Move(l, "ask", "refused")
       \/ ~Answers(l) /\ Move(l, "ask", "failed")
    /\ UNCHANGED <<configVars, port, leaving, token, overlap>>

Launch(l) ==
    \/ Check(l) \/ Load(l, "stopLoad", "stop") \/ Stop(l) \/ StopUnanswered(l) \/ StopFails(l)
    \/ WaitGone(l) \/ Spawn(l) \/ WaitUp(l) \/ Load(l, "load", "ask") \/ Ask(l)

Next == Agents \/ World \/ \E l \in Launchers : Launch(l)

Spec == Init /\ [][Next]_launcherVars

\* Launchers go on; their waits have deadlines, so nothing is assumed of agents.
FairSpec == Spec /\ \A l \in Launchers : WF_launcherVars(Launch(l))

-----------------------------------------------------------------------------
\* The inductive part: the file and the Stores are as ConfigInv says, and whoever
\* listens, or is about to end, has a configuration, so no request is ever compared
\* with an empty token (main.go:68 before 90).
LauncherInv ==
    /\ LauncherTypeOK /\ ConfigInv
    /\ \A p \in leaving \cup ({port} \ {NoAgent}) : mem[p] # 0 /\ pc[p] \notin {"off", "load"}
    /\ port \notin leaving

\* An agent that started when no other process had the configuration open serves
\* what the file says: its token is the one every launcher reads, whoever died and
\* whatever saves failed, but for a chmod after the rename (config.go:201), which
\* is reported as a failure and yet has changed the file.
LoneAgentOwnsFile ==
    \A p \in Procs :
        port = p /\ pc[p] = "up" /\ p \notin overlap /\ ~half[p] => mem[p] = disk

\* A launcher ends: it opens the page or says why not (main.go:201-240).
LauncherEnds == \A l \in Launchers : <>(lpc[l] \in Ended)
=============================================================================
