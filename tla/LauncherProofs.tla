----------------------------- MODULE LauncherProofs -----------------------------
(***************************************************************************)
(* For any processes, launchers and configurations: config.json is whole, a   *)
(* Store holds only what it has contained, an agent listens only with a       *)
(* configuration, and one that started alone serves what the file says.       *)
(***************************************************************************)
EXTENDS Launcher, TLAPS

\* Who has a configuration, and that the file is there once somebody has.
StoreInv ==
    \A p \in Procs :
        /\ pc[p] = "up" => mem[p] # 0
        /\ pc[p] \in {"off", "load"} => mem[p] = 0
        /\ mem[p] # 0 \/ pc[p] = "chmod" => disk # NoFile

\* Whoever listens, or is about to end, has a configuration.
ListenInv ==
    /\ port \in Procs \cup {NoAgent} /\ leaving \subseteq Procs /\ overlap \subseteq Procs
    /\ \A p \in leaving \cup ({port} \ {NoAgent}) : mem[p] # 0 /\ pc[p] \notin {"off", "load"}
    /\ port \notin leaving

\* A process that found no other when it started, and has not been told to end.
Lone(p) == p \notin overlap \cup leaving /\ pc[p] # "off"

\* Until it listens nobody else has a Store, and then nobody else saves; so what it holds
\* is in the file, and what it has renamed stays there until Save returns.
LoneInv ==
    \A p \in Procs : Lone(p) =>
        /\ \A q \in Procs \ {p} :
            q \notin leaving /\ pc[q] \in (IF port = p THEN {"off", "load", "up"} ELSE {"off"})
        /\ pc[p] \in {"up", "write", "sync", "rename"} /\ ~half[p] => mem[p] = disk
        /\ pc[p] = "chmod" => disk = next[p]

\* What the launchers have no part in.
AgentsInv == ConfigInv /\ StoreInv /\ ListenInv /\ LoneInv

TokenInv ==
    /\ lpc \in [Launchers -> Ended \cup {"check", "stopLoad", "stop", "waitGone", "spawn",
                                        "waitUp", "load", "ask"}]
    /\ token \in [Launchers -> Configs \cup {0}]

OwnInv == AgentsInv /\ TokenInv

-----------------------------------------------------------------------------
(* Whatever a launcher or the world does, a process takes one of these steps.  *)

Saves(p) ==
    /\ SaveStep(p) \/ (p \in leaving \cup {port} /\ Update(p))
    /\ UNCHANGED <<port, leaving, overlap>>

Starts(p) == Start(p) /\ UNCHANGED port
Leaves == port # NoAgent /\ Leave
Settles == Settle /\ UNCHANGED <<port, leaving, overlap>>
AllGone == PowerFails /\ port' = NoAgent /\ leaving' = {} /\ overlap' = {}

ProcStep ==
    \/ \E p \in Procs : Saves(p) \/ Listen(p) \/ Starts(p) \/ End(p)
    \/ Leaves \/ Settles \/ AllGone
    \/ UNCHANGED <<configVars, port, leaving, overlap>>

LEMMA NextIs ==
  ASSUME ListenInv, [Next]_launcherVars
  PROVE  ProcStep
<1>1. CASE Agents
  BY <1>1 DEF Agents, ProcStep, Saves
<1>2. CASE World
  BY <1>2 DEF World, ProcStep, Starts, Leaves, Settles, AllGone
<1>3. ASSUME NEW l \in Launchers, Launch(l) PROVE ProcStep
  <2>1. CASE StopUnanswered(l)
    BY <2>1 DEF StopUnanswered, Accepts, Answers, ListenInv, ProcStep
  <2>2. CASE Spawn(l)
    BY <2>2 DEF Spawn, Starts, ProcStep
  <2>3. CASE UNCHANGED <<configVars, port, leaving, overlap>>
    BY <2>3 DEF ProcStep
  <2> QED
    BY <1>3, <2>1, <2>2, <2>3
       DEF Launch, Check, Load, Stop, StopFails, WaitGone, WaitUp, Ask
<1>4. CASE UNCHANGED launcherVars
  BY <1>4 DEF launcherVars, ProcStep
<1> QED
  BY <1>1, <1>2, <1>3, <1>4 DEF Next

-----------------------------------------------------------------------------
(* The parts of the invariant.                                              *)

\* The file and its history.
LEMMA ConfigStep ==
  ASSUME ConfigInv, ListenInv, ProcStep
  PROVE  ConfigInv'
<1> USE ConfigAssumption, LauncherAssumption DEF ConfigInv, ConfigTypeOK, Configs, NoFile, Torn
<1>1. ASSUME NEW p \in Procs, LoadOrCreate(p), UNCHANGED <<port, leaving, overlap>>
      PROVE  ConfigInv'
  BY <1>1 DEF LoadOrCreate, Prepare
<1>2. ASSUME NEW p \in Procs, p \in leaving \cup {port}, Update(p), UNCHANGED <<port, leaving, overlap>>
      PROVE  ConfigInv'
  BY <1>2 DEF Update, Prepare
<1>3. ASSUME NEW p \in Procs, WriteTemp(p), UNCHANGED <<port, leaving, overlap>>
      PROVE  ConfigInv'
  BY <1>3 DEF WriteTemp
<1>4. ASSUME NEW p \in Procs, Sync(p), UNCHANGED <<port, leaving, overlap>>
      PROVE  ConfigInv'
  BY <1>4 DEF Sync
<1>5. ASSUME NEW p \in Procs, Rename(p), UNCHANGED <<port, leaving, overlap>>
      PROVE  ConfigInv'
  <2>1. next[p] \in 1..made /\ temp[p] = "synced"
    BY <1>5 DEF Rename
  <2>2. ConfigTypeOK'
    <3>1. next[p] \in Configs /\ settled' \in {next[p], settled}
      BY <1>5, <2>1 DEF Rename
    <3> QED
      BY <1>5, <3>1 DEF Rename
  <2> QED
    BY <1>5, <2>1, <2>2 DEF Rename
<1>6. ASSUME NEW p \in Procs, Saved(p), UNCHANGED <<port, leaving, overlap>>
      PROVE  ConfigInv'
  BY <1>6 DEF Saved
<1>7. ASSUME NEW p \in Procs, SaveFails(p), UNCHANGED <<port, leaving, overlap>>
      PROVE  ConfigInv'
  BY <1>7 DEF SaveFails
<1>8. ASSUME NEW p \in Procs, Listen(p) PROVE ConfigInv'
  <2>1. CASE port = NoAgent
    BY <1>8, <2>1 DEF Listen
  <2>2. CASE Gone({p})
    <3>1. ConfigTypeOK'
      BY <1>8, <2>2 DEF Listen, Gone
    <3> QED
      BY <1>8, <2>2, <3>1 DEF Listen, Gone
  <2> QED
    BY <1>8, <2>1, <2>2 DEF Listen
<1>9. ASSUME NEW p \in Procs, Starts(p) PROVE ConfigInv'
  BY <1>9 DEF Starts, Start
<1>10. ASSUME NEW p \in Procs, End(p) PROVE ConfigInv'
  BY <1>10 DEF End, Gone
<1>11. CASE Leaves
  BY <1>11 DEF Leaves, Leave, configVars
<1>12. CASE Settles
  BY <1>12 DEF Settles, Settle
<1>13. CASE AllGone
  BY <1>13 DEF AllGone, PowerFails, Gone
<1>14. CASE UNCHANGED <<configVars, port, leaving, overlap>>
  BY <1>14 DEF configVars
<1> HIDE DEF ConfigInv
<1> QED
  BY <1>1, <1>2, <1>3, <1>4, <1>5, <1>6, <1>7, <1>8, <1>9,
     <1>10, <1>11, <1>12, <1>13, <1>14
     DEF ProcStep, Saves, SaveStep

\* The Stores.
LEMMA StoreStep ==
  ASSUME ConfigInv, StoreInv, ListenInv, ProcStep
  PROVE  StoreInv'
<1> USE ConfigAssumption, LauncherAssumption DEF ConfigInv, ConfigTypeOK, Configs, NoFile, Torn, StoreInv
<1>1. ASSUME NEW p \in Procs, LoadOrCreate(p), UNCHANGED <<port, leaving, overlap>>
      PROVE  StoreInv'
  BY <1>1 DEF LoadOrCreate, Prepare
<1>2. ASSUME NEW p \in Procs, p \in leaving \cup {port}, Update(p), UNCHANGED <<port, leaving, overlap>>
      PROVE  StoreInv'
  BY <1>2 DEF Update, Prepare
<1>3. ASSUME NEW p \in Procs, WriteTemp(p), UNCHANGED <<port, leaving, overlap>>
      PROVE  StoreInv'
  BY <1>3 DEF WriteTemp
<1>4. ASSUME NEW p \in Procs, Sync(p), UNCHANGED <<port, leaving, overlap>>
      PROVE  StoreInv'
  BY <1>4 DEF Sync
<1>5. ASSUME NEW p \in Procs, Rename(p), UNCHANGED <<port, leaving, overlap>>
      PROVE  StoreInv'
  BY <1>5 DEF Rename
<1>6. ASSUME NEW p \in Procs, Saved(p), UNCHANGED <<port, leaving, overlap>>
      PROVE  StoreInv'
  BY <1>6 DEF Saved
<1>7. ASSUME NEW p \in Procs, SaveFails(p), UNCHANGED <<port, leaving, overlap>>
      PROVE  StoreInv'
  BY <1>7 DEF SaveFails
<1>8. ASSUME NEW p \in Procs, Listen(p) PROVE StoreInv'
  BY <1>8 DEF Listen, Gone
<1>9. ASSUME NEW p \in Procs, Starts(p) PROVE StoreInv'
  BY <1>9 DEF Starts, Start
<1>10. ASSUME NEW p \in Procs, End(p) PROVE StoreInv'
  BY <1>10 DEF End, Gone
<1>11. CASE Leaves
  BY <1>11 DEF Leaves, Leave, configVars
<1>12. CASE Settles
  BY <1>12 DEF Settles, Settle
<1>13. CASE AllGone
  BY <1>13 DEF AllGone, PowerFails, Gone
<1>14. CASE UNCHANGED <<configVars, port, leaving, overlap>>
  BY <1>14 DEF configVars
<1> HIDE DEF ConfigInv, StoreInv
<1> QED
  BY <1>1, <1>2, <1>3, <1>4, <1>5, <1>6, <1>7, <1>8, <1>9,
     <1>10, <1>11, <1>12, <1>13, <1>14
     DEF ProcStep, Saves, SaveStep

\* The port.
LEMMA ListenStep ==
  ASSUME ConfigInv, StoreInv, ListenInv, ProcStep
  PROVE  ListenInv'
<1> USE ConfigAssumption, LauncherAssumption DEF ConfigInv, ConfigTypeOK, Configs, NoFile, Torn, StoreInv, ListenInv
<1>1. ASSUME NEW p \in Procs, LoadOrCreate(p), UNCHANGED <<port, leaving, overlap>>
      PROVE  ListenInv'
  BY <1>1 DEF LoadOrCreate, Prepare
<1>2. ASSUME NEW p \in Procs, p \in leaving \cup {port}, Update(p), UNCHANGED <<port, leaving, overlap>>
      PROVE  ListenInv'
  BY <1>2 DEF Update, Prepare
<1>3. ASSUME NEW p \in Procs, WriteTemp(p), UNCHANGED <<port, leaving, overlap>>
      PROVE  ListenInv'
  BY <1>3 DEF WriteTemp
<1>4. ASSUME NEW p \in Procs, Sync(p), UNCHANGED <<port, leaving, overlap>>
      PROVE  ListenInv'
  BY <1>4 DEF Sync
<1>5. ASSUME NEW p \in Procs, Rename(p), UNCHANGED <<port, leaving, overlap>>
      PROVE  ListenInv'
  BY <1>5 DEF Rename
<1>6. ASSUME NEW p \in Procs, Saved(p), UNCHANGED <<port, leaving, overlap>>
      PROVE  ListenInv'
  BY <1>6 DEF Saved
<1>7. ASSUME NEW p \in Procs, SaveFails(p), UNCHANGED <<port, leaving, overlap>>
      PROVE  ListenInv'
  BY <1>7 DEF SaveFails
<1>8. ASSUME NEW p \in Procs, Listen(p) PROVE ListenInv'
  BY <1>8 DEF Listen, Gone
<1>9. ASSUME NEW p \in Procs, Starts(p) PROVE ListenInv'
  BY <1>9 DEF Starts, Start
<1>10. ASSUME NEW p \in Procs, End(p) PROVE ListenInv'
  BY <1>10 DEF End, Gone
<1>11. CASE Leaves
  BY <1>11 DEF Leaves, Leave, configVars
<1>12. CASE Settles
  BY <1>12 DEF Settles, Settle
<1>13. CASE AllGone
  BY <1>13 DEF AllGone, PowerFails, Gone
<1>14. CASE UNCHANGED <<configVars, port, leaving, overlap>>
  BY <1>14 DEF configVars
<1> HIDE DEF ConfigInv, StoreInv, ListenInv
<1> QED
  BY <1>1, <1>2, <1>3, <1>4, <1>5, <1>6, <1>7, <1>8, <1>9,
     <1>10, <1>11, <1>12, <1>13, <1>14
     DEF ProcStep, Saves, SaveStep

\* The agent that started alone.
LEMMA LoneStep ==
  ASSUME AgentsInv, ProcStep
  PROVE  LoneInv'
<1> USE ConfigAssumption, LauncherAssumption DEF ConfigInv, ConfigTypeOK, Configs, NoFile, Torn, StoreInv, ListenInv, AgentsInv, LoneInv, Lone
<1>1. ASSUME NEW p \in Procs, LoadOrCreate(p), UNCHANGED <<port, leaving, overlap>>
      PROVE  LoneInv'
  BY <1>1 DEF LoadOrCreate, Prepare
<1>2. ASSUME NEW p \in Procs, p \in leaving \cup {port}, Update(p), UNCHANGED <<port, leaving, overlap>>
      PROVE  LoneInv'
  BY <1>2 DEF Update, Prepare
<1>3. ASSUME NEW p \in Procs, WriteTemp(p), UNCHANGED <<port, leaving, overlap>>
      PROVE  LoneInv'
  BY <1>3 DEF WriteTemp
<1>4. ASSUME NEW p \in Procs, Sync(p), UNCHANGED <<port, leaving, overlap>>
      PROVE  LoneInv'
  BY <1>4 DEF Sync
<1>5. ASSUME NEW p \in Procs, Rename(p), UNCHANGED <<port, leaving, overlap>>
      PROVE  LoneInv'
  BY <1>5 DEF Rename
<1>6. ASSUME NEW p \in Procs, Saved(p), UNCHANGED <<port, leaving, overlap>>
      PROVE  LoneInv'
  BY <1>6 DEF Saved
<1>7. ASSUME NEW p \in Procs, SaveFails(p), UNCHANGED <<port, leaving, overlap>>
      PROVE  LoneInv'
  <2>1. CASE pc[p] \in {"write", "sync", "rename"} /\ UNCHANGED half
    BY <1>7, <2>1 DEF SaveFails
  <2>2. CASE pc[p] = "chmod" /\ half' = [half EXCEPT ![p] = mem[p] # 0]
    <3>1. CASE mem[p] = 0
      BY <1>7, <2>2, <3>1 DEF SaveFails
    <3>2. CASE mem[p] # 0
      <4>1. half'[p]
        <5>1. p \in DOMAIN half
          OBVIOUS
        <5> QED
          BY <2>2, <3>2, <5>1, Zenon
      <4> QED
        BY <1>7, <2>2, <3>2, <4>1 DEF SaveFails
    <3> QED
      BY <3>1, <3>2
  <2> QED
    BY <1>7, <2>1, <2>2 DEF SaveFails
<1>8. ASSUME NEW p \in Procs, Listen(p) PROVE LoneInv'
  BY <1>8 DEF Listen, Gone
<1>9. ASSUME NEW p \in Procs, Starts(p) PROVE LoneInv'
  BY <1>9 DEF Starts, Start
<1>10. ASSUME NEW p \in Procs, End(p) PROVE LoneInv'
  BY <1>10 DEF End, Gone
<1>11. CASE Leaves
  BY <1>11 DEF Leaves, Leave, configVars
<1>12. CASE Settles
  BY <1>12 DEF Settles, Settle
<1>13. CASE AllGone
  BY <1>13 DEF AllGone, PowerFails, Gone
<1>14. CASE UNCHANGED <<configVars, port, leaving, overlap>>
  BY <1>14 DEF configVars
<1> HIDE DEF ConfigInv, StoreInv, ListenInv, AgentsInv, LoneInv
<1> QED
  BY <1>1, <1>2, <1>3, <1>4, <1>5, <1>6, <1>7, <1>8, <1>9,
     <1>10, <1>11, <1>12, <1>13, <1>14
     DEF ProcStep, Saves, SaveStep

\* What launchers read.
LEMMA TokenStep ==
  ASSUME TokenInv, [Next]_launcherVars
  PROVE  TokenInv'
<1> USE DEF TokenInv, Ended, Move
<1>1. CASE Agents
  BY <1>1 DEF Agents, Listen
<1>2. CASE World
  BY <1>2 DEF World
<1>3. ASSUME NEW l \in Launchers, Launch(l) PROVE TokenInv'
  <2>1. CASE Load(l, "stopLoad", "stop") \/ Load(l, "load", "ask")
    BY <2>1 DEF Load
  <2>2. CASE UNCHANGED token /\ \E to \in Ended \cup {"check", "stopLoad", "stop", "waitGone",
                                "spawn", "waitUp", "load", "ask"} : lpc' = [lpc EXCEPT ![l] = to]
    BY <2>2
  <2> QED
    BY <1>3, <2>1, <2>2
       DEF Launch, Check, Stop, StopUnanswered, StopFails, WaitGone, Spawn, WaitUp, Ask
<1>4. CASE UNCHANGED launcherVars
  BY <1>4 DEF launcherVars
<1> QED
  BY <1>1, <1>2, <1>3, <1>4 DEF Next

\* Nobody runs, or an agent of the old version has loaded the file.
LEMMA InitOwn == Init => OwnInv
<1> SUFFICES ASSUME Init PROVE OwnInv
  OBVIOUS
<1> USE ConfigAssumption, LauncherAssumption DEF Init, Configs, NoFile, Torn
<1>1. ConfigInv
  <2>1. made \in 0..MaxConfigs /\ disk \in saved \cup {NoFile} /\ settled \in saved \cup {NoFile}
    OBVIOUS
  <2>2. \A p \in Procs : pc[p] \in {"up", "off"}
    OBVIOUS
  <2>3. \A p \in Procs : mem[p] \in saved \cup {0}
    <3>1. port # NoAgent => disk \in saved
      OBVIOUS
    <3>2. \A p \in Procs : (mem[p] = disk /\ p = port) \/ mem[p] = 0
      OBVIOUS
    <3> QED
      BY <3>1, <3>2
  <2> QED
    BY <2>1, <2>2, <2>3 DEF ConfigInv, ConfigTypeOK
<1>2. StoreInv /\ ListenInv
  <2>1. port \in Procs \cup {NoAgent} /\ leaving = {} /\ overlap = {}
    OBVIOUS
  <2>2. port # NoAgent => disk = 1
    OBVIOUS
  <2>3. \A p \in Procs : p = port => pc[p] = "up" /\ mem[p] = disk
    OBVIOUS
  <2>4. \A p \in Procs : p # port => pc[p] = "off" /\ mem[p] = 0
    OBVIOUS
  <2> HIDE DEF Init
  <2>5. StoreInv
    <3> SUFFICES ASSUME NEW p \in Procs
                 PROVE  /\ pc[p] = "up" => mem[p] # 0
                        /\ pc[p] \in {"off", "load"} => mem[p] = 0
                        /\ mem[p] # 0 \/ pc[p] = "chmod" => disk # NoFile
      BY DEF StoreInv
    <3>1. CASE p = port
      BY <2>2, <2>3, <3>1
    <3>2. CASE p # port
      BY <2>4, <3>2
    <3> QED
      BY <3>1, <3>2
  <2>6. ListenInv
    BY <2>1, <2>2, <2>3 DEF ListenInv
  <2> QED
    BY <2>5, <2>6
<1>3. LoneInv
  BY DEF LoneInv, Lone
<1>4. TokenInv
  BY DEF TokenInv
<1> QED
  BY <1>1, <1>2, <1>3, <1>4 DEF OwnInv, AgentsInv

\* The invariant, at every step of the agents, the launchers and the world.
THEOREM Inductive == Spec => []OwnInv
<1>1. OwnInv /\ [Next]_launcherVars => OwnInv'
  BY NextIs, ConfigStep, StoreStep, ListenStep, LoneStep, TokenStep DEF OwnInv, AgentsInv
<1> QED
  BY InitOwn, <1>1, PTL DEF Spec

\* config.json is whole after a crash or a power failure in any step of Save, and a Store
\* never holds a configuration that it has not contained (config.go:66-73, 175-198).
THEOREM FileIsWhole == Spec => []OnlyTheSaved
<1>1. OwnInv => OnlyTheSaved
  BY DEF OwnInv, AgentsInv, ConfigInv, ConfigTypeOK, OnlyTheSaved, Configs, NoFile, Torn
<1> QED
  BY <1>1, Inductive, PTL

\* No request is ever compared with an empty token: whoever listens has a configuration
\* (main.go:68 before 90).
THEOREM ListensWithConfig == Spec => []LauncherInv
<1>1. OwnInv => LauncherInv
  BY DEF OwnInv, AgentsInv, ConfigInv, ListenInv, TokenInv, LauncherInv, LauncherTypeOK
<1> QED
  BY <1>1, Inductive, PTL

\* An agent that started alone accepts the token that launchers read from the file,
\* whoever died and whatever saves failed before (config.go:201).
THEOREM LoneAgentServesFile == Spec => []LoneAgentOwnsFile
<1>1. OwnInv => LoneAgentOwnsFile
  BY DEF OwnInv, AgentsInv, ListenInv, LoneInv, Lone, LoneAgentOwnsFile
<1> QED
  BY <1>1, Inductive, PTL
=============================================================================
