------------------------------ MODULE ConfigFile ------------------------------
(***************************************************************************)
(* config.json and the Stores that share it (internal/config): LoadOrCreate,  *)
(* Update and the steps of Save on disk, with processes that die, file        *)
(* operations that fail, and power that fails.                               *)
(*                                                                          *)
(* A configuration is a number, given in the order configurations are made:   *)
(* each Update and each first start makes one that never was before.  Update  *)
(* holds the Store's lock throughout, so nobody reads that memory meanwhile.  *)
(***************************************************************************)
EXTENDS Integers

CONSTANTS
    Procs,          \* processes with a Store
    Windows,        \* chmod never fails there and a rename is written through
    MaxConfigs      \* bound: configurations made

ASSUME ConfigAssumption == Windows \in BOOLEAN /\ MaxConfigs \in Nat \ {0}

NoFile == 0
Torn   == -1        \* a file whose data never reached the disk
Configs == 1..MaxConfigs

VARIABLES
    disk,       \* what config.json contains
    settled,    \* what it contains after a power failure
    temp,       \* each process' temporary file: "none", "written" or "synced"
    pc,         \* each process: off, or the step it takes next
    mem,        \* Store.cfg, 0 before there is one
    next,       \* the configuration being saved
    made,       \* configurations made so far
    saved,      \* history: the configurations that config.json has contained
    half        \* history: the file holds what an Update of it reported as failed

configVars == <<disk, settled, temp, pc, mem, next, made, saved, half>>

\* The type invariant.
ConfigTypeOK ==
    /\ disk \in Configs \cup {NoFile, Torn} /\ settled \in Configs \cup {NoFile, Torn}
    /\ temp \in [Procs -> {"none", "written", "synced"}]
    /\ pc \in [Procs -> {"off", "load", "write", "sync", "rename", "chmod", "up"}]
    /\ mem \in [Procs -> Configs \cup {0}] /\ next \in [Procs -> Configs \cup {0}]
    /\ made \in 0..MaxConfigs /\ saved \subseteq Configs
    /\ half \in [Procs -> BOOLEAN]

\* Make p save a new configuration.
Prepare(p) ==
    /\ made < MaxConfigs /\ made' = made + 1
    /\ next' = [next EXCEPT ![p] = made + 1]
    /\ pc' = [pc EXCEPT ![p] = "write"]

\* LoadOrCreate.  A file that is there but cannot be read or parsed is an error.
LoadOrCreate(p) ==
    /\ pc[p] = "load"
    /\ \/ /\ disk \in Configs
          /\ mem' = [mem EXCEPT ![p] = disk] /\ pc' = [pc EXCEPT ![p] = "up"]
          /\ UNCHANGED <<next, made>>
       \/ disk = NoFile /\ Prepare(p) /\ UNCHANGED mem
       \/ disk # NoFile /\ pc' = [pc EXCEPT ![p] = "off"] /\ UNCHANGED <<mem, next, made>>
    /\ UNCHANGED <<disk, settled, temp, saved, half>>

\* Mutant of Update: the Store changes before the file does.
UpdateFirst(p) ==
    /\ pc[p] = "up" /\ Prepare(p)
    /\ mem' = next'
    /\ UNCHANGED <<disk, settled, temp, saved, half>>

Update(p) ==
    /\ pc[p] = "up" /\ Prepare(p)
    /\ UNCHANGED <<disk, settled, temp, mem, saved, half>>

WriteTemp(p) ==
    /\ pc[p] = "write"
    /\ temp' = [temp EXCEPT ![p] = "written"]
    /\ pc' = [pc EXCEPT ![p] = "sync"]
    /\ UNCHANGED <<disk, settled, mem, next, made, saved, half>>

\* Mutant of Sync: the data is not forced to disk.
SyncNothing(p) ==
    /\ pc[p] = "sync"
    /\ pc' = [pc EXCEPT ![p] = "rename"]
    /\ UNCHANGED <<disk, settled, temp, mem, next, made, saved, half>>

Sync(p) ==
    /\ pc[p] = "sync"
    /\ temp' = [temp EXCEPT ![p] = "synced"]
    /\ pc' = [pc EXCEPT ![p] = "rename"]
    /\ UNCHANGED <<disk, settled, mem, next, made, saved, half>>

\* replaceFile.  Readers see the new file at once, a power failure may not.
Rename(p) ==
    /\ pc[p] = "rename"
    /\ disk' = next[p] /\ saved' = saved \cup {next[p]}
    /\ settled' = IF temp[p] # "synced" THEN Torn ELSE IF Windows THEN next[p] ELSE settled
    /\ temp' = [temp EXCEPT ![p] = "none"]
    /\ pc' = [pc EXCEPT ![p] = "chmod"]
    /\ UNCHANGED <<mem, next, made, half>>

\* Mutant of Saved: the Store keeps the old configuration.
SavedForgotten(p) ==
    /\ pc[p] = "chmod"
    /\ mem' = [mem EXCEPT ![p] = IF mem[p] = 0 THEN next[p] ELSE mem[p]]
    /\ half' = [half EXCEPT ![p] = FALSE]
    /\ pc' = [pc EXCEPT ![p] = "up"]
    /\ UNCHANGED <<disk, settled, temp, next, made, saved>>

\* The last chmod succeeds: Save returns, and the Store takes the new one.
Saved(p) ==
    /\ pc[p] = "chmod"
    /\ mem' = [mem EXCEPT ![p] = next[p]]
    /\ half' = [half EXCEPT ![p] = FALSE]
    /\ pc' = [pc EXCEPT ![p] = "up"]
    /\ UNCHANGED <<disk, settled, temp, next, made, saved>>

\* Any step fails: the temporary file goes, the Store stays as it was, and a
\* process that had none ends.  The last chmod fails when the file has changed.
SaveFails(p) ==
    /\ \/ pc[p] \in {"write", "sync", "rename"} /\ UNCHANGED half
       \/ pc[p] = "chmod" /\ ~Windows /\ half' = [half EXCEPT ![p] = mem[p] # 0]
    /\ temp' = [temp EXCEPT ![p] = "none"]
    /\ pc' = [pc EXCEPT ![p] = IF mem[p] = 0 THEN "off" ELSE "up"]
    /\ UNCHANGED <<disk, settled, mem, next, made, saved>>

SaveStep(p) ==
    LoadOrCreate(p) \/ WriteTemp(p) \/ Sync(p) \/ Rename(p) \/ Saved(p) \/ SaveFails(p)

\* A process ends or dies; what it had is forgotten, and a temporary file of it
\* is never looked at again.
Gone(P) ==
    /\ pc' = [p \in Procs |-> IF p \in P THEN "off" ELSE pc[p]]
    /\ mem' = [p \in Procs |-> IF p \in P THEN 0 ELSE mem[p]]
    /\ temp' = [p \in Procs |-> IF p \in P THEN "none" ELSE temp[p]]
    /\ half' = [p \in Procs |-> p \notin P /\ half[p]]

\* The directory reaches the disk.
Settle ==
    /\ settled # disk /\ settled # Torn
    /\ settled' = disk
    /\ UNCHANGED <<disk, temp, pc, mem, next, made, saved, half>>

PowerFails ==
    /\ disk' \in {disk, settled} /\ settled' = disk'
    /\ Gone(Procs)
    /\ UNCHANGED <<next, made, saved>>

-----------------------------------------------------------------------------
\* config.json is always a whole configuration, also after a crash or a power
\* failure in any step of Save (lines 175 to 198), and a Store never holds, so that
\* nobody is ever authorised by, one that it has not contained (lines 66 to 73).
OnlyTheSaved ==
    /\ disk # Torn
    /\ \A p \in Procs : mem[p] \in saved \cup {0}

\* Why that is so: what is renamed has been synced, and what is in
\* force has been saved.
ConfigInv ==
    /\ ConfigTypeOK
    /\ saved \subseteq 1..made
    /\ disk \in saved \cup {NoFile} /\ settled \in saved \cup {NoFile}
    /\ \A p \in Procs :
        /\ mem[p] \in saved \cup {0}
        /\ pc[p] \in {"write", "sync", "rename", "chmod"} => next[p] \in 1..made
        /\ pc[p] = "rename" => temp[p] = "synced"
        /\ pc[p] = "chmod" => next[p] \in saved
=============================================================================
