----------------------------- MODULE RotatingLog -----------------------------
(***************************************************************************)
(* The rotating log (internal/logging): Write appends a record to the file,   *)
(* or renames the file to its backup and begins a new one when it would grow  *)
(* too large.  All steps of a Write hold one mutex; each may fail, and the    *)
(* agent may end in each and be started again.  One process has the log: a    *)
(* second agent, which opens it before it finds the port taken (main.go:76),  *)
(* and one that still logs while its successor runs are not in this model.   *)
(***************************************************************************)
EXTENDS Integers, Sequences

CONSTANTS
    MaxBytes,       \* MaxFileBytes
    RecordSizes,    \* sizes of the records
    MaxRecords      \* bound: records in all

ASSUME LogAssumption == MaxBytes \in Nat \ {0} /\ RecordSizes \subseteq Nat \ {0} /\ MaxRecords \in Nat

VARIABLES
    log, backup,    \* the files: their records, by number, and their bytes
    file,           \* w.file: "open", "closed" and not nil, "nil", or "off", no agent
    size,           \* w.size
    step,           \* what Write does next, "idle" between Writes
    record,         \* the size of the record it was given
    written         \* history: how many records were ever written to the file
logVars == <<log, backup, file, size, step, record, written>>

Empty == [records |-> <<>>, bytes |-> 0]

LogInit ==
    /\ log = Empty /\ backup = Empty /\ written = 0
    /\ file = "off" /\ size = 0 /\ step = "idle" /\ record = 0

\* newRotatingWriter, which continues the file.
OpenLog ==
    /\ file = "off" /\ file' = "open" /\ size' = log.bytes
    /\ UNCHANGED <<log, backup, step, record, written>>

BeginWrite(n) ==
    /\ step = "idle" /\ file \in {"open", "closed"} /\ written < MaxRecords
    /\ record' = n
    /\ step' = IF size > 0 /\ size + n > MaxBytes THEN "close" ELSE "write"
    /\ UNCHANGED <<log, backup, file, size, written>>

EndWrite == step' = "idle" /\ record' = 0

\* Closing a file a second time fails; so may closing it once.
CloseFile ==
    /\ step = "close" /\ file' = "closed"
    /\ \/ file = "open" /\ step' = "remove" /\ UNCHANGED record
       \/ EndWrite
    /\ UNCHANGED <<log, backup, size, written>>

\* The old backup goes; an error is ignored.
RemoveBackup ==
    /\ step = "remove" /\ step' = "rename"
    /\ backup' \in {Empty, backup}
    /\ UNCHANGED <<log, file, size, record, written>>

\* Mutant of RenameLog: the error is ignored as well.
RenameLogOrNot ==
    /\ step = "rename" /\ step' = "create"
    /\ \/ backup' = log /\ log' = Empty
       \/ UNCHANGED <<backup, log>>
    /\ UNCHANGED <<record, file, size, written>>

\* Nobody else removes the file, so that Rename finds it.
RenameLog ==
    /\ step = "rename"
    /\ \/ backup' = log /\ log' = Empty /\ step' = "create" /\ UNCHANGED record
       \/ EndWrite /\ UNCHANGED <<backup, log>>
    /\ UNCHANGED <<file, size, written>>

CreateLog ==
    /\ step = "create"
    /\ \/ file' = "open" /\ log' = Empty /\ size' = 0 /\ step' = "write" /\ UNCHANGED record
       \/ EndWrite /\ UNCHANGED <<file, log, size>>
    /\ UNCHANGED <<backup, written>>

\* All of the record, or what the disk had room for, or nothing.
WriteRecord ==
    /\ step = "write" /\ EndWrite
    /\ \/ /\ file = "open" /\ written' = written + 1
          /\ \E n \in 1..record :
                /\ log' = [records |-> Append(log.records, written'), bytes |-> log.bytes + n]
                /\ size' = size + n
       \/ UNCHANGED <<log, written, size>>
    /\ UNCHANGED <<backup, file>>

\* runAgent closes the log; a Write of another goroutine may be waiting for the
\* mutex, and finds no file.
CloseLog ==
    /\ step = "idle" /\ file \in {"open", "closed"} /\ file' = "nil"
    /\ UNCHANGED <<log, backup, size, step, record, written>>

\* The agent ends, or dies in any step.
Die ==
    /\ file # "off" /\ file' = "off" /\ size' = 0
    /\ EndWrite
    /\ UNCHANGED <<log, backup, written>>

LogNext ==
    \/ OpenLog \/ (\E n \in RecordSizes : BeginWrite(n))
    \/ CloseFile \/ RemoveBackup \/ RenameLog \/ CreateLog \/ WriteRecord
    \/ CloseLog \/ Die

LogSpec == LogInit /\ [][LogNext]_logVars

-----------------------------------------------------------------------------
\* Backup and log are the end of all that was written, without a gap, and never
\* empty once something was: a rotation gives up the old backup and nothing else,
\* whatever fails or dies in it (logging.go:87-103).  Neither is larger than the
\* bound unless one record is, however often the log was reopened or a rotation
\* failed; w.size is the file's size while it is open (logging.go:71-85).
LogIsTheEnd ==
    LET kept == backup.records \o log.records IN
    /\ \A i \in 1..Len(kept) : kept[i] = written - Len(kept) + i
    /\ written > 0 => kept # <<>>
    /\ \A f \in {log, backup} : f.bytes <= MaxBytes \/ Len(f.records) = 1
    /\ file = "open" => size = log.bytes
=============================================================================
