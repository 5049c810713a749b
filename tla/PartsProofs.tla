------------------------------ MODULE PartsProofs ------------------------------
(***************************************************************************)
(* The parser of cloudflared's output, the limiter of the clipboard API and the *)
(* rotating log: what each guarantees for any sizes, limits and records.        *)
(***************************************************************************)
EXTENDS UrlOutput, RateLimiter, RotatingLog, FiniteSetTheorems, TLAPS

-----------------------------------------------------------------------------
(* The limiter.                                                             *)

\* The request that opened the window.
First == Len(admitted) - count + 1

\* The window has the last count requests.  What was let in so many requests before it
\* that another window came between, or after a pause, is a window away from it.
WindowInv ==
    IF windowStart = NoWindow THEN admitted = <<>> /\ count = 0
    ELSE /\ windowStart \in Nat /\ windowStart <= now
         /\ count \in 1..Len(admitted)
         /\ \A i \in First..Len(admitted) :
                admitted[i] >= windowStart /\ admitted[i] < windowStart + RateWindow
         /\ \A i \in 1..First :
                /\ admitted[i] <= windowStart
                /\ i <= First - RateLimit => admitted[i] <= windowStart - RateWindow
                /\ i < First /\ AfterPause(i) => admitted[i] <= windowStart - RateWindow

LimiterInv ==
    /\ now \in Nat /\ admitted \in Seq(Nat) /\ count \in 0..RateLimit
    /\ WindowInv
    /\ RateBounded

\* A request that opens a window: what opened the last one is a window away, and so is all
\* that came before it.
LEMMA NewWindow ==
  ASSUME LimiterInv, WindowOver, Admit
  PROVE  LimiterInv'
<1> DEFINE n == Len(admitted)
<1>1. /\ windowStart' = now /\ count' = 1 /\ now' = now /\ now \in Nat
      /\ admitted \in Seq(Nat) /\ admitted' = Append(admitted, now)
      /\ n \in Nat /\ Len(admitted') = n + 1 /\ admitted'[n + 1] = now
      /\ \A i \in 1..n : admitted'[i] = admitted[i] /\ admitted[i] \in Nat
  BY DEF Admit, LimiterInv
<1>2. RateLimit \in Nat /\ RateLimit >= 1 /\ RateWindow \in Nat /\ RateWindow >= 1
  BY RateAssumption
<1>3. First' = n + 1
  BY <1>1 DEF First
<1>4. ASSUME NEW i \in 1..n, i <= First
      PROVE  admitted[i] <= now - RateWindow
  <2>1. windowStart # NoWindow /\ windowStart \in Nat /\ count \in 1..n
    BY <1>1 DEF LimiterInv, WindowInv
  <2>2. windowStart <= now - RateWindow
    BY <1>1, <1>2, <2>1 DEF WindowOver
  <2>3. i \in 1..First /\ admitted[i] \in Nat
    BY <1>1, <1>4, <2>1 DEF First
  <2>4. admitted[i] <= windowStart
    BY <2>1, <2>3 DEF LimiterInv, WindowInv
  <2>. QED
    BY <1>1, <1>2, <2>1, <2>2, <2>3, <2>4
<1>5. \A i \in 1..n : i <= n + 1 - RateLimit => i <= First
  BY <1>1, <1>2 DEF LimiterInv, WindowInv, First, NoWindow
<1>6. ASSUME NEW i \in 1..n, AfterPause(i)
      PROVE  i <= First
  <2> SUFFICES ASSUME i > First PROVE FALSE
    BY <1>1 DEF LimiterInv, First
  <2>1. windowStart \in Nat /\ count \in 1..n /\ First \in 1..n /\ i - 1 \in First..n /\ i - 1 \in 1..n
    BY <1>1 DEF LimiterInv, WindowInv, First
  <2>2. admitted[i - 1] >= windowStart /\ admitted[i] < windowStart + RateWindow
    BY <1>1, <2>1 DEF LimiterInv, WindowInv, NoWindow
  <2>. QED
    <3>1. i # 1 /\ admitted[i] - admitted[i - 1] >= RateWindow
      BY <1>6, <2>1 DEF AfterPause
    <3>2. /\ admitted[i] \in Nat /\ admitted[i - 1] \in Nat
          /\ windowStart \in Nat /\ RateWindow \in Nat
      BY <1>1, <1>2, <2>1
    <3>. QED BY <2>2, <3>1, <3>2
<1>7. \A i \in 1..n : AfterPause(i)' => AfterPause(i)
  BY <1>1 DEF AfterPause
<1>8. WindowInv'
  <2>1. windowStart' \in Nat /\ windowStart' # NoWindow /\ windowStart' <= now'
    BY <1>1 DEF NoWindow
  <2>2. \A i \in 1..First' :
          /\ admitted'[i] <= windowStart'
          /\ i <= First' - RateLimit => admitted'[i] <= windowStart' - RateWindow
          /\ i < First' /\ AfterPause(i)' => admitted'[i] <= windowStart' - RateWindow
    <3> SUFFICES ASSUME NEW i \in 1..(n + 1), i # n + 1
                 PROVE  /\ admitted'[i] <= now
                        /\ i <= n + 1 - RateLimit => admitted'[i] <= now - RateWindow
                        /\ AfterPause(i)' => admitted'[i] <= now - RateWindow
      BY <1>1, <1>2, <1>3
    <3>1. i \in 1..n
      BY <1>1
    <3>2. admitted[i] <= now
      <4>1. windowStart \in Nat /\ windowStart # NoWindow /\ First \in 1..n
        BY <1>1, <3>1 DEF LimiterInv, WindowInv, First, NoWindow
      <4>2. CASE i <= First
        BY <1>1, <1>2, <1>4, <3>1, <4>2
      <4>3. CASE i > First
        BY <1>1, <1>2, <3>1, <4>1, <4>3 DEF LimiterInv, WindowInv, WindowOver
      <4>. QED BY <1>1, <3>1, <4>1, <4>2, <4>3
    <3>. QED
      BY <1>1, <1>4, <1>5, <1>6, <1>7, <3>1, <3>2
  <2>. QED
    BY <1>1, <1>2, <1>3, <2>1, <2>2 DEF WindowInv
<1>9. RateBounded'
  <2>1. DOMAIN admitted = 1..n /\ DOMAIN admitted' = 1..(n + 1)
    BY <1>1
  <2> SUFFICES ASSUME NEW i \in 1..(n + 1), NEW j \in 1..(n + 1)
               PROVE  /\ j >= i + 2 * RateLimit => admitted'[j] - admitted'[i] >= RateWindow
                      /\ AfterPause(i)' /\ j >= i + RateLimit => admitted'[j] - admitted'[i] >= RateWindow
    BY <2>1 DEF RateBounded
  <2>2. CASE i \in 1..n /\ j \in 1..n
    BY <1>1, <1>7, <2>1, <2>2 DEF RateBounded, LimiterInv
  <2>3. CASE i \in 1..n /\ j = n + 1
    BY <1>1, <1>2, <1>4, <1>5, <1>6, <1>7, <2>3
  <2>4. CASE i = n + 1
    BY <1>2, <2>4
  <2>. QED BY <2>2, <2>3, <2>4
<1>. QED
  BY <1>1, <1>2, <1>8, <1>9 DEF LimiterInv

\* A request in the window: what is so many requests before it came before the window.
LEMMA SameWindow ==
  ASSUME LimiterInv, ~WindowOver, Admit
  PROVE  LimiterInv'
<1> DEFINE n == Len(admitted)
<1>1. /\ windowStart' = windowStart /\ count' = count + 1 /\ count < RateLimit
      /\ now' = now /\ now \in Nat
      /\ admitted \in Seq(Nat) /\ admitted' = Append(admitted, now)
      /\ n \in Nat /\ Len(admitted') = n + 1 /\ admitted'[n + 1] = now
      /\ \A i \in 1..n : admitted'[i] = admitted[i] /\ admitted[i] \in Nat
  BY DEF Admit, LimiterInv
<1>2. RateLimit \in Nat /\ RateLimit >= 1 /\ RateWindow \in Nat /\ RateWindow >= 1
  BY RateAssumption
<1>3. /\ windowStart \in Nat /\ windowStart <= now /\ now < windowStart + RateWindow
      /\ count \in 1..n
      /\ First' = First /\ First \in 1..n
  <2>1. windowStart # NoWindow /\ windowStart \in Nat /\ windowStart <= now /\ count \in 1..n
    BY <1>1 DEF LimiterInv, WindowInv, WindowOver
  <2>. QED
    BY <1>1, <1>2, <2>1 DEF WindowOver, First
<1>4. \A i \in 1..n : AfterPause(i)' => AfterPause(i)
  BY <1>1 DEF AfterPause
<1>5. WindowInv'
  BY <1>1, <1>2, <1>3, <1>4 DEF WindowInv, LimiterInv
<1>6. RateBounded'
  <2>1. DOMAIN admitted = 1..n /\ DOMAIN admitted' = 1..(n + 1)
    BY <1>1
  <2> SUFFICES ASSUME NEW i \in 1..(n + 1), NEW j \in 1..(n + 1)
               PROVE  /\ j >= i + 2 * RateLimit => admitted'[j] - admitted'[i] >= RateWindow
                      /\ AfterPause(i)' /\ j >= i + RateLimit => admitted'[j] - admitted'[i] >= RateWindow
    BY <2>1 DEF RateBounded
  <2>2. CASE i \in 1..n /\ j \in 1..n
    BY <1>1, <1>4, <2>1, <2>2 DEF RateBounded, LimiterInv
  <2>3. CASE i \in 1..n /\ j = n + 1
    <3>1. j >= i + 2 * RateLimit => i <= First - RateLimit
      BY <1>1, <1>2, <1>3, <2>3 DEF First
    <3>2. j >= i + RateLimit => i < First
      BY <1>1, <1>2, <1>3, <2>3 DEF First
    <3>3. /\ i <= First - RateLimit => admitted[i] <= windowStart - RateWindow
          /\ i < First /\ AfterPause(i) => admitted[i] <= windowStart - RateWindow
      BY <1>1, <1>2, <1>3, <2>3 DEF LimiterInv, WindowInv, NoWindow
    <3>. QED
      <4>0. admitted'[j] = now
        BY <1>1, <2>3
      <4>1. /\ admitted'[j] = now /\ admitted'[i] = admitted[i] /\ admitted[i] \in Nat
            /\ AfterPause(i)' => AfterPause(i)
        BY <1>1, <1>4, <2>3, <4>0
      <4>2. admitted[i] <= windowStart - RateWindow => now - admitted[i] >= RateWindow
        <5>1. /\ windowStart \in Nat /\ now \in Nat /\ windowStart <= now
              /\ RateWindow \in Nat /\ admitted[i] \in Nat
          BY <1>1, <1>2, <1>3, <4>1
        <5>. QED BY <5>1
      <4>3. j >= i + 2 * RateLimit => admitted[i] <= windowStart - RateWindow
        BY <3>1, <3>3
      <4>4. AfterPause(i)' /\ j >= i + RateLimit => admitted[i] <= windowStart - RateWindow
        BY <3>2, <3>3, <4>1
      <4>5. admitted'[j] - admitted'[i] = now - admitted[i]
        BY <4>1
      <4>. HIDE DEF n
      <4>. QED BY <4>2, <4>3, <4>4, <4>5
  <2>4. CASE i = n + 1
    BY <1>2, <2>4
  <2>. QED BY <2>2, <2>3, <2>4
<1>. QED
  BY <1>1, <1>2, <1>5, <1>6 DEF LimiterInv

\* However requests come, no period as long as a window has more than twice the limit,
\* and none that follows a pause has more than the limit.
THEOREM LimitHolds == LimiterSpec => []RateBounded
<1>1. LimiterInit => LimiterInv
  BY RateAssumption DEF LimiterInit, LimiterInv, WindowInv, RateBounded
<1>2. LimiterInv /\ [LimiterNext]_limiterVars => LimiterInv'
  <2> SUFFICES ASSUME LimiterInv, [LimiterNext]_limiterVars PROVE LimiterInv'
    OBVIOUS
  <2>1. CASE Admit
    BY <2>1, NewWindow, SameWindow
  <2>2. CASE Later
    BY <2>2 DEF Later, LimiterInv, WindowInv, RateBounded, First, AfterPause
  <2>3. CASE Reject \/ UNCHANGED limiterVars
    BY <2>3 DEF Reject, limiterVars, LimiterInv, WindowInv, RateBounded, First, AfterPause
  <2>. QED BY <2>1, <2>2, <2>3 DEF LimiterNext
<1>. QED
  BY <1>1, <1>2, PTL DEF LimiterSpec, LimiterInv

-----------------------------------------------------------------------------
(* The log.                                                                 *)

Files == [records : Seq(Nat), bytes : Nat]

LogTypeOK ==
    /\ log \in Files /\ backup \in Files
    /\ file \in {"open", "closed", "nil", "off"}
    /\ step \in {"idle", "close", "remove", "rename", "create", "write"}
    /\ size \in Nat /\ record \in Nat /\ written \in Nat

\* s counts up to n.
CountsTo(s, n) == \A i \in 1..Len(s) : s[i] = n - Len(s) + i

\* A log with one more record is not empty.
LEMMA Appended ==
  ASSUME NEW s \in Seq(Nat), NEW n \in Nat
  PROVE  Append(s, n) \in Seq(Nat) /\ Append(s, n) # <<>> /\ Len(Append(s, n)) = Len(s) + 1
<1>1. Append(s, n) \in Seq(Nat)
  OBVIOUS
<1>2. Len(Append(s, n)) = Len(s) + 1
  OBVIOUS
<1>3. Append(s, n) # <<>>
  OBVIOUS
<1>. QED BY <1>1, <1>2, <1>3

\* The next record continues the count.
LEMMA CountsOn ==
  ASSUME NEW s \in Seq(Nat), NEW n \in Nat, CountsTo(s, n)
  PROVE  CountsTo(Append(s, n + 1), n + 1)
<1> DEFINE t == Append(s, n + 1)
<1>1. /\ Len(s) \in Nat /\ Len(t) = Len(s) + 1 /\ t[Len(s) + 1] = n + 1
      /\ \A i \in 1..Len(s) : t[i] = s[i] /\ s[i] = n - Len(s) + i
  BY DEF CountsTo
<1>2. \A i \in 1..(Len(s) + 1) : t[i] = n + 1 - (Len(s) + 1) + i
  <2> HIDE DEF t
  <2>. QED BY <1>1
<1>. QED BY <1>1, <1>2 DEF CountsTo

\* Two sequences that count on from one another count together.
LEMMA CountsAcross ==
  ASSUME NEW s \in Seq(Nat), NEW t \in Seq(Nat), NEW n \in Nat,
         CountsTo(t, n), CountsTo(s, n - Len(t))
  PROVE  CountsTo(s \o t, n)
<1>1. /\ Len(s \o t) = Len(s) + Len(t) /\ Len(s) \in Nat /\ Len(t) \in Nat
      /\ \A i \in 1..(Len(s) + Len(t)) : (s \o t)[i] = IF i <= Len(s) THEN s[i] ELSE t[i - Len(s)]
  OBVIOUS
<1> SUFFICES ASSUME NEW i \in 1..(Len(s) + Len(t))
             PROVE  (s \o t)[i] = n - (Len(s) + Len(t)) + i
  BY <1>1 DEF CountsTo
<1>2. CASE i <= Len(s)
  BY <1>1, <1>2 DEF CountsTo
<1>3. CASE i > Len(s)
  <2>1. i - Len(s) \in 1..Len(t)
    BY <1>1, <1>3
  <2>. QED
    BY <1>1, <1>3, <2>1 DEF CountsTo
<1>. QED BY <1>1, <1>2, <1>3

\* The files have the last records, the older ones in the backup.
LastRecords ==
    /\ CountsTo(log.records, written)
    /\ CountsTo(backup.records, written - Len(log.records))
    /\ written > 0 => log.records # <<>> \/ backup.records # <<>>

\* A file without records has no bytes, and few enough otherwise.
FileInv(f) ==
    /\ f.records = <<>> <=> f.bytes = 0
    /\ f.bytes <= MaxBytes \/ Len(f.records) = 1

\* Where Write is: the backup is given up when there is a log to take its place, the log
\* when it has been renamed, and what is appended has room.
RotationInv ==
    /\ file = "open" => size = log.bytes
    /\ step # "idle" => file \in {"open", "closed"}
    /\ step = "close" => size > 0
    /\ step \in {"remove", "rename"} => file = "closed" /\ log.records # <<>>
    /\ step = "create" => file = "closed" /\ log = Empty
    /\ step = "write" /\ file = "open" => log.bytes = 0 \/ log.bytes + record <= MaxBytes

LogInv == LogTypeOK /\ LastRecords /\ FileInv(log) /\ FileInv(backup) /\ RotationInv

\* Renaming the log to its backup loses what the backup had, and nothing else.
LEMMA RotationKeeps ==
  ASSUME LogInv, RemoveBackup \/ RenameLog \/ CreateLog
  PROVE  LogInv'
<1>. USE DEF LogInv, LogTypeOK, RotationInv, EndWrite
<1>1. Empty \in Files /\ FileInv(Empty) /\ Len(Empty.records) = 0 /\ Empty.records = <<>> /\ Empty.bytes = 0
  BY LogAssumption DEF Empty, Files, FileInv
<1>2. \A n : CountsTo(<<>>, n)
  BY DEF CountsTo
<1>3. written - 0 = written
  OBVIOUS
<1>4. CASE RemoveBackup
  <2>2. UNCHANGED <<log, file, size, record, written>> /\ step = "remove" /\ step' = "rename"
    BY <1>4 DEF RemoveBackup
  <2>3. CASE backup' = backup
    BY <2>2, <2>3 DEF LastRecords, FileInv
  <2>4. CASE backup' = Empty
    <3>1. LastRecords'
      BY <1>1, <1>2, <1>3, <2>2, <2>4 DEF LastRecords
    <3>. QED
      BY <1>1, <2>2, <2>4, <3>1 DEF FileInv
  <2>. QED
    BY <1>4, <2>3, <2>4 DEF RemoveBackup
<1>5. CASE RenameLog
  <2>2. UNCHANGED <<file, size, written>> /\ step = "rename"
    BY <1>5 DEF RenameLog
  <2>3. CASE EndWrite /\ UNCHANGED <<backup, log>>
    BY <2>2, <2>3 DEF LastRecords, FileInv
  <2>4. CASE backup' = log /\ log' = Empty /\ step' = "create" /\ UNCHANGED record
    <3>1. LastRecords'
      BY <1>1, <1>2, <1>3, <2>2, <2>4 DEF LastRecords
    <3>. QED
      BY <1>1, <2>2, <2>4, <3>1 DEF FileInv
  <2>. QED
    BY <1>5, <2>3, <2>4 DEF RenameLog
<1>6. CASE CreateLog
  BY <1>1, <1>2, <1>3, <1>6 DEF CreateLog, LastRecords, FileInv
<1>. QED BY <1>4, <1>5, <1>6

\* A record, written whole or in part or not at all, leaves the older ones where they are.
LEMMA RecordKeeps ==
  ASSUME LogInv, WriteRecord
  PROVE  LogInv'
<1>. USE DEF LogInv, LogTypeOK, RotationInv, EndWrite
<1>1. CASE UNCHANGED <<log, written, size>>
  BY <1>1 DEF WriteRecord, LastRecords, FileInv
<1>2. ASSUME file = "open", written' = written + 1, NEW n \in 1..record,
             log' = [records |-> Append(log.records, written'), bytes |-> log.bytes + n],
             size' = size + n
      PROVE  LogInv'
  <2> DEFINE l == Len(log.records)
  <2>1. /\ log.records \in Seq(Nat) /\ backup.records \in Seq(Nat) /\ log.bytes \in Nat
        /\ l \in Nat /\ Len(backup.records) \in Nat /\ n \in Nat /\ n >= 1
    BY <1>2 DEF Files
  <2>2. /\ log'.records = Append(log.records, written + 1) /\ log'.bytes = log.bytes + n
        /\ Len(log'.records) = l + 1 /\ log'.records \in Seq(Nat)
        /\ log'.records # <<>>
    <3>1. log'.records = Append(log.records, written + 1) /\ log'.bytes = log.bytes + n
      BY <1>2
    <3>2. written + 1 \in Nat
      OBVIOUS
    <3>3. /\ Append(log.records, written + 1) \in Seq(Nat)
          /\ Append(log.records, written + 1) # <<>>
          /\ Len(Append(log.records, written + 1)) = Len(log.records) + 1
      BY <2>1, <3>2, Appended
    <3>. QED BY <3>1, <3>3
  <2>3. log' \in Files /\ UNCHANGED <<backup, file>> /\ step = "write" /\ step' = "idle" /\ record' = 0
    BY <1>2, <2>1 DEF WriteRecord, Files
  <2>4. LastRecords'
    <3>1. CountsTo(log.records, written)' /\ (log.records # <<>>)'
      BY <1>2, <2>1, <2>2, CountsOn DEF LastRecords
    <3>2. written' - Len(log'.records) = written - Len(log.records) /\ backup' = backup
      <4>1. Len(log'.records) = l + 1 /\ written' = written + 1 /\ written \in Nat /\ l \in Nat
        BY <1>2, <2>1, <2>2
      <4>. HIDE DEF l
      <4>2. written' - Len(log'.records) = written - l
        BY <4>1
      <4>. QED BY <2>3, <4>2 DEF l
    <3>. QED
      BY <3>1, <3>2 DEF LastRecords
  <2>5. FileInv(log)'
    <3>1. log.bytes = 0 => l = 0
      BY <2>1 DEF FileInv
    <3>2. log.bytes = 0 \/ log.bytes + record <= MaxBytes
      BY <1>2, <2>3
    <3>3. log'.records # <<>> /\ log'.bytes # 0
      BY <2>1, <2>2
    <3>4. log'.bytes <= MaxBytes \/ Len(log'.records) = 1
      BY <1>2, <2>1, <2>2, <3>1, <3>2, LogAssumption
    <3>. QED
      BY <3>3, <3>4 DEF FileInv
  <2>. QED
    BY <1>2, <2>1, <2>2, <2>3, <2>4, <2>5 DEF FileInv
<1>. QED
  BY <1>1, <1>2 DEF WriteRecord

\* A rotation gives up the old backup and nothing else, whatever fails in it and however
\* often the agent ends, and the two files stay within their bound.
THEOREM LogKeepsTheEnd == LogSpec => []LogIsTheEnd
<1>1. LogInit => LogInv
  <2>1. Empty \in Files /\ FileInv(Empty) /\ Empty.records = <<>> /\ \A n : CountsTo(<<>>, n)
    BY LogAssumption DEF Empty, Files, FileInv, CountsTo
  <2>. QED
    BY <2>1 DEF LogInit, LogInv, LogTypeOK, LastRecords, FileInv, RotationInv
<1>2. LogInv /\ [LogNext]_logVars => LogInv'
  <2> SUFFICES ASSUME LogInv, [LogNext]_logVars PROVE LogInv'
    OBVIOUS
  <2>. USE DEF LogInv, LogTypeOK, RotationInv, EndWrite
  <2>1. CASE OpenLog \/ CloseLog \/ Die
    <3>1. UNCHANGED <<log, backup, written>> /\ step' = "idle" /\ file' \in {"open", "nil", "off"}
      BY <2>1 DEF OpenLog, CloseLog, Die
    <3>2. /\ file' = "open" => size' = log.bytes
          /\ size' \in Nat /\ record' \in Nat
      BY <2>1 DEF OpenLog, CloseLog, Die, Files
    <3>. QED
      BY <3>1, <3>2 DEF LastRecords, FileInv
  <2>2. ASSUME NEW n \in RecordSizes, BeginWrite(n) PROVE LogInv'
    BY <2>2, LogAssumption DEF BeginWrite, LastRecords, FileInv, Files
  <2>3. CASE CloseFile
    BY <2>3 DEF CloseFile, LastRecords, FileInv, Files
  <2>4. CASE RemoveBackup \/ RenameLog \/ CreateLog
    BY <2>4, RotationKeeps
  <2>5. CASE WriteRecord
    BY <2>5, RecordKeeps
  <2>6. CASE UNCHANGED logVars
    BY <2>6 DEF logVars, LastRecords, FileInv
  <2>. QED BY <2>1, <2>2, <2>3, <2>4, <2>5, <2>6 DEF LogNext
<1>3. LogInv => LogIsTheEnd
  <2> SUFFICES ASSUME LogInv PROVE LogIsTheEnd
    OBVIOUS
  <2>1. log.records \in Seq(Nat) /\ backup.records \in Seq(Nat) /\ written \in Nat
    BY DEF LogInv, LogTypeOK, Files
  <2>2. CountsTo(backup.records \o log.records, written)
    BY <2>1, CountsAcross DEF LogInv, LastRecords
  <2>3. written > 0 => backup.records \o log.records # <<>>
    BY <2>1 DEF LogInv, LastRecords
  <2>. QED
    BY <2>2, <2>3 DEF LogIsTheEnd, CountsTo, LogInv, FileInv, RotationInv
<1>. QED
  BY <1>1, <1>2, <1>3, PTL DEF LogSpec

-----------------------------------------------------------------------------
(* The parser.                                                              *)

\* The buffer is the end of what was printed: all of it, or enough for what is missing of
\* an address.
BufferInv ==
    LET d == Len(printed) - Len(buffer) IN
    /\ d \in Nat /\ (d > 0 => Len(buffer) >= Keep)
    /\ \A k \in 1..Len(buffer) : buffer[k] = printed[d + k]

OutputInv ==
    /\ printed \in Seq(Characters) /\ buffer \in Seq(Characters) /\ found \in Seq(Addresses)
    /\ sent <=> found # <<>>
    /\ ~sent => BufferInv
    /\ FirstAddressFound

\* A set of positions has a least one: intervals are well ordered by inclusion.
LEMMA LeastExists ==
  ASSUME NEW n \in Nat, NEW S \in SUBSET (1..n), S # {}
  PROVE  \E m \in S : \A k \in S : m <= k
<1> DEFINE T == {1..m : m \in S}
           R == StrictSubsetOrdering(1..n)
<1>1. T \subseteq SUBSET (1..n) /\ T # {}
  <2>1. \A m \in S : 1..m \subseteq 1..n
    OBVIOUS
  <2>2. PICK m \in S : TRUE
    OBVIOUS
  <2>. QED BY <2>1, <2>2
<1>2. IsWellFoundedOn(R, SUBSET (1..n))
  <2>1. IsFiniteSet(1..n)
    BY FS_Interval
  <2>2. FiniteSubsetsOf(1..n) = SUBSET (1..n)
    BY <2>1, FS_FiniteSubsetsOfFinite
  <2>. QED BY <2>2, FS_StrictSubsetOrderingWellFounded
<1>3. PICK x \in T : \A y \in T : ~ (<<y, x>> \in R)
  <2> HIDE DEF T, R
  <2>. QED BY <1>1, <1>2, WFMin
<1>4. PICK m \in S : x = 1..m
  OBVIOUS
<1>5. ASSUME NEW k \in S, k < m PROVE FALSE
  <2>1. 1..k \subseteq x /\ m \in x /\ m \notin 1..k /\ 1..k \in T
    BY <1>4, <1>5
  <2>2. <<1..k, x>> \in R
    BY <1>1, <2>1 DEF StrictSubsetOrdering
  <2>. QED BY <1>3, <2>1, <2>2
<1>. QED
  BY <1>5

\* Min gives the leftmost match.
LEMMA LeftmostMatch ==
  ASSUME NEW s \in Seq(Characters), Matches(s) # {}
  PROVE  /\ Min(Matches(s)) \in Matches(s)
         /\ \A j \in Matches(s) : Min(Matches(s)) <= j
<1>1. Matches(s) \in SUBSET (1..Len(s)) /\ Len(s) \in Nat
  BY DEF Matches
<1>2. \E m \in Matches(s) : \A k \in Matches(s) : m <= k
  BY <1>1, LeastExists
<1>. QED BY <1>2 DEF Min

\* Two texts that are the same from some place on have the same matches there.
LEMMA MatchesShift ==
  ASSUME NEW s \in Seq(Characters), NEW t \in Seq(Characters), NEW d \in Nat,
         Len(s) = d + Len(t), \A k \in 1..Len(t) : t[k] = s[d + k],
         NEW a \in Addresses, NEW i \in 1..Len(t)
  PROVE  MatchesAt(a, t, i) <=> MatchesAt(a, s, d + i)
<1>1. Len(a) \in Nat /\ Len(a) >= 1 /\ Len(s) \in Nat /\ Len(t) \in Nat
  BY SizesAssumption, AddressAssumption
<1>2. CASE i + Len(a) - 1 <= Len(t)
  <2>1. \A k \in 1..Len(a) : i + k - 1 \in 1..Len(t) /\ d + (i + k - 1) = (d + i) + k - 1
    BY <1>1, <1>2
  <2>2. \A k \in 1..Len(a) : t[i + k - 1] = s[(d + i) + k - 1]
    BY <2>1
  <2>3. Stands(a, t, i) <=> Stands(a, s, d + i)
    <3>1. i + Len(a) - 1 <= Len(t) <=> d + i + Len(a) - 1 <= Len(s)
      BY <1>1
    <3>. QED BY <2>2, <3>1 DEF Stands
  <2>4. i + Len(a) <= Len(t) => t[i + Len(a)] = s[(d + i) + Len(a)]
    BY <1>1
  <2>. QED
    BY <1>1, <2>3, <2>4 DEF MatchesAt
<1>3. CASE i + Len(a) - 1 > Len(t)
  BY <1>1, <1>3 DEF MatchesAt, Stands
<1>. QED BY <1>1, <1>2, <1>3

\* A match that more text brings, where there was text before, needs some of the new.
LEMMA NewMatch ==
  ASSUME NEW s \in Seq(Characters), NEW t \in Seq(Characters),
         NEW a \in Addresses, NEW i \in 1..Len(s), MatchesAt(a, s \o t, i)
  PROVE  MatchesAt(a, s, i) \/ i + Len(a) - 1 > Len(s)
<1>1. Len(a) \in Nat /\ Len(a) >= 1 /\ Len(s) \in Nat /\ Len(t) \in Nat
  BY SizesAssumption, AddressAssumption
<1>2. Len(s \o t) = Len(s) + Len(t) /\ \A k \in 1..Len(s) : (s \o t)[k] = s[k]
  OBVIOUS
<1> SUFFICES ASSUME i + Len(a) - 1 <= Len(s) PROVE MatchesAt(a, s, i)
  BY <1>1
<1>3. \A k \in 1..Len(a) : i + k - 1 \in 1..Len(s)
  BY <1>1
<1>4. Stands(a, s, i)
  BY <1>1, <1>2, <1>3 DEF MatchesAt, Stands
<1>5. i + Len(a) <= Len(s) => s[i + Len(a)] \notin WordCharacters
  BY <1>1, <1>2 DEF MatchesAt
<1>. QED BY <1>4, <1>5 DEF MatchesAt

\* What has been found stays the first: an address that ends later does not begin earlier,
\* or it would contain the one found.
LEMMA FoundStays ==
  ASSUME NEW s \in Seq(Characters), NEW t \in Seq(Characters),
         NEW a \in Addresses, NEW i \in 1..Len(s), Stands(a, s, i),
         \A j \in Matches(s) : i <= j
  PROVE  Stands(a, s \o t, i) /\ \A j \in Matches(s \o t) : i <= j
<1>1. /\ Len(s) \in Nat /\ Len(t) \in Nat /\ Len(s \o t) = Len(s) + Len(t)
      /\ \A k \in 1..Len(s) : (s \o t)[k] = s[k]
      /\ \A b \in Addresses : Len(b) \in Nat /\ Len(b) >= 1
  BY SizesAssumption, AddressAssumption
<1>2. \A k \in 1..Len(a) : i + k - 1 \in 1..Len(s)
  BY <1>1 DEF Stands
<1>3. Stands(a, s \o t, i)
  BY <1>1, <1>2 DEF Stands
<1>4. ASSUME NEW j \in Matches(s \o t), j < i PROVE FALSE
  <2>1. j \in 1..Len(s) /\ j \notin Matches(s)
    BY <1>1, <1>4 DEF Matches
  <2>2. PICK b \in Addresses : MatchesAt(b, s \o t, j)
    BY DEF Matches
  <2>3. j + Len(b) - 1 > Len(s)
    BY <2>1, <2>2, NewMatch DEF Matches
  <2>4. i - j + 1 \in 1..Len(b) /\ (i - j + 1) + Len(a) - 1 <= Len(b)
    BY <1>1, <2>1, <2>3, <1>4 DEF Stands
  <2>5. ASSUME NEW k \in 1..Len(a) PROVE b[(i - j + 1) + k - 1] = a[k]
    <3>1. (i - j + 1) + k - 1 \in 1..Len(b) /\ j + ((i - j + 1) + k - 1) - 1 = i + k - 1
      BY <1>1, <2>1, <2>4
    <3>2. (s \o t)[j + ((i - j + 1) + k - 1) - 1] = b[(i - j + 1) + k - 1]
      BY <2>2, <3>1 DEF MatchesAt, Stands
    <3>3. (s \o t)[i + k - 1] = a[k]
      BY <1>3 DEF Stands
    <3>. QED BY <3>1, <3>2, <3>3
  <2>6. a = b
    BY <2>4, <2>5, AddressAssumption DEF Stands
  <2>. QED
    BY <1>1, <1>4, <2>1, <2>3, <2>6 DEF Stands
<1>. QED BY <1>1, <1>3, <1>4 DEF Matches

\* With the next chunk the buffer still is the end of what was printed.
LEMMA SameEnd ==
  ASSUME OutputInv, ~sent, NEW b \in Seq(Characters)
  PROVE  LET d == Len(printed) - Len(buffer) IN
         \A k \in 1..Len(buffer \o b) : (buffer \o b)[k] = (printed \o b)[d + k]
<1> DEFINE d == Len(printed) - Len(buffer)
           s == printed \o b
           t == buffer \o b
<1>1. /\ s \in Seq(Characters) /\ t \in Seq(Characters)
      /\ printed \in Seq(Characters) /\ buffer \in Seq(Characters)
      /\ Len(printed) \in Nat /\ Len(buffer) \in Nat /\ Len(b) \in Nat
      /\ Len(s) = Len(printed) + Len(b) /\ Len(t) = Len(buffer) + Len(b)
  BY DEF OutputInv
<1>2. d \in Nat /\ (d > 0 => Len(buffer) >= Keep) /\ Len(s) = d + Len(t)
  BY <1>1 DEF OutputInv, BufferInv
<1> SUFFICES ASSUME NEW k \in 1..Len(t) PROVE t[k] = s[d + k]
  OBVIOUS
<1>3. CASE k <= Len(buffer)
  <2>1. k \in 1..Len(buffer) /\ d + k \in 1..Len(printed)
    BY <1>1, <1>2, <1>3
  <2>2. t[k] = buffer[k] /\ s[d + k] = printed[d + k]
    BY <1>1, <2>1
  <2>. QED BY <2>1, <2>2 DEF OutputInv, BufferInv
<1>4. CASE k > Len(buffer)
  <2>1. k - Len(buffer) \in 1..Len(b) /\ d + k - Len(printed) = k - Len(buffer)
    BY <1>1, <1>2, <1>4
  <2>2. t[k] = b[k - Len(buffer)]
    BY <1>1, <1>4
  <2>3. s[d + k] = b[d + k - Len(printed)]
    BY <1>1, <1>2, <1>4
  <2>. QED BY <2>1, <2>2, <2>3
<1>5. k <= Len(buffer) \/ k > Len(buffer)
  BY <1>1
<1>. QED BY <1>3, <1>4, <1>5

\* The buffer has all the matches that the whole output has.
LEMMA BufferSuffices ==
  ASSUME OutputInv, ~sent, NEW b \in Seq(Characters)
  PROVE  LET d == Len(printed) - Len(buffer) IN
         /\ \A i \in Matches(buffer \o b) : d + i \in Matches(printed \o b)
         /\ \A j \in Matches(printed \o b) : j - d \in Matches(buffer \o b)
<1> DEFINE d == Len(printed) - Len(buffer)
           s == printed \o b
           t == buffer \o b
<1>1. /\ s \in Seq(Characters) /\ t \in Seq(Characters)
      /\ printed \in Seq(Characters) /\ buffer \in Seq(Characters)
      /\ Len(printed) \in Nat /\ Len(buffer) \in Nat /\ Len(b) \in Nat
      /\ Len(s) = Len(printed) + Len(b) /\ Len(t) = Len(buffer) + Len(b)
  BY DEF OutputInv
<1>2. d \in Nat /\ (d > 0 => Len(buffer) >= Keep) /\ Len(s) = d + Len(t)
  BY <1>1 DEF OutputInv, BufferInv
<1>3. \A k \in 1..Len(t) : t[k] = s[d + k]
  BY SameEnd
<1>4. ASSUME NEW i \in Matches(t) PROVE d + i \in Matches(s)
  <2>1. PICK a \in Addresses : i \in 1..Len(t) /\ MatchesAt(a, t, i)
    BY DEF Matches
  <2>2. MatchesAt(a, s, d + i)
    <3>. HIDE DEF s, t, d
    <3>. QED BY <1>1, <1>2, <1>3, <2>1, MatchesShift
  <2>. QED BY <1>1, <1>2, <2>1, <2>2 DEF Matches
<1>5. ASSUME NEW j \in Matches(s) PROVE j - d \in Matches(t)
  <2>1. PICK a \in Addresses : j \in 1..Len(s) /\ MatchesAt(a, s, j)
    BY DEF Matches
  <2>2. Len(a) \in 1..(Keep + 1) /\ Keep \in Nat
    BY SizesAssumption, AddressAssumption
  <2>3. Matches(printed) = {}
    BY DEF OutputInv, FirstAddressFound
  <2>4. ASSUME j <= Len(printed) PROVE j + Len(a) - 1 > Len(printed)
    <3>1. j \in 1..Len(printed)
      BY <1>1, <2>1, <2>4
    <3>. QED BY <1>1, <2>1, <2>3, <3>1, NewMatch DEF Matches
  <2>5. j > d
    BY <1>1, <1>2, <2>1, <2>2, <2>4
  <2>6. j - d \in 1..Len(t) /\ d + (j - d) = j
    BY <1>1, <1>2, <2>1, <2>5
  <2>7. MatchesAt(a, t, j - d)
    <3>1. MatchesAt(a, t, j - d) <=> MatchesAt(a, s, d + (j - d))
      <4>. HIDE DEF s, t, d
      <4>. QED BY <1>1, <1>2, <1>3, <2>6, MatchesShift
    <3>. QED BY <2>1, <2>6, <3>1
  <2>. QED BY <2>6, <2>7 DEF Matches
<1>. QED BY <1>4, <1>5

\* One Write, whatever the chunk has of an address, and whether one has been found.
LEMMA WriteKeeps ==
  ASSUME OutputInv, NEW b \in Seq(Characters), Write(b)
  PROVE  OutputInv'
<1> DEFINE d == Len(printed) - Len(buffer)
           text == buffer \o b
<1>1. /\ printed \in Seq(Characters) /\ buffer \in Seq(Characters) /\ found \in Seq(Addresses)
      /\ text \in Seq(Characters) /\ printed' = printed \o b /\ printed' \in Seq(Characters)
      /\ Len(printed) \in Nat /\ Len(buffer) \in Nat /\ Len(b) \in Nat
      /\ Len(printed') = Len(printed) + Len(b) /\ Len(text) = Len(buffer) + Len(b)
  BY DEF OutputInv, Write
<1>2. CASE sent /\ UNCHANGED <<buffer, sent, found>>
  <2>1. PICK i \in 1..Len(printed) :
             Stands(found[1], printed, i) /\ \A j \in Matches(printed) : i <= j
    BY <1>2 DEF OutputInv, FirstAddressFound
  <2>2. found # <<>> /\ Len(found) = 1 /\ found[1] \in Addresses
    BY <1>2 DEF OutputInv, FirstAddressFound
  <2>3. Stands(found[1], printed', i) /\ \A j \in Matches(printed') : i <= j
    BY <1>1, <2>1, <2>2, FoundStays
  <2>4. FirstAddressFound'
    BY <1>1, <1>2, <2>1, <2>2, <2>3 DEF FirstAddressFound
  <2>. QED BY <1>1, <1>2, <2>4 DEF OutputInv
<1>3. CASE /\ ~sent /\ FindString(text) # <<>>
           /\ found' = Append(found, FindString(text))
           /\ sent' = TRUE /\ buffer' = <<>>
  <2>1. found = <<>> /\ Matches(text) # {}
    BY <1>3 DEF OutputInv, FindString
  <2> DEFINE m == Min(Matches(text))
             a == FindString(text)
  <2>2. m \in Matches(text) /\ \A j \in Matches(text) : m <= j
    BY <1>1, <2>1, LeftmostMatch
  <2>3. a \in Addresses /\ MatchesAt(a, text, m)
    BY <2>1, <2>2 DEF FindString, Matches
  <2>4. d \in Nat /\ Len(printed') = d + Len(text)
    BY <1>1, <1>3 DEF OutputInv, BufferInv
  <2>5. d + m \in 1..Len(printed') /\ Stands(a, printed', d + m)
    <3>1. m \in 1..Len(text) /\ d + m \in 1..Len(printed')
      BY <1>1, <2>2, <2>4 DEF Matches
    <3>2. \A k \in 1..Len(text) : text[k] = printed'[d + k]
      BY <1>1, <1>3, SameEnd
    <3>3. MatchesAt(a, printed', d + m)
      <4>. HIDE DEF text, d, m, a
      <4>. QED BY <1>1, <2>3, <2>4, <3>1, <3>2, MatchesShift
    <3>. QED BY <3>1, <3>3 DEF MatchesAt
  <2>6. ASSUME NEW j \in Matches(printed') PROVE d + m <= j
    <3>1. j - d \in Matches(text)
      BY <1>1, <1>3, BufferSuffices
    <3>2. m <= j - d
      BY <2>2, <3>1
    <3>. QED BY <1>1, <2>2, <2>4, <3>2 DEF Matches
  <2>7. found' = <<a>>
    BY <1>3, <2>1
  <2>. QED
    BY <1>1, <1>3, <2>3, <2>5, <2>6, <2>7 DEF OutputInv, FirstAddressFound
<1>4. CASE /\ ~sent /\ FindString(text) = <<>>
           /\ buffer' = Cut(text)
           /\ UNCHANGED <<sent, found>>
  <2>1. Matches(text) = {}
    <3> SUFFICES ASSUME Matches(text) # {} PROVE FALSE
      OBVIOUS
    <3>1. Min(Matches(text)) \in Matches(text)
      BY <1>1, LeftmostMatch
    <3>2. FindString(text) \in Addresses
      BY <3>1 DEF FindString, Matches
    <3>. QED BY <1>4, <3>2, AddressAssumption
  <2>2. Matches(printed') = {}
    BY <1>1, <1>4, <2>1, BufferSuffices
  <2>3. BufferInv' /\ buffer' \in Seq(Characters)
    <3> DEFINE l == Len(text)
    <3>1. /\ d \in Nat /\ (d > 0 => Len(buffer) >= Keep) /\ Len(printed') = d + l /\ l \in Nat
          /\ \A k \in 1..l : text[k] = printed'[d + k]
      BY <1>1, <1>4, SameEnd DEF OutputInv, BufferInv
    <3>2. Keep \in Nat /\ Limit \in Nat /\ Keep < Limit
      BY SizesAssumption
    <3>3. CASE l <= Limit
      <4>1. buffer' = text
        BY <1>1, <1>4, <3>2, <3>3 DEF Cut
      <4>2. Len(printed') - l = d /\ (d > 0 => l >= Keep)
        BY <1>1, <3>1, <3>2
      <4>. QED BY <1>1, <3>1, <4>1, <4>2 DEF BufferInv
    <3>4. CASE l > Limit
      <4>1. buffer' = SubSeq(text, l - Keep + 1, l)
        BY <1>1, <1>4, <3>2, <3>4 DEF Cut
      <4>2. /\ buffer' \in Seq(Characters) /\ Len(buffer') = Keep
            /\ \A k \in 1..Keep : buffer'[k] = text[l - Keep + k]
        <5>. HIDE DEF text
        <5>. QED BY <1>1, <3>1, <3>2, <3>4, <4>1
      <4>3. \A k \in 1..Keep : l - Keep + k \in 1..l /\ d + (l - Keep + k) = Len(printed') - Keep + k
        BY <3>1, <3>2, <3>4
      <4>4. \A k \in 1..Keep : buffer'[k] = printed'[Len(printed') - Keep + k]
        BY <3>1, <4>2, <4>3
      <4>5. Len(printed') - Keep \in Nat
        BY <3>1, <3>2, <3>4
      <4>. QED BY <3>2, <4>2, <4>4, <4>5 DEF BufferInv
    <3>. QED BY <3>1, <3>2, <3>3, <3>4
  <2>. QED
    BY <1>1, <1>4, <2>2, <2>3 DEF OutputInv, FirstAddressFound
<1>. QED BY <1>2, <1>3, <1>4 DEF Write

\* However the output is cut into chunks, the first address that is complete is found, as
\* soon as it is, and no other.
THEOREM AddressIsFound == Spec => []FirstAddressFound
<1>1. Init => OutputInv
  BY DEF Init, OutputInv, BufferInv, FirstAddressFound, Matches
<1>2. OutputInv /\ [Next]_outputVars => OutputInv'
  <2> SUFFICES ASSUME OutputInv, [Next]_outputVars PROVE OutputInv'
    OBVIOUS
  <2>1. CASE Next
    <3>1. PICK b \in Chunks : Write(b)
      BY <2>1 DEF Next
    <3>2. b \in Seq(Characters)
      BY DEF Chunks
    <3>. QED BY <3>1, <3>2, WriteKeeps
  <2>2. CASE UNCHANGED outputVars
    BY <2>2 DEF outputVars, OutputInv, BufferInv, FirstAddressFound
  <2>. QED BY <2>1, <2>2
<1>. QED
  BY <1>1, <1>2, PTL DEF Spec, OutputInv
=============================================================================
