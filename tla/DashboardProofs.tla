----------------------------- MODULE DashboardProofs -----------------------------
(***************************************************************************)
(* For any number of requests, pages and sessions: a page shows no token that *)
(* was revoked before it was asked for, its QR works until it expires, the    *)
(* token is rotated or the mode changes, and the failure of an operation is   *)
(* shown once.                                                               *)
(***************************************************************************)
EXTENDS Dashboard, TLAPS

\* A request about a page has the number of a page there has been, and only one that
\* configures the connection is in "configure".
RequestInv ==
    \A r \in Requests :
        /\ req[r].kind \in {"get", "action", "rotate"} => req[r].page \in 1..pages
        /\ At(r, "configure") => req[r].kind = "action"
        /\ At(r, "idle") \/ req[r].kind = "open" => req[r].entry.failed = NoRequest

\* The failure f waits on page p to be shown; request r has it, to show it or to put it
\* on its page; f may still fail.  The copies of a rotation, and of an operation that has
\* not been tried, are not shown to anybody.
Waits(p, f) == entries[p].failed = f
Carries(r, f) ==
    /\ req[r].entry.failed = f
    /\ req[r].kind = "get" \/ (req[r].kind = "action" /\ ~At(r, "configure"))
MayFail(r) == At(r, "idle") \/ At(r, "configure")

\* Each failure is in one place at most, and in none before it has happened.
Once(f) ==
    /\ \A p, q \in DOMAIN entries : Waits(p, f) /\ Waits(q, f) => p = q
    /\ \A r, s \in Requests : Carries(r, f) /\ Carries(s, f) => r = s
    /\ \A p \in DOMAIN entries, r \in Requests : ~(Waits(p, f) /\ Carries(r, f))
    /\ f \in Requests /\ MayFail(f) =>
            /\ \A p \in DOMAIN entries : ~Waits(p, f)
            /\ \A r \in Requests : ~Carries(r, f)
ErrorInv == \A f \in 0..N : Once(f)

\* A nonce stands for one session.
NonceInv ==
    \A s, t \in sessions : s.nonce \in 1..nonces /\ (s.nonce = t.nonce => s = t)

SetupInv == DashboardInv /\ RequestInv /\ ErrorInv /\ NonceInv

-----------------------------------------------------------------------------
(* The operators.                                                           *)

\* An entry with another failure is an entry.
LEMMA EntryKeeps ==
  ASSUME NEW e \in Entries
  PROVE  /\ e.failed \in 0..NoRequest /\ e.qr \in QRs
         /\ NoRequest \in 0..NoRequest
         /\ \A f \in 0..NoRequest : [e EXCEPT !.failed = f] \in Entries
         /\ \A qr \in QRs : [e EXCEPT !.qr = qr] \in Entries
  BY DashboardAssumption DEF Entries, NoRequest

\* What a handler becomes at one of its steps is a handler again.
LEMMA HandlerKeeps ==
  ASSUME NEW h \in Handlers, NEW pc \in Steps
  PROVE  /\ [h EXCEPT !.pc = pc] \in Handlers
         /\ [Idle EXCEPT !.pc = pc] \in Handlers
         /\ \A t \in Nat : [h EXCEPT !.token = t, !.pc = pc] \in Handlers
         /\ \A f \in 0..NoRequest : [h EXCEPT !.pc = pc, !.entry.failed = f] \in Handlers
         /\ \A qr \in QRs : [h EXCEPT !.entry.qr = qr, !.token = 0, !.pc = pc] \in Handlers
         /\ \A t \in Nat, kind \in {"open", "get", "action", "rotate"} :
               /\ [h EXCEPT !.kind = kind, !.pc = pc, !.began = t] \in Handlers
               /\ \A p \in Nat, e \in Entries :
                     [h EXCEPT !.kind = kind, !.page = p, !.began = t, !.entry = e, !.pc = pc]
                        \in Handlers
<1>1. Idle \in Handlers
  BY DashboardAssumption DEF Idle, NoQR, Handlers, Entries, QRs, NoRequest, Steps
<1>2. h.entry \in Entries
  BY DEF Handlers
<1> QED
  BY <1>1, <1>2, EntryKeeps DEF Handlers

\* Putting an entry on a page and taking pages away keep every page an entry.
LEMMA PutIs ==
  ASSUME NEW p, NEW e
  PROVE  /\ DOMAIN Put(p, e) = DOMAIN entries \cup {p}
         /\ Put(p, e)[p] = e
         /\ \A q \in DOMAIN entries : q # p => Put(p, e)[q] = entries[q]
         /\ HostTypeOK /\ e \in Entries => \A q \in DOMAIN Put(p, e) : Put(p, e)[q] \in Entries
<1>1. /\ DOMAIN Put(p, e) = DOMAIN entries \cup {p}
      /\ Put(p, e)[p] = e
      /\ \A q \in DOMAIN entries : q # p => Put(p, e)[q] = entries[q]
  BY DEF Put
<1>2. ASSUME HostTypeOK, e \in Entries, NEW q \in DOMAIN Put(p, e) PROVE Put(p, e)[q] \in Entries
  <2>1. CASE q = p
    BY <1>1, <1>2, <2>1
  <2>2. CASE q # p
    BY <1>1, <1>2, <2>2 DEF HostTypeOK
  <2> QED
    BY <2>1, <2>2
<1> QED
  BY <1>1, <1>2

LEMMA RestrictIs ==
  ASSUME NEW f, NEW S
  PROVE  DOMAIN Restrict(f, S) = S /\ \A x \in S : Restrict(f, S)[x] = f[x]
  BY DEF Restrict

\* A host that closes has no page.
LEMMA CloseKeeps ==
  ASSUME HostTypeOK, closeLocked
  PROVE  /\ DOMAIN entries' \subseteq 1..pages' /\ \A p \in DOMAIN entries' : entries'[p] \in Entries
         /\ up' = FALSE /\ pages' \in Nat /\ timer' = "off"
<1>1. CASE up
  BY <1>1 DEF closeLocked, HostTypeOK
<1>2. CASE ~up
  BY <1>2 DEF closeLocked, HostTypeOK
<1> QED
  BY <1>1, <1>2

-----------------------------------------------------------------------------
(* The parts of the invariant.                                              *)

\* The types of the Store and the Manager.
LEMMA StoreStep ==
  ASSUME DashboardTypeOK, [Next]_dashboardVars
  PROVE  StoreTypeOK'
<1> USE DashboardAssumption DEF DashboardTypeOK, StoreTypeOK, ReqTypeOK, Handlers, Modes, QRs, At, storeVars, managerVars, hostVars
<1>1. ASSUME NEW r \in Requests, BeginOpen(r) PROVE StoreTypeOK'
  BY <1>1 DEF BeginOpen, New
<1>2. ASSUME NEW r \in Requests, NEW p \in 1..pages, NEW kind \in {"get", "action", "rotate"},
            Lookup(r, kind, p)
      PROVE  StoreTypeOK'
  BY <1>2 DEF Lookup, New, resetTimerLocked
<1>3. ASSUME NEW r \in Requests, NEW p \in 1..pages, LookupFails(r, p) PROVE StoreTypeOK'
  BY <1>3 DEF LookupFails, New, End, Idle, NoQR
<1>4. ASSUME NEW r \in Requests, NEW p \in 1..pages, Unsupported(r, p) PROVE StoreTypeOK'
  BY <1>4 DEF Unsupported, New, resetTimerLocked, End, Idle, NoQR
<1>5. ASSUME NEW r \in Requests, Configure(r) PROVE StoreTypeOK'
  BY <1>5 DEF Configure
<1>6. ASSUME NEW r \in Requests, ReadMode(r) PROVE StoreTypeOK'
  BY <1>6 DEF ReadMode, Goto, Provide, NoQR
<1>7. ASSUME NEW r \in Requests, Update(r) PROVE StoreTypeOK'
  BY <1>7 DEF Update, Goto, End, Idle, NoQR
<1>8. ASSUME NEW r \in Requests, Snapshot(r) PROVE StoreTypeOK'
  BY <1>8 DEF Snapshot
<1>9. ASSUME NEW r \in Requests, Create(r) PROVE StoreTypeOK'
  BY <1>9 DEF Create, Session, Provide
<1>10. ASSUME NEW r \in Requests, FinishOpen(r) PROVE StoreTypeOK'
  BY <1>10 DEF FinishOpen, resetTimerLocked, End, Idle, NoQR, Put
<1>11. ASSUME NEW r \in Requests, FinishGet(r) PROVE StoreTypeOK'
  BY <1>11 DEF FinishGet, Goto
<1>12. ASSUME NEW r \in Requests, FinishAction(r) PROVE StoreTypeOK'
  BY <1>12 DEF FinishAction, End, Idle, NoQR, Put
<1>13. ASSUME NEW r \in Requests, FinishRotate(r) PROVE StoreTypeOK'
  BY <1>13 DEF FinishRotate, resetTimerLocked, Goto, Put, Restrict
<1>14. CASE TimerFires
  BY <1>14 DEF TimerFires
<1>15. CASE Callback
  BY <1>15 DEF Callback, closeLocked
<1>16. CASE Close
  BY <1>16 DEF Close, closeLocked
<1>17. CASE Get
  BY <1>17 DEF Get
<1>18. CASE Tick
  BY <1>18 DEF Tick
<1>19. CASE UNCHANGED dashboardVars
  BY <1>19 DEF dashboardVars
<1> QED
  BY <1>1, <1>2, <1>3, <1>4, <1>5, <1>6, <1>7, <1>8, <1>9, <1>10,
     <1>11, <1>12, <1>13, <1>14, <1>15, <1>16, <1>17, <1>18, <1>19
     DEF Next, Begin, Handle

\* The types of the host, whose pages are numbered as they are made.
LEMMA HostStep ==
  ASSUME DashboardTypeOK, RequestInv, [Next]_dashboardVars
  PROVE  HostTypeOK'
<1> USE DEF DashboardTypeOK, HostTypeOK, ReqTypeOK, At, storeVars, managerVars, hostVars
<1>1. ASSUME NEW r \in Requests, BeginOpen(r) PROVE HostTypeOK'
  BY <1>1 DEF BeginOpen
<1>2. ASSUME NEW r \in Requests, NEW p \in 1..pages, NEW kind \in {"get", "action", "rotate"},
            Lookup(r, kind, p)
      PROVE  HostTypeOK'
  <2>1. p \in DOMAIN entries /\ [entries[p] EXCEPT !.failed = NoRequest] \in Entries
    BY <1>2, EntryKeeps DEF Lookup
  <2>2. CASE kind = "get"
    BY <1>2, <2>1, <2>2 DEF Lookup, resetTimerLocked
  <2>3. CASE kind # "get"
    BY <1>2, <2>3 DEF Lookup, resetTimerLocked
  <2> QED
    BY <2>2, <2>3
<1>3. ASSUME NEW r \in Requests, NEW p \in 1..pages, LookupFails(r, p) PROVE HostTypeOK'
  BY <1>3 DEF LookupFails
<1>4. ASSUME NEW r \in Requests, NEW p \in 1..pages, Unsupported(r, p) PROVE HostTypeOK'
  <2>1. PICK f \in {entries[p].failed, NoRequest} : entries' = [entries EXCEPT ![p].failed = f]
    BY <1>4 DEF Unsupported
  <2>2. [entries[p] EXCEPT !.failed = f] \in Entries
    BY <1>4, EntryKeeps DEF Unsupported
  <2> QED
    BY <1>4, <2>1, <2>2 DEF Unsupported, resetTimerLocked
<1>5. ASSUME NEW r \in Requests, Configure(r) PROVE HostTypeOK'
  BY <1>5 DEF Configure
<1>6. ASSUME NEW r \in Requests, ReadMode(r) PROVE HostTypeOK'
  BY <1>6 DEF ReadMode, Provide
<1>7. ASSUME NEW r \in Requests, Update(r) PROVE HostTypeOK'
  BY <1>7 DEF Update
<1>8. ASSUME NEW r \in Requests, Snapshot(r) PROVE HostTypeOK'
  BY <1>8 DEF Snapshot
<1>9. ASSUME NEW r \in Requests, Create(r) PROVE HostTypeOK'
  BY <1>9 DEF Create, Session, Provide
<1>10. ASSUME NEW r \in Requests, FinishOpen(r) PROVE HostTypeOK'
  <2>1. req[r].entry \in Entries
    BY DEF Handlers
  <2>2. CASE up' = TRUE /\ pages' = pages + 1 /\ entries' = Put(pages + 1, req[r].entry)
    <3>1. DOMAIN entries' = DOMAIN entries \cup {pages + 1}
          /\ \A q \in DOMAIN entries' : entries'[q] \in Entries
      BY <2>1, <2>2, PutIs
    <3>2. DOMAIN entries' \subseteq 1..(pages + 1) /\ pages + 1 \in Nat
      BY <3>1
    <3>3. timer' = "armed" /\ UNCHANGED firing
      BY <1>10, <2>2 DEF FinishOpen, resetTimerLocked
    <3> QED
      BY <1>10, <2>2, <3>1, <3>2, <3>3 DEF FinishOpen
  <2>3. CASE UNCHANGED hostVars
    BY <2>3
  <2> QED
    BY <1>10, <2>2, <2>3 DEF FinishOpen
<1>11. ASSUME NEW r \in Requests, FinishGet(r) PROVE HostTypeOK'
  BY <1>11 DEF FinishGet
<1>12. ASSUME NEW r \in Requests, FinishAction(r) PROVE HostTypeOK'
  <2>1. req[r].page \in 1..pages /\ req[r].entry \in Entries
    BY <1>12 DEF FinishAction, Handlers, RequestInv
  <2> QED
    <3>1. entries' = Put(req[r].page, req[r].entry) /\ UNCHANGED <<up, pages, timer, firing>>
      BY <1>12 DEF FinishAction
    <3>2. DOMAIN entries' = DOMAIN entries \cup {req[r].page}
          /\ \A q \in DOMAIN entries' : entries'[q] \in Entries
      BY <2>1, <3>1, PutIs
    <3> QED
      BY <2>1, <3>1, <3>2
<1>13. ASSUME NEW r \in Requests, FinishRotate(r) PROVE HostTypeOK'
  <2> DEFINE e == [req[r].entry EXCEPT !.failed = NoRequest]
             S == (DOMAIN entries \ {req[r].page}) \cup {pages + 1}
  <2>1. e \in Entries
    BY EntryKeeps DEF Handlers
  <2>2. S \subseteq 1..(pages + 1) /\ S \subseteq DOMAIN entries \cup {pages + 1}
    OBVIOUS
  <2>3. entries' = Restrict(Put(pages + 1, e), S)
    BY <1>13 DEF FinishRotate
  <2> HIDE DEF S, e
  <2>4. \A q \in S : Put(pages + 1, e)[q] \in Entries
    BY <2>1, <2>2, PutIs
  <2>5. DOMAIN entries' = S /\ \A q \in S : entries'[q] = Put(pages + 1, e)[q]
    BY <2>3, RestrictIs
  <2>6. DOMAIN entries' \subseteq 1..pages' /\ \A q \in DOMAIN entries' : entries'[q] \in Entries
    BY <1>13, <2>2, <2>4, <2>5 DEF FinishRotate
  <2> QED
    <3>1. timer' = "armed" /\ UNCHANGED <<firing, up>> /\ pages' = pages + 1 /\ pages + 1 \in Nat
      BY <1>13 DEF FinishRotate, resetTimerLocked
    <3> QED
      BY <2>6, <3>1
<1>14. CASE TimerFires
  BY <1>14 DEF TimerFires
<1>15. CASE Callback
  <2>1. firing' \in Nat
    BY <1>15 DEF Callback
  <2> QED
    BY <1>15, <2>1, CloseKeeps DEF Callback
<1>16. CASE Close
  BY <1>16, CloseKeeps DEF Close
<1>17. CASE Get
  BY <1>17 DEF Get
<1>18. CASE Tick
  BY <1>18 DEF Tick
<1>19. CASE UNCHANGED dashboardVars
  BY <1>19 DEF dashboardVars
<1> HIDE DEF HostTypeOK, ReqTypeOK
<1> QED
  BY <1>1, <1>2, <1>3, <1>4, <1>5, <1>6, <1>7, <1>8, <1>9, <1>10,
     <1>11, <1>12, <1>13, <1>14, <1>15, <1>16, <1>17, <1>18, <1>19
     DEF Next, Begin, Handle

\* The types of the requests.
LEMMA ReqStep ==
  ASSUME DashboardTypeOK, [Next]_dashboardVars
  PROVE  ReqTypeOK'
<1> USE DEF DashboardTypeOK, StoreTypeOK, ReqTypeOK, At, storeVars, managerVars, hostVars
<1>1. ASSUME NEW r \in Requests, BeginOpen(r) PROVE ReqTypeOK'
  <2>1. [req[r] EXCEPT !.kind = "open", !.pc = "mode", !.began = token] \in Handlers
    BY HandlerKeeps DEF Steps
  <2> QED
    BY <1>1, <2>1 DEF BeginOpen
<1>2. ASSUME NEW r \in Requests, NEW p \in 1..pages, NEW kind \in {"get", "action", "rotate"},
            Lookup(r, kind, p)
      PROVE  ReqTypeOK'
  <2>1. entries[p] \in Entries /\ p \in Nat /\ token \in Nat
    BY <1>2 DEF Lookup, HostTypeOK
  <2> DEFINE pc == IF kind = "action" THEN "configure" ELSE "mode"
  <2>2. req[r] \in Handlers /\ pc \in Steps /\ kind \in {"open", "get", "action", "rotate"}
    BY DEF Steps
  <2>3. req' = [req EXCEPT ![r] = [req[r] EXCEPT !.kind = kind, !.page = p, !.began = token,
                                                 !.entry = entries[p], !.pc = pc]]
    BY <1>2 DEF Lookup
  <2> HIDE DEF pc
  <2>4. [req[r] EXCEPT !.kind = kind, !.page = p, !.began = token, !.entry = entries[p],
                       !.pc = pc] \in Handlers
    BY <2>1, <2>2, HandlerKeeps
  <2> QED
    BY <2>3, <2>4
<1>3. ASSUME NEW r \in Requests, NEW p \in 1..pages, LookupFails(r, p) PROVE ReqTypeOK'
  <2>1. [Idle EXCEPT !.pc = "refused"] \in Handlers
    BY HandlerKeeps DEF Steps
  <2> QED
    BY <1>3, <2>1 DEF LookupFails, End
<1>4. ASSUME NEW r \in Requests, NEW p \in 1..pages, Unsupported(r, p) PROVE ReqTypeOK'
  <2>1. [Idle EXCEPT !.pc = "refused"] \in Handlers
    BY HandlerKeeps DEF Steps
  <2> QED
    BY <1>4, <2>1 DEF Unsupported, End
<1>5. ASSUME NEW r \in Requests, Configure(r) PROVE ReqTypeOK'
  <2>1. r \in 0..NoRequest /\ NoRequest \in 0..NoRequest
    BY DashboardAssumption DEF Requests, NoRequest
  <2>2. \A f \in {r, NoRequest} : [req[r] EXCEPT !.pc = "mode", !.entry.failed = f] \in Handlers
    BY <2>1, HandlerKeeps DEF Steps
  <2> QED
    BY <1>5, <2>2 DEF Configure
<1>6. ASSUME NEW r \in Requests, ReadMode(r) PROVE ReqTypeOK'
  <2>1. [req[r] EXCEPT !.pc = "update"] \in Handlers
    BY HandlerKeeps DEF Steps
  <2>2. [req[r] EXCEPT !.entry.qr = NoQR, !.token = 0, !.pc = "finish"] \in Handlers
    BY HandlerKeeps DEF Steps, NoQR, QRs
  <2> QED
    BY <1>6, <2>1, <2>2 DEF ReadMode, Goto, Provide
<1>7. ASSUME NEW r \in Requests, Update(r) PROVE ReqTypeOK'
  <2>1. [req[r] EXCEPT !.pc = "snapshot"] \in Handlers /\ [Idle EXCEPT !.pc = "refused"] \in Handlers
    BY HandlerKeeps DEF Steps
  <2> QED
    BY <1>7, <2>1 DEF Update, Goto, End
<1>8. ASSUME NEW r \in Requests, Snapshot(r) PROVE ReqTypeOK'
  <2>1. [req[r] EXCEPT !.token = token, !.pc = "create"] \in Handlers
    BY HandlerKeeps DEF Steps
  <2> QED
    BY <1>8, <2>1 DEF Snapshot
<1>9. ASSUME NEW r \in Requests, Create(r) PROVE ReqTypeOK'
  <2>1. Session(r) \in QRs
    BY DashboardAssumption DEF Session, QRs, Handlers
  <2>2. [req[r] EXCEPT !.entry.qr = Session(r), !.token = 0, !.pc = "finish"] \in Handlers
    BY <2>1, HandlerKeeps DEF Steps
  <2>3. [Idle EXCEPT !.pc = "refused"] \in Handlers
    BY HandlerKeeps DEF Steps
  <2> QED
    BY <1>9, <2>2, <2>3 DEF Create, Provide, End
<1>10. ASSUME NEW r \in Requests, FinishOpen(r) PROVE ReqTypeOK'
  <2>1. [Idle EXCEPT !.pc = "done"] \in Handlers /\ [Idle EXCEPT !.pc = "refused"] \in Handlers
    BY HandlerKeeps DEF Steps
  <2> QED
    BY <1>10, <2>1 DEF FinishOpen, End
<1>11. ASSUME NEW r \in Requests, FinishGet(r) PROVE ReqTypeOK'
  <2>1. [req[r] EXCEPT !.pc = "shown"] \in Handlers
    BY HandlerKeeps DEF Steps
  <2> QED
    BY <1>11, <2>1 DEF FinishGet, Goto
<1>12. ASSUME NEW r \in Requests, FinishAction(r) PROVE ReqTypeOK'
  <2>1. [Idle EXCEPT !.pc = "done"] \in Handlers
    BY HandlerKeeps DEF Steps
  <2> QED
    BY <1>12, <2>1 DEF FinishAction, End
<1>13. ASSUME NEW r \in Requests, FinishRotate(r) PROVE ReqTypeOK'
  <2>1. [req[r] EXCEPT !.pc = "done"] \in Handlers
    BY HandlerKeeps DEF Steps
  <2> QED
    BY <1>13, <2>1 DEF FinishRotate, Goto
<1>14. CASE TimerFires
  BY <1>14 DEF TimerFires
<1>15. CASE Callback
  BY <1>15 DEF Callback
<1>16. CASE Close
  BY <1>16 DEF Close
<1>17. CASE Get
  BY <1>17 DEF Get
<1>18. CASE Tick
  BY <1>18 DEF Tick
<1>19. CASE UNCHANGED dashboardVars
  BY <1>19 DEF dashboardVars
<1> HIDE DEF ReqTypeOK, DashboardTypeOK
<1> QED
  BY <1>1, <1>2, <1>3, <1>4, <1>5, <1>6, <1>7, <1>8, <1>9, <1>10,
     <1>11, <1>12, <1>13, <1>14, <1>15, <1>16, <1>17, <1>18, <1>19
     DEF Next, Begin, Handle

\* While the host listens, it is watched, whenever its timer was reset.
LEMMA WatchStep ==
  ASSUME DashboardTypeOK, OpenIsWatched, [Next]_dashboardVars
  PROVE  OpenIsWatched'
<1> USE DEF DashboardTypeOK, HostTypeOK, OpenIsWatched, At, storeVars, managerVars, hostVars
<1>1. ASSUME NEW r \in Requests, BeginOpen(r) PROVE OpenIsWatched'
  BY <1>1 DEF BeginOpen
<1>2. ASSUME NEW r \in Requests, NEW p \in 1..pages, NEW kind \in {"get", "action", "rotate"},
            Lookup(r, kind, p)
      PROVE  OpenIsWatched'
  BY <1>2 DEF Lookup, resetTimerLocked
<1>3. ASSUME NEW r \in Requests, NEW p \in 1..pages, LookupFails(r, p) PROVE OpenIsWatched'
  BY <1>3 DEF LookupFails
<1>4. ASSUME NEW r \in Requests, NEW p \in 1..pages, Unsupported(r, p) PROVE OpenIsWatched'
  BY <1>4 DEF Unsupported, resetTimerLocked
<1>5. ASSUME NEW r \in Requests, Configure(r) PROVE OpenIsWatched'
  BY <1>5 DEF Configure
<1>6. ASSUME NEW r \in Requests, ReadMode(r) PROVE OpenIsWatched'
  BY <1>6 DEF ReadMode, Provide
<1>7. ASSUME NEW r \in Requests, Update(r) PROVE OpenIsWatched'
  BY <1>7 DEF Update
<1>8. ASSUME NEW r \in Requests, Snapshot(r) PROVE OpenIsWatched'
  BY <1>8 DEF Snapshot
<1>9. ASSUME NEW r \in Requests, Create(r) PROVE OpenIsWatched'
  BY <1>9 DEF Create, Session, Provide
<1>10. ASSUME NEW r \in Requests, FinishOpen(r) PROVE OpenIsWatched'
  BY <1>10 DEF FinishOpen, resetTimerLocked, Put
<1>11. ASSUME NEW r \in Requests, FinishGet(r) PROVE OpenIsWatched'
  BY <1>11 DEF FinishGet
<1>12. ASSUME NEW r \in Requests, FinishAction(r) PROVE OpenIsWatched'
  BY <1>12 DEF FinishAction, Put
<1>13. ASSUME NEW r \in Requests, FinishRotate(r) PROVE OpenIsWatched'
  BY <1>13 DEF FinishRotate, resetTimerLocked, Put, Restrict
<1>14. CASE TimerFires
  BY <1>14 DEF TimerFires
<1>15. CASE Callback
  BY <1>15 DEF Callback, closeLocked
<1>16. CASE Close
  BY <1>16 DEF Close, closeLocked
<1>17. CASE Get
  BY <1>17 DEF Get
<1>18. CASE Tick
  BY <1>18 DEF Tick
<1>19. CASE UNCHANGED dashboardVars
  BY <1>19 DEF dashboardVars
<1> QED
  BY <1>1, <1>2, <1>3, <1>4, <1>5, <1>6, <1>7, <1>8, <1>9, <1>10,
     <1>11, <1>12, <1>13, <1>14, <1>15, <1>16, <1>17, <1>18, <1>19
     DEF Next, Begin, Handle

\* What a request knows of its page and of its failure.
LEMMA RequestStep ==
  ASSUME DashboardTypeOK, RequestInv, [Next]_dashboardVars
  PROVE  RequestInv'
<1> USE DEF DashboardTypeOK, HostTypeOK, ReqTypeOK, RequestInv, Handlers, Requests, NoRequest,
            At, storeVars, managerVars, hostVars
<1>1. ASSUME NEW r \in Requests, BeginOpen(r) PROVE RequestInv'
  BY <1>1 DEF BeginOpen, New
<1>2. ASSUME NEW r \in Requests, NEW p \in 1..pages, NEW kind \in {"get", "action", "rotate"},
            Lookup(r, kind, p)
      PROVE  RequestInv'
  BY <1>2 DEF Lookup, New, resetTimerLocked
<1>3. ASSUME NEW r \in Requests, NEW p \in 1..pages, LookupFails(r, p) PROVE RequestInv'
  BY <1>3 DEF LookupFails, New, End, Idle, NoQR
<1>4. ASSUME NEW r \in Requests, NEW p \in 1..pages, Unsupported(r, p) PROVE RequestInv'
  BY <1>4 DEF Unsupported, New, resetTimerLocked, End, Idle, NoQR
<1>5. ASSUME NEW r \in Requests, Configure(r) PROVE RequestInv'
  BY <1>5 DEF Configure
<1>6. ASSUME NEW r \in Requests, ReadMode(r) PROVE RequestInv'
  <2>1. CASE Goto(r, "update")
    BY <1>6, <2>1 DEF ReadMode, Goto, Provide, NoQR
  <2>2. CASE Provide(r, NoQR)
    BY <1>6, <2>2 DEF ReadMode, Goto, Provide, NoQR
  <2> QED
    BY <1>6, <2>1, <2>2 DEF ReadMode
<1>7. ASSUME NEW r \in Requests, Update(r) PROVE RequestInv'
  <2>1. CASE Goto(r, "snapshot")
    BY <1>7, <2>1 DEF Update, Goto, End, Idle, NoQR
  <2>2. CASE End(r, "refused")
    BY <1>7, <2>2 DEF Update, Goto, End, Idle, NoQR
  <2> QED
    BY <1>7, <2>1, <2>2 DEF Update
<1>8. ASSUME NEW r \in Requests, Snapshot(r) PROVE RequestInv'
  BY <1>8 DEF Snapshot
<1>9. ASSUME NEW r \in Requests, Create(r) PROVE RequestInv'
  <2>1. CASE Provide(r, Session(r))
    BY <1>9, <2>1 DEF Create, Session, Provide
  <2>2. CASE End(r, "refused") /\ UNCHANGED managerVars
    BY <1>9, <2>2 DEF Create, End, Idle, NoQR
  <2> QED
    BY <1>9, <2>1, <2>2 DEF Create
<1>10. ASSUME NEW r \in Requests, FinishOpen(r) PROVE RequestInv'
  <2>1. CASE End(r, "done")
    BY <1>10, <2>1 DEF FinishOpen, resetTimerLocked, End, Idle, NoQR
  <2>2. CASE End(r, "refused")
    BY <1>10, <2>2 DEF FinishOpen, resetTimerLocked, End, Idle, NoQR
  <2> QED
    BY <1>10, <2>1, <2>2 DEF FinishOpen
<1>11. ASSUME NEW r \in Requests, FinishGet(r) PROVE RequestInv'
  BY <1>11 DEF FinishGet, Goto
<1>12. ASSUME NEW r \in Requests, FinishAction(r) PROVE RequestInv'
  BY <1>12 DEF FinishAction, End, Idle, NoQR
<1>13. ASSUME NEW r \in Requests, FinishRotate(r) PROVE RequestInv'
  BY <1>13 DEF FinishRotate, resetTimerLocked, Goto
<1>14. CASE TimerFires
  BY <1>14 DEF TimerFires
<1>15. CASE Callback
  BY <1>15 DEF Callback, closeLocked
<1>16. CASE Close
  BY <1>16 DEF Close, closeLocked
<1>17. CASE Get
  BY <1>17 DEF Get
<1>18. CASE Tick
  BY <1>18 DEF Tick
<1>19. CASE UNCHANGED dashboardVars
  BY <1>19 DEF dashboardVars
<1> QED
  BY <1>1, <1>2, <1>3, <1>4, <1>5, <1>6, <1>7, <1>8, <1>9, <1>10,
     <1>11, <1>12, <1>13, <1>14, <1>15, <1>16, <1>17, <1>18, <1>19
     DEF Next, Begin, Handle

\* A step of request r leaves the handlers of the others alone.
Frame(r) == \A q \in Requests \ {r} : req'[q] = req[q]

LEMMA FrameIs ==
  ASSUME ReqTypeOK, NEW r \in Requests, NEW h, req' = [req EXCEPT ![r] = h]
  PROVE  Frame(r) /\ req'[r] = h
  BY DEF ReqTypeOK, Frame

\* Tokens only get newer: what another request goes on with stays good.
LEMMA TokenFrame ==
  ASSUME DashboardTypeOK, TokenInv, token' \in Nat, token' >= token,
         NEW r \in Requests, Frame(r), TokenOf(r)'
  PROVE  TokenInv'
<1> SUFFICES ASSUME NEW q \in Requests \ {r} PROVE TokenOf(q)'
  BY DEF TokenInv
<1>1. req'[q] = req[q] /\ TokenOf(q)
  BY DEF TokenInv, Frame
<1>2. token \in Nat /\ req[q] \in Handlers
  BY DEF DashboardTypeOK, StoreTypeOK, ReqTypeOK
<1>3. \A t : Newer(q, t) => Newer(q, t)'
  BY <1>1, <1>2 DEF Newer, Handlers
<1>4. Newer(q, token) => Newer(q, token)'
  BY <1>1, <1>2 DEF Newer, Handlers
<1> QED
  BY <1>1, <1>2, <1>3, <1>4 DEF TokenOf, At, Handlers

LEMMA TokenStep ==
  ASSUME DashboardTypeOK, TokenInv, [Next]_dashboardVars
  PROVE  TokenInv'
<1> DEFINE Keeps(r) == token' \in Nat /\ token' >= token /\ Frame(r) /\ TokenOf(r)'
<1>0. token \in Nat /\ req \in [Requests -> Handlers] /\ \A r \in Requests : TokenOf(r)
  BY DEF DashboardTypeOK, StoreTypeOK, ReqTypeOK, TokenInv
<1>a. ASSUME NEW r \in Requests, token' = token, Frame(r), req'[r].began = token,
             req'[r].pc \in {"mode", "configure"}
      PROVE  Keeps(r)
  BY <1>0, <1>a DEF TokenOf, Newer, At
<1>b. ASSUME NEW r \in Requests, NEW pc \in {"done", "refused"}, token' = token, End(r, pc)
      PROVE  Keeps(r)
  <2>1. Frame(r) /\ req'[r] = [Idle EXCEPT !.pc = pc]
    BY <1>0, <1>b, FrameIs DEF End, ReqTypeOK
  <2>2. req'[r].pc = pc /\ req'[r].kind = "none" /\ req'[r].began = 0
    BY <2>1 DEF Idle
  <2> QED
    BY <1>0, <1>b, <2>1, <2>2 DEF TokenOf, Newer, At
<1>c. ASSUME NEW r \in Requests, NEW qr, token' = token, Provide(r, qr),
             qr = NoQR \/ Newer(r, qr.token)
      PROVE  Keeps(r)
  <2>1. /\ Frame(r) /\ req'[r].pc = "finish" /\ req'[r].kind = req[r].kind
        /\ req'[r].began = req[r].began /\ req'[r].entry.qr = qr
    BY <1>0, <1>c DEF Provide, Frame, Handlers, Entries
  <2> QED
    BY <1>0, <1>c, <2>1 DEF TokenOf, Newer, At
<1>d. ASSUME NEW r \in Requests, NEW pc \in {"update", "shown", "done"}, token' = token, Goto(r, pc),
             At(r, "finish") \/ pc = "update"
      PROVE  Keeps(r)
  <2>1. /\ Frame(r) /\ req'[r].pc = pc /\ req'[r].kind = req[r].kind
        /\ req'[r].began = req[r].began /\ req'[r].entry = req[r].entry
    BY <1>0, <1>d DEF Goto, Frame, Handlers
  <2> QED
    BY <1>0, <1>d, <2>1 DEF TokenOf, Newer, At
<1>1. ASSUME NEW r \in Requests, Begin(r) PROVE Keeps(r)
  <2>1. CASE BeginOpen(r)
    BY <1>0, <1>a, <2>1 DEF BeginOpen, storeVars, Frame, Handlers
  <2>2. ASSUME NEW p, NEW kind, Lookup(r, kind, p) PROVE Keeps(r)
    BY <1>0, <1>a, <2>2 DEF Lookup, storeVars, Frame, Handlers
  <2>3. ASSUME NEW p, LookupFails(r, p) \/ Unsupported(r, p) PROVE Keeps(r)
    BY <1>b, <2>3 DEF LookupFails, Unsupported, storeVars
  <2> QED
    BY <1>1, <2>1, <2>2, <2>3 DEF Begin
<1>2. ASSUME NEW r \in Requests, Configure(r) PROVE Keeps(r)
  <2>1. /\ Frame(r) /\ req'[r].pc = "mode" /\ req'[r].kind = req[r].kind
        /\ req'[r].began = req[r].began /\ token' = token
    BY <1>0, <1>2 DEF Configure, Frame, Handlers
  <2> QED
    BY <1>0, <2>1 DEF TokenOf, Newer, At
<1>3. ASSUME NEW r \in Requests, ReadMode(r) PROVE Keeps(r)
  BY <1>c, <1>d, <1>3 DEF ReadMode, storeVars
<1>4. ASSUME NEW r \in Requests, Update(r) PROVE Keeps(r)
  <2>1. CASE End(r, "refused")
    <3>1. token' = token
      BY <1>0, <1>4, <2>1 DEF Update, End, Goto, Idle, Handlers
    <3> QED
      BY <1>b, <2>1, <3>1
  <2>2. CASE Goto(r, "snapshot") /\ token' = (IF req[r].kind = "rotate" THEN token + 1 ELSE token)
    <3>1. /\ Frame(r) /\ req'[r].pc = "snapshot" /\ req'[r].kind = req[r].kind
          /\ req'[r].began = req[r].began /\ req[r].began \in Nat
      BY <1>0, <2>2 DEF Goto, Frame, Handlers
    <3>2. token >= req[r].began
      BY <1>0 DEF TokenOf
    <3> QED
      BY <1>0, <2>2, <3>1, <3>2 DEF TokenOf, Newer, At
  <2> QED
    BY <1>4, <2>1, <2>2 DEF Update
<1>5. ASSUME NEW r \in Requests, Snapshot(r) PROVE Keeps(r)
  <2>1. /\ Frame(r) /\ req'[r].pc = "create" /\ req'[r].kind = req[r].kind
        /\ req'[r].began = req[r].began /\ req'[r].token = token /\ token' = token
    BY <1>0, <1>5 DEF Snapshot, storeVars, Frame, Handlers
  <2>2. TokenOf(r) /\ At(r, "snapshot")
    BY <1>0, <1>5 DEF Snapshot
  <2> QED
    BY <1>0, <2>1, <2>2 DEF TokenOf, Newer, At
<1>6. ASSUME NEW r \in Requests, Create(r) PROVE Keeps(r)
  <2>1. token' = token
    BY <1>6 DEF Create, storeVars
  <2>2. Newer(r, Session(r).token)
    BY <1>0, <1>6 DEF Create, Session, TokenOf, At
  <2> QED
    BY <1>b, <1>c, <1>6, <2>1, <2>2 DEF Create
<1>7. ASSUME NEW r \in Requests,
             FinishOpen(r) \/ FinishGet(r) \/ FinishAction(r) \/ FinishRotate(r)
      PROVE  Keeps(r)
  BY <1>b, <1>d, <1>7 DEF FinishOpen, FinishGet, FinishAction, FinishRotate, storeVars
<1>8. CASE UNCHANGED <<token, req>>
  BY <1>0, <1>8 DEF TokenInv, TokenOf, Newer, At
<1>9. ASSUME NEW r \in Requests, Keeps(r) PROVE TokenInv'
  BY <1>9, TokenFrame
<1> HIDE DEF Keeps
<1>10. ASSUME NEW r \in Requests, Handle(r) PROVE Keeps(r)
  BY <1>2, <1>3, <1>4, <1>5, <1>6, <1>7, <1>10 DEF Handle
<1>11. TimerFires \/ Callback \/ Close \/ Get \/ Tick \/ UNCHANGED dashboardVars
         => UNCHANGED <<token, req>>
  BY DEF TimerFires, Callback, Close, Get, Tick, dashboardVars, storeVars
<1> QED
  BY <1>1, <1>8, <1>9, <1>10, <1>11 DEF Next

\* The Manager forgets only what has expired.
LEMMA SessionStep ==
  ASSUME DashboardTypeOK, SessionInv, [Next]_dashboardVars
  PROVE  SessionInv'
<1> USE DEF DashboardTypeOK, StoreTypeOK, ReqTypeOK, SessionInv, Handlers, Requests, At, storeVars, managerVars, hostVars
<1>1. ASSUME NEW r \in Requests, BeginOpen(r) PROVE SessionInv'
  BY <1>1 DEF BeginOpen, New
<1>2. ASSUME NEW r \in Requests, NEW p \in 1..pages, NEW kind \in {"get", "action", "rotate"},
            Lookup(r, kind, p)
      PROVE  SessionInv'
  BY <1>2 DEF Lookup, New, resetTimerLocked
<1>3. ASSUME NEW r \in Requests, NEW p \in 1..pages, LookupFails(r, p) PROVE SessionInv'
  BY <1>3 DEF LookupFails, New, End, Idle, NoQR
<1>4. ASSUME NEW r \in Requests, NEW p \in 1..pages, Unsupported(r, p) PROVE SessionInv'
  BY <1>4 DEF Unsupported, New, resetTimerLocked, End, Idle, NoQR
<1>5. ASSUME NEW r \in Requests, Configure(r) PROVE SessionInv'
  BY <1>5 DEF Configure
<1>6. ASSUME NEW r \in Requests, ReadMode(r) PROVE SessionInv'
  <2>1. CASE Goto(r, "update")
    BY <1>6, <2>1 DEF ReadMode, Goto, Provide, NoQR
  <2>2. CASE Provide(r, NoQR)
    BY <1>6, <2>2 DEF ReadMode, Goto, Provide, NoQR
  <2> QED
    BY <1>6, <2>1, <2>2 DEF ReadMode
<1>7. ASSUME NEW r \in Requests, Update(r) PROVE SessionInv'
  <2>1. CASE Goto(r, "snapshot")
    BY <1>7, <2>1 DEF Update, Goto, End, Idle, NoQR
  <2>2. CASE End(r, "refused")
    BY <1>7, <2>2 DEF Update, Goto, End, Idle, NoQR
  <2> QED
    BY <1>7, <2>1, <2>2 DEF Update
<1>8. ASSUME NEW r \in Requests, Snapshot(r) PROVE SessionInv'
  BY <1>8 DEF Snapshot
<1>9. ASSUME NEW r \in Requests, Create(r) PROVE SessionInv'
  <2>1. CASE Provide(r, Session(r))
    BY <1>9, <2>1 DEF Create, Session, Provide
  <2>2. CASE End(r, "refused") /\ UNCHANGED managerVars
    BY <1>9, <2>2 DEF Create, End, Idle, NoQR
  <2> QED
    BY <1>9, <2>1, <2>2 DEF Create
<1>10. ASSUME NEW r \in Requests, FinishOpen(r) PROVE SessionInv'
  <2>1. CASE End(r, "done")
    BY <1>10, <2>1 DEF FinishOpen, resetTimerLocked, End, Idle, NoQR
  <2>2. CASE End(r, "refused")
    BY <1>10, <2>2 DEF FinishOpen, resetTimerLocked, End, Idle, NoQR
  <2> QED
    BY <1>10, <2>1, <2>2 DEF FinishOpen
<1>11. ASSUME NEW r \in Requests, FinishGet(r) PROVE SessionInv'
  BY <1>11 DEF FinishGet, Goto
<1>12. ASSUME NEW r \in Requests, FinishAction(r) PROVE SessionInv'
  BY <1>12 DEF FinishAction, End, Idle, NoQR
<1>13. ASSUME NEW r \in Requests, FinishRotate(r) PROVE SessionInv'
  BY <1>13 DEF FinishRotate, resetTimerLocked, Goto
<1>14. CASE TimerFires
  BY <1>14 DEF TimerFires
<1>15. CASE Callback
  BY <1>15 DEF Callback, closeLocked
<1>16. CASE Close
  BY <1>16 DEF Close, closeLocked
<1>17. CASE Get
  <2>1. PICK s \in sessions : s.exp <= now /\ sessions' = sessions \ {s}
    BY <1>17 DEF Get
  <2>2. \A q \in Requests : req[q].entry.qr.exp \in Nat
    BY DEF Handlers, Entries, QRs
  <2>3. \A q \in Requests : now < req[q].entry.qr.exp => req[q].entry.qr # s
    BY <2>1, <2>2
  <2> QED
    BY <1>17, <2>1, <2>3 DEF Get
<1>18. CASE Tick
  <2>1. \A q \in Requests : now' < req[q].entry.qr.exp => now < req[q].entry.qr.exp
    BY <1>18 DEF Tick, Handlers, Entries, QRs
  <2> QED
    BY <1>18, <2>1 DEF Tick
<1>19. CASE UNCHANGED dashboardVars
  BY <1>19 DEF dashboardVars
<1> QED
  BY <1>1, <1>2, <1>3, <1>4, <1>5, <1>6, <1>7, <1>8, <1>9, <1>10,
     <1>11, <1>12, <1>13, <1>14, <1>15, <1>16, <1>17, <1>18, <1>19
     DEF Next, Begin, Handle

\* The Manager makes a nonce once.
LEMMA NonceStep ==
  ASSUME DashboardTypeOK, NonceInv, [Next]_dashboardVars
  PROVE  NonceInv'
<1>1. ASSUME NEW r \in Requests, Create(r) PROVE NonceInv'
  <2>1. CASE UNCHANGED managerVars
    BY <2>1 DEF NonceInv, managerVars
  <2>2. CASE nonces' = nonces + 1 /\ sessions' = {s \in sessions : s.exp > now} \cup {Session(r)}
    <3>1. nonces \in Nat /\ Session(r).nonce = nonces + 1
      BY DEF Session, DashboardTypeOK, StoreTypeOK
    <3>2. \A s \in sessions' : s \in sessions \/ s = Session(r)
      BY <2>2
    <3>3. \A s \in sessions : s.nonce \in 1..nonces
      BY DEF NonceInv
    <3> QED
      BY <2>2, <3>1, <3>2, <3>3 DEF NonceInv
  <2> QED
    BY <1>1, <2>1, <2>2 DEF Create
<1>2. CASE Get
  <2>1. nonces' = nonces /\ sessions' \subseteq sessions
    BY <1>2 DEF Get
  <2> QED
    BY <2>1 DEF NonceInv
<1>3. CASE UNCHANGED managerVars
  BY <1>3 DEF NonceInv, managerVars
<1>4. ASSUME NEW r \in Requests, Begin(r) PROVE UNCHANGED managerVars
  <2>1. BeginOpen(r) => UNCHANGED managerVars
    BY DEF BeginOpen
  <2>2. \A p : LookupFails(r, p) \/ Unsupported(r, p) => UNCHANGED managerVars
    BY DEF LookupFails, Unsupported
  <2>3. \A p, kind : Lookup(r, kind, p) => UNCHANGED managerVars
    BY DEF Lookup
  <2> QED
    BY <1>4, <2>1, <2>2, <2>3 DEF Begin
<1>5. ASSUME NEW r \in Requests, Handle(r) PROVE Create(r) \/ UNCHANGED managerVars
  BY <1>5 DEF Handle, Configure, ReadMode, Update, Snapshot, FinishOpen, FinishGet,
              FinishAction, FinishRotate
<1>6. TimerFires \/ Callback \/ Close \/ Tick \/ UNCHANGED dashboardVars => UNCHANGED managerVars
  BY DEF TimerFires, Callback, Close, Tick, dashboardVars
<1> QED
  BY <1>1, <1>2, <1>3, <1>4, <1>5, <1>6 DEF Next

-----------------------------------------------------------------------------
(* Where a failure is.                                                      *)

\* A step of this kind only takes failures away.
FewerPages ==
    \A p \in DOMAIN entries' : entries'[p].failed \in 0..N
        => p \in DOMAIN entries /\ entries'[p].failed = entries[p].failed
FewerCarry ==
    \A r \in Requests :
        /\ req'[r].kind = "get" \/ (req'[r].kind = "action" /\ req'[r].pc # "configure")
        /\ req'[r].entry.failed \in 0..N
        => Carries(r, req'[r].entry.failed)
FewerMayFail ==
    \A r \in Requests : req'[r].pc \in {"idle", "configure"} => MayFail(r)

LEMMA Fewer ==
  ASSUME ErrorInv, FewerPages, FewerCarry, FewerMayFail
  PROVE  ErrorInv'
<1> SUFFICES ASSUME NEW f \in 0..N PROVE Once(f)'
  BY DEF ErrorInv
<1> USE DEF At
<1>1. \A p \in DOMAIN entries' : Waits(p, f)' => p \in DOMAIN entries /\ Waits(p, f)
  BY DEF FewerPages, Waits
<1>2. \A r \in Requests : Carries(r, f)' => Carries(r, f)
  BY DEF FewerCarry, Carries
<1>3. \A r \in Requests : MayFail(r)' => MayFail(r)
  BY DEF FewerMayFail, MayFail
<1>4. Once(f)
  BY DEF ErrorInv
<1> QED
  BY <1>1, <1>2, <1>3, <1>4 DEF Once, Waits, Carries, MayFail

\* A failure that waits on page p is taken off it by r, which shows it.
LEMMA OnceShown ==
  ASSUME NEW f, Once(f), NEW r \in Requests, NEW p \in DOMAIN entries,
         \A q \in DOMAIN entries' : Waits(q, f)' => q \in DOMAIN entries \ {p} /\ Waits(q, f),
         \A s \in Requests : Carries(s, f)' => Carries(s, f) \/ (s = r /\ Waits(p, f)),
         \A s \in Requests : MayFail(s)' => MayFail(s)
  PROVE  Once(f)'
  BY DEF Once

\* The operation of r fails, or another does not.
LEMMA OnceFailed ==
  ASSUME NEW f, Once(f), NEW r \in Requests, UNCHANGED entries,
         \A s \in Requests : Carries(s, f)' => Carries(s, f) \/ (s = r /\ f = r),
         \A s \in Requests : MayFail(s)' => MayFail(s) /\ s # r,
         f = r => /\ \A p \in DOMAIN entries : ~Waits(p, f)
                  /\ \A s \in Requests : ~Carries(s, f)
  PROVE  Once(f)'
<1>1. \A p \in DOMAIN entries : Waits(p, f)' <=> Waits(p, f)
  BY DEF Waits
<1> QED
  BY <1>1 DEF Once

\* r puts its failure back on page p.
LEMMA OnceBack ==
  ASSUME NEW f, Once(f), NEW r \in Requests, NEW p,
         \A q \in DOMAIN entries' : Waits(q, f)' =>
            \/ q \in DOMAIN entries /\ Waits(q, f)
            \/ q = p /\ Carries(r, f),
         \A s \in Requests : Carries(s, f)' => Carries(s, f) /\ s # r,
         \A s \in Requests : MayFail(s)' => MayFail(s)
  PROVE  Once(f)'
  BY DEF Once

\* A failure moves from a handler to its page and from there to a handler that shows it.
LEMMA ErrorStep ==
  ASSUME DashboardTypeOK, RequestInv, ErrorInv, [Next]_dashboardVars
  PROVE  ErrorInv'
<1> USE DashboardAssumption DEF DashboardTypeOK, HostTypeOK, ReqTypeOK, RequestInv, Handlers, Requests, NoRequest,
            Carries, MayFail, At, storeVars, managerVars, hostVars
<1>1. ASSUME NEW r \in Requests, BeginOpen(r) PROVE ErrorInv'
  <2>1. FewerPages
    BY <1>1 DEF FewerPages, BeginOpen, New
  <2>2. FewerCarry
    BY <1>1 DEF FewerCarry, BeginOpen, New
  <2>3. FewerMayFail
    BY <1>1 DEF FewerMayFail, BeginOpen, New
  <2> QED
    BY <2>1, <2>2, <2>3, Fewer
<1>2. ASSUME NEW r \in Requests, NEW p \in 1..pages, NEW kind \in {"get", "action", "rotate"},
            Lookup(r, kind, p)
      PROVE  ErrorInv'
  <2> USE <1>2 DEF Lookup, New, resetTimerLocked
  <2>1. CASE kind = "get"
    <3> SUFFICES ASSUME NEW f \in 0..N PROVE Once(f)'
      BY DEF ErrorInv
    <3>1. Once(f)
      BY DEF ErrorInv
    <3>2. \A q \in DOMAIN entries' : Waits(q, f)' => q \in DOMAIN entries \ {p} /\ Waits(q, f)
      BY <2>1 DEF Waits
    <3>3. \A s \in Requests : Carries(s, f)' => Carries(s, f) \/ (s = r /\ Waits(p, f))
      <4>1. Frame(r) /\ req'[r].entry = entries[p]
        BY <1>2 DEF Frame
      <4> QED
        BY <4>1 DEF Frame, Waits, Carries
    <3>4. \A s \in Requests : MayFail(s)' => MayFail(s)
      BY <2>1 DEF MayFail
    <3>5. p \in DOMAIN entries
      BY <1>2
    <3> HIDE <1>2 DEF DashboardTypeOK, HostTypeOK, ReqTypeOK, RequestInv, Handlers, Requests,
                     Carries, MayFail
    <3> QED
      BY <3>1, <3>2, <3>3, <3>4, <3>5, OnceShown
  <2>2. CASE kind # "get"
    <3>1. FewerPages
      BY <2>2 DEF FewerPages
    <3>2. FewerCarry
      <4>1. Frame(r) /\ req'[r].kind = kind /\ (kind = "action" => req'[r].pc = "configure")
        BY <1>2 DEF Frame
      <4> QED
        BY <2>2, <4>1 DEF Frame, FewerCarry
    <3>3. FewerMayFail
      BY <2>2 DEF FewerMayFail, MayFail
    <3> QED
      BY <3>1, <3>2, <3>3, Fewer
  <2> QED
    BY <2>1, <2>2
<1>3. ASSUME NEW r \in Requests, NEW p \in 1..pages, LookupFails(r, p) PROVE ErrorInv'
  <2>1. FewerPages
    BY <1>3 DEF FewerPages, LookupFails, New, End, Idle, NoQR
  <2>2. FewerCarry
    BY <1>3 DEF FewerCarry, LookupFails, New, End, Idle, NoQR
  <2>3. FewerMayFail
    BY <1>3 DEF FewerMayFail, LookupFails, New, End, Idle, NoQR
  <2> QED
    BY <2>1, <2>2, <2>3, Fewer
<1>4. ASSUME NEW r \in Requests, NEW p \in 1..pages, Unsupported(r, p) PROVE ErrorInv'
  <2>1. FewerPages
    BY <1>4 DEF FewerPages, Unsupported, New, resetTimerLocked, End, Idle, NoQR
  <2>2. FewerCarry
    BY <1>4 DEF FewerCarry, Unsupported, New, resetTimerLocked, End, Idle, NoQR
  <2>3. FewerMayFail
    BY <1>4 DEF FewerMayFail, Unsupported, New, resetTimerLocked, End, Idle, NoQR
  <2> QED
    BY <2>1, <2>2, <2>3, Fewer
<1>5. ASSUME NEW r \in Requests, Configure(r) PROVE ErrorInv'
  <2> SUFFICES ASSUME NEW f \in 0..N PROVE Once(f)'
    BY DEF ErrorInv
  <2>1. Once(f)
    BY DEF ErrorInv
  <2>2. \A s \in Requests : Carries(s, f)' => Carries(s, f) \/ (s = r /\ f = r)
    BY <1>5 DEF Configure
  <2>3. \A s \in Requests : MayFail(s)' => MayFail(s) /\ s # r
    BY <1>5 DEF Configure
  <2>4. UNCHANGED entries /\ MayFail(r)
    BY <1>5 DEF Configure
  <2>5. f = r => /\ \A p \in DOMAIN entries : ~Waits(p, f)
                 /\ \A s \in Requests : ~Carries(s, f)
    BY <2>1, <2>4 DEF Once
  <2> HIDE DEF DashboardTypeOK, HostTypeOK, ReqTypeOK, RequestInv, Handlers, Requests, Carries,
               MayFail
  <2> QED
    BY <2>1, <2>2, <2>3, <2>4, <2>5, OnceFailed
<1>6. ASSUME NEW r \in Requests, ReadMode(r) PROVE ErrorInv'
  <2>1. FewerPages
    BY <1>6 DEF FewerPages, ReadMode
  <2>2. FewerCarry
    <3>1. CASE Goto(r, "update")
      BY <1>6, <3>1 DEF FewerCarry, Goto, ReadMode
    <3>2. CASE Provide(r, NoQR)
      BY <1>6, <3>2 DEF FewerCarry, Provide, NoQR, ReadMode
    <3> QED
      BY <1>6, <3>1, <3>2 DEF ReadMode
  <2>3. FewerMayFail
    <3>1. CASE Goto(r, "update")
      BY <3>1 DEF FewerMayFail, Goto
    <3>2. CASE Provide(r, NoQR)
      BY <3>2 DEF FewerMayFail, Provide
    <3> QED
      BY <1>6, <3>1, <3>2 DEF ReadMode
  <2> QED
    BY <2>1, <2>2, <2>3, Fewer
<1>7. ASSUME NEW r \in Requests, Update(r) PROVE ErrorInv'
  <2>1. FewerPages
    BY <1>7 DEF FewerPages, Update
  <2>2. FewerCarry
    <3>1. CASE Goto(r, "snapshot")
      BY <1>7, <3>1 DEF FewerCarry, Goto, Update
    <3>2. CASE End(r, "refused")
      BY <3>2 DEF FewerCarry, End, Idle
    <3> QED
      BY <1>7, <3>1, <3>2 DEF Update
  <2>3. FewerMayFail
    BY <1>7 DEF FewerMayFail, Update, Goto, End, Idle
  <2> QED
    BY <2>1, <2>2, <2>3, Fewer
<1>8. ASSUME NEW r \in Requests, Snapshot(r) PROVE ErrorInv'
  <2>1. FewerPages
    BY <1>8 DEF FewerPages, Snapshot
  <2>2. FewerCarry
    BY <1>8 DEF FewerCarry, Snapshot
  <2>3. FewerMayFail
    BY <1>8 DEF FewerMayFail, Snapshot
  <2> QED
    BY <2>1, <2>2, <2>3, Fewer
<1>9. ASSUME NEW r \in Requests, Create(r) PROVE ErrorInv'
  <2>1. FewerPages
    BY <1>9 DEF FewerPages, Create, Session, Provide
  <2>2. FewerCarry
    <3>1. CASE Provide(r, Session(r))
      BY <1>9, <3>1 DEF FewerCarry, Provide
    <3>2. CASE End(r, "refused")
      BY <3>2 DEF FewerCarry, End, Idle
    <3> QED
      BY <1>9, <3>1, <3>2 DEF Create
  <2>3. FewerMayFail
    <3>1. CASE Provide(r, Session(r))
      BY <3>1 DEF FewerMayFail, Provide
    <3>2. CASE End(r, "refused")
      BY <3>2 DEF FewerMayFail, End, Idle
    <3> QED
      BY <1>9, <3>1, <3>2 DEF Create
  <2> QED
    BY <2>1, <2>2, <2>3, Fewer
<1>10. ASSUME NEW r \in Requests, FinishOpen(r) PROVE ErrorInv'
  <2>1. FewerPages
    BY <1>10 DEF FewerPages, FinishOpen, resetTimerLocked, End, Idle, NoQR, Put
  <2>2. FewerCarry
    <3>1. \A pc : End(r, pc) => FewerCarry
      BY DEF FewerCarry, End, Idle
    <3> QED
      BY <1>10, <3>1 DEF FinishOpen
  <2>3. FewerMayFail
    <3>1. \A pc \in {"done", "refused"} : End(r, pc) => FewerMayFail
      BY DEF FewerMayFail, End, Idle
    <3> QED
      BY <1>10, <3>1 DEF FinishOpen
  <2> QED
    BY <2>1, <2>2, <2>3, Fewer
<1>11. ASSUME NEW r \in Requests, FinishGet(r) PROVE ErrorInv'
  <2>1. FewerPages
    BY <1>11 DEF FewerPages, FinishGet, Goto
  <2>2. FewerCarry
    BY <1>11 DEF FewerCarry, FinishGet, Goto
  <2>3. FewerMayFail
    BY <1>11 DEF FewerMayFail, FinishGet, Goto
  <2> QED
    BY <2>1, <2>2, <2>3, Fewer
<1>12. ASSUME NEW r \in Requests, FinishAction(r) PROVE ErrorInv'
  <2> SUFFICES ASSUME NEW f \in 0..N PROVE Once(f)'
    BY DEF ErrorInv
  <2>0. PICK p, e : p = req[r].page /\ e = req[r].entry
    OBVIOUS
  <2>1. Once(f)
    BY DEF ErrorInv
  <2>2. entries' = Put(p, e)
    BY <1>12, <2>0 DEF FinishAction
  <2>3. Waits(p, f)' => Carries(r, f)
    <3>1. entries'[p] = e
      BY <2>2, PutIs
    <3>2. req[r].kind = "action" /\ ~At(r, "configure")
      BY <1>12 DEF FinishAction
    <3> QED
      BY <2>0, <3>1, <3>2 DEF Waits
  <2>4. \A q \in DOMAIN entries' : q # p /\ Waits(q, f)' => q \in DOMAIN entries /\ Waits(q, f)
    <3>1. DOMAIN entries' = DOMAIN entries \cup {p}
      BY <2>2, PutIs
    <3>2. \A q \in DOMAIN entries : q # p => entries'[q] = entries[q]
      BY <2>2 DEF Put
    <3> QED
      BY <3>1, <3>2 DEF Waits
  <2>5. \A s \in Requests : Carries(s, f)' => Carries(s, f) /\ s # r
    BY <1>12 DEF FinishAction, End, Idle
  <2>6. \A s \in Requests : MayFail(s)' => MayFail(s)
    BY <1>12 DEF FinishAction, End, Idle
  <2>7. \A q \in DOMAIN entries' : Waits(q, f)' =>
            \/ q \in DOMAIN entries /\ Waits(q, f)
            \/ q = p /\ Carries(r, f)
    BY <2>3, <2>4
  <2> HIDE DEF DashboardTypeOK, HostTypeOK, ReqTypeOK, RequestInv, Handlers, Requests, Carries,
               MayFail
  <2> QED
    BY <2>1, <2>5, <2>6, <2>7, OnceBack
<1>13. ASSUME NEW r \in Requests, FinishRotate(r) PROVE ErrorInv'
  <2>1. FewerPages
    BY <1>13 DEF FewerPages, FinishRotate, resetTimerLocked, Goto, Put, Restrict
  <2>2. FewerCarry
    BY <1>13 DEF FewerCarry, FinishRotate, resetTimerLocked, Goto, Put, Restrict
  <2>3. FewerMayFail
    BY <1>13 DEF FewerMayFail, FinishRotate, resetTimerLocked, Goto, Put, Restrict
  <2> QED
    BY <2>1, <2>2, <2>3, Fewer
<1>14. CASE TimerFires
  <2>1. FewerPages
    BY <1>14 DEF FewerPages, TimerFires
  <2>2. FewerCarry
    BY <1>14 DEF FewerCarry, TimerFires
  <2>3. FewerMayFail
    BY <1>14 DEF FewerMayFail, TimerFires
  <2> QED
    BY <2>1, <2>2, <2>3, Fewer
<1>15. CASE Callback
  <2>1. FewerPages
    BY <1>15 DEF FewerPages, Callback, closeLocked
  <2>2. FewerCarry
    BY <1>15 DEF FewerCarry, Callback, closeLocked
  <2>3. FewerMayFail
    BY <1>15 DEF FewerMayFail, Callback, closeLocked
  <2> QED
    BY <2>1, <2>2, <2>3, Fewer
<1>16. CASE Close
  <2>1. FewerPages
    BY <1>16 DEF FewerPages, Close, closeLocked
  <2>2. FewerCarry
    BY <1>16 DEF FewerCarry, Close, closeLocked
  <2>3. FewerMayFail
    BY <1>16 DEF FewerMayFail, Close, closeLocked
  <2> QED
    BY <2>1, <2>2, <2>3, Fewer
<1>17. CASE Get
  <2>1. FewerPages
    BY <1>17 DEF FewerPages, Get
  <2>2. FewerCarry
    BY <1>17 DEF FewerCarry, Get
  <2>3. FewerMayFail
    BY <1>17 DEF FewerMayFail, Get
  <2> QED
    BY <2>1, <2>2, <2>3, Fewer
<1>18. CASE Tick
  <2>1. FewerPages
    BY <1>18 DEF FewerPages, Tick
  <2>2. FewerCarry
    BY <1>18 DEF FewerCarry, Tick
  <2>3. FewerMayFail
    BY <1>18 DEF FewerMayFail, Tick
  <2> QED
    BY <2>1, <2>2, <2>3, Fewer
<1>19. CASE UNCHANGED dashboardVars
  <2>1. FewerPages
    BY <1>19 DEF FewerPages, dashboardVars
  <2>2. FewerCarry
    BY <1>19 DEF FewerCarry, dashboardVars
  <2>3. FewerMayFail
    BY <1>19 DEF FewerMayFail, dashboardVars
  <2> QED
    BY <2>1, <2>2, <2>3, Fewer
<1> HIDE DEF DashboardTypeOK, RequestInv
<1> QED
  BY <1>1, <1>2, <1>3, <1>4, <1>5, <1>6, <1>7, <1>8, <1>9, <1>10,
     <1>11, <1>12, <1>13, <1>14, <1>15, <1>16, <1>17, <1>18, <1>19
     DEF Next, Begin, Handle

\* The invariant holds at first, with and without a page.
LEMMA InitSetup == Init => SetupInv
<1> SUFFICES ASSUME Init PROVE SetupInv
  OBVIOUS
<1> USE DashboardAssumption
<1>1. DashboardTypeOK
  <2>1. NoQR \in QRs /\ Idle \in Handlers
    BY DEF NoQR, QRs, Idle, Handlers, Steps, Entries, NoRequest
  <2>2. StoreTypeOK
    <3>1. nonces \in Nat
      BY DEF Init
    <3>2. mode \in Modes /\ stopped \in BOOLEAN
      BY DEF Init
    <3>3. token \in Nat \ {0} /\ now \in Nat
      BY DEF Init
    <3>4. \A n \in 1..nonces : [nonce |-> n, token |-> 1, exp |-> Lifetime] \in QRs
      BY <3>1 DEF QRs
    <3>5. sessions \subseteq QRs
      BY <3>4 DEF Init
    <3> QED
      BY <3>1, <3>2, <3>3, <3>5 DEF StoreTypeOK
  <2>3. HostTypeOK
    <3>1. CASE entries = <<>> /\ pages = 0
      <4>1. DOMAIN entries = {}
        BY <3>1
      <4> QED
        BY <3>1, <4>1 DEF Init, HostTypeOK
    <3>2. CASE pages = 1 /\ \E qr \in sessions \cup {NoQR}, failed \in {0, NoRequest} :
                               entries = <<[qr |-> qr, failed |-> failed]>>
      <4>1. PICK qr \in sessions \cup {NoQR}, failed \in {0, NoRequest} :
                   entries = <<[qr |-> qr, failed |-> failed]>>
        BY <3>2
      <4>2. [qr |-> qr, failed |-> failed] \in Entries
        BY <2>1, <2>2 DEF Entries, StoreTypeOK, NoRequest
      <4>3. DOMAIN entries = 1..1 /\ entries[1] \in Entries
        BY <4>1, <4>2
      <4> QED
        BY <3>2, <4>3 DEF Init, HostTypeOK
    <3> QED
      BY <3>1, <3>2 DEF Init
  <2>4. ReqTypeOK
    BY <2>1 DEF Init, ReqTypeOK
  <2> QED
    BY <2>2, <2>3, <2>4 DEF DashboardTypeOK
<1>2. OpenIsWatched
  BY DEF Init, OpenIsWatched
<1>3. TokenInv
  BY DEF Init, TokenInv, TokenOf, Newer, Idle, At
<1>4. SessionInv
  BY DEF Init, SessionInv, Idle, At
<1>5. RequestInv
  BY DEF Init, RequestInv, Idle, At
<1>6. ErrorInv
  BY DEF Init, ErrorInv, Once, Waits, Carries, MayFail, Idle, At, Requests, NoRequest
<1>7. NonceInv
  BY DEF Init, NonceInv
<1> QED
  BY <1>1, <1>2, <1>3, <1>4, <1>5, <1>6, <1>7 DEF SetupInv, DashboardInv

\* The invariant, whatever the requests and the timers of the host do.
THEOREM Inductive == Spec => []SetupInv
<1>1. SetupInv /\ [Next]_dashboardVars => SetupInv'
  BY StoreStep, HostStep, ReqStep, WatchStep, TokenStep, SessionStep, RequestStep, ErrorStep,
     NonceStep
     DEF SetupInv, DashboardInv, DashboardTypeOK
<1> QED
  BY InitSetup, <1>1, PTL DEF Spec

\* The host never listens without a timer that will close it, and a request may rely on
\* the token and on the session it goes on with (dashboard_host.go:193-202).
THEOREM DashboardSafe == Spec => []DashboardInv
  BY Inductive, PTL DEF SetupInv

\* A page shows no token that was revoked before it was asked for, and the page of a
\* rotation a newer one (dashboard_host.go:107).
THEOREM PagesAreFresh == Spec => []FreshQR
<1>1. DashboardInv => FreshQR
  BY DEF DashboardInv, DashboardTypeOK, StoreTypeOK, ReqTypeOK, Handlers, TokenInv, TokenOf,
         Newer, FreshQR, Shown, At
<1> QED
  BY <1>1, DashboardSafe, PTL

\* The QR of a page gives the phones the token the Agent accepts until it expires, the
\* token is rotated or the mode changes, however many other pages there are
\* (manager.go:57-64, agent.go:85-91 and 225).
THEOREM ShownQRWorks == Spec => []QRWorks
<1>1. SetupInv => QRWorks
  <2> SUFFICES ASSUME SetupInv, NEW r \in Requests, Shown(r), req[r].entry.qr # NoQR,
                      now < req[r].entry.qr.exp, mode = "tailscale", token = req[r].began
               PROVE  Setup(req[r].entry.qr.nonce) = {token}
    BY DEF QRWorks
  <2> DEFINE qr == req[r].entry.qr
  <2>1. qr \in sessions
    BY DEF SetupInv, DashboardInv, SessionInv, Shown
  <2>2. qr.token \in req[r].began..token /\ token \in Nat
    BY DEF SetupInv, DashboardInv, DashboardTypeOK, StoreTypeOK, TokenInv, TokenOf,
           Newer, Shown
  <2>3. qr.token = token
    BY <2>2
  <2>4. \A s \in sessions : s.nonce = qr.nonce => s = qr
    BY <2>1 DEF SetupInv, NonceInv
  <2> QED
    BY <2>1, <2>3, <2>4 DEF Setup
<1> QED
  BY <1>1, Inductive, PTL

\* The failure of an operation is shown on one page, once, though every handler works on
\* a copy of its page (dashboard_host.go:96).
THEOREM FailureShownOnce == Spec => []ErrorShownOnce
<1>1. SetupInv => ErrorShownOnce
  BY DashboardAssumption
     DEF SetupInv, DashboardInv, DashboardTypeOK, ReqTypeOK, Handlers, Entries, NoRequest,
         ErrorInv, Once, Carries, ErrorShownOnce, Shown, At
<1> QED
  BY <1>1, Inductive, PTL
=============================================================================
