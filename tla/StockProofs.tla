---------------------------- MODULE StockProofs ----------------------------
(***************************************************************************)
(* Theorems about StockLedger for all sets of connections, cells, work     *)
(* orders and keys and any number of requests. StockInv is what the locks  *)
(* a transaction holds let it rely on; on top of it Counted says what the  *)
(* balances rest on: a transaction past LockCell has the balance of its    *)
(* cell to itself, so it leaves the sum of the active reservations there,  *)
(* and no other transaction finds its cell changed. Brought says what is   *)
(* still true when a transaction writes of what it read before it had the  *)
(* lock, and which locks it can hold: with it every request that commits   *)
(* is one entry of StockBook, and who waits for locks waits for one that   *)
(* is further on.                                                          *)
(***************************************************************************)
EXTENDS StockLedger, SumTheorems, FiniteSetTheorems, TLAPS

Tx == [pc : {"idle", "insert", "issue", "cell", "rows", "other"},
       kind : {"none", "reserve", "release", "issue", "return", "damage"},
       n : {0} \cup Ids, cell : AllCells, qty : {0} \cup Quantities,
       wo : WorkOrders \cup {None}, key : Keys \cup {None},
       ref : {0} \cup Ids, seen : SUBSET Ids, freed : SUBSET Ids]

Locks == Modes \X (AllCells \cup WorkOrders \cup Ids)

-----------------------------------------------------------------------------
(* The parts of a step.                                                    *)

\* What the next step of a transaction waits for is made of locks.
LEMMA WantsAreLocks ==
  ASSUME TypeOK, NEW s \in Sessions
  PROVE  /\ tx[s].pc = "insert" => Wants(s) = {<<"share", tx[s].ref>>}
         /\ tx[s].pc = "issue" => Wants(s) = {<<"issue", tx[s].ref>>}
         /\ tx[s].pc = "cell" => Wants(s) = {<<"cell", tx[s].cell>>}
         /\ tx[s].pc = "rows" => Wants(s) = {<<"change", r>> : r \in Touched(tx[s])}
         /\ tx[s].pc = "other" => Wants(s) = {<<"cell", Quarantine>>}
  BY DEF Wants

\* The transaction updates reservations only.
LEMMA TouchedType ==
  ASSUME TypeOK, NEW s \in Sessions
  PROVE  Touched(tx[s]) \subseteq Ids
<1>1. tx[s].ref \in {0} \cup Ids BY DEF TypeOK
<1> QED BY <1>1 DEF Touched, Stale, ActiveAt, FreedFor

\* The fields of a transaction that it writes with.
LEMMA TxFields ==
  ASSUME TypeOK, NEW s \in Sessions
  PROVE  /\ tx[s].qty \in Nat /\ tx[s].cell \in AllCells
         /\ tx[s].wo \in WorkOrders \cup {None} /\ tx[s].key \in Keys \cup {None}
         /\ tx[s].ref \in {0} \cup Ids /\ tx[s].seen \subseteq Ids
<1>1. tx[s] \in Tx BY DEF TypeOK, Tx
<1>2. tx[s].qty = 0 \/ tx[s].qty \in Quantities BY <1>1 DEF Tx
<1>3. \A q \in Quantities : q \in Nat BY StockAssumption
<1>4. tx[s].qty \in Nat BY <1>2, <1>3
<1> QED BY <1>1, <1>4 DEF Tx

\* The idle transaction is one.
LEMMA IdleType == Idle \in Tx
  BY DEF Idle, Tx, AllCells

\* The types hold initially.
LEMMA InitTypeOK == Init => TypeOK
<1> SUFFICES ASSUME Init PROVE TypeOK OBVIOUS
<1>1. on_hand \in [AllCells -> Nat] /\ DOMAIN reserved = AllCells
  BY StockAssumption DEF Init, AllCells
<1>2. reservation \in [Ids -> Reservation] /\ issue \in [Ids -> Issue]
  BY DEF Init, NoReservation, NoIssue, Reservation, Issue, Statuses, AllCells
<1>3. tx \in [Sessions -> Tx] BY IdleType DEF Init
<1>4. 0 \in 0..MaxRequests BY StockAssumption
<1> QED BY <1>1, <1>2, <1>3, <1>4 DEF Init, TypeOK, Tx

\* A request that begins.
LEMMA BeginType ==
  ASSUME TypeOK, NEW s \in Sessions, NEW t \in Tx, NEW locks \in SUBSET Locks,
         Begin(s, t, locks)
  PROVE  TypeOK'
<1>1. requests + 1 \in Ids /\ requests' \in 0..MaxRequests
  BY StockAssumption DEF Begin, TypeOK, Ids
<1>2. [t EXCEPT !.n = requests + 1] \in Tx BY <1>1 DEF Tx
<1>3. tx' \in [Sessions -> Tx] BY <1>2 DEF Begin, TypeOK, Tx
<1>4. held' \in [Sessions -> SUBSET Locks] BY DEF Begin, Take, TypeOK, Locks
<1> QED BY <1>1, <1>3, <1>4 DEF Begin, TypeOK, stock, orders, Tx, Locks

\* A transaction that ends, with what it wrote.
LEMMA EndType ==
  ASSUME TypeOK, NEW s \in Sessions, End(s),
         on_hand' \in [AllCells -> Nat], DOMAIN reserved' = AllCells,
         reservation' \in [Ids -> Reservation], issue' \in [Ids -> Issue],
         events' \subseteq {"stock.reserved", "stock.reservation.released"} \X Ids
  PROVE  TypeOK'
<1>1. tx' \in [Sessions -> Tx] BY IdleType DEF End, TypeOK, Tx
<1> QED BY <1>1 DEF End, TypeOK, orders, Tx

\* A rollback keeps the types.
LEMMA AbortType ==
  ASSUME TypeOK, NEW s \in Sessions, Abort(s) PROVE TypeOK'
  BY EndType DEF Abort, stock, TypeOK

\* A transaction that takes the locks it waits for and goes on.
LEMMA AdvanceType ==
  ASSUME TypeOK, NEW s \in Sessions, NEW pc \in {"cell", "rows", "other"},
         NEW freed \in SUBSET Ids, Wants(s) \in SUBSET Locks, Take(s, Wants(s)),
         tx' = [tx EXCEPT ![s].pc = pc] \/ tx' = [tx EXCEPT ![s].pc = pc, ![s].freed = freed],
         UNCHANGED <<stock, lapsed, orders, requests>>
  PROVE  TypeOK'
<1>1. tx[s] \in Tx BY DEF TypeOK, Tx
<1>2. /\ [tx[s] EXCEPT !.pc = pc] \in Tx
      /\ [tx[s] EXCEPT !.pc = pc, !.freed = freed] \in Tx
  BY <1>1 DEF Tx
<1>3. tx' \in [Sessions -> Tx]
  <2>1. \/ tx' = [tx EXCEPT ![s] = [tx[s] EXCEPT !.pc = pc]]
        \/ tx' = [tx EXCEPT ![s] = [tx[s] EXCEPT !.pc = pc, !.freed = freed]]
    BY DEF TypeOK
  <2> QED BY <1>2, <2>1 DEF TypeOK, Tx
<1>4. held' \in [Sessions -> SUBSET Locks] BY DEF Take, TypeOK, Locks
<1> QED BY <1>3, <1>4 DEF TypeOK, stock, orders, Tx, Locks

\* A change of status leaves reservations.
LEMMA WithStatusType ==
  ASSUME TypeOK, NEW R, NEW status \in Statuses
  PROVE  WithStatus(R, status) \in [Ids -> Reservation]
  BY DEF TypeOK, WithStatus, Reservation

\* What a transaction waits for are locks.
LEMMA WantsType ==
  ASSUME TypeOK, NEW s \in Sessions, tx[s].pc # "idle",
         tx[s].pc \in {"insert", "issue"} => tx[s].ref \in Ids
  PROVE  Wants(s) \in SUBSET Locks
<1>1. tx[s] \in Tx BY DEF TypeOK, Tx
<1>2. Touched(tx[s]) \subseteq Ids BY TouchedType
<1>3. CASE tx[s].pc = "rows"
  BY <1>2, <1>3, WantsAreLocks DEF Locks, Modes
<1>4. CASE tx[s].pc # "rows"
  BY <1>1, <1>4, WantsAreLocks DEF Locks, Modes, Tx, AllCells
<1> QED BY <1>3, <1>4

-----------------------------------------------------------------------------
(* Every step keeps the types.                                             *)

\* Which of its steps a transaction is at.
LEMMA StepTypeOK ==
  ASSUME TypeOK, Carried, Numbered, [Next]_vars PROVE TypeOK'
<1> USE StockAssumption
<1>1. CASE UNCHANGED vars BY <1>1 DEF vars, TypeOK
<1>2. CASE Environment
  BY <1>2 DEF Environment, Lapse, CloseWorkOrder, TypeOK, stock, orders
<1>3. ASSUME NEW s \in Sessions, BeginRequest(s) PROVE TypeOK'
  <2>1. ASSUME NEW c \in Cells, NEW q \in Quantities, NEW w \in WorkOrders \cup {None},
               NEW k \in Keys \cup {None}, Reserve(s, c, q, w, k)
        PROVE  TypeOK'
    <3>1. [Idle EXCEPT !.pc = "cell", !.kind = "reserve", !.cell = c, !.qty = q,
                       !.wo = w, !.key = k, !.seen = lapsed] \in Tx
      BY IdleType DEF Tx, TypeOK, AllCells
    <3>2. WorkOrderLock(w) \in SUBSET Locks BY DEF WorkOrderLock, Locks, Modes
    <3> QED BY <2>1, <3>1, <3>2, BeginType DEF Reserve
  <2>2. ASSUME NEW r \in Ids, Release(s, r) PROVE TypeOK'
    <3>1. reservation[r].cell \in AllCells BY DEF TypeOK, Reservation
    <3>2. [Idle EXCEPT !.pc = "cell", !.kind = "release", !.ref = r,
                       !.cell = reservation[r].cell] \in Tx
      BY <3>1, IdleType DEF Tx
    <3>3. {<<"update", r>>} \in SUBSET Locks BY DEF Locks, Modes
    <3> QED BY <2>2, <3>2, <3>3, BeginType DEF Release
  <2>3. ASSUME NEW w \in WorkOrders, NEW c \in Cells, NEW q \in Quantities,
               NEW r \in {0} \cup Ids, BeginIssue(s, w, c, q, r)
        PROVE  TypeOK'
    <3>1. \A pc \in {"cell", "insert"} :
            [Idle EXCEPT !.pc = pc, !.kind = "issue",
                         !.cell = c, !.qty = q, !.wo = w, !.ref = r] \in Tx
      BY IdleType DEF Tx, AllCells
    <3>2. WorkOrderLock(w) \in SUBSET Locks BY DEF WorkOrderLock, Locks, Modes
    <3> QED BY <2>3, <3>1, <3>2, BeginType DEF BeginIssue
  <2>4. ASSUME NEW i \in Ids, NEW q \in Quantities, BeginReturn(s, i, q) PROVE TypeOK'
    <3>1. issue[i].cell \in AllCells BY DEF TypeOK, Issue
    <3>2. [Idle EXCEPT !.pc = "issue", !.kind = "return", !.ref = i, !.qty = q,
                       !.cell = issue[i].cell] \in Tx
      BY <3>1, IdleType DEF Tx
    <3> QED BY <2>4, <3>2, BeginType DEF BeginReturn
  <2>5. ASSUME NEW c \in Cells, NEW q \in Quantities, BeginDamage(s, c, q) PROVE TypeOK'
    <3>1. [Idle EXCEPT !.pc = "cell", !.kind = "damage", !.cell = c, !.qty = q,
                       !.seen = ActiveAt(c)] \in Tx
      BY IdleType DEF Tx, AllCells, ActiveAt
    <3> QED BY <2>5, <3>1, BeginType DEF BeginDamage
  <2> QED BY <1>3, <2>1, <2>2, <2>3, <2>4, <2>5 DEF BeginRequest
<1>4. ASSUME NEW s \in Sessions, Advance(s) PROVE TypeOK'
  <2>1. tx[s].pc # "idle" BY <1>4 DEF Advance, InsertIssue, LockIssue, LockCell, FreeReservations
  <2>2. tx[s].pc \in {"insert", "issue"} => tx[s].ref \in Ids
    BY <2>1 DEF Carried, Relies
  <2>3. Wants(s) \in SUBSET Locks BY <2>1, <2>2, WantsType
  <2>4. CASE Abort(s) BY <2>4, AbortType
  <2>5. CASE /\ Take(s, Wants(s)) /\ UNCHANGED <<stock, lapsed, orders, requests>>
             /\ Goto(s, "cell") \/ Goto(s, "rows")
    BY <2>3, <2>5, AdvanceType DEF Goto
  <2>6. CASE FreeReservations(s)
    BY <2>3, <2>6, AdvanceType, TouchedType DEF FreeReservations
  <2> QED BY <1>4, <2>4, <2>5, <2>6 DEF Advance, InsertIssue, LockIssue, LockCell
<1>5. ASSUME NEW s \in Sessions, Finish(s) PROVE TypeOK'
  <2>1. CASE Abort(s) BY <2>1, AbortType
  <2>2. CASE ReserveStock(s) /\ ~Abort(s)
    <3> DEFINE t == tx[s]
               new == [status |-> "active", cell |-> t.cell, qty |-> t.qty,
                       wo |-> t.wo, key |-> t.key]
    <3>1. /\ reservation' = [WithStatus(Stale(t), "expired") EXCEPT ![t.n] = new]
          /\ DOMAIN reserved' = AllCells
          /\ events' = events \cup {<<"stock.reserved", t.n>>}
          /\ End(s) /\ UNCHANGED <<on_hand, issue>>
      BY <2>2 DEF ReserveStock, TypeOK
    <3>2. t.n \in Ids BY <2>2 DEF Numbered, ReserveStock, TypeOK, Ids
    <3>3. new \in Reservation BY TxFields DEF Reservation, Statuses
    <3>4. reservation' \in [Ids -> Reservation]
      BY <3>1, <3>3, WithStatusType DEF Statuses
    <3> QED BY <3>1, <3>2, <3>4, EndType DEF TypeOK
  <2>3. CASE ReleaseReservation(s) /\ ~Abort(s)
    <3>1. /\ reservation' = WithStatus({tx[s].ref}, "released")
          /\ DOMAIN reserved' = AllCells
          /\ events' = events \cup {<<"stock.reservation.released", tx[s].ref>>}
          /\ End(s) /\ UNCHANGED <<on_hand, issue>>
      BY <2>3 DEF ReleaseReservation, TypeOK
    <3>2. tx[s].ref \in Ids BY <2>3 DEF ReleaseReservation, Carried, Relies
    <3>3. reservation' \in [Ids -> Reservation] BY <3>1, WithStatusType DEF Statuses
    <3>4. on_hand' \in [AllCells -> Nat] /\ issue' \in [Ids -> Issue] BY <3>1 DEF TypeOK
    <3>5. events' \subseteq {"stock.reserved", "stock.reservation.released"} \X Ids
      BY <3>1, <3>2 DEF TypeOK
    <3> QED BY <3>1, <3>3, <3>4, <3>5, EndType
  <2>4. CASE IssuePart(s) /\ ~Abort(s)
    <3> DEFINE t == tx[s]
               new == [qty |-> t.qty, cell |-> t.cell, wo |-> t.wo, res |-> t.ref,
                       returned |-> 0]
    <3>1. /\ reservation' = WithStatus({t.ref} \ {0}, "consumed")
          /\ issue' = [issue EXCEPT ![t.n] = new]
          /\ on_hand' = [on_hand EXCEPT ![t.cell] = @ - t.qty]
          /\ on_hand[t.cell] - t.qty >= 0
          /\ DOMAIN reserved' = AllCells
          /\ End(s) /\ UNCHANGED events
      BY <2>4 DEF IssuePart, ConsumeAndPost, BalanceChecks, TypeOK
    <3>2. t.qty \in Nat /\ t.cell \in AllCells BY TxFields
    <3>3. new \in Issue BY TxFields DEF Issue
    <3>4. issue' \in [Ids -> Issue] BY <3>1, <3>3 DEF TypeOK
    <3>5. on_hand[t.cell] - t.qty \in Nat BY <3>1, <3>2 DEF TypeOK
    <3>6. on_hand' \in [AllCells -> Nat] BY <3>1, <3>2, <3>5 DEF TypeOK
    <3>7. reservation' \in [Ids -> Reservation] BY <3>1, WithStatusType DEF Statuses
    <3> QED BY <3>1, <3>4, <3>6, <3>7, EndType DEF TypeOK
  <2>5. CASE ReturnPart(s)
    <3>1. tx[s].qty \in Nat /\ tx[s].cell \in AllCells /\ tx[s].ref \in Ids
      BY <2>5, TxFields DEF ReturnPart, Carried, Relies
    <3>2. issue[tx[s].ref].returned + tx[s].qty \in Nat BY <3>1 DEF TypeOK, Issue
    <3> DEFINE new == [issue[tx[s].ref] EXCEPT !.returned = @ + tx[s].qty]
    <3>3. issue' \in [Ids -> Issue]
      <4>1. issue[tx[s].ref] \in Issue BY <3>1 DEF TypeOK
      <4>2. new \in Issue BY <3>2, <4>1 DEF Issue
      <4>3. issue' = [issue EXCEPT ![tx[s].ref] = new] BY <2>5 DEF ReturnPart
      <4> QED BY <4>2, <4>3 DEF TypeOK
    <3>4. on_hand' \in [AllCells -> Nat] BY <2>5, <3>1 DEF ReturnPart, TypeOK
    <3> QED BY <2>5, <3>3, <3>4, EndType DEF ReturnPart, TypeOK
  <2>6. CASE RecordDamage(s) /\ ~Abort(s)
    <3> DEFINE t == tx[s]
    <3>1. /\ reservation' = WithStatus(t.freed, "released")
          /\ DOMAIN reserved' = AllCells
          /\ on_hand' = Moved(t)
          /\ ~(on_hand[t.cell] - t.qty < 0)
          /\ events' = events \cup {<<"stock.reservation.released", r>> : r \in GoneSince(t)}
          /\ End(s) /\ UNCHANGED issue
      BY <2>6 DEF RecordDamage, DamageRefused, TypeOK
    <3>2. t.qty \in Nat /\ t.cell \in AllCells /\ t.seen \subseteq Ids BY TxFields
    <3>3. on_hand[t.cell] - t.qty \in Nat BY <3>1, <3>2 DEF TypeOK
    <3>4. on_hand' \in [AllCells -> Nat]
      BY <3>1, <3>2, <3>3 DEF Moved, TypeOK, AllCells
    <3>5. GoneSince(t) \subseteq Ids BY <3>2 DEF GoneSince
    <3>6. reservation' \in [Ids -> Reservation] BY <3>1, WithStatusType DEF Statuses
    <3> QED BY <3>1, <3>4, <3>5, <3>6, EndType DEF TypeOK
  <2> QED BY <1>5, <2>1, <2>2, <2>3, <2>4, <2>5, <2>6 DEF Finish
<1>6. ASSUME NEW s \in Sessions, Rollback(s) PROVE TypeOK'
  BY <1>6, AbortType DEF Rollback
<1> QED BY <1>1, <1>2, <1>3, <1>4, <1>5, <1>6 DEF Next

-----------------------------------------------------------------------------
(* Locks.                                                                  *)

\* Which locks exclude each other.
LEMMA Conflicts ==
  /\ \A a, b : Conflict(a, b) => Conflict(b, a)
  /\ \A r : /\ Conflict(<<"change", r>>, <<"change", r>>)
            /\ Conflict(<<"change", r>>, <<"update", r>>)
            /\ Conflict(<<"update", r>>, <<"update", r>>)
            /\ Conflict(<<"issue", r>>, <<"issue", r>>)
            /\ Conflict(<<"wo", r>>, <<"wo", r>>)
<1>1. ASSUME NEW a, NEW b, Conflict(a, b) PROVE Conflict(b, a)
  <2>1. {a[1], b[1]} = {b[1], a[1]} OBVIOUS
  <2> QED BY <1>1, <2>1 DEF Conflict
<1>2. {"change", "update"} = {"update", "change"} OBVIOUS
<1> QED BY <1>1, <1>2 DEF Conflict

\* Nobody else has locked a reservation that the transaction may change, whether it
\* finds it free or has it locked.
LEMMA FreeForChange ==
  ASSUME Locked, NEW s \in Sessions, NEW r,
         \/ <<"update", r>> \in held[s] \/ <<"change", r>> \in held[s]
         \/ \E L : <<"change", r>> \in L /\ Blockers(s, L) = {}
  PROVE  \A u \in Sessions \ {s} : <<"update", r>> \notin held[u] /\ <<"change", r>> \notin held[u]
<1>1. CASE <<"update", r>> \in held[s] \/ <<"change", r>> \in held[s]
  BY <1>1, Conflicts DEF Locked
<1>2. ASSUME NEW L, <<"change", r>> \in L, Blockers(s, L) = {},
             NEW u \in Sessions \ {s}
      PROVE  <<"update", r>> \notin held[u] /\ <<"change", r>> \notin held[u]
  <2>1. \A b \in held[u] : ~Conflict(<<"change", r>>, b) BY <1>2 DEF Blockers
  <2> QED BY <2>1, Conflicts
<1> QED BY <1>1, <1>2

\* Locks taken by Take conflict with none.
LEMMA TakeKeepsApart ==
  ASSUME NEW s \in Sessions, NEW L, Take(s, L), DOMAIN held = Sessions,
         \A v, u \in Sessions : \A a \in held[v], b \in held[u] : Conflict(a, b) => v = u
  PROVE  \A v, u \in Sessions : \A a \in held'[v], b \in held'[u] : Conflict(a, b) => v = u
<1> SUFFICES ASSUME NEW v \in Sessions, NEW u \in Sessions, v # u,
                    NEW a \in held'[v], NEW b \in held'[u], Conflict(a, b)
             PROVE  FALSE
  OBVIOUS
<1>1. held'[s] = held[s] \cup L /\ \A w \in Sessions \ {s} : held'[w] = held[w]
  BY DEF Take
<1>2. \A w \in Sessions \ {s} : \A c \in L, d \in held[w] : ~Conflict(c, d)
  BY DEF Take, Blockers
<1>3. Conflict(b, a) BY Conflicts
<1> QED BY <1>1, <1>2, <1>3

-----------------------------------------------------------------------------
(* What a transaction writes when it ends.                                 *)

\* It books a reservation under its id, having looked its key up again.
Books(s, r) ==
  /\ r = tx[s].n /\ tx[s].kind = "reserve"
  /\ reservation'[r].wo = tx[s].wo
  /\ reservation'[r].key = tx[s].key
  /\ tx[s].key # None => WithKey(tx[s].key) = {}

\* It ends an active reservation that nobody else has locked.
EndsReservation(s, r) ==
  /\ reservation[r].status = "active"
  /\ \E status \in {"released", "consumed", "expired"} :
       reservation'[r] = [reservation[r] EXCEPT !.status = status]
  /\ \A u \in Sessions \ {s} : <<"update", r>> \notin held[u] /\ <<"change", r>> \notin held[u]

\* It fits parts under its id and consumes the reservation it names.
Fits(s, i) ==
  /\ i = tx[s].n /\ tx[s].kind = "issue"
  /\ issue'[i].res = tx[s].ref /\ issue'[i].wo = tx[s].wo
  /\ issue'[i].returned <= issue'[i].qty
  /\ tx[s].ref # 0 => reservation'[tx[s].ref].status = "consumed"

\* It takes back parts of an issue it has locked.
TakesBack(s, i) ==
  /\ tx[s].kind = "return" /\ i = tx[s].ref /\ <<"issue", i>> \in held[s]
  /\ issue'[i] = [issue[i] EXCEPT !.returned = @ + tx[s].qty]
  /\ issue[i].returned + tx[s].qty <= issue[i].qty

Wrote(s) ==
  /\ tx[s].pc # "idle" /\ End(s)
  /\ \A r \in Ids : \/ reservation'[r] = reservation[r]
                     \/ Books(s, r) \/ EndsReservation(s, r)
  /\ \A i \in Ids : issue'[i] = issue[i] \/ Fits(s, i) \/ TakesBack(s, i)

\* The last step of a transaction writes what its kind writes.
LEMMA FinishWrites ==
  ASSUME StockInv, NEW s \in Sessions,
         Finish(s) \/ (tx[s].pc # "idle" /\ Abort(s))
  PROVE  Wrote(s)
<1> DEFINE t == tx[s]
<1> USE DEF StockInv
<1>0. CASE tx[s].pc # "idle" /\ Abort(s)
  BY <1>0 DEF Abort, Wrote, stock
<1>1. tx[s].pc # "idle"
  BY <1>0 DEF Finish, Rollback, ReserveStock, ReleaseReservation, IssuePart, ReturnPart,
              RecordDamage
<1>2. \A R, status : \A r \in Ids :
        WithStatus(R, status)[r] = IF r \in R THEN [reservation[r] EXCEPT !.status = status]
                                   ELSE reservation[r]
  BY DEF WithStatus
<1>3. CASE ReserveStock(s) /\ ~Abort(s)
  <2> DEFINE new == [status |-> "active", cell |-> t.cell, qty |-> t.qty,
                     wo |-> t.wo, key |-> t.key]
  <2>1. /\ reservation' = [WithStatus(Stale(t), "expired") EXCEPT ![t.n] = new]
        /\ ~Resolved(t.key) /\ Blockers(s, Wants(s)) = {}
        /\ t.pc = "rows" /\ t.kind = "reserve" /\ End(s) /\ issue' = issue
    BY <1>3 DEF ReserveStock
  <2>2. Touched(t) = Stale(t) BY <2>1 DEF Touched
  <2>3. Wants(s) = {<<"change", r>> : r \in Stale(t)} BY <2>1, <2>2, WantsAreLocks
  <2>4. ASSUME NEW r \in Ids, reservation'[r] # reservation[r]
        PROVE  Books(s, r) \/ EndsReservation(s, r)
    <3>1. CASE r = t.n
      <4>1. reservation'[r] = new BY <2>1, <3>1 DEF WithStatus
      <4> QED BY <2>1, <3>1, <4>1 DEF Books, Resolved
    <3>2. CASE r # t.n
      <4>1. reservation'[r] = WithStatus(Stale(t), "expired")[r]
        BY <2>1, <3>2 DEF WithStatus
      <4>2. /\ r \in Stale(t)
            /\ reservation'[r] = [reservation[r] EXCEPT !.status = "expired"]
        BY <1>2, <2>4, <4>1
      <4>3. reservation[r].status = "active" BY <4>2 DEF Stale, ActiveAt
      <4>4. <<"change", r>> \in Wants(s) BY <2>3, <4>2
      <4> QED BY <2>1, <4>2, <4>3, <4>4, FreeForChange DEF EndsReservation
    <3> QED BY <3>1, <3>2
  <2> QED BY <1>1, <2>1, <2>4 DEF Wrote
<1>4. CASE ReleaseReservation(s) /\ ~Abort(s)
  <2>1. /\ reservation' = WithStatus({t.ref}, "released") /\ issue' = issue
        /\ t.kind = "release" /\ End(s)
    BY <1>4 DEF ReleaseReservation
  <2>2. t.ref \in Ids /\ <<"update", t.ref>> \in held[s] BY <1>1, <2>1 DEF Carried, Relies
  <2>3. ASSUME NEW r \in Ids, reservation'[r] # reservation[r] PROVE EndsReservation(s, r)
    <3>0. reservation'[r] = IF r \in {t.ref}
                            THEN [reservation[r] EXCEPT !.status = "released"]
                            ELSE reservation[r]
      BY <2>1 DEF WithStatus
    <3>1. r = t.ref /\ reservation'[r] = [reservation[r] EXCEPT !.status = "released"]
      BY <2>3, <3>0
    <3>2. reservation[r].status = "active" BY <2>2, <3>1 DEF Locked
    <3> QED BY <2>2, <3>1, <3>2, FreeForChange DEF EndsReservation
  <2> QED BY <1>1, <2>1, <2>3 DEF Wrote
<1>5. CASE IssuePart(s) /\ ~Abort(s)
  <2> DEFINE new == [qty |-> t.qty, cell |-> t.cell, wo |-> t.wo, res |-> t.ref,
                     returned |-> 0]
  <2>1. /\ reservation' = WithStatus({t.ref} \ {0}, "consumed")
        /\ t.ref # 0 => StatusGuard(reservation[t.ref].status, "consumed")
        /\ issue' = [issue EXCEPT ![t.n] = new]
        /\ t.pc = "rows" /\ t.kind = "issue" /\ Blockers(s, Wants(s)) = {} /\ End(s)
    BY <1>5 DEF IssuePart
  <2>2. Touched(t) = {t.ref} \ {0} BY <2>1 DEF Touched
  <2>3. Wants(s) = {<<"change", r>> : r \in {t.ref} \ {0}} BY <2>1, <2>2, WantsAreLocks
  <2>4. ASSUME NEW r \in Ids, reservation'[r] # reservation[r] PROVE EndsReservation(s, r)
    <3>0. reservation'[r] = IF r \in {t.ref} \ {0}
                            THEN [reservation[r] EXCEPT !.status = "consumed"]
                            ELSE reservation[r]
      BY <2>1 DEF WithStatus
    <3>1. /\ r = t.ref /\ t.ref # 0
          /\ reservation'[r] = [reservation[r] EXCEPT !.status = "consumed"]
      BY <2>4, <3>0
    <3>2. reservation[r] \in Reservation BY DEF TypeOK
    <3>3. reservation[r].status # "consumed" BY <2>4, <3>1, <3>2 DEF Reservation
    <3>4. reservation[r].status = "active" BY <2>1, <3>1, <3>3 DEF StatusGuard
    <3>5. <<"change", r>> \in Wants(s) BY <2>3, <3>1
    <3> QED BY <2>1, <3>1, <3>4, <3>5, FreeForChange DEF EndsReservation
  <2>5. t.ref # 0 => reservation'[t.ref].status = "consumed"
    <3>1. t.ref # 0 => t.ref \in Ids BY TxFields
    <3>2. t.ref # 0 => reservation'[t.ref] = [reservation[t.ref] EXCEPT !.status = "consumed"]
      BY <2>1, <3>1 DEF WithStatus
    <3>3. t.ref # 0 => reservation[t.ref] \in Reservation BY <3>1 DEF TypeOK
    <3> QED BY <3>2, <3>3 DEF Reservation
  <2>6. ASSUME NEW i \in Ids, issue'[i] # issue[i] PROVE Fits(s, i)
    <3>1. i = t.n /\ issue'[i] = new BY <2>1, <2>6 DEF TypeOK
    <3>2. t.qty \in Nat BY TxFields
    <3> QED BY <2>1, <2>5, <3>1, <3>2 DEF Fits
  <2> QED BY <1>1, <2>1, <2>4, <2>6 DEF Wrote
<1>6. CASE ReturnPart(s)
  <2>1. /\ issue' = [issue EXCEPT ![t.ref].returned = @ + t.qty]
        /\ t.pc = "rows" /\ t.kind = "return" /\ End(s) /\ reservation' = reservation
    BY <1>6 DEF ReturnPart
  <2>2. /\ t.ref \in Ids /\ <<"issue", t.ref>> \in held[s]
        /\ issue[t.ref].returned + t.qty <= issue[t.ref].qty
    BY <1>1, <2>1 DEF Carried, Relies
  <2>3. ASSUME NEW i \in Ids, issue'[i] # issue[i] PROVE TakesBack(s, i)
    BY <2>1, <2>2, <2>3 DEF TakesBack, TypeOK
  <2> QED BY <1>1, <2>1, <2>3 DEF Wrote
<1>7. CASE RecordDamage(s) /\ ~Abort(s)
  <2>1. /\ reservation' = WithStatus(t.freed, "released") /\ issue' = issue
        /\ t.pc = "other" /\ End(s)
    BY <1>7 DEF RecordDamage
  <2>2. \A r \in t.freed : <<"change", r>> \in held[s] BY <1>1, <2>1 DEF Carried, Relies
  <2>3. ASSUME NEW r \in Ids, reservation'[r] # reservation[r] PROVE EndsReservation(s, r)
    <3>1. r \in t.freed /\ reservation'[r] = [reservation[r] EXCEPT !.status = "released"]
      BY <1>2, <2>1, <2>3
    <3>2. reservation[r].status = "active" BY <2>2, <3>1 DEF Locked
    <3> QED BY <2>2, <3>1, <3>2, FreeForChange DEF EndsReservation
  <2> QED BY <1>1, <2>1, <2>3 DEF Wrote
<1> QED BY <1>0, <1>1, <1>3, <1>4, <1>5, <1>6, <1>7 DEF Finish, Rollback

\* What others see of the reservations when a transaction ends: nothing but the status
\* changes of those that exist, and a status that is final stays.
LEMMA ReservationsKeep ==
  ASSUME StockInv, NEW s \in Sessions, Wrote(s), NEW r \in Ids,
         reservation[r].status # "none"
  PROVE  /\ reservation'[r].status # "none"
         /\ reservation'[r].wo = reservation[r].wo /\ reservation'[r].key = reservation[r].key
         /\ reservation[r].status # "active" => reservation'[r] = reservation[r]
         /\ \A u \in Sessions \ {s} :
              <<"update", r>> \in held[u] \/ <<"change", r>> \in held[u]
                => reservation'[r] = reservation[r]
<1>1. ~Books(s, r) BY DEF Books, Wrote, StockInv, Numbered, Unwritten
<1>2. CASE EndsReservation(s, r)
  <2>1. reservation[r] \in Reservation BY DEF StockInv, TypeOK
  <2> QED BY <1>2, <2>1 DEF EndsReservation, Reservation
<1> QED BY <1>1, <1>2 DEF Wrote

\* The rows of an id nobody has used stay as they are until its request writes them.
LEMMA UnwrittenKeeps ==
  ASSUME StockInv, NEW s \in Sessions, Wrote(s), NEW n \in Ids, n # tx[s].n, Unwritten(n)
  PROVE  Unwritten(n)'
<1>1. reservation'[n] = reservation[n]
  BY DEF Wrote, Books, EndsReservation, Unwritten
<1>2. ASSUME TakesBack(s, n) PROVE FALSE
  <2>1. tx[s].kind = "return" /\ n = tx[s].ref /\ tx[s].pc # "idle"
    BY <1>2 DEF TakesBack, Wrote
  <2>2. issue[n].qty > 0 BY <2>1 DEF StockInv, Carried, Relies
  <2> QED BY <2>2 DEF Unwritten
<1>3. issue'[n] = issue[n] BY <1>2 DEF Wrote, Fits
<1> QED BY <1>1, <1>3 DEF Unwritten

\* An issue that exists stays, but for what is returned of it.
LEMMA IssuesKeep ==
  ASSUME StockInv, NEW s \in Sessions, Wrote(s), NEW i \in Ids
  PROVE  \/ /\ issue'[i].res = issue[i].res /\ issue'[i].qty = issue[i].qty
            /\ issue'[i].wo = issue[i].wo
            /\ issue'[i] = issue[i] \/ TakesBack(s, i)
         \/ Fits(s, i) /\ Unwritten(i)
<1>1. CASE TakesBack(s, i)
  <2>1. issue[i] \in Issue BY DEF StockInv, TypeOK
  <2> QED BY <1>1, <2>1 DEF TakesBack, Issue
<1>2. CASE Fits(s, i) BY <1>2 DEF Fits, Wrote, StockInv, Numbered
<1> QED BY <1>1, <1>2 DEF Wrote

\* A transaction that ends leaves the others what they rely on.
LEMMA OthersRely ==
  ASSUME StockInv, NEW s \in Sessions, Wrote(s), NEW u \in Sessions \ {s},
         tx[u].pc # "idle"
  PROVE  Relies(tx[u], held[u])'
<1> USE DEF StockInv
<1>1. tx'[u] = tx[u] /\ held'[u] = held[u] /\ open' = open
  BY DEF Wrote, End, TypeOK, orders
<1>2. Relies(tx[u], held[u]) BY DEF Carried
<1>3. ASSUME tx[u].kind = "issue", tx[u].ref # 0
      PROVE  /\ reservation'[tx[u].ref].status # "none"
             /\ reservation'[tx[u].ref].wo # None =>
                  /\ reservation'[tx[u].ref].wo = tx[u].wo
                  /\ \A i \in Ids : issue'[i].res # tx[u].ref
  <2>1. tx[u].ref \in Ids BY <1>3, TxFields
  <2>2. reservation[tx[u].ref].status # "none" BY <1>2, <1>3 DEF Relies
  <2>3. /\ reservation'[tx[u].ref].status # "none"
        /\ reservation'[tx[u].ref].wo = reservation[tx[u].ref].wo
    BY <2>1, <2>2, ReservationsKeep
  <2>4. ASSUME reservation[tx[u].ref].wo # None, NEW i \in Ids
        PROVE  issue'[i].res # tx[u].ref
    <3>1. issue[i].res # tx[u].ref /\ reservation[tx[u].ref].wo = tx[u].wo
      BY <1>2, <1>3, <2>4 DEF Relies
    <3>2. ASSUME Fits(s, i), tx[s].ref = tx[u].ref PROVE FALSE
      <4>1. /\ <<"wo", tx[s].wo>> \in held[s]
            /\ reservation[tx[u].ref].wo = tx[s].wo
        BY <1>3, <2>4, <3>2 DEF Fits, Carried, Relies, Wrote
      <4>2. <<"wo", tx[u].wo>> \in held[u] BY <1>2, <1>3 DEF Relies
      <4>3. Conflict(<<"wo", tx[s].wo>>, <<"wo", tx[u].wo>>)
        BY <3>1, <4>1, Conflicts
      <4>4. u = s BY <4>1, <4>2, <4>3 DEF Locked
      <4> QED BY <4>4
    <3> QED BY <3>1, <3>2, IssuesKeep DEF Fits
  <2> QED BY <1>2, <1>3, <2>3, <2>4 DEF Relies
<1>4. ASSUME tx[u].kind = "return"
      PROVE  /\ issue'[tx[u].ref].qty > 0
             /\ tx[u].pc \in {"cell", "rows"} =>
                  issue'[tx[u].ref].returned + tx[u].qty <= issue'[tx[u].ref].qty
  <2>1. /\ tx[u].ref \in Ids /\ issue[tx[u].ref].qty > 0
        /\ tx[u].pc \in {"cell", "rows"} =>
             /\ <<"issue", tx[u].ref>> \in held[u]
             /\ issue[tx[u].ref].returned + tx[u].qty <= issue[tx[u].ref].qty
    BY <1>2, <1>4 DEF Relies
  <2>2. ~Unwritten(tx[u].ref) BY <2>1 DEF Unwritten, TypeOK, Issue
  <2>3. ASSUME <<"issue", tx[u].ref>> \in held[u], TakesBack(s, tx[u].ref) PROVE FALSE
    <3>1. <<"issue", tx[u].ref>> \in held[s] BY <2>3 DEF TakesBack
    <3>2. Conflict(<<"issue", tx[u].ref>>, <<"issue", tx[u].ref>>) BY Conflicts
    <3>3. u = s BY <2>3, <3>1, <3>2 DEF Locked
    <3> QED BY <3>3
  <2> QED BY <2>1, <2>2, <2>3, IssuesKeep
<1> QED BY <1>1, <1>2, <1>3, <1>4 DEF Relies

\* A transaction that ends keeps what the open ones carry, hold and are called.
LEMMA WroteKeepsOpen ==
  ASSUME StockInv, NEW s \in Sessions, Wrote(s) PROVE Carried' /\ Locked' /\ Numbered'
<1> USE DEF StockInv
<1>1. /\ tx'[s].pc = "idle" /\ held'[s] = {} /\ requests' = requests
      /\ \A u \in Sessions \ {s} : tx'[u] = tx[u] /\ held'[u] = held[u]
  BY DEF Wrote, End, TypeOK, Idle
<1>2. Carried'
  <2>1. ASSUME NEW u \in Sessions, tx'[u].pc # "idle" PROVE Relies(tx[u], held[u])'
    <3>1. u \in Sessions \ {s} /\ tx[u].pc # "idle" BY <1>1, <2>1
    <3> QED BY <3>1, OthersRely
  <2> QED BY <2>1 DEF Carried
<1>3. Locked'
  <2>1. ASSUME NEW u \in Sessions, NEW r \in Ids,
               <<"update", r>> \in held'[u] \/ <<"change", r>> \in held'[u]
        PROVE  reservation'[r].status = "active"
    <3>1. /\ u \in Sessions \ {s}
          /\ <<"update", r>> \in held[u] \/ <<"change", r>> \in held[u]
      BY <1>1, <2>1
    <3>2. reservation[r].status = "active" BY <3>1 DEF Locked
    <3> QED BY <3>1, <3>2, ReservationsKeep
  <2>2. \A u \in Sessions : held'[u] = {} \/ held'[u] = held[u] BY <1>1
  <2>3. \A v, u \in Sessions : \A a \in held'[v], b \in held'[u] : Conflict(a, b) => v = u
    BY <2>2 DEF Locked
  <2>4. \A u \in Sessions : tx'[u].pc = "idle" => held'[u] = {} BY <1>1 DEF Locked
  <2> QED BY <2>1, <2>3, <2>4 DEF Locked
<1>4. Numbered'
  <2>1. \A u \in Sessions : tx[u].pc # "idle" => tx[u].n \in Ids
    BY StockAssumption DEF Numbered, TypeOK, Ids
  <2>2. ASSUME NEW u \in Sessions, tx'[u].pc # "idle"
        PROVE  tx'[u].n \in 1..requests' /\ Unwritten(tx[u].n)'
    <3>1. u # s /\ tx[u].pc # "idle" /\ tx'[u] = tx[u] BY <1>1, <2>2
    <3>2. tx[u].n # tx[s].n /\ Unwritten(tx[u].n) BY <3>1 DEF Numbered, Wrote
    <3>3. Unwritten(tx[u].n)' BY <2>1, <3>1, <3>2, UnwrittenKeeps DEF Unwritten
    <3> QED BY <1>1, <3>1, <3>3 DEF Numbered
  <2>3. ASSUME NEW n \in Ids, n > requests PROVE Unwritten(n)'
    <3>1. n # tx[s].n BY <2>3 DEF Numbered, Wrote, TypeOK, Ids
    <3> QED BY <2>3, <3>1, UnwrittenKeeps DEF Numbered
  <2>4. \A u, v \in Sessions :
          (tx'[u].pc # "idle" /\ tx'[v].pc # "idle" /\ tx'[u].n = tx'[v].n) => u = v
    BY <1>1 DEF Numbered
  <2> QED BY <1>1, <2>2, <2>3, <2>4 DEF Numbered
<1> QED BY <1>2, <1>3, <1>4

\* No issue exceeds itself and no reservation is used twice after it.
LEMMA WroteKeepsRows ==
  ASSUME StockInv, NEW s \in Sessions, Wrote(s)
  PROVE  /\ Consumes' /\ ReturnsWithinIssue' /\ OneReservationPerKey'
         /\ OwnReservationConsumedOnce'
<1> USE DEF StockInv
<1>0. /\ \A i \in Ids : issue[i].res \in {0} \cup Ids
      /\ \A i \in Ids : issue[i] \in Issue
      /\ tx[s].ref \in {0} \cup Ids
  BY TxFields DEF TypeOK, Issue
<1>1. Consumes'
  <2>1. ASSUME NEW i \in Ids, issue'[i].res # 0
        PROVE  reservation'[issue'[i].res].status = "consumed"
    <3>1. CASE issue'[i].res = issue[i].res
      <4>1. reservation[issue[i].res].status = "consumed" BY <2>1, <3>1 DEF Consumes
      <4>2. issue[i].res \in Ids BY <1>0, <2>1, <3>1
      <4> QED BY <3>1, <4>1, <4>2, ReservationsKeep
    <3>2. CASE Fits(s, i) BY <2>1, <3>2 DEF Fits
    <3> QED BY <3>1, <3>2, IssuesKeep
  <2> QED BY <2>1 DEF Consumes
<1>2. ReturnsWithinIssue'
  <2>1. ASSUME NEW i \in Ids PROVE issue'[i].returned <= issue'[i].qty
    <3>1. CASE issue'[i] = issue[i] BY <3>1 DEF ReturnsWithinIssue
    <3>2. CASE TakesBack(s, i) BY <1>0, <3>2 DEF TakesBack, Issue
    <3>3. CASE Fits(s, i) BY <3>3 DEF Fits
    <3> QED BY <3>1, <3>2, <3>3 DEF Wrote
  <2> QED BY <2>1 DEF ReturnsWithinIssue
<1>3. OneReservationPerKey'
  <2> SUFFICES ASSUME NEW k \in Keys PROVE Cardinality(WithKey(k)') <= 1
    BY DEF OneReservationPerKey
  <2>1. ASSUME NEW r \in Ids, ~Books(s, r)
        PROVE  r \in WithKey(k)' => r \in WithKey(k)
    <3>1. CASE reservation[r].status # "none" BY <3>1, ReservationsKeep DEF WithKey
    <3>2. CASE reservation[r].status = "none"
      BY <2>1, <3>2 DEF Wrote, EndsReservation, WithKey
    <3> QED BY <3>1, <3>2
  <2>2. CASE \E r \in Ids : Books(s, r) /\ r \in WithKey(k)'
    <3>1. PICK r \in Ids : Books(s, r) /\ r \in WithKey(k)' BY <2>2
    <3>2. tx[s].key = k /\ k # None BY <3>1, StockAssumption DEF Books, WithKey
    <3>3. WithKey(k) = {} BY <3>1, <3>2 DEF Books
    <3>4. \A u \in WithKey(k)' : u = r BY <2>1, <3>1, <3>3 DEF Books, WithKey
    <3>5. WithKey(k)' = {r} BY <3>1, <3>4
    <3> QED BY <3>5, FS_Singleton
  <2>3. CASE ~ \E r \in Ids : Books(s, r) /\ r \in WithKey(k)'
    <3>1. WithKey(k)' \subseteq WithKey(k) BY <2>1, <2>3 DEF WithKey
    <3>2. IsFiniteSet(WithKey(k))
      <4>1. IsFiniteSet(Ids) BY StockAssumption, FS_Interval DEF Ids
      <4>2. WithKey(k) \subseteq Ids BY DEF WithKey
      <4> QED BY <4>1, <4>2, FS_Subset
    <3>3. Cardinality(WithKey(k)') <= Cardinality(WithKey(k))
      BY <3>1, <3>2, FS_Subset
    <3>4. /\ Cardinality(WithKey(k)) \in Nat /\ Cardinality(WithKey(k)') \in Nat
      BY <3>1, <3>2, FS_Subset, FS_CardinalityType
    <3> QED BY <3>3, <3>4 DEF OneReservationPerKey
  <2> QED BY <2>2, <2>3
<1>4. OwnReservationConsumedOnce'
  <2>1. ASSUME NEW i \in Ids, NEW j \in Ids, Fits(s, i), issue'[i].res # 0,
               issue'[i].res = issue'[j].res, reservation'[issue'[i].res].wo # None
        PROVE  i = j
    <3>1. /\ tx[s].ref # 0 /\ tx[s].ref \in Ids /\ issue'[i].res = tx[s].ref
          /\ Relies(tx[s], held[s]) /\ tx[s].kind = "issue"
      BY <1>0, <2>1 DEF Fits, Carried, Wrote
    <3>2. reservation[tx[s].ref].status # "none" BY <3>1 DEF Relies
    <3>3. reservation[tx[s].ref].wo # None BY <2>1, <3>1, <3>2, ReservationsKeep
    <3>4. issue[j].res # tx[s].ref BY <3>1, <3>3 DEF Relies
    <3>5. Fits(s, j) BY <2>1, <3>1, <3>4, IssuesKeep
    <3> QED BY <2>1, <3>5 DEF Fits
  <2>2. ASSUME NEW i \in Ids, NEW j \in Ids, issue'[i].res = issue[i].res,
               issue'[j].res = issue[j].res, issue'[i].res # 0,
               issue'[i].res = issue'[j].res, reservation'[issue'[i].res].wo # None
        PROVE  i = j
    <3>1. issue[i].res \in Ids BY <1>0, <2>2
    <3>2. reservation[issue[i].res].status = "consumed" BY <2>2 DEF Consumes
    <3>3. reservation[issue[i].res].wo # None BY <2>2, <3>1, <3>2, ReservationsKeep
    <3> QED BY <2>2, <3>3 DEF OwnReservationConsumedOnce
  <2>3. \A i \in Ids : issue'[i].res = issue[i].res \/ Fits(s, i) BY IssuesKeep
  <2> QED BY <2>1, <2>2, <2>3 DEF OwnReservationConsumedOnce
<1> QED BY <1>1, <1>2, <1>3, <1>4

\* A work order that was certified complete gets nothing: a reserve or an issue that
\* writes for a work order has it open.
LEMMA WroteKeepsSettled ==
  ASSUME StockInv, NEW s \in Sessions, Wrote(s) PROVE Settled'
<1> USE DEF StockInv
<1>1. UNCHANGED orders BY DEF Wrote, End
<1>2. Relies(tx[s], held[s]) BY DEF Wrote, Carried
<1>3. ASSUME NEW w \in completed, NEW r \in Ids, reservation'[r].status = "active",
             reservation'[r].wo = w
      PROVE  FALSE
  <2>1. w \in WorkOrders /\ w \notin open /\ NothingCommitted(w)
    BY DEF TypeOK, Settled, CompletedHoldsNothing
  <2>2. reservation[r] \in Reservation BY DEF TypeOK
  <2>3. ~Books(s, r) BY <1>2, <1>3, <2>1, StockAssumption DEF Books, Relies
  <2>4. ~EndsReservation(s, r) BY <1>3, <2>2 DEF EndsReservation, Reservation
  <2>5. reservation'[r] = reservation[r] BY <2>3, <2>4 DEF Wrote
  <2> QED BY <1>3, <2>1, <2>5 DEF NothingCommitted
<1>4. ASSUME NEW w \in completed, NEW i \in Ids, issue'[i].wo = w
      PROVE  issue'[i].qty <= issue'[i].returned
  <2>1. w \in WorkOrders /\ w \notin open /\ NothingCommitted(w)
    BY DEF TypeOK, Settled, CompletedHoldsNothing
  <2>2. issue[i] \in Issue BY DEF TypeOK
  <2>3. ~Fits(s, i) BY <1>2, <1>4, <2>1 DEF Fits, Relies
  <2>4. CASE issue'[i] = issue[i] BY <1>4, <2>1, <2>4 DEF NothingCommitted
  <2>5. CASE TakesBack(s, i)
    <3>1. tx[s].qty \in Nat BY TxFields
    <3>2. /\ issue'[i].qty = issue[i].qty /\ issue'[i].wo = issue[i].wo
          /\ issue'[i].returned = issue[i].returned + tx[s].qty
      BY <2>2, <2>5 DEF TakesBack, Issue
    <3>3. issue[i].qty <= issue[i].returned BY <1>4, <2>1, <3>2 DEF NothingCommitted
    <3> QED BY <2>2, <3>1, <3>2, <3>3 DEF Issue
  <2> QED BY <2>3, <2>4, <2>5 DEF Wrote
<1>5. completed' = completed /\ open' = open BY <1>1 DEF orders
<1>6. \A w \in completed' : NothingCommitted(w)'
  BY <1>3, <1>4, <1>5 DEF NothingCommitted
<1> QED BY <1>5, <1>6 DEF Settled, CompletedHoldsNothing

-----------------------------------------------------------------------------
(* Transactions that begin or go on write nothing.                         *)

\* What the rows alone decide.
RowsInv == /\ Consumes /\ ReturnsWithinIssue /\ OneReservationPerKey
           /\ OwnReservationConsumedOnce /\ Settled

\* A step that writes no stock table keeps what is said of its rows.
LEMMA StockSame ==
  ASSUME RowsInv, UNCHANGED stock
  PROVE  /\ (Consumes /\ ReturnsWithinIssue /\ OneReservationPerKey
              /\ OwnReservationConsumedOnce)'
         /\ UNCHANGED orders => RowsInv'
<1>1. (Consumes /\ ReturnsWithinIssue /\ OneReservationPerKey /\ OwnReservationConsumedOnce)'
  BY DEF RowsInv, stock, Consumes, ReturnsWithinIssue, OneReservationPerKey, WithKey,
         OwnReservationConsumedOnce
<1>2. ASSUME UNCHANGED orders PROVE Settled'
  BY <1>2 DEF RowsInv, stock, orders, Settled, CompletedHoldsNothing, NothingCommitted
<1> QED BY <1>1, <1>2 DEF RowsInv

\* A transaction that takes its next locks keeps what everybody relies on.
LEMMA MoveKeeps ==
  ASSUME StockInv, NEW s \in Sessions, NEW t \in Tx, NEW L, Take(s, L),
         tx' = [tx EXCEPT ![s] = t], t.pc # "idle", Relies(t, held[s] \cup L),
         \A r \in Ids : <<"update", r>> \in L \/ <<"change", r>> \in L
                        => reservation[r].status = "active",
         UNCHANGED <<stock, orders>>,
         \/ requests' = requests /\ tx[s].pc # "idle" /\ t.n = tx[s].n
         \/ requests' = requests + 1 /\ tx[s].pc = "idle" /\ t.n = requests + 1
            /\ requests + 1 \in Ids
  PROVE  Carried' /\ Locked' /\ Numbered' /\ RowsInv'
<1> USE DEF StockInv
<1>1. /\ tx'[s] = t /\ held'[s] = held[s] \cup L
      /\ \A u \in Sessions \ {s} : tx'[u] = tx[u] /\ held'[u] = held[u]
      /\ reservation' = reservation /\ issue' = issue /\ open' = open
  BY DEF Take, TypeOK, stock, orders
<1>2. Carried'
  <2>1. ASSUME NEW u \in Sessions \ {s}, tx'[u].pc # "idle" PROVE Relies(tx'[u], held'[u])
    BY <1>1, <2>1 DEF Carried
  <2>2. Relies(tx'[s], held'[s]) BY <1>1
  <2>3. \A u \in Sessions : tx'[u].pc # "idle" => Relies(tx[u], held[u])'
    BY <1>1, <2>1, <2>2 DEF Relies
  <2> QED BY <2>3 DEF Carried
<1>3. Locked'
  <2>1. \A v, u \in Sessions : \A a \in held'[v], b \in held'[u] : Conflict(a, b) => v = u
    BY TakeKeepsApart DEF Locked, TypeOK
  <2>2. \A u \in Sessions : tx'[u].pc = "idle" => held'[u] = {} BY <1>1 DEF Locked
  <2>3. \A u \in Sessions, r \in Ids :
          <<"update", r>> \in held'[u] \/ <<"change", r>> \in held'[u]
            => reservation'[r].status = "active"
    BY <1>1 DEF Locked
  <2> QED BY <2>1, <2>2, <2>3 DEF Locked
<1>4. Numbered'
  <2>1. requests \in Nat BY DEF TypeOK
  <2>2. \A n \in Ids : Unwritten(n)' = Unwritten(n) BY <1>1 DEF Unwritten
  <2>3. \A n \in Ids : n > requests' => Unwritten(n)' BY <2>1, <2>2 DEF Numbered, Ids
  <2>4. \A u \in Sessions : tx[u].pc # "idle" => tx[u].n \in Ids /\ tx[u].n \in 1..requests
    BY StockAssumption DEF Numbered, TypeOK, Ids
  <2>5. /\ t.n \in Ids /\ t.n \in 1..requests' /\ Unwritten(t.n)
        /\ \A u \in Sessions \ {s} : tx[u].pc # "idle" => tx[u].n # t.n
    BY <2>1, <2>4 DEF Numbered
  <2>6. \A u \in Sessions : tx'[u].pc # "idle" => tx'[u].n \in 1..requests' /\ Unwritten(tx[u].n)'
    <3>1. ASSUME NEW u \in Sessions, tx'[u].pc # "idle"
          PROVE  /\ tx'[u].n \in 1..requests' /\ tx'[u].n \in Ids /\ Unwritten(tx'[u].n)
      <4>1. CASE u = s BY <1>1, <2>5, <4>1
      <4>2. CASE u # s BY <1>1, <2>1, <2>4, <3>1, <4>2 DEF Numbered
      <4> QED BY <4>1, <4>2
    <3>2. \A u \in Sessions : Unwritten(tx'[u].n) => Unwritten(tx[u].n)'
      BY <1>1 DEF Unwritten
    <3> QED BY <3>1, <3>2
  <2>7. \A u, v \in Sessions :
          (tx'[u].pc # "idle" /\ tx'[v].pc # "idle" /\ tx'[u].n = tx'[v].n) => u = v
    BY <1>1, <2>5 DEF Numbered
  <2> QED BY <2>3, <2>6, <2>7 DEF Numbered
<1>5. UNCHANGED orders OBVIOUS
<1> QED BY <1>2, <1>3, <1>4, <1>5, StockSame DEF RowsInv

\* So does one that begins.
LEMMA BeginKeeps ==
  ASSUME StockInv, NEW s \in Sessions, NEW t \in Tx, NEW locks, Begin(s, t, locks),
         t.pc # "idle", Relies(t, locks),
         \A r \in Ids : <<"update", r>> \in locks \/ <<"change", r>> \in locks
                        => reservation[r].status = "active"
  PROVE  Carried' /\ Locked' /\ Numbered' /\ RowsInv'
<1>1. requests + 1 \in Ids BY StockAssumption DEF Begin, StockInv, TypeOK, Ids
<1> DEFINE tn == [t EXCEPT !.n = requests + 1]
<1>2. tn \in Tx /\ tn.n = requests + 1 /\ tn.pc # "idle" BY <1>1 DEF Tx
<1>3. held[s] = {} BY DEF Begin, StockInv, Locked
<1>4. Relies(tn, held[s] \cup locks)
  <2>1. /\ tn.kind = t.kind /\ tn.pc = t.pc /\ tn.ref = t.ref /\ tn.wo = t.wo
        /\ tn.qty = t.qty /\ tn.freed = t.freed
    BY DEF Tx
  <2> HIDE DEF tn
  <2> QED BY <1>3, <2>1 DEF Relies
<1>5. /\ Take(s, locks) /\ tx' = [tx EXCEPT ![s] = tn] /\ tx[s].pc = "idle"
      /\ requests' = requests + 1 /\ UNCHANGED <<stock, orders>>
  BY DEF Begin
<1> HIDE DEF tn
<1> QED BY <1>1, <1>2, <1>4, <1>5, MoveKeeps

\* Requests begin with what they rely on.
LEMMA RequestKeeps ==
  ASSUME StockInv, NEW s \in Sessions, BeginRequest(s)
  PROVE  Carried' /\ Locked' /\ Numbered' /\ RowsInv'
<1> USE DEF StockInv
<1>1. ASSUME NEW c \in Cells, NEW q \in Quantities, NEW w \in WorkOrders \cup {None},
             NEW k \in Keys \cup {None}, Reserve(s, c, q, w, k)
      PROVE  Carried' /\ Locked' /\ Numbered' /\ RowsInv'
  <2> DEFINE t == [Idle EXCEPT !.pc = "cell", !.kind = "reserve", !.cell = c, !.qty = q,
                               !.wo = w, !.key = k, !.seen = lapsed]
  <2>1. t \in Tx BY IdleType DEF Tx, TypeOK, AllCells
  <2>2. t.pc = "cell" /\ t.kind = "reserve" /\ t.wo = w BY DEF Idle
  <2>3. Relies(t, WorkOrderLock(w)) BY <1>1, <2>2 DEF Relies, Reserve, WorkOrderLock
  <2>4. Begin(s, t, WorkOrderLock(w)) BY <1>1 DEF Reserve
  <2> HIDE DEF t
  <2> QED BY <2>1, <2>2, <2>3, <2>4, BeginKeeps DEF WorkOrderLock
<1>2. ASSUME NEW r \in Ids, Release(s, r)
      PROVE  Carried' /\ Locked' /\ Numbered' /\ RowsInv'
  <2> DEFINE t == [Idle EXCEPT !.pc = "cell", !.kind = "release", !.ref = r,
                               !.cell = reservation[r].cell]
  <2>1. reservation[r].cell \in AllCells BY DEF TypeOK, Reservation
  <2>2. t \in Tx BY <2>1, IdleType DEF Tx
  <2>3. t.pc = "cell" /\ t.kind = "release" /\ t.ref = r BY DEF Idle
  <2>4. Relies(t, {<<"update", r>>}) BY <2>3 DEF Relies
  <2>5. Begin(s, t, {<<"update", r>>}) /\ reservation[r].status = "active" BY <1>2 DEF Release
  <2> HIDE DEF t
  <2> QED BY <2>2, <2>3, <2>4, <2>5, BeginKeeps
<1>3. ASSUME NEW w \in WorkOrders, NEW c \in Cells, NEW q \in Quantities,
             NEW r \in {0} \cup Ids, BeginIssue(s, w, c, q, r)
      PROVE  Carried' /\ Locked' /\ Numbered' /\ RowsInv'
  <2> DEFINE pc == IF r = 0 THEN "cell" ELSE "insert"
             t == [Idle EXCEPT !.pc = pc, !.kind = "issue",
                               !.cell = c, !.qty = q, !.wo = w, !.ref = r]
  <2>1. pc \in {"cell", "insert"} /\ (pc = "insert" => r \in Ids) OBVIOUS
  <2>2. Begin(s, t, WorkOrderLock(w)) /\ w \in open /\ (r # 0 => Matches(r, c, q, w))
    BY <1>3 DEF BeginIssue
  <2> HIDE DEF pc
  <2>3. t \in Tx BY <2>1, IdleType DEF Tx, AllCells
  <2>4. t.pc = pc /\ t.kind = "issue" /\ t.wo = w /\ t.ref = r BY DEF Idle
  <2>5. <<"wo", w>> \in WorkOrderLock(w) BY StockAssumption DEF WorkOrderLock
  <2>6. ASSUME r # 0
        PROVE  /\ reservation[r].status # "none"
               /\ reservation[r].wo # None =>
                    reservation[r].wo = w /\ \A i \in Ids : issue[i].res # r
    <3>1. reservation[r].status = "active" /\ reservation[r].wo \in {None, w}
      BY <2>2, <2>6 DEF Matches
    <3>2. \A i \in Ids : issue[i].res # r BY <2>6, <3>1 DEF Consumes
    <3> QED BY <3>1, <3>2
  <2> HIDE DEF t
  <2>7. Relies(t, WorkOrderLock(w)) BY <2>1, <2>2, <2>4, <2>5, <2>6 DEF Relies
  <2> QED BY <2>1, <2>2, <2>3, <2>4, <2>7, BeginKeeps DEF WorkOrderLock
<1>4. ASSUME NEW i \in Ids, NEW q \in Quantities, BeginReturn(s, i, q)
      PROVE  Carried' /\ Locked' /\ Numbered' /\ RowsInv'
  <2> DEFINE t == [Idle EXCEPT !.pc = "issue", !.kind = "return", !.ref = i, !.qty = q,
                               !.cell = issue[i].cell]
  <2>1. issue[i].cell \in AllCells BY DEF TypeOK, Issue
  <2>2. t \in Tx BY <2>1, IdleType DEF Tx
  <2>3. t.pc = "issue" /\ t.kind = "return" /\ t.ref = i BY DEF Idle
  <2>4. Begin(s, t, {}) /\ issue[i].qty > 0 BY <1>4 DEF BeginReturn
  <2>5. Relies(t, {}) BY <2>3, <2>4 DEF Relies
  <2> HIDE DEF t
  <2> QED BY <2>2, <2>3, <2>4, <2>5, BeginKeeps
<1>5. ASSUME NEW c \in Cells, NEW q \in Quantities, BeginDamage(s, c, q)
      PROVE  Carried' /\ Locked' /\ Numbered' /\ RowsInv'
  <2> DEFINE t == [Idle EXCEPT !.pc = "cell", !.kind = "damage", !.cell = c, !.qty = q,
                               !.seen = ActiveAt(c)]
  <2>1. t \in Tx BY IdleType DEF Tx, AllCells, ActiveAt
  <2>2. t.pc = "cell" /\ t.kind = "damage" BY DEF Idle
  <2>3. Begin(s, t, {}) BY <1>5 DEF BeginDamage
  <2>4. Relies(t, {}) BY <2>2 DEF Relies
  <2> HIDE DEF t
  <2> QED BY <2>1, <2>2, <2>3, <2>4, BeginKeeps
<1> QED BY <1>1, <1>2, <1>3, <1>4, <1>5 DEF BeginRequest

\* A transaction goes on with what it relies on and the locks it waited for.
LEMMA AdvanceKeeps ==
  ASSUME StockInv, NEW s \in Sessions, Advance(s), ~Abort(s)
  PROVE  Carried' /\ Locked' /\ Numbered' /\ RowsInv'
<1> USE DEF StockInv
<1>0. tx[s] \in Tx /\ (tx[s].pc # "idle" => Relies(tx[s], held[s]))
  BY DEF TypeOK, Tx, Carried
<1>1. ASSUME NEW pc \in {"cell", "rows", "other"}, NEW freed \in SUBSET Ids
      PROVE  LET t == [tx[s] EXCEPT !.pc = pc, !.freed = freed] IN
             /\ t \in Tx /\ t.pc = pc /\ t.freed = freed /\ t.n = tx[s].n
             /\ t.kind = tx[s].kind /\ t.ref = tx[s].ref /\ t.wo = tx[s].wo
             /\ t.qty = tx[s].qty
  BY <1>0 DEF Tx
<1>2. ASSUME NEW pc \in {"cell", "rows"}, Goto(s, pc)
      PROVE  tx' = [tx EXCEPT ![s] = [tx[s] EXCEPT !.pc = pc, !.freed = tx[s].freed]]
  <2>1. [tx[s] EXCEPT !.pc = pc, !.freed = tx[s].freed] = [tx[s] EXCEPT !.pc = pc]
    BY <1>0 DEF Tx
  <2>2. tx' = [tx EXCEPT ![s] = [tx[s] EXCEPT !.pc = pc]] BY <1>2 DEF Goto, TypeOK
  <2> QED BY <2>1, <2>2
<1>3. tx[s].freed \in SUBSET Ids BY <1>0 DEF Tx
<1>4. CASE InsertIssue(s)
  <2>1. /\ tx[s].pc = "insert" /\ Take(s, Wants(s)) /\ Goto(s, "cell")
        /\ UNCHANGED <<stock, orders, requests>>
    BY <1>4 DEF InsertIssue
  <2>2. Wants(s) = {<<"share", tx[s].ref>>} BY <2>1, WantsAreLocks
  <2> DEFINE t == [tx[s] EXCEPT !.pc = "cell", !.freed = tx[s].freed]
  <2>3. /\ t \in Tx /\ t.pc = "cell" /\ t.n = tx[s].n /\ t.kind = tx[s].kind
        /\ t.ref = tx[s].ref /\ t.wo = tx[s].wo /\ tx' = [tx EXCEPT ![s] = t]
    BY <1>1, <1>2, <1>3, <2>1
  <2> HIDE DEF t
  <2>4. Relies(t, held[s] \cup Wants(s)) BY <1>0, <2>1, <2>3 DEF Relies
  <2>5. \A r : <<"update", r>> \notin Wants(s) /\ <<"change", r>> \notin Wants(s) BY <2>2
  <2> QED BY <2>1, <2>3, <2>4, <2>5, MoveKeeps
<1>5. CASE LockIssue(s)
  <2>1. /\ tx[s].pc = "issue" /\ Take(s, Wants(s)) /\ Goto(s, "cell")
        /\ WithinIssue(tx[s]) /\ UNCHANGED <<stock, orders, requests>>
    BY <1>5 DEF LockIssue
  <2>2. Wants(s) = {<<"issue", tx[s].ref>>} BY <2>1, WantsAreLocks
  <2> DEFINE t == [tx[s] EXCEPT !.pc = "cell", !.freed = tx[s].freed]
  <2>3. /\ t \in Tx /\ t.pc = "cell" /\ t.n = tx[s].n /\ t.kind = tx[s].kind
        /\ t.ref = tx[s].ref /\ t.qty = tx[s].qty /\ tx' = [tx EXCEPT ![s] = t]
    BY <1>1, <1>2, <1>3, <2>1
  <2> HIDE DEF t
  <2>4. Relies(t, held[s] \cup Wants(s))
    BY <1>0, <2>1, <2>2, <2>3 DEF Relies, WithinIssue
  <2>5. \A r : <<"update", r>> \notin Wants(s) /\ <<"change", r>> \notin Wants(s) BY <2>2
  <2> QED BY <2>1, <2>3, <2>4, <2>5, MoveKeeps
<1>6. CASE LockCell(s)
  <2>1. /\ tx[s].pc = "cell" /\ Take(s, Wants(s)) /\ Goto(s, "rows")
        /\ UNCHANGED <<stock, orders, requests>>
    BY <1>6 DEF LockCell
  <2>2. Wants(s) = {<<"cell", tx[s].cell>>} BY <2>1, WantsAreLocks
  <2> DEFINE t == [tx[s] EXCEPT !.pc = "rows", !.freed = tx[s].freed]
  <2>3. /\ t \in Tx /\ t.pc = "rows" /\ t.n = tx[s].n /\ t.kind = tx[s].kind
        /\ t.ref = tx[s].ref /\ t.wo = tx[s].wo /\ t.qty = tx[s].qty
        /\ tx' = [tx EXCEPT ![s] = t]
    BY <1>1, <1>2, <1>3, <2>1
  <2> HIDE DEF t
  <2>4. Relies(t, held[s] \cup Wants(s)) BY <1>0, <2>1, <2>3 DEF Relies
  <2>5. \A r : <<"update", r>> \notin Wants(s) /\ <<"change", r>> \notin Wants(s) BY <2>2
  <2> QED BY <2>1, <2>3, <2>4, <2>5, MoveKeeps
<1>7. CASE FreeReservations(s)
  <2> DEFINE t == [tx[s] EXCEPT !.pc = "other", !.freed = Touched(tx[s])]
  <2>1. /\ tx[s].pc = "rows" /\ tx[s].kind = "damage" /\ Take(s, Wants(s))
        /\ tx' = [tx EXCEPT ![s] = t] /\ UNCHANGED <<stock, orders, requests>>
    BY <1>7 DEF FreeReservations, TypeOK
  <2>2. Wants(s) = {<<"change", r>> : r \in Touched(tx[s])} BY <2>1, WantsAreLocks
  <2>3. /\ t \in Tx /\ t.pc = "other" /\ t.n = tx[s].n /\ t.kind = tx[s].kind
        /\ t.freed = Touched(tx[s])
    BY <1>1, TouchedType
  <2>4. \A r \in Touched(tx[s]) : reservation[r].status = "active"
    BY <2>1 DEF Touched, FreedFor, ActiveAt
  <2> HIDE DEF t
  <2>5. Relies(t, held[s] \cup Wants(s)) BY <2>1, <2>2, <2>3 DEF Relies
  <2>6. \A r : /\ <<"update", r>> \notin Wants(s)
               /\ <<"change", r>> \in Wants(s) => reservation[r].status = "active"
    BY <2>2, <2>4
  <2> QED BY <2>1, <2>3, <2>5, <2>6, MoveKeeps
<1> QED BY <1>4, <1>5, <1>6, <1>7 DEF Advance

-----------------------------------------------------------------------------
(* The invariant and the theorems.                                         *)

\* StockInv holds initially ...
LEMMA InitStockInv == Init => StockInv
<1> SUFFICES ASSUME Init PROVE StockInv OBVIOUS
<1>1. TypeOK BY InitTypeOK
<1>2. /\ \A s \in Sessions : tx[s].pc = "idle" /\ held[s] = {}
      /\ \A r \in Ids : reservation[r].status = "none"
      /\ \A i \in Ids : issue[i].qty = 0 /\ issue[i].res = 0 /\ issue[i].returned = 0
  BY DEF Init, Idle, NoReservation, NoIssue
<1>3. OneReservationPerKey
  <2>1. \A k \in Keys : WithKey(k) = {} BY <1>2 DEF WithKey
  <2> QED BY <2>1, FS_EmptySet DEF OneReservationPerKey
<1>4. Carried /\ Locked /\ Numbered BY <1>2 DEF Carried, Locked, Numbered, Unwritten
<1>5. Consumes /\ ReturnsWithinIssue /\ OwnReservationConsumedOnce
  BY <1>2 DEF Consumes, ReturnsWithinIssue, OwnReservationConsumedOnce
<1>6. Settled BY DEF Init, Settled, CompletedHoldsNothing
<1> QED BY <1>1, <1>3, <1>4, <1>5, <1>6 DEF StockInv

\* Steps that are not a request's.
LEMMA QuietKeeps ==
  ASSUME StockInv, Environment \/ UNCHANGED vars
  PROVE  Carried' /\ Locked' /\ Numbered' /\ RowsInv'
<1>1. UNCHANGED stock /\ UNCHANGED <<tx, held, requests>>
  BY DEF Environment, Lapse, CloseWorkOrder, vars, stock
<1>2. RowsInv'
  <2>1. RowsInv BY DEF StockInv, RowsInv
  <2>2. CASE UNCHANGED orders BY <1>1, <2>1, <2>2, StockSame
  <2>3. ASSUME NEW w \in WorkOrders, NEW complete \in BOOLEAN, CloseWorkOrder(w, complete)
        PROVE  Settled'
    <3>1. \A v \in completed' : NothingCommitted(v)
      BY <2>1, <2>3 DEF CloseWorkOrder, RowsInv, Settled, CompletedHoldsNothing
    <3>2. \A v : NothingCommitted(v)' = NothingCommitted(v)
      BY <1>1 DEF NothingCommitted, stock
    <3>3. completed' \cap open' = {}
      BY <2>1, <2>3 DEF CloseWorkOrder, RowsInv, Settled
    <3> QED BY <3>1, <3>2, <3>3 DEF Settled, CompletedHoldsNothing
  <2>4. UNCHANGED orders \/ \E w \in WorkOrders, complete \in BOOLEAN :
                               CloseWorkOrder(w, complete)
    BY DEF Environment, Lapse, vars, orders
  <2> QED BY <1>1, <2>1, <2>2, <2>3, <2>4, StockSame DEF RowsInv
<1>3. Locked' /\ Numbered'
  BY <1>1 DEF StockInv, Locked, Numbered, Unwritten, stock
<1>4. ASSUME NEW s \in Sessions, tx[s].pc # "idle",
             tx[s].kind = "issue" \/ (tx[s].kind = "reserve" /\ tx[s].wo # None)
      PROVE  tx[s].wo \in open'
  <2>1. tx[s].wo \in open /\ <<"wo", tx[s].wo>> \in held[s]
    BY <1>4 DEF StockInv, Carried, Relies
  <2> QED BY <2>1 DEF Environment, Lapse, CloseWorkOrder, vars, orders
<1>5. Carried'
  <2>1. ASSUME NEW s \in Sessions, tx[s].pc # "idle" PROVE Relies(tx[s], held[s])'
    <3>1. Relies(tx[s], held[s]) BY <2>1 DEF StockInv, Carried
    <3> QED BY <1>1, <1>4, <2>1, <3>1 DEF Relies, stock
  <2> QED BY <1>1, <2>1 DEF Carried
<1> QED BY <1>2, <1>3, <1>5

\* Who takes a step: a request that begins or goes on, one that ends, or neither.
LEMMA StepKinds ==
  ASSUME StockInv, [Next]_vars
  PROVE  \/ Environment \/ UNCHANGED vars
         \/ \E s \in Sessions : \/ BeginRequest(s)
                                \/ Advance(s) /\ ~Abort(s)
                                \/ Wrote(s)
<1>1. ASSUME NEW s \in Sessions, Advance(s), Abort(s) PROVE Wrote(s)
  <2>1. tx[s].pc # "idle" BY <1>1 DEF Advance, InsertIssue, LockIssue, LockCell, FreeReservations
  <2> QED BY <1>1, <2>1, FinishWrites
<1>2. ASSUME NEW s \in Sessions, Finish(s) \/ Rollback(s) PROVE Wrote(s)
  <2>1. CASE Finish(s) BY <2>1, FinishWrites
  <2>2. CASE Rollback(s)
    <3>1. tx[s].pc # "idle" /\ Abort(s) BY <2>2 DEF Rollback
    <3> QED BY <3>1, FinishWrites
  <2> QED BY <1>2, <2>1, <2>2
<1>3. CASE UNCHANGED vars BY <1>3
<1>4. CASE Next
  <2>1. CASE Environment BY <2>1
  <2>2. ASSUME NEW s \in Sessions, BeginRequest(s) \/ Advance(s) \/ Finish(s) \/ Rollback(s)
        PROVE  BeginRequest(s) \/ (Advance(s) /\ ~Abort(s)) \/ Wrote(s)
    BY <1>1, <1>2, <2>2
  <2> QED BY <1>4, <2>1, <2>2 DEF Next
<1> QED BY <1>3, <1>4

\* ... and is kept by every step ...
LEMMA StepStockInv == StockInv /\ [Next]_vars => StockInv'
<1> SUFFICES ASSUME StockInv, [Next]_vars PROVE StockInv' OBVIOUS
<1>1. TypeOK' BY StepTypeOK DEF StockInv
<1>2. Carried' /\ Locked' /\ Numbered' /\ RowsInv'
  <2>1. ASSUME NEW s \in Sessions, Wrote(s)
        PROVE  Carried' /\ Locked' /\ Numbered' /\ RowsInv'
    BY <2>1, WroteKeepsOpen, WroteKeepsRows, WroteKeepsSettled DEF RowsInv
  <2> QED BY <2>1, StepKinds, QuietKeeps, RequestKeeps, AdvanceKeeps
<1> QED BY <1>1, <1>2 DEF StockInv, RowsInv

\* ... so it always holds.
LEMMA StockInductive == Spec => []StockInv
  BY InitStockInv, StepStockInv, PTL DEF Spec

\* Every reachable state of the stock tables is well typed; on_hand_qty is never
\* negative (the CHECK of stock_balances).
THEOREM StockTypeCorrect == Spec => []TypeOK
<1>1. StockInv => TypeOK BY DEF StockInv
<1> QED BY <1>1, StockInductive, PTL

\* However many returns of one issue pass the check of the service at once, the lock
\* on the issue keeps their sum within it (return_part).
THEOREM ReturnsAreBounded == Spec => []ReturnsWithinIssue
<1>1. StockInv => ReturnsWithinIssue BY DEF StockInv
<1> QED BY <1>1, StockInductive, PTL

\* A reservation key is booked once, although it is looked up before the lock
\* (reserve_stock looks again under it).
THEOREM KeysBookOnce == Spec => []OneReservationPerKey
<1>1. StockInv => OneReservationPerKey BY DEF StockInv
<1> QED BY <1>1, StockInductive, PTL

\* A reservation that names its work order is consumed by one issue, although
\* consume_reservation reads its status without a lock: both issues would have to
\* hold the work order.
THEOREM OwnReservationsConsumedOnce == Spec => []OwnReservationConsumedOnce
<1>1. StockInv => OwnReservationConsumedOnce BY DEF StockInv
<1> QED BY <1>1, StockInductive, PTL

\* What a step does to the reservations and the issues.
LEMMA RowsStep ==
  ASSUME StockInv, [Next]_vars
  PROVE  \/ UNCHANGED <<reservation, issue>>
         \/ \E s \in Sessions : Wrote(s)
<1>1. ASSUME NEW s \in Sessions, BeginRequest(s) \/ (Advance(s) /\ ~Abort(s))
      PROVE  UNCHANGED <<reservation, issue>>
  BY <1>1 DEF BeginRequest, Begin, Reserve, Release, BeginIssue, BeginReturn, BeginDamage,
              Advance, InsertIssue, LockIssue, LockCell, FreeReservations, stock
<1>2. Environment \/ UNCHANGED vars => UNCHANGED <<reservation, issue>>
  BY DEF Environment, Lapse, CloseWorkOrder, vars, stock
<1> QED BY <1>1, <1>2, StepKinds

\* Released, consumed and expired are final: no issue, release, expiry or damage on
\* its way with an old read of the status changes it again.
THEOREM EndedForGood == Spec => TerminalStatus
<1>1. StockInv /\ [Next]_vars =>
        [\A r \in Ids : reservation[r].status \notin {"none", "active"} =>
                          reservation'[r] = reservation[r]]_vars
  BY RowsStep, ReservationsKeep
<1> QED BY <1>1, StockInductive, PTL DEF Spec, TerminalStatus

\* What was certified complete keeps no stock: whoever had checked the work order
\* before the closure holds its lock, and the closure counts after it has waited.
THEOREM CompletionSound == Spec => []CompletedHoldsNothing
<1>1. StockInv => CompletedHoldsNothing BY DEF StockInv, Settled
<1> QED BY <1>1, StockInductive, PTL

\* Parts are fitted to open work orders only: the closure waits for the lock that the
\* issue took when it checked the work order.
THEOREM FittedWhileOpen == Spec => IssuedWhileOpen
<1>1. StockInv /\ [Next]_vars =>
        [\A i \in Ids : issue'[i].qty > issue[i].qty => issue'[i].wo \in open]_vars
  <2> SUFFICES ASSUME StockInv, [Next]_vars, NEW i \in Ids, issue'[i].qty > issue[i].qty
               PROVE  issue'[i].wo \in open
    OBVIOUS
  <2>1. issue[i].qty \in Nat BY DEF StockInv, TypeOK, Issue
  <2>2. issue'[i].qty # issue[i].qty BY <2>1
  <2>3. PICK s \in Sessions : Wrote(s) BY <2>2, RowsStep
  <2>4. Fits(s, i) BY <2>2, <2>3, IssuesKeep
  <2>5. Relies(tx[s], held[s]) BY <2>3 DEF Wrote, StockInv, Carried
  <2> QED BY <2>4, <2>5 DEF Fits, Relies
<1> QED BY <1>1, StockInductive, PTL DEF Spec, IssuedWhileOpen

-----------------------------------------------------------------------------
(* The balances.                                                           *)

\* Quantities are numbers, so a part of them sums to no more than the whole.
LEMMA SumQtyFacts ==
  ASSUME TypeOK
  PROVE  /\ IsFiniteSet(Ids) /\ \A r \in Ids : Qty[r] \in Nat
         /\ \A S \in SUBSET Ids : IsFiniteSet(S) /\ SumQty(S) \in Nat
         /\ \A S \in SUBSET Ids : \A R \in SUBSET S :
              SumQty(R) <= SumQty(S) /\ SumQty(S) = SumQty(R) + SumQty(S \ R)
<1>1. IsFiniteSet(Ids) BY StockAssumption, FS_Interval DEF Ids
<1>2. \A S \in SUBSET Ids : IsFiniteSet(S) BY <1>1, FS_Subset
<1>3. \A r \in Ids : Qty[r] \in Nat BY DEF TypeOK, Reservation, Qty
<1>4. \A S \in SUBSET Ids : SumFunctionOnSet(Qty, S) \in Nat
  BY <1>2, <1>3, SumNatural
<1>5. ASSUME NEW S \in SUBSET Ids, NEW R \in SUBSET S
      PROVE  /\ SumFunctionOnSet(Qty, R) <= SumFunctionOnSet(Qty, S)
             /\ SumFunctionOnSet(Qty, S) =
                  SumFunctionOnSet(Qty, R) + SumFunctionOnSet(Qty, S \ R)
  <2>1. \A r \in S : Qty[r] \in Nat /\ Qty[r] \in Int BY <1>3
  <2>2. IsFiniteSet(S) BY <1>2
  <2> QED BY <2>1, <2>2, SumPart, SumSplit
<1> QED BY <1>1, <1>2, <1>3, <1>4, <1>5 DEF SumQty

\* free_reservations_for_loss gives up enough: the oldest of the newer reservations
\* than one it keeps make up the need, and all of them are given up.
LEMMA FreedEnough ==
  ASSUME TypeOK, Coherent, NEW c \in AllCells, NEW q \in Nat, on_hand[c] - q >= 0
  PROVE  SumQty(ActiveAt(c) \ FreedFor(c, q)) <= on_hand[c] - q
<1> DEFINE A == ActiveAt(c)
           F == FreedFor(c, q)
           need == reserved[c] - (on_hand[c] - q)
           Newer(r) == {u \in A : u > r}
<1>1. A \in SUBSET Ids /\ F = {r \in A : need > SumQty(Newer(r))}
  BY DEF ActiveAt, FreedFor
<1>2. /\ reserved[c] = SumQty(A) /\ SumQty(A) \in Nat /\ on_hand[c] \in Nat
  BY <1>1, SumQtyFacts DEF Coherent, TypeOK
<1> HIDE DEF A, F, need
<1>3. CASE A \ F = {}
  <2>1. SumQty({}) = 0 BY FS_EmptySet, SumStep DEF SumQty
  <2> QED BY <1>2, <1>3, <2>1 DEF A, F
<1>4. CASE A \ F # {}
  <2> DEFINE T == {Newer(r) : r \in A \ F}
  <2>1. T \in SUBSET SUBSET A /\ T # {} BY <1>4
  <2>2. IsFiniteSet(A) BY <1>1, SumQtyFacts
  <2>3. PICK N \in T : \A B \in T : B \subseteq N => B = N
    <3> HIDE DEF T
    <3> QED BY <2>1, <2>2, Smallest
  <2>4. PICK r \in A \ F : N = Newer(r) BY <2>3
  <2>5. ASSUME NEW u \in N, u \notin F PROVE FALSE
    <3>1. u \in A /\ u > r /\ u \in Int /\ r \in Int BY <1>1, <2>4, <2>5 DEF Ids
    <3>2. Newer(u) \in T BY <2>5, <3>1
    <3>3. Newer(u) \subseteq N
      <4>1. ASSUME NEW v \in A, v > u PROVE v > r BY <1>1, <3>1, <4>1 DEF Ids
      <4> QED BY <2>4, <4>1
    <3>4. Newer(u) = N BY <2>3, <3>2, <3>3
    <3>5. u \notin Newer(u) BY <3>1
    <3> QED BY <3>4, <3>5
  <2>6. N \subseteq F /\ N \subseteq A BY <2>4, <2>5
  <2>7. ~(need > SumQty(N)) BY <1>1, <2>4
  <2>8. /\ F \in SUBSET A /\ F \in SUBSET Ids /\ N \in SUBSET F /\ N \in SUBSET Ids
        /\ A \ F \in SUBSET Ids
    BY <1>1, <2>6
  <2>9. /\ SumQty(N) \in Nat /\ SumQty(F) \in Nat /\ SumQty(A \ F) \in Nat
        /\ SumQty(N) <= SumQty(F) /\ SumQty(A) = SumQty(F) + SumQty(A \ F)
    BY <1>1, <2>8, SumQtyFacts
  <2>10. need = SumQty(A) - (on_hand[c] - q) BY <1>2 DEF need
  <2>11. SumQty(A \ F) <= on_hand[c] - q BY <1>2, <2>7, <2>9, <2>10
  <2> QED BY <2>11 DEF A, F
<1> QED BY <1>3, <1>4

\* Sums of quantities are the same before and after a step that leaves them.
LEMMA SumQtyLasts ==
  ASSUME TypeOK, NEW S \in SUBSET Ids, \A r \in S : reservation'[r].qty = reservation[r].qty
  PROVE  SumQty(S)' = SumQty(S)
<1>1. \A r \in S : Qty'[r] = Qty[r] BY DEF Qty
<1>2. IsFiniteSet(S) BY SumQtyFacts
<1>3. SumFunctionOnSet(Qty', S) = SumFunctionOnSet(Qty, S) BY <1>1, <1>2, SumSame
<1> QED BY <1>3 DEF SumQty

\* A reservation stays where it is and keeps its quantity.
LEMMA PlacesKeep ==
  ASSUME StockInv, NEW s \in Sessions, Wrote(s), NEW r \in Ids,
         reservation[r].status # "none"
  PROVE  reservation'[r].cell = reservation[r].cell /\ reservation'[r].qty = reservation[r].qty
<1>1. ~Books(s, r) BY DEF Books, Wrote, StockInv, Numbered, Unwritten
<1>2. CASE EndsReservation(s, r)
  <2>1. reservation[r] \in Reservation BY DEF StockInv, TypeOK
  <2> QED BY <1>2, <2>1 DEF EndsReservation, Reservation
<1> QED BY <1>1, <1>2 DEF Wrote

\* Reservations that end at a cell leave its balance with the sum of the others.
LEMMA EndsAt ==
  ASSUME TypeOK, Coherent, NEW k \in AllCells, NEW R,
         NEW status \in {"released", "consumed", "expired"},
         \A r \in Ids : reservation'[r] = WithStatus(R, status)[r],
         \A r \in R \cap Ids : reservation[r].status = "active" => reservation[r].cell = k
  PROVE  /\ \A c \in AllCells : ActiveAt(c)' = ActiveAt(c) \ R
         /\ \A c \in AllCells \ {k} : ActiveAt(c)' = ActiveAt(c)
         /\ SumQty(ActiveAt(k))' = SumQty(ActiveAt(k) \ R)
<1>1. \A r \in Ids : reservation[r] \in Reservation BY DEF TypeOK
<1>2. \A r \in Ids : reservation'[r] = IF r \in R THEN [reservation[r] EXCEPT !.status = status]
                                       ELSE reservation[r]
  BY DEF WithStatus
<1>3. \A r \in Ids : /\ reservation'[r].cell = reservation[r].cell
                     /\ reservation'[r].qty = reservation[r].qty
                     /\ reservation'[r].status = IF r \in R THEN status ELSE reservation[r].status
  BY <1>1, <1>2 DEF Reservation
<1>4. \A c \in AllCells : ActiveAt(c)' = ActiveAt(c) \ R BY <1>3 DEF ActiveAt
<1>5. \A c \in AllCells \ {k} : ActiveAt(c) \cap R = {} BY DEF ActiveAt
<1>6. \A c \in AllCells \ {k} : ActiveAt(c)' = ActiveAt(c) BY <1>4, <1>5
<1>7. PICK B \in SUBSET Ids : B = ActiveAt(k) \ R BY DEF ActiveAt
<1>8. SumQty(B)' = SumQty(B)
  <2>1. \A r \in B : reservation'[r].qty = reservation[r].qty BY <1>3
  <2> QED BY <2>1, SumQtyLasts
<1>9. ActiveAt(k)' = B BY <1>4, <1>7
<1>10. SumQty(ActiveAt(k))' = SumQty(B)' BY <1>9 DEF SumQty
<1> QED BY <1>4, <1>6, <1>7, <1>8, <1>10

\* A step leaves a cell alone, or the transaction that takes it has the balance of the
\* cell to itself and leaves it coherent.
Same(c) == /\ on_hand'[c] = on_hand[c] /\ reserved'[c] = reserved[c]
           /\ ActiveAt(c)' = ActiveAt(c)

Alone(s, c) == \A u \in Sessions \ {s} : <<"cell", c>> \notin held[u]

Balanced(c) == /\ reserved'[c] = SumQty(ActiveAt(c))'
               /\ reserved'[c] <= on_hand'[c]

Handled(s, c) == Same(c) \/ (Alone(s, c) /\ Balanced(c))

\* Who holds a balance, or could take it, holds it alone.
LEMMA CellAlone ==
  ASSUME Locked, NEW s \in Sessions, NEW c,
         <<"cell", c>> \in held[s] \/ Blockers(s, {<<"cell", c>>}) = {}
  PROVE  Alone(s, c)
<1>1. Conflict(<<"cell", c>>, <<"cell", c>>) BY DEF Conflict
<1>2. CASE <<"cell", c>> \in held[s] BY <1>1, <1>2 DEF Locked, Alone
<1>3. ASSUME Blockers(s, {<<"cell", c>>}) = {}, NEW u \in Sessions \ {s},
             <<"cell", c>> \in held[u]
      PROVE  FALSE
  <2>1. u \in Blockers(s, {<<"cell", c>>}) BY <1>1, <1>3 DEF Blockers
  <2> QED BY <1>3, <2>1
<1> QED BY <1>2, <1>3 DEF Alone

\* A rollback.
LEMMA AbortHandles ==
  ASSUME NEW s \in Sessions, Abort(s), NEW c \in AllCells PROVE Handled(s, c)
  BY DEF Abort, stock, Handled, Same, ActiveAt

\* What a transaction past LockCell has of its cell.
LEMMA OwnCell ==
  ASSUME StockInv, Counted, NEW s \in Sessions, tx[s].pc \in {"rows", "other"}
  PROVE  /\ Keeps(tx[s], held[s]) /\ Relies(tx[s], held[s]) /\ Alone(s, tx[s].cell)
         /\ tx[s].cell \in AllCells /\ tx[s].qty \in Nat
         /\ on_hand[tx[s].cell] \in Nat /\ reserved[tx[s].cell] \in Nat
         /\ reserved[tx[s].cell] <= on_hand[tx[s].cell]
<1>1. tx[s].pc # "idle" BY DEF StockInv
<1>2. Keeps(tx[s], held[s]) /\ Relies(tx[s], held[s])
  BY <1>1 DEF Counted, Placed, StockInv, Carried
<1>3. tx[s].cell \in AllCells /\ tx[s].qty \in Nat BY TxFields DEF StockInv
<1>4. Alone(s, tx[s].cell) BY <1>2, CellAlone DEF Keeps, StockInv
<1>5. on_hand[tx[s].cell] \in Nat BY <1>3 DEF StockInv, TypeOK
<1>6. ActiveAt(tx[s].cell) \in SUBSET Ids BY DEF ActiveAt
<1>7. /\ reserved[tx[s].cell] \in Nat /\ reserved[tx[s].cell] <= on_hand[tx[s].cell]
  BY <1>3, <1>6, SumQtyFacts DEF Counted, Coherent, StockInv
<1> QED BY <1>2, <1>3, <1>4, <1>5, <1>7

\* A transaction handles every cell when it writes one balance, and adds to another
\* that it has to itself.
LEMMA CellsHandled ==
  ASSUME StockInv, Coherent, TypeOK', NEW s \in Sessions, Wrote(s),
         NEW k \in AllCells, Alone(s, k), Balanced(k),
         \A c \in AllCells \ {k} :
           /\ ActiveAt(c)' = ActiveAt(c) /\ reserved'[c] = reserved[c]
           /\ on_hand'[c] = on_hand[c] \/ (Alone(s, c) /\ on_hand[c] <= on_hand'[c])
  PROVE  \A c \in AllCells : Handled(s, c)
<1> SUFFICES ASSUME NEW c \in AllCells, c # k, on_hand'[c] # on_hand[c] PROVE Handled(s, c)
  BY DEF Handled, Same
<1>1. PICK A \in SUBSET Ids : A = ActiveAt(c) BY DEF ActiveAt
<1>2. \A r \in A : reservation'[r].qty = reservation[r].qty
  BY <1>1, PlacesKeep DEF ActiveAt
<1>3. SumQty(A)' = SumQty(A) BY <1>2, SumQtyLasts DEF StockInv
<1>4. SumQty(ActiveAt(c))' = SumQty(A)' BY <1>1 DEF SumQty
<1>5. reserved[c] = SumQty(A) /\ reserved[c] <= on_hand[c] BY <1>1 DEF Coherent
<1>6. SumQty(A) \in Nat BY SumQtyFacts DEF StockInv
<1>7. on_hand[c] \in Nat /\ on_hand'[c] \in Nat BY DEF StockInv, TypeOK
<1>8. reserved'[c] <= on_hand'[c] BY <1>5, <1>6, <1>7
<1>9. reserved'[c] = SumQty(ActiveAt(c))' BY <1>3, <1>4, <1>5
<1> QED BY <1>8, <1>9 DEF Handled, Balanced

\* A release.
LEMMA ReleaseHandles ==
  ASSUME StockInv, Counted, TypeOK', NEW s \in Sessions, ReleaseReservation(s), ~Abort(s)
  PROVE  \A c \in AllCells : Handled(s, c)
<1> USE DEF StockInv, Counted
<1>1. PICK t : t = tx[s] OBVIOUS
<1>2. PICK k : k = t.cell OBVIOUS
<1>3. PICK R : R = {t.ref} OBVIOUS
<1>4. /\ t.pc = "rows" /\ t.kind = "release" /\ UNCHANGED on_hand
      /\ reservation' = WithStatus(R, "released")
      /\ reserved' = [reserved EXCEPT ![k] = SumQty(ActiveAt(k) \ R)]
  BY <1>1, <1>2, <1>3 DEF ReleaseReservation
<1>5. /\ Keeps(t, held[s]) /\ Relies(t, held[s]) /\ Alone(s, k) /\ k \in AllCells
      /\ reserved[k] \in Nat /\ on_hand[k] \in Nat /\ reserved[k] <= on_hand[k]
  BY <1>1, <1>2, <1>4, OwnCell
<1>6. \A r \in R \cap Ids : reservation[r].status = "active" => reservation[r].cell = k
  BY <1>2, <1>3, <1>4, <1>5 DEF Keeps, Relies, Ids
<1>7. \A r \in Ids : reservation'[r] = WithStatus(R, "released")[r] BY <1>4
<1>8. /\ \A c \in AllCells \ {k} : ActiveAt(c)' = ActiveAt(c)
      /\ SumQty(ActiveAt(k))' = SumQty(ActiveAt(k) \ R)
  BY <1>5, <1>6, <1>7, EndsAt
<1>9. reserved'[k] = SumQty(ActiveAt(k) \ R) /\ \A c \in AllCells \ {k} : reserved'[c] = reserved[c]
  BY <1>4, <1>5 DEF TypeOK
<1>10. /\ SumQty(ActiveAt(k) \ R) <= SumQty(ActiveAt(k)) /\ SumQty(ActiveAt(k) \ R) \in Nat
       /\ SumQty(ActiveAt(k)) = reserved[k]
  <2>1. ActiveAt(k) \in SUBSET Ids /\ ActiveAt(k) \ R \in SUBSET ActiveAt(k) BY DEF ActiveAt
  <2>2. ActiveAt(k) \ R \in SUBSET Ids BY <2>1
  <2> QED BY <1>5, <2>1, <2>2, SumQtyFacts DEF Coherent
<1>11. Balanced(k) BY <1>4, <1>5, <1>8, <1>9, <1>10 DEF Balanced
<1>12. Wrote(s) BY FinishWrites DEF Finish
<1> QED BY <1>4, <1>5, <1>8, <1>9, <1>11, <1>12, CellsHandled

\* An issue: what it consumes lies in its cell, and the balance checks see the rest.
LEMMA IssueHandles ==
  ASSUME StockInv, Counted, TypeOK', NEW s \in Sessions, IssuePart(s), ~Abort(s)
  PROVE  \A c \in AllCells : Handled(s, c)
<1> USE DEF StockInv, Counted
<1>1. PICK t : t = tx[s] OBVIOUS
<1>2. PICK k : k = t.cell OBVIOUS
<1>3. PICK R : R = {t.ref} \ {0} OBVIOUS
<1>4. PICK left : left = ConsumeAndPost(t).reserved OBVIOUS
<1>5. /\ t.pc = "rows" /\ t.kind = "issue"
      /\ reservation' = WithStatus(R, "consumed")
      /\ on_hand' = [on_hand EXCEPT ![k] = @ - t.qty]
      /\ reserved' = [reserved EXCEPT ![k] = left]
      /\ BalanceChecks(on_hand[k] - t.qty, left)
  BY <1>1, <1>2, <1>3, <1>4 DEF IssuePart, ConsumeAndPost
<1>6. /\ Keeps(t, held[s]) /\ Alone(s, k) /\ k \in AllCells /\ t.qty \in Nat
      /\ reserved[k] \in Nat /\ on_hand[k] \in Nat
  BY <1>1, <1>2, <1>5, OwnCell
<1>7. \A r \in R \cap Ids : reservation[r].status = "active" => reservation[r].cell = k
  BY <1>2, <1>3, <1>5, <1>6 DEF Keeps
<1>8. \A r \in Ids : reservation'[r] = WithStatus(R, "consumed")[r] BY <1>5
<1>9. /\ \A c \in AllCells \ {k} : ActiveAt(c)' = ActiveAt(c)
      /\ SumQty(ActiveAt(k))' = SumQty(ActiveAt(k) \ R)
  BY <1>6, <1>7, <1>8, EndsAt
<1>10. left = SumQty(ActiveAt(k) \ R)
  <2>1. CASE t.ref = 0
    <3>1. ActiveAt(k) \ R = ActiveAt(k) BY <1>3, <2>1
    <3>2. left = reserved[k] BY <1>2, <1>4, <2>1 DEF ConsumeAndPost
    <3> QED BY <1>6, <3>1, <3>2 DEF Coherent
  <2>2. CASE t.ref # 0
    <3>1. R = {t.ref} BY <1>3, <2>2
    <3> QED BY <1>2, <1>4, <2>2, <3>1 DEF ConsumeAndPost
  <2> QED BY <2>1, <2>2
<1>11. left \in Nat
  <2>1. ActiveAt(k) \ R \in SUBSET Ids BY DEF ActiveAt
  <2> QED BY <1>10, <2>1, SumQtyFacts
<1>12. /\ reserved'[k] = left /\ on_hand'[k] = on_hand[k] - t.qty
       /\ \A c \in AllCells \ {k} : reserved'[c] = reserved[c] /\ on_hand'[c] = on_hand[c]
  BY <1>5, <1>6 DEF TypeOK
<1>13. left <= on_hand[k] - t.qty BY <1>5, <1>6, <1>11 DEF BalanceChecks
<1>14. Balanced(k) BY <1>9, <1>10, <1>12, <1>13 DEF Balanced
<1>15. Wrote(s) BY FinishWrites DEF Finish
<1> QED BY <1>6, <1>9, <1>12, <1>14, <1>15, CellsHandled

\* A return.
LEMMA ReturnHandles ==
  ASSUME StockInv, Counted, TypeOK', NEW s \in Sessions, ReturnPart(s)
  PROVE  \A c \in AllCells : Handled(s, c)
<1> USE DEF StockInv, Counted
<1>1. PICK t : t = tx[s] OBVIOUS
<1>2. PICK k : k = t.cell OBVIOUS
<1>3. /\ t.pc = "rows" /\ UNCHANGED <<reservation, reserved>>
      /\ on_hand' = [on_hand EXCEPT ![k] = @ + t.qty]
  BY <1>1, <1>2 DEF ReturnPart
<1>4. /\ Alone(s, k) /\ k \in AllCells /\ t.qty \in Nat
      /\ reserved[k] \in Nat /\ on_hand[k] \in Nat /\ reserved[k] <= on_hand[k]
  BY <1>1, <1>2, <1>3, OwnCell
<1>5. \A c \in AllCells : ActiveAt(c)' = ActiveAt(c) /\ SumQty(ActiveAt(c))' = SumQty(ActiveAt(c))
  BY <1>3 DEF ActiveAt, SumQty, Qty
<1>6. /\ on_hand'[k] = on_hand[k] + t.qty
      /\ \A c \in AllCells \ {k} : on_hand'[c] = on_hand[c]
  BY <1>3, <1>4 DEF TypeOK
<1>7. Balanced(k) BY <1>3, <1>4, <1>5, <1>6 DEF Balanced, Coherent
<1>8. Wrote(s) BY FinishWrites DEF Finish
<1> QED BY <1>3, <1>4, <1>5, <1>6, <1>7, <1>8, CellsHandled

\* A reserve: the new reservation joins those that did not lapse, within what is left.
LEMMA ReserveHandles ==
  ASSUME StockInv, Counted, TypeOK', NEW s \in Sessions, ReserveStock(s), ~Abort(s)
  PROVE  \A c \in AllCells : Handled(s, c)
<1> USE DEF StockInv, Counted
<1>1. PICK t : t = tx[s] OBVIOUS
<1>2. PICK k : k = t.cell OBVIOUS
<1>3. PICK A \in SUBSET Ids : A = ActiveAt(k) BY DEF ActiveAt
<1>4. PICK R \in SUBSET A : R = Stale(t) BY <1>2, <1>3 DEF Stale
<1>5. PICK n : n = t.n OBVIOUS
<1>6. PICK B \in SUBSET Ids : B = A \ R OBVIOUS
<1>7. /\ t.pc = "rows" /\ UNCHANGED on_hand /\ t.qty <= on_hand[k] - SumQty(B)
      /\ reservation' = [WithStatus(R, "expired") EXCEPT ![n] =
           [status |-> "active", cell |-> k, qty |-> t.qty, wo |-> t.wo, key |-> t.key]]
      /\ reserved' = [reserved EXCEPT ![k] = SumQty(B) + t.qty]
  BY <1>1, <1>2, <1>3, <1>4, <1>5, <1>6 DEF ReserveStock, Affordable
<1>8. Alone(s, k) /\ k \in AllCells /\ t.qty \in Nat /\ on_hand[k] \in Nat
  BY <1>1, <1>2, <1>7, OwnCell
<1>9. n \in Ids /\ Unwritten(n)
  BY <1>1, <1>5, <1>7, StockAssumption DEF Numbered, TypeOK, Ids
<1>10. \A r \in Ids : reservation[r] \in Reservation BY DEF TypeOK
<1>11. \A r \in Ids \ {n} :
         reservation'[r] = IF r \in R THEN [reservation[r] EXCEPT !.status = "expired"]
                           ELSE reservation[r]
  BY <1>7 DEF WithStatus
<1>12. /\ reservation'[n].status = "active" /\ reservation'[n].cell = k
       /\ reservation'[n].qty = t.qty
  BY <1>7, <1>9 DEF WithStatus
<1>13. \A r \in Ids \ {n} :
         /\ reservation'[r].cell = reservation[r].cell /\ reservation'[r].qty = reservation[r].qty
         /\ reservation'[r].status = IF r \in R THEN "expired" ELSE reservation[r].status
  BY <1>10, <1>11 DEF Reservation
<1>14. n \notin A BY <1>3, <1>9 DEF Unwritten, ActiveAt
<1>15. ActiveAt(k)' = B \cup {n}
  BY <1>3, <1>6, <1>8, <1>9, <1>12, <1>13, <1>14 DEF ActiveAt
<1>16. \A c \in AllCells \ {k} : ActiveAt(c)' = ActiveAt(c)
  <2>1. \A c \in AllCells \ {k} : ActiveAt(c) \cap R = {} BY <1>3 DEF ActiveAt
  <2> QED BY <1>9, <1>12, <1>13, <2>1 DEF ActiveAt, Unwritten
<1>17. SumQty(B \cup {n})' = SumQty(B) + t.qty
  <2>1. \A r \in Ids : Qty'[r] = reservation'[r].qty BY DEF Qty
  <2>2. \A r \in B \cup {n} : Qty'[r] \in Int
    <3>1. \A r \in Ids : reservation'[r] \in Reservation BY DEF TypeOK
    <3> QED BY <1>6, <1>9, <2>1, <3>1 DEF Reservation
  <2>3. IsFiniteSet(B) /\ n \notin B BY <1>6, <1>14, SumQtyFacts
  <2>4. SumFunctionOnSet(Qty', B \cup {n}) = SumFunctionOnSet(Qty', B) + Qty'[n]
    BY <2>2, <2>3, SumAdd
  <2>5. SumQty(B)' = SumQty(B)
    <3>1. \A r \in B : reservation'[r].qty = reservation[r].qty BY <1>13, <2>3
    <3> QED BY <3>1, SumQtyLasts
  <2>6. Qty'[n] = t.qty BY <1>9, <1>12, <2>1
  <2> QED BY <2>4, <2>5, <2>6 DEF SumQty
<1>18. /\ reserved'[k] = SumQty(B) + t.qty
       /\ \A c \in AllCells \ {k} : reserved'[c] = reserved[c]
  BY <1>7, <1>8 DEF TypeOK
<1>19. SumQty(ActiveAt(k))' = SumQty(B \cup {n})' BY <1>15 DEF SumQty
<1>20. SumQty(B) \in Nat BY SumQtyFacts
<1>21. reserved'[k] <= on_hand'[k] BY <1>7, <1>8, <1>18, <1>20
<1>22. Balanced(k) BY <1>17, <1>18, <1>19, <1>21 DEF Balanced
<1>23. Wrote(s) BY FinishWrites DEF Finish
<1> QED BY <1>7, <1>8, <1>16, <1>18, <1>22, <1>23, CellsHandled

\* A damage: what it gave up covers the loss, and the quarantine only grows.
LEMMA DamageHandles ==
  ASSUME StockInv, Counted, TypeOK', NEW s \in Sessions, RecordDamage(s), ~Abort(s)
  PROVE  \A c \in AllCells : Handled(s, c)
<1> USE DEF StockInv, Counted
<1>1. PICK t : t = tx[s] OBVIOUS
<1>2. PICK k : k = t.cell OBVIOUS
<1>3. PICK R : R = t.freed OBVIOUS
<1>4. /\ t.pc = "other" /\ Blockers(s, Wants(s)) = {}
      /\ reservation' = WithStatus(R, "released")
      /\ on_hand' = [on_hand EXCEPT ![k] = @ - t.qty, ![Quarantine] = @ + t.qty]
      /\ reserved' = [reserved EXCEPT ![k] = SumQty(ActiveAt(k) \ R)]
      /\ ~(on_hand[k] - t.qty < 0)
  BY <1>1, <1>2, <1>3 DEF RecordDamage, DamageRefused, Moved
<1>5. /\ Keeps(t, held[s]) /\ Relies(t, held[s]) /\ Alone(s, k) /\ k \in AllCells
      /\ t.qty \in Nat /\ on_hand[k] \in Nat
  BY <1>1, <1>2, <1>4, OwnCell
<1>6. k \in Cells /\ k # Quarantine /\ Quarantine \in AllCells
  BY <1>2, <1>4, <1>5, StockAssumption DEF Keeps, Relies, AllCells
<1>7. R \subseteq ActiveAt(k) /\ SumQty(ActiveAt(k) \ R) <= on_hand[k] - t.qty
  BY <1>2, <1>3, <1>4, <1>5 DEF Keeps
<1>8. \A r \in R \cap Ids : reservation[r].status = "active" => reservation[r].cell = k
  BY <1>7 DEF ActiveAt
<1>9. \A r \in Ids : reservation'[r] = WithStatus(R, "released")[r] BY <1>4
<1>10. /\ \A c \in AllCells \ {k} : ActiveAt(c)' = ActiveAt(c)
       /\ SumQty(ActiveAt(k))' = SumQty(ActiveAt(k) \ R)
  BY <1>5, <1>8, <1>9, EndsAt
<1>11. Alone(s, Quarantine)
  <2>1. Wants(s) = {<<"cell", Quarantine>>} BY <1>1, <1>4, WantsAreLocks
  <2> QED BY <1>4, <2>1, CellAlone
<1>12. /\ reserved'[k] = SumQty(ActiveAt(k) \ R)
       /\ \A c \in AllCells \ {k} : reserved'[c] = reserved[c]
  BY <1>4, <1>5 DEF TypeOK
<1>13. /\ on_hand'[k] = on_hand[k] - t.qty
       /\ on_hand'[Quarantine] = on_hand[Quarantine] + t.qty
       /\ \A c \in AllCells \ {k, Quarantine} : on_hand'[c] = on_hand[c]
  BY <1>4, <1>5, <1>6 DEF TypeOK
<1>14. on_hand[Quarantine] <= on_hand'[Quarantine]
  <2>1. on_hand[Quarantine] \in Nat BY <1>6 DEF TypeOK
  <2> QED BY <1>5, <1>13, <2>1
<1>15. Balanced(k) BY <1>7, <1>10, <1>12, <1>13 DEF Balanced
<1>16. Wrote(s) BY FinishWrites DEF Finish
<1>17. \A c \in AllCells \ {k} :
         on_hand'[c] = on_hand[c] \/ (Alone(s, c) /\ on_hand[c] <= on_hand'[c])
  BY <1>11, <1>13, <1>14
<1> QED BY <1>5, <1>10, <1>12, <1>15, <1>16, <1>17, CellsHandled

\* How a transaction ends.
Ends(s) == Finish(s) \/ (tx[s].pc # "idle" /\ Abort(s))

LEMMA CellsChange ==
  ASSUME StockInv, Counted, TypeOK', NEW s \in Sessions, Ends(s)
  PROVE  \A c \in AllCells : Handled(s, c)
<1>1. CASE Abort(s) BY <1>1, AbortHandles
<1> QED BY <1>1, ReserveHandles, ReleaseHandles, IssueHandles, ReturnHandles, DamageHandles
        DEF Ends, Finish

\* So the balances stay coherent ...
LEMMA EndsCoherent ==
  ASSUME StockInv, Counted, TypeOK', NEW s \in Sessions, Ends(s)
  PROVE  Coherent'
<1> SUFFICES ASSUME NEW c \in AllCells
             PROVE  reserved'[c] = SumQty(ActiveAt(c))' /\ reserved'[c] <= on_hand'[c]
  BY DEF Coherent
<1>1. Wrote(s) BY FinishWrites DEF Ends
<1>2. CASE Same(c)
  <2>1. PICK A \in SUBSET Ids : A = ActiveAt(c) BY DEF ActiveAt
  <2>2. \A r \in A : reservation'[r].qty = reservation[r].qty
    BY <1>1, <2>1, PlacesKeep DEF ActiveAt
  <2>3. SumQty(A)' = SumQty(A) BY <2>2, SumQtyLasts DEF StockInv
  <2>4. SumQty(ActiveAt(c))' = SumQty(A)' BY <1>2, <2>1 DEF SumQty, Same
  <2> QED BY <1>2, <2>1, <2>3, <2>4 DEF Counted, Coherent, Same
<1>3. CASE Balanced(c) BY <1>3 DEF Balanced
<1> QED BY <1>2, <1>3, CellsChange DEF Handled

\* ... and the other transactions find their cell as they left it.
LEMMA OthersPlaced ==
  ASSUME StockInv, Counted, TypeOK', NEW s \in Sessions, Ends(s),
         NEW u \in Sessions \ {s}, tx[u].pc # "idle"
  PROVE  Keeps(tx[u], held[u])'
<1> USE DEF StockInv
<1>1. Wrote(s) BY FinishWrites DEF Ends
<1>2. PICK t : t = tx[u] OBVIOUS
<1>3. PICK k : k = t.cell OBVIOUS
<1>4. tx'[u] = t /\ held'[u] = held[u] BY <1>1, <1>2 DEF Wrote, End, TypeOK
<1>5. Keeps(t, held[u]) /\ Relies(t, held[u]) BY <1>2 DEF Counted, Placed, Carried
<1>6. t.ref \in {0} \cup Ids /\ k \in AllCells BY <1>2, <1>3, TxFields
<1>7. ASSUME t.kind \in {"release", "issue"}, t.ref # 0
      PROVE  reservation'[t.ref].cell = k
  <2>1. t.ref \in Ids BY <1>6, <1>7
  <2>2. reservation[t.ref].status # "none"
    BY <1>2, <1>5, <1>7, <2>1 DEF Relies, Locked
  <2> QED BY <1>1, <1>3, <1>5, <1>7, <2>1, <2>2, PlacesKeep DEF Keeps
<1>8. ASSUME t.pc = "other"
      PROVE  /\ t.freed \subseteq ActiveAt(k)'
             /\ on_hand'[k] - t.qty >= 0 =>
                  SumQty(ActiveAt(k) \ t.freed)' <= on_hand'[k] - t.qty
  <2>1. Same(k)
    <3>1. ~Alone(s, k) BY <1>3, <1>5, <1>8 DEF Alone, Keeps
    <3> QED BY <1>6, <3>1, CellsChange DEF Handled
  <2>2. PICK B \in SUBSET Ids : B = ActiveAt(k) \ t.freed BY DEF ActiveAt
  <2>3. \A r \in B : reservation'[r].qty = reservation[r].qty
    BY <1>1, <2>2, PlacesKeep DEF ActiveAt
  <2>4. SumQty(B)' = SumQty(B) BY <2>3, SumQtyLasts
  <2>5. SumQty(ActiveAt(k) \ t.freed)' = SumQty(B)' BY <2>1, <2>2 DEF SumQty, Same
  <2>6. /\ t.freed \subseteq ActiveAt(k)
        /\ on_hand[k] - t.qty >= 0 => SumQty(B) <= on_hand[k] - t.qty
    BY <1>3, <1>5, <1>8, <2>2 DEF Keeps
  <2>7. t.freed \subseteq ActiveAt(k)' BY <2>1, <2>6 DEF Same
  <2>8. on_hand'[k] = on_hand[k] BY <2>1 DEF Same
  <2> QED BY <2>4, <2>5, <2>6, <2>7, <2>8
<1>9. /\ t.pc \in {"rows", "other"} => <<"cell", k>> \in held[u]
      /\ t.kind = "damage" => k \in Cells
  BY <1>3, <1>5 DEF Keeps
<1> QED BY <1>3, <1>4, <1>7, <1>8, <1>9 DEF Keeps

LEMMA EndsPlaced ==
  ASSUME StockInv, Counted, TypeOK', NEW s \in Sessions, Ends(s)
  PROVE  Placed'
<1>1. Wrote(s) BY FinishWrites DEF Ends
<1>2. tx'[s].pc = "idle" /\ \A u \in Sessions \ {s} : tx'[u] = tx[u]
  BY <1>1 DEF Wrote, End, StockInv, TypeOK, Idle
<1>3. ASSUME NEW u \in Sessions, tx'[u].pc # "idle" PROVE Keeps(tx[u], held[u])'
  <2>1. u \in Sessions \ {s} /\ tx[u].pc # "idle" BY <1>2, <1>3
  <2> QED BY <2>1, OthersPlaced
<1> QED BY <1>3 DEF Placed

-----------------------------------------------------------------------------
(* Transactions that begin or go on are placed.                            *)

\* A step that writes no stock table leaves the balances.
LEMMA CountsSame ==
  ASSUME UNCHANGED stock
  PROVE  /\ Coherent => Coherent'
         /\ Conserved => Conserved'
  BY DEF stock, Coherent, Conserved, ActiveAt, SumQty, Qty, Fitted

\* Whoever takes a step keeps the others in place.
LEMMA MovePlaced ==
  ASSUME StockInv, Counted, NEW s \in Sessions, NEW t, NEW L, Take(s, L),
         tx' = [tx EXCEPT ![s] = t], Keeps(t, held[s] \cup L), UNCHANGED stock
  PROVE  Counted'
<1>1. /\ tx'[s] = t /\ held'[s] = held[s] \cup L
      /\ \A u \in Sessions \ {s} : tx'[u] = tx[u] /\ held'[u] = held[u]
  BY DEF Take, StockInv, TypeOK
<1>2. reservation' = reservation /\ on_hand' = on_hand BY DEF stock
<1>3. \A u \in Sessions : tx'[u].pc # "idle" => Keeps(tx'[u], held'[u])
  BY <1>1 DEF Counted, Placed
<1>4. \A u \in Sessions : Keeps(tx'[u], held'[u]) => Keeps(tx[u], held[u])'
  BY <1>2 DEF Keeps, ActiveAt, SumQty, Qty
<1>5. Placed' BY <1>3, <1>4 DEF Placed
<1> QED BY <1>5, CountsSame DEF Counted

\* A request begins before its cell is locked.
LEMMA BeginPlaced ==
  ASSUME StockInv, Counted, NEW s \in Sessions, NEW t \in Tx, NEW locks,
         Begin(s, t, locks), t.pc \notin {"rows", "other"},
         t.kind \in {"release", "issue"} /\ t.ref # 0 => reservation[t.ref].cell = t.cell,
         t.kind = "damage" => t.cell \in Cells
  PROVE  Counted'
<1>1. requests + 1 \in Ids BY StockAssumption DEF Begin, StockInv, TypeOK, Ids
<1> DEFINE tn == [t EXCEPT !.n = requests + 1]
<1>2. /\ tn.kind = t.kind /\ tn.pc = t.pc /\ tn.ref = t.ref /\ tn.cell = t.cell
  BY DEF Tx
<1>3. Take(s, locks) /\ tx' = [tx EXCEPT ![s] = tn] /\ UNCHANGED stock
  BY DEF Begin
<1> HIDE DEF tn
<1>4. Keeps(tn, held[s] \cup locks) BY <1>2 DEF Keeps
<1> QED BY <1>3, <1>4, MovePlaced

LEMMA RequestPlaced ==
  ASSUME StockInv, Counted, NEW s \in Sessions, BeginRequest(s) PROVE Counted'
<1> USE DEF StockInv
<1>1. ASSUME NEW c \in Cells, NEW q \in Quantities, NEW w \in WorkOrders \cup {None},
             NEW k \in Keys \cup {None}, Reserve(s, c, q, w, k)
      PROVE  Counted'
  <2> DEFINE t == [Idle EXCEPT !.pc = "cell", !.kind = "reserve", !.cell = c, !.qty = q,
                               !.wo = w, !.key = k, !.seen = lapsed]
  <2>1. t \in Tx BY IdleType DEF Tx, TypeOK, AllCells
  <2>2. t.pc = "cell" /\ t.kind = "reserve" BY DEF Idle
  <2>3. Begin(s, t, WorkOrderLock(w)) BY <1>1 DEF Reserve
  <2> HIDE DEF t
  <2> QED BY <2>1, <2>2, <2>3, BeginPlaced
<1>2. ASSUME NEW r \in Ids, Release(s, r) PROVE Counted'
  <2> DEFINE t == [Idle EXCEPT !.pc = "cell", !.kind = "release", !.ref = r,
                               !.cell = reservation[r].cell]
  <2>1. reservation[r].cell \in AllCells BY DEF TypeOK, Reservation
  <2>2. t \in Tx BY <2>1, IdleType DEF Tx
  <2>3. t.pc = "cell" /\ t.kind = "release" /\ t.ref = r /\ t.cell = reservation[r].cell
    BY DEF Idle
  <2>4. Begin(s, t, {<<"update", r>>}) BY <1>2 DEF Release
  <2> HIDE DEF t
  <2> QED BY <2>2, <2>3, <2>4, BeginPlaced
<1>3. ASSUME NEW w \in WorkOrders, NEW c \in Cells, NEW q \in Quantities,
             NEW r \in {0} \cup Ids, BeginIssue(s, w, c, q, r)
      PROVE  Counted'
  <2> DEFINE pc == IF r = 0 THEN "cell" ELSE "insert"
             t == [Idle EXCEPT !.pc = pc, !.kind = "issue",
                               !.cell = c, !.qty = q, !.wo = w, !.ref = r]
  <2>1. pc \in {"cell", "insert"} OBVIOUS
  <2>2. Begin(s, t, WorkOrderLock(w)) /\ (r # 0 => reservation[r].cell = c)
    BY <1>3 DEF BeginIssue, Matches
  <2> HIDE DEF pc
  <2>3. t \in Tx BY <2>1, IdleType DEF Tx, AllCells
  <2>4. t.pc = pc /\ t.kind = "issue" /\ t.cell = c /\ t.ref = r BY DEF Idle
  <2> HIDE DEF t
  <2>5. t.ref # 0 => reservation[t.ref].cell = t.cell BY <2>2, <2>4
  <2>6. t.pc \notin {"rows", "other"} /\ t.kind # "damage" BY <2>1, <2>4
  <2> QED BY <2>2, <2>3, <2>5, <2>6, BeginPlaced
<1>4. ASSUME NEW i \in Ids, NEW q \in Quantities, BeginReturn(s, i, q) PROVE Counted'
  <2> DEFINE t == [Idle EXCEPT !.pc = "issue", !.kind = "return", !.ref = i, !.qty = q,
                               !.cell = issue[i].cell]
  <2>1. issue[i].cell \in AllCells BY DEF TypeOK, Issue
  <2>2. t \in Tx BY <2>1, IdleType DEF Tx
  <2>3. t.pc = "issue" /\ t.kind = "return" BY DEF Idle
  <2>4. Begin(s, t, {}) BY <1>4 DEF BeginReturn
  <2> HIDE DEF t
  <2> QED BY <2>2, <2>3, <2>4, BeginPlaced
<1>5. ASSUME NEW c \in Cells, NEW q \in Quantities, BeginDamage(s, c, q) PROVE Counted'
  <2> DEFINE t == [Idle EXCEPT !.pc = "cell", !.kind = "damage", !.cell = c, !.qty = q,
                               !.seen = ActiveAt(c)]
  <2>1. t \in Tx BY IdleType DEF Tx, AllCells, ActiveAt
  <2>2. t.pc = "cell" /\ t.kind = "damage" /\ t.cell = c BY DEF Idle
  <2>3. Begin(s, t, {}) BY <1>5 DEF BeginDamage
  <2> HIDE DEF t
  <2> QED BY <2>1, <2>2, <2>3, BeginPlaced
<1> QED BY <1>1, <1>2, <1>3, <1>4, <1>5 DEF BeginRequest

\* LockCell takes the balance of the cell; under it a damage picks what it gives up.
LEMMA AdvancePlaced ==
  ASSUME StockInv, Counted, NEW s \in Sessions, Advance(s), ~Abort(s) PROVE Counted'
<1> USE DEF StockInv
<1>1. tx[s] \in Tx /\ tx[s].pc # "idle"
  BY DEF TypeOK, Tx, Advance, InsertIssue, LockIssue, LockCell, FreeReservations
<1>2. Keeps(tx[s], held[s]) BY <1>1 DEF Counted, Placed
<1>3. ASSUME NEW pc \in {"cell", "rows"}, Goto(s, pc), Take(s, Wants(s)), UNCHANGED stock,
             pc = "rows" => Wants(s) = {<<"cell", tx[s].cell>>}
      PROVE  Counted'
  <2> DEFINE t == [tx[s] EXCEPT !.pc = pc]
  <2>1. /\ t.pc = pc /\ t.kind = tx[s].kind /\ t.ref = tx[s].ref /\ t.cell = tx[s].cell
    BY <1>1 DEF Tx
  <2>2. tx' = [tx EXCEPT ![s] = t] BY <1>3 DEF Goto, TypeOK
  <2> HIDE DEF t
  <2>3. Keeps(t, held[s] \cup Wants(s)) BY <1>2, <1>3, <2>1 DEF Keeps
  <2> QED BY <1>3, <2>2, <2>3, MovePlaced
<1>4. CASE FreeReservations(s)
  <2>1. PICK d : d = tx[s] OBVIOUS
  <2>2. PICK k : k = d.cell OBVIOUS
  <2> DEFINE t == [tx[s] EXCEPT !.pc = "other", !.freed = Touched(tx[s])]
  <2>3. /\ d.pc = "rows" /\ d.kind = "damage" /\ Take(s, Wants(s))
        /\ tx' = [tx EXCEPT ![s] = t] /\ UNCHANGED stock
    BY <1>4, <2>1 DEF FreeReservations, TypeOK
  <2>4. /\ t.pc = "other" /\ t.kind = "damage" /\ t.cell = k /\ t.qty = d.qty
        /\ t.freed = FreedFor(k, d.qty)
    <3>1. Touched(d) = FreedFor(k, d.qty) BY <2>2, <2>3 DEF Touched
    <3> QED BY <1>1, <2>1, <2>2, <2>3, <3>1 DEF Tx
  <2> HIDE DEF t
  <2>5. k \in AllCells /\ d.qty \in Nat BY <2>1, <2>2, TxFields
  <2>6. <<"cell", k>> \in held[s] /\ k \in Cells BY <1>2, <2>1, <2>2, <2>3 DEF Keeps
  <2>7. FreedFor(k, d.qty) \subseteq ActiveAt(k) BY DEF FreedFor
  <2>8. on_hand[k] - d.qty >= 0 =>
          SumQty(ActiveAt(k) \ FreedFor(k, d.qty)) <= on_hand[k] - d.qty
    BY <2>5, FreedEnough DEF Counted
  <2>9. Keeps(t, held[s] \cup Wants(s)) BY <2>4, <2>6, <2>7, <2>8 DEF Keeps
  <2> QED BY <2>3, <2>9, MovePlaced
<1>5. CASE InsertIssue(s) BY <1>3, <1>5 DEF InsertIssue
<1>6. CASE LockIssue(s) BY <1>3, <1>6 DEF LockIssue
<1>7. CASE LockCell(s)
  <2>1. Wants(s) = {<<"cell", tx[s].cell>>} BY <1>7, WantsAreLocks DEF LockCell
  <2> QED BY <1>3, <1>7, <2>1 DEF LockCell
<1> QED BY <1>4, <1>5, <1>6, <1>7 DEF Advance

-----------------------------------------------------------------------------
(* Units.                                                                  *)

\* The cells and the ids are finite, and what lies in them and is fitted are numbers.
LEMMA UnitsFacts ==
  ASSUME TypeOK
  PROVE  /\ IsFiniteSet(AllCells) /\ IsFiniteSet(Ids)
         /\ \A c \in AllCells : on_hand[c] \in Int
         /\ \A i \in Ids : Fitted[i] \in Int
<1>1. IsFiniteSet(AllCells) BY StockAssumption, FS_AddElement DEF AllCells
<1>2. IsFiniteSet(Ids) BY StockAssumption, FS_Interval DEF Ids
<1>3. \A c \in AllCells : on_hand[c] \in Int BY DEF TypeOK
<1>4. \A i \in Ids : issue[i].qty \in Int /\ issue[i].returned \in Int BY DEF TypeOK, Issue
<1>5. \A i \in Ids : Fitted[i] \in Int BY <1>4 DEF Fitted
<1> QED BY <1>1, <1>2, <1>3, <1>5

\* Units that move between one cell and one issue.
LEMMA FittingConserves ==
  ASSUME TypeOK, Conserved, NEW k \in AllCells, NEW i \in Ids, NEW d \in Int,
         on_hand'[k] = on_hand[k] - d, \A c \in AllCells \ {k} : on_hand'[c] = on_hand[c],
         Fitted'[i] = Fitted[i] + d, \A j \in Ids \ {i} : Fitted'[j] = Fitted[j]
  PROVE  Conserved'
<1>1. on_hand[k] \in Int /\ on_hand'[k] \in Int BY UnitsFacts
<1>2. Fitted[i] \in Int /\ Fitted'[i] \in Int BY UnitsFacts
<1>3. PICK a : a = SumFunctionOnSet(on_hand, AllCells) OBVIOUS
<1>4. PICK b : b = SumFunctionOnSet(Fitted, Ids) OBVIOUS
<1>5. a \in Int /\ b \in Int BY <1>3, <1>4, UnitsFacts, SumType
<1>6. SumFunctionOnSet(on_hand', AllCells) = a + on_hand'[k] - on_hand[k]
  BY <1>1, <1>3, UnitsFacts, SumChange
<1>7. SumFunctionOnSet(Fitted', Ids) = b + Fitted'[i] - Fitted[i]
  BY <1>2, <1>4, UnitsFacts, SumChange
<1>8. SumFunctionOnSet(on_hand', AllCells) + SumFunctionOnSet(Fitted', Ids) = a + b
  BY <1>1, <1>2, <1>5, <1>6, <1>7
<1> QED BY <1>3, <1>4, <1>8 DEF Conserved

\* Units that move from one cell to another.
LEMMA MovingConserves ==
  ASSUME TypeOK, Conserved, NEW k \in AllCells, NEW l \in AllCells, k # l, NEW d \in Int,
         on_hand'[k] = on_hand[k] - d, on_hand'[l] = on_hand[l] + d,
         \A c \in AllCells \ {k, l} : on_hand'[c] = on_hand[c], issue' = issue
  PROVE  Conserved'
<1> DEFINE m == [c \in AllCells |-> IF c = k THEN on_hand[c] - d ELSE on_hand[c]]
<1>1. \A c \in AllCells : on_hand[c] \in Int BY UnitsFacts
<1>2. /\ \A c \in AllCells : m[c] \in Int
      /\ m[k] = on_hand[k] - d /\ m[l] = on_hand[l]
      /\ \A c \in AllCells \ {k} : m[c] = on_hand[c]
      /\ \A c \in AllCells \ {l} : on_hand'[c] = m[c]
      /\ on_hand'[l] = m[l] + d
  BY <1>1
<1> HIDE DEF m
<1>3. PICK a : a = SumFunctionOnSet(on_hand, AllCells) OBVIOUS
<1>4. PICK b : b = SumFunctionOnSet(m, AllCells) OBVIOUS
<1>5. a \in Int /\ b \in Int BY <1>1, <1>2, <1>3, <1>4, UnitsFacts, SumType
<1>6. b = a + m[k] - on_hand[k] BY <1>1, <1>2, <1>3, <1>4, UnitsFacts, SumChange
<1>7. on_hand'[l] \in Int BY <1>2
<1>8. SumFunctionOnSet(on_hand', AllCells) = b + on_hand'[l] - m[l]
  BY <1>2, <1>4, <1>7, UnitsFacts, SumChange
<1>9. SumFunctionOnSet(on_hand', AllCells) = a BY <1>1, <1>2, <1>5, <1>6, <1>8
<1>10. Fitted' = Fitted BY DEF Fitted
<1> QED BY <1>3, <1>9, <1>10 DEF Conserved

LEMMA EndsConserved ==
  ASSUME StockInv, Counted, NEW s \in Sessions, Ends(s)
  PROVE  Conserved'
<1> USE DEF StockInv, Counted
<1>1. PICK t : t = tx[s] OBVIOUS
<1>2. PICK k : k = t.cell OBVIOUS
<1>3. k \in AllCells /\ t.qty \in Nat BY <1>1, <1>2, TxFields
<1>4. CASE on_hand' = on_hand /\ issue' = issue BY <1>4 DEF Conserved, Fitted
<1>5. CASE IssuePart(s) /\ ~Abort(s)
  <2>1. PICK n : n = t.n OBVIOUS
  <2>2. /\ on_hand' = [on_hand EXCEPT ![k] = @ - t.qty]
        /\ issue' = [issue EXCEPT ![n] = [qty |-> t.qty, cell |-> t.cell, wo |-> t.wo,
                                          res |-> t.ref, returned |-> 0]]
        /\ t.pc = "rows"
    BY <1>1, <1>2, <1>5, <2>1 DEF IssuePart
  <2>3. n \in Ids /\ Unwritten(n)
    BY <1>1, <2>1, <2>2, StockAssumption DEF Numbered, TypeOK, Ids
  <2>4. issue[n].qty = 0 /\ issue[n].returned = 0
    BY <2>3 DEF Unwritten, ReturnsWithinIssue, TypeOK, Issue
  <2>5. Fitted[n] = 0 /\ Fitted'[n] = t.qty
    <3>1. issue'[n].qty = t.qty /\ issue'[n].returned = 0 BY <2>2, <2>3 DEF TypeOK
    <3> QED BY <1>3, <2>3, <2>4, <3>1 DEF Fitted
  <2>6. \A j \in Ids \ {n} : Fitted'[j] = Fitted[j] BY <2>2 DEF Fitted, TypeOK
  <2>7. /\ on_hand'[k] = on_hand[k] - t.qty
        /\ \A c \in AllCells \ {k} : on_hand'[c] = on_hand[c]
    BY <1>3, <2>2 DEF TypeOK
  <2>8. Fitted'[n] = Fitted[n] + t.qty BY <1>3, <2>5
  <2> QED BY <1>3, <2>3, <2>6, <2>7, <2>8, FittingConserves
<1>6. CASE ReturnPart(s)
  <2>1. PICK i : i = t.ref OBVIOUS
  <2>2. /\ on_hand' = [on_hand EXCEPT ![k] = @ + t.qty]
        /\ issue' = [issue EXCEPT ![i].returned = @ + t.qty]
        /\ t.pc = "rows" /\ t.kind = "return"
    BY <1>1, <1>2, <1>6, <2>1 DEF ReturnPart
  <2>3. i \in Ids BY <1>1, <2>1, <2>2 DEF Carried, Relies
  <2>4. issue[i] \in Issue BY <2>3 DEF TypeOK
  <2>5. issue'[i].qty = issue[i].qty /\ issue'[i].returned = issue[i].returned + t.qty
    BY <2>2, <2>3, <2>4 DEF TypeOK, Issue
  <2>6. Fitted'[i] = Fitted[i] + (0 - t.qty)
    BY <1>3, <2>3, <2>4, <2>5 DEF Fitted, Issue
  <2>7. \A j \in Ids \ {i} : Fitted'[j] = Fitted[j] BY <2>2 DEF Fitted, TypeOK
  <2>8. /\ on_hand'[k] = on_hand[k] - (0 - t.qty)
        /\ \A c \in AllCells \ {k} : on_hand'[c] = on_hand[c]
    BY <1>3, <2>2 DEF TypeOK
  <2>9. 0 - t.qty \in Int BY <1>3
  <2> QED BY <1>3, <2>3, <2>6, <2>7, <2>8, <2>9, FittingConserves
<1>7. CASE RecordDamage(s) /\ ~Abort(s)
  <2>1. /\ on_hand' = [on_hand EXCEPT ![k] = @ - t.qty, ![Quarantine] = @ + t.qty]
        /\ issue' = issue /\ t.pc = "other"
    BY <1>1, <1>2, <1>7 DEF RecordDamage, Moved
  <2>2. Keeps(t, held[s]) /\ Relies(t, held[s]) BY <1>1, <2>1, OwnCell
  <2>3. k \in Cells /\ k # Quarantine /\ Quarantine \in AllCells
    BY <1>2, <2>1, <2>2, StockAssumption DEF Keeps, Relies, AllCells
  <2>4. /\ on_hand'[k] = on_hand[k] - t.qty
        /\ on_hand'[Quarantine] = on_hand[Quarantine] + t.qty
        /\ \A c \in AllCells \ {k, Quarantine} : on_hand'[c] = on_hand[c]
    BY <1>3, <2>1, <2>3 DEF TypeOK
  <2>5. PICK l \in AllCells : l = Quarantine BY <2>3
  <2>6. k # l /\ t.qty \in Int BY <1>3, <2>3, <2>5
  <2>7. /\ on_hand'[l] = on_hand[l] + t.qty
        /\ \A c \in AllCells \ {k, l} : on_hand'[c] = on_hand[c]
    BY <2>4, <2>5
  <2>8. PICK d \in Int : d = t.qty BY <2>6
  <2>9. /\ on_hand'[k] = on_hand[k] - d /\ on_hand'[l] = on_hand[l] + d
        /\ \A c \in AllCells \ {k, l} : on_hand'[c] = on_hand[c]
    BY <2>4, <2>7, <2>8
  <2>10. TypeOK /\ Conserved /\ issue' = issue /\ k \in AllCells /\ k # l BY <1>3, <2>1, <2>6
  <2> QED BY <2>9, <2>10, MovingConserves
<1>8. CASE Abort(s) BY <1>4, <1>8 DEF Abort, stock
<1>9. CASE (ReserveStock(s) \/ ReleaseReservation(s)) /\ ~Abort(s)
  BY <1>4, <1>9 DEF ReserveStock, ReleaseReservation
<1> QED BY <1>5, <1>6, <1>7, <1>8, <1>9 DEF Ends, Finish

\* After the opening count everything lies in the cells that were counted.
LEMMA InitCounted == Init => Counted
<1> SUFFICES ASSUME Init PROVE Counted OBVIOUS
<1>1. TypeOK BY InitTypeOK
<1>2. Placed BY DEF Init, Placed, Idle
<1>3. Coherent
  <2>1. \A c \in AllCells : ActiveAt(c) = {} BY DEF Init, ActiveAt, NoReservation
  <2>2. SumQty({}) = 0 BY FS_EmptySet, SumStep DEF SumQty
  <2>3. \A c \in AllCells : reserved[c] = 0 /\ on_hand[c] \in Nat BY <1>1 DEF Init, TypeOK
  <2> QED BY <2>1, <2>2, <2>3 DEF Coherent
<1>4. Conserved
  <2>1. \A c \in Cells : on_hand[c] = Opening[c] BY DEF Init, AllCells
  <2>2. on_hand[Quarantine] = 0 BY StockAssumption DEF Init, AllCells
  <2>3. SumFunctionOnSet(on_hand, Cells) = SumFunctionOnSet(Opening, Cells)
    BY <2>1, StockAssumption, SumSame
  <2>4. SumFunctionOnSet(on_hand, Cells \cup {Quarantine})
          = SumFunctionOnSet(on_hand, Cells) + on_hand[Quarantine]
    <3>1. \A c \in Cells \cup {Quarantine} : on_hand[c] \in Int
      BY <1>1, UnitsFacts DEF AllCells
    <3> QED BY <3>1, StockAssumption, SumAdd
  <2>5. \A i \in Ids : Fitted[i] = 0 BY DEF Init, Fitted, NoIssue
  <2>6. SumFunctionOnSet(Fitted, Ids) = 0
    <3>1. IsFiniteSet(Ids) BY <1>1, UnitsFacts
    <3> QED BY <2>5, <3>1, SumZero
  <2>7. SumFunctionOnSet(Opening, Cells) \in Int
    <3>1. \A c \in Cells : Opening[c] \in Int BY StockAssumption
    <3> QED BY <3>1, StockAssumption, SumType
  <2> QED BY <2>2, <2>3, <2>4, <2>6, <2>7 DEF Conserved, AllCells
<1> QED BY <1>2, <1>3, <1>4 DEF Counted

\* Steps that are not a request's change none of it.
LEMMA QuietCounts ==
  ASSUME Counted, Environment \/ UNCHANGED vars PROVE Counted'
<1>1. UNCHANGED stock /\ UNCHANGED <<tx, held>>
  BY DEF Environment, Lapse, CloseWorkOrder, vars, stock
<1>2. Placed'
  <2>1. \A u \in Sessions : Keeps(tx[u], held[u]) => Keeps(tx[u], held[u])'
    BY <1>1 DEF Keeps, ActiveAt, SumQty, Qty, stock
  <2> QED BY <1>1, <2>1 DEF Counted, Placed
<1> QED BY <1>1, <1>2, CountsSame DEF Counted

\* Every step keeps the balances, given the locks that StockInv is about.
LEMMA StepCounted == StockInv /\ Counted /\ [Next]_vars => Counted'
<1> SUFFICES ASSUME StockInv, Counted, [Next]_vars PROVE Counted' OBVIOUS
<1>1. TypeOK' BY StepTypeOK DEF StockInv
<1>2. ASSUME NEW s \in Sessions, Ends(s) PROVE Counted'
  BY <1>1, <1>2, EndsPlaced, EndsCoherent, EndsConserved DEF Counted
<1>3. ASSUME NEW s \in Sessions, Advance(s) PROVE Counted'
  <2>1. tx[s].pc # "idle" BY <1>3 DEF Advance, InsertIssue, LockIssue, LockCell, FreeReservations
  <2> QED BY <1>2, <1>3, <2>1, AdvancePlaced DEF Ends
<1>4. ASSUME NEW s \in Sessions,
             BeginRequest(s) \/ Advance(s) \/ Finish(s) \/ Rollback(s)
      PROVE  Counted'
  BY <1>2, <1>3, <1>4, RequestPlaced DEF Ends, Rollback
<1> QED BY <1>4, QuietCounts DEF Next

LEMMA StockCounted == Spec => []Counted
  BY InitCounted, StepCounted, StockInductive, PTL DEF Spec

\* The balances are the sums of the active reservations and never promise what is not
\* there, for any quantities and any number of requests: a balance is changed under
\* its lock only, and what a damage gives up covers what it takes away.
THEOREM BalancesCoherent == Spec => []Coherent
<1>1. Counted => Coherent BY DEF Counted
<1> QED BY <1>1, StockCounted, PTL

\* Every unit of the opening count is in a cell, in quarantine or fitted to a work
\* order, whatever is issued, returned and damaged at once.
THEOREM UnitsConserved == Spec => []Conserved
<1>1. Counted => Conserved BY DEF Counted
<1> QED BY <1>1, StockCounted, PTL

-----------------------------------------------------------------------------
(* Releases that are announced.                                            *)

\* What a damage saw when it began exists, so what of it is active no longer has ended.
Seen == \A s \in Sessions : tx[s].kind = "damage" =>
          \A r \in tx[s].seen : reservation[r].status # "none"

Announced == ReleasedNotActive /\ Seen

\* A request that ends announces what it released, or what has ended before.
LEMMA EndsAnnounced ==
  ASSUME StockInv, Announced, NEW s \in Sessions, Ends(s) PROVE Announced'
<1> USE DEF StockInv
<1>1. Wrote(s) BY FinishWrites DEF Ends
<1>2. Seen'
  <2>1. ASSUME NEW u \in Sessions, tx'[u].kind = "damage", NEW r \in tx'[u].seen
        PROVE  reservation'[r].status # "none"
    <3>1. tx'[u] = tx[u] BY <1>1, <2>1 DEF Wrote, End, TypeOK, Idle
    <3>2. r \in Ids BY <2>1, <3>1, TxFields
    <3>3. reservation[r].status # "none" BY <2>1, <3>1 DEF Announced, Seen
    <3> QED BY <1>1, <3>2, <3>3, ReservationsKeep
  <2> QED BY <2>1 DEF Seen
<1>3. ASSUME NEW r \in Ids, reservation[r].status \notin {"none", "active"}
      PROVE  reservation'[r].status \notin {"none", "active"}
  BY <1>1, <1>3, ReservationsKeep
<1>4. ASSUME NEW r \in Ids, <<"stock.reservation.released", r>> \in events',
             <<"stock.reservation.released", r>> \notin events
      PROVE  reservation'[r].status \notin {"none", "active"}
  <2>1. reservation[r] \in Reservation BY DEF TypeOK
  <2>2. CASE Abort(s) BY <1>4, <2>2 DEF Abort, stock
  <2>3. CASE ReserveStock(s) /\ ~Abort(s) BY <1>4, <2>3 DEF ReserveStock
  <2>4. CASE ReleaseReservation(s) /\ ~Abort(s)
    <3>1. /\ events' = events \cup {<<"stock.reservation.released", tx[s].ref>>}
          /\ reservation' = WithStatus({tx[s].ref}, "released")
      BY <2>4 DEF ReleaseReservation
    <3>2. r = tx[s].ref BY <1>4, <3>1
    <3>3. reservation'[r].status = "released" BY <2>1, <3>1, <3>2 DEF WithStatus, Reservation
    <3> QED BY <3>3
  <2>5. CASE IssuePart(s) /\ ~Abort(s) BY <1>4, <2>5 DEF IssuePart
  <2>6. CASE ReturnPart(s) BY <1>4, <2>6 DEF ReturnPart
  <2>7. CASE RecordDamage(s) /\ ~Abort(s)
    <3>1. PICK t : t = tx[s] OBVIOUS
    <3>2. /\ t.pc = "other" /\ reservation' = WithStatus(t.freed, "released")
          /\ events' = events \cup {<<"stock.reservation.released", q>> : q \in GoneSince(t)}
      BY <2>7, <3>1 DEF RecordDamage
    <3>3. r \in t.seen /\ (r \in t.freed \/ reservation[r].status # "active")
      BY <1>4, <3>2 DEF GoneSince
    <3>4. CASE r \in t.freed
      <4>1. reservation'[r].status = "released" BY <2>1, <3>2, <3>4 DEF WithStatus, Reservation
      <4> QED BY <4>1
    <3>5. CASE r \notin t.freed
      <4>1. t.kind = "damage" BY <1>1, <3>1, <3>2 DEF Wrote, Carried, Relies
      <4>2. reservation[r].status # "none" BY <3>1, <3>3, <4>1 DEF Announced, Seen
      <4> QED BY <1>3, <3>3, <3>5, <4>2
    <3> QED BY <3>4, <3>5
  <2> QED BY <2>2, <2>3, <2>4, <2>5, <2>6, <2>7 DEF Ends, Finish
<1>5. ReleasedNotActive' BY <1>3, <1>4 DEF Announced, ReleasedNotActive
<1> QED BY <1>2, <1>5 DEF Announced

\* The others announce nothing, and a damage that begins sees what is there.
LEMMA OthersAnnounced ==
  ASSUME StockInv, Announced, UNCHANGED stock,
         \/ UNCHANGED tx
         \/ \E s \in Sessions : BeginRequest(s) \/ (Advance(s) /\ ~Abort(s))
  PROVE  Announced'
<1> USE DEF StockInv
<1>1. ReleasedNotActive' BY DEF Announced, ReleasedNotActive, stock
<1>2. reservation' = reservation BY DEF stock
<1>3. CASE UNCHANGED tx
  <2>1. \A u \in Sessions : tx'[u] = tx[u] BY <1>3
  <2>2. Seen' BY <1>2, <2>1 DEF Announced, Seen
  <2> QED BY <1>1, <2>2 DEF Announced
<1>4. ASSUME NEW s \in Sessions, NEW t, tx' = [tx EXCEPT ![s] = t],
             t.kind = "damage" => \A r \in t.seen : reservation[r].status # "none"
      PROVE  Seen'
  BY <1>2, <1>4 DEF Announced, Seen, TypeOK
<1>5. ASSUME NEW s \in Sessions, NEW t \in Tx, NEW locks, Begin(s, t, locks),
             t.kind = "damage" => \A r \in t.seen : reservation[r].status # "none"
      PROVE  Seen'
  <2>1. requests + 1 \in Ids BY <1>5, StockAssumption DEF Begin, TypeOK, Ids
  <2> DEFINE tn == [t EXCEPT !.n = requests + 1]
  <2>2. tn.kind = t.kind /\ tn.seen = t.seen BY DEF Tx
  <2>3. tx' = [tx EXCEPT ![s] = tn] BY <1>5 DEF Begin
  <2> HIDE DEF tn
  <2> QED BY <1>4, <1>5, <2>2, <2>3
<1>6. ASSUME NEW s \in Sessions, BeginRequest(s) PROVE Seen'
  <2>1. ASSUME NEW c \in Cells, NEW q \in Quantities, NEW w \in WorkOrders \cup {None},
               NEW k \in Keys \cup {None}, Reserve(s, c, q, w, k)
        PROVE  Seen'
    <3> DEFINE t == [Idle EXCEPT !.pc = "cell", !.kind = "reserve", !.cell = c, !.qty = q,
                                 !.wo = w, !.key = k, !.seen = lapsed]
    <3>1. t \in Tx /\ t.kind = "reserve" BY IdleType DEF Tx, TypeOK, AllCells
    <3>2. Begin(s, t, WorkOrderLock(w)) BY <2>1 DEF Reserve
    <3> HIDE DEF t
    <3> QED BY <1>5, <3>1, <3>2
  <2>2. ASSUME NEW r \in Ids, Release(s, r) PROVE Seen'
    <3> DEFINE t == [Idle EXCEPT !.pc = "cell", !.kind = "release", !.ref = r,
                                 !.cell = reservation[r].cell]
    <3>1. reservation[r].cell \in AllCells BY DEF TypeOK, Reservation
    <3>2. t \in Tx /\ t.kind = "release" BY <3>1, IdleType DEF Tx
    <3>3. Begin(s, t, {<<"update", r>>}) BY <2>2 DEF Release
    <3> HIDE DEF t
    <3> QED BY <1>5, <3>2, <3>3
  <2>3. ASSUME NEW w \in WorkOrders, NEW c \in Cells, NEW q \in Quantities,
               NEW r \in {0} \cup Ids, BeginIssue(s, w, c, q, r)
        PROVE  Seen'
    <3> DEFINE pc == IF r = 0 THEN "cell" ELSE "insert"
               t == [Idle EXCEPT !.pc = pc, !.kind = "issue",
                                 !.cell = c, !.qty = q, !.wo = w, !.ref = r]
    <3>1. pc \in {"cell", "insert"} OBVIOUS
    <3>2. Begin(s, t, WorkOrderLock(w)) BY <2>3 DEF BeginIssue
    <3> HIDE DEF pc
    <3>3. t \in Tx /\ t.kind = "issue" BY <3>1, IdleType DEF Tx, AllCells
    <3> HIDE DEF t
    <3> QED BY <1>5, <3>2, <3>3
  <2>4. ASSUME NEW i \in Ids, NEW q \in Quantities, BeginReturn(s, i, q) PROVE Seen'
    <3> DEFINE t == [Idle EXCEPT !.pc = "issue", !.kind = "return", !.ref = i, !.qty = q,
                                 !.cell = issue[i].cell]
    <3>1. issue[i].cell \in AllCells BY DEF TypeOK, Issue
    <3>2. t \in Tx /\ t.kind = "return" BY <3>1, IdleType DEF Tx
    <3>3. Begin(s, t, {}) BY <2>4 DEF BeginReturn
    <3> HIDE DEF t
    <3> QED BY <1>5, <3>2, <3>3
  <2>5. ASSUME NEW c \in Cells, NEW q \in Quantities, BeginDamage(s, c, q) PROVE Seen'
    <3> DEFINE t == [Idle EXCEPT !.pc = "cell", !.kind = "damage", !.cell = c, !.qty = q,
                                 !.seen = ActiveAt(c)]
    <3>1. t \in Tx /\ t.seen = ActiveAt(c) BY IdleType DEF Tx, AllCells, ActiveAt
    <3>2. Begin(s, t, {}) BY <2>5 DEF BeginDamage
    <3>3. \A r \in ActiveAt(c) : reservation[r].status # "none" BY DEF ActiveAt
    <3> HIDE DEF t
    <3> QED BY <1>5, <3>1, <3>2, <3>3
  <2> QED BY <1>6, <2>1, <2>2, <2>3, <2>4, <2>5 DEF BeginRequest
<1>7. ASSUME NEW s \in Sessions, Advance(s), ~Abort(s) PROVE Seen'
  <2>1. PICK t : tx' = [tx EXCEPT ![s] = t] /\ t.kind = tx[s].kind /\ t.seen = tx[s].seen
    <3>1. tx[s] \in Tx BY DEF TypeOK, Tx
    <3>2. ASSUME NEW pc, tx' = [tx EXCEPT ![s].pc = pc]
          PROVE  \E t : tx' = [tx EXCEPT ![s] = t] /\ t.kind = tx[s].kind /\ t.seen = tx[s].seen
      <4> DEFINE v == [tx[s] EXCEPT !.pc = pc]
      <4>1. v.kind = tx[s].kind /\ v.seen = tx[s].seen BY <3>1 DEF Tx
      <4>2. tx' = [tx EXCEPT ![s] = v] BY <3>2 DEF TypeOK
      <4> HIDE DEF v
      <4> QED BY <4>1, <4>2
    <3>3. ASSUME FreeReservations(s)
          PROVE  \E t : tx' = [tx EXCEPT ![s] = t] /\ t.kind = tx[s].kind /\ t.seen = tx[s].seen
      <4> DEFINE v == [tx[s] EXCEPT !.pc = "other", !.freed = Touched(tx[s])]
      <4>1. v.kind = tx[s].kind /\ v.seen = tx[s].seen BY <3>1 DEF Tx
      <4>2. tx' = [tx EXCEPT ![s] = v] BY <3>3 DEF FreeReservations, TypeOK
      <4> HIDE DEF v
      <4> QED BY <4>1, <4>2
    <3> QED BY <1>7, <3>2, <3>3 DEF Advance, InsertIssue, LockIssue, LockCell, Goto
  <2>2. t.kind = "damage" => \A r \in t.seen : reservation[r].status # "none"
    BY <2>1 DEF Announced, Seen
  <2> QED BY <1>4, <2>1, <2>2
<1> QED BY <1>1, <1>3, <1>6, <1>7 DEF Announced

LEMMA StepAnnounced == StockInv /\ Announced /\ [Next]_vars => Announced'
<1> SUFFICES ASSUME StockInv, Announced, [Next]_vars PROVE Announced' OBVIOUS
<1>1. ASSUME NEW s \in Sessions, BeginRequest(s) \/ (Advance(s) /\ ~Abort(s))
      PROVE  UNCHANGED stock
  BY <1>1 DEF BeginRequest, Begin, Reserve, Release, BeginIssue, BeginReturn, BeginDamage,
              Advance, InsertIssue, LockIssue, LockCell, FreeReservations
<1>2. CASE Environment \/ UNCHANGED vars
  <2>1. UNCHANGED stock /\ UNCHANGED tx
    BY <1>2 DEF Environment, Lapse, CloseWorkOrder, vars, stock
  <2> QED BY <2>1, OthersAnnounced
<1>3. ASSUME NEW s \in Sessions, BeginRequest(s) \/ Advance(s) \/ Finish(s) \/ Rollback(s)
      PROVE  Announced'
  <2>1. CASE Ends(s) BY <2>1, EndsAnnounced
  <2>2. CASE Advance(s) /\ Abort(s)
    <3>1. tx[s].pc # "idle"
      BY <2>2 DEF Advance, InsertIssue, LockIssue, LockCell, FreeReservations
    <3> QED BY <2>1, <2>2, <3>1 DEF Ends
  <2>3. CASE BeginRequest(s) \/ (Advance(s) /\ ~Abort(s))
    BY <1>1, <2>3, OthersAnnounced
  <2> QED BY <1>3, <2>1, <2>2, <2>3 DEF Ends, Rollback
<1> QED BY <1>2, <1>3 DEF Next

\* The outbox never announces the release of a reservation that still holds stock,
\* although recordDamage infers its releases from a list it read before any lock.
THEOREM ReleasesAnnounced == Spec => []ReleasedNotActive
<1>1. Init => Announced
  BY DEF Init, Announced, ReleasedNotActive, Seen, Idle
<1>2. Announced => ReleasedNotActive BY DEF Announced
<1> QED BY <1>1, <1>2, StepAnnounced, StockInductive, PTL DEF Spec

-----------------------------------------------------------------------------
(* Every request is one entry in the book.                                 *)

\* The book is read like the tables.
LEMMA BookReads ==
  /\ \A c : Book!Active(c) = ActiveAt(c)
  /\ \A S : Book!Promised(S) = SumQty(S)
  /\ \A n : Book!Blank(n) <=> Unwritten(n)
  /\ \A R, status : Book!Ended(R, status) = WithStatus(R, status)
<1>1. \A c : Book!Active(c) = ActiveAt(c) BY DEF Book!Active, ActiveAt
<1>2. \A S : Book!Promised(S) = SumQty(S)
  <2>1. \A f, S : Book!SumFunctionOnSet(f, S) = SumFunctionOnSet(f, S)
    BY DEF SumFunctionOnSet, FoldFunctionOnSet, MapThenFoldSet,
           Book!SumFunctionOnSet, Book!FoldFunctionOnSet, Book!MapThenFoldSet
  <2> QED BY <2>1 DEF Book!Promised, SumQty, Qty
<1>3. \A n : Book!Blank(n) <=> Unwritten(n) BY DEF Book!Blank, Unwritten
<1>4. \A R, status : Book!Ended(R, status) = WithStatus(R, status)
  BY DEF Book!Ended, WithStatus
<1> QED BY <1>1, <1>2, <1>3, <1>4

\* What a transaction that is about to write knows of itself.
LEMMA Bearer ==
  ASSUME StockInv, Counted, Brought, NEW s \in Sessions, tx[s].pc \in {"rows", "other"}
  PROVE  /\ tx[s].n \in Ids /\ Unwritten(tx[s].n)
         /\ Keeps(tx[s], held[s]) /\ Relies(tx[s], held[s]) /\ Brings(tx[s])
         /\ tx[s].cell \in AllCells /\ on_hand[tx[s].cell] \in Nat /\ tx[s].qty \in Nat
         /\ reserved[tx[s].cell] = SumQty(ActiveAt(tx[s].cell))
<1>1. tx[s].pc # "idle" OBVIOUS
<1>2. tx[s].n \in Ids /\ Unwritten(tx[s].n)
  BY <1>1, StockAssumption DEF StockInv, Numbered, TypeOK, Ids
<1>3. Brings(tx[s]) BY <1>1 DEF Brought
<1> QED BY <1>2, <1>3, OwnCell DEF Counted, Coherent

\* A reserve: what it has read of expiry dates and keys holds, under the lock of the cell.
LEMMA ReserveEntry ==
  ASSUME StockInv, Counted, Brought, NEW s \in Sessions, ReserveStock(s), ~Abort(s)
  PROVE  Book!BNext
<1> USE DEF StockInv
<1>1. PICK t : t = tx[s] OBVIOUS
<1>2. PICK gone : gone = Stale(t) OBVIOUS
<1>3. /\ t.pc = "rows" /\ t.kind = "reserve" /\ ~Resolved(t.key) /\ Affordable(t)
      /\ reservation' = [WithStatus(gone, "expired") EXCEPT ![t.n] =
           [status |-> "active", cell |-> t.cell, qty |-> t.qty, wo |-> t.wo, key |-> t.key]]
      /\ UNCHANGED <<on_hand, issue, lapsed, open, completed>>
  BY <1>1, <1>2 DEF ReserveStock, End, orders
<1>4. /\ t.n \in Ids /\ Unwritten(t.n) /\ Relies(t, held[s]) /\ Brings(t)
      /\ on_hand[t.cell] \in Nat /\ t.qty \in Nat
  BY <1>1, <1>3, Bearer
<1>5. t.wo \in WorkOrders \cup {None} /\ t.key \in Keys \cup {None} BY <1>1, TxFields
<1>6. t.cell \in Cells /\ t.qty \in Quantities BY <1>3, <1>4 DEF Brings
<1>7. t.wo = None \/ t.wo \in open BY <1>3, <1>4 DEF Relies
<1>8. t.key = None \/ \A r \in Ids : reservation[r].status # "none" => reservation[r].key # t.key
  BY <1>3 DEF Resolved, WithKey
<1>9. gone \in SUBSET (ActiveAt(t.cell) \cap lapsed)
  BY <1>2, <1>3, <1>4 DEF Stale, Brings
<1>10. SumQty(ActiveAt(t.cell) \ gone) + t.qty <= on_hand[t.cell]
  <2>1. ActiveAt(t.cell) \ gone \in SUBSET Ids BY DEF ActiveAt
  <2>2. SumQty(ActiveAt(t.cell) \ gone) \in Nat BY <2>1, SumQtyFacts
  <2>3. t.qty <= on_hand[t.cell] - SumQty(ActiveAt(t.cell) \ gone)
    BY <1>2, <1>3 DEF Affordable
  <2> QED BY <1>4, <2>2, <2>3
<1>11. Book!Reserve(t.n, t.cell, t.qty, t.wo, t.key)
  BY <1>3, <1>7, <1>8, <1>9, <1>10, BookReads DEF Book!Reserve
<1> QED BY <1>4, <1>5, <1>6, <1>11, BookReads DEF Book!BNext

\* A release: the lock it took with its first read keeps the reservation active.
LEMMA ReleaseEntry ==
  ASSUME StockInv, Counted, Brought, NEW s \in Sessions, ReleaseReservation(s), ~Abort(s)
  PROVE  Book!BNext
<1> USE DEF StockInv
<1>1. PICK t : t = tx[s] OBVIOUS
<1>2. /\ t.pc = "rows" /\ t.kind = "release" /\ reservation' = WithStatus({t.ref}, "released")
      /\ UNCHANGED <<on_hand, issue, lapsed, open, completed>>
  BY <1>1 DEF ReleaseReservation, End, orders
<1>3. t.ref \in Ids /\ <<"update", t.ref>> \in held[s] BY <1>1, <1>2, Bearer DEF Relies
<1>4. reservation[t.ref].status = "active" BY <1>3 DEF Locked
<1>5. Book!Release(t.ref) BY <1>2, <1>4, BookReads DEF Book!Release
<1> QED BY <1>3, <1>5 DEF Book!BNext

\* An issue: the reservation it read without a lock still backs it, or was consumed
\* meanwhile; but only one without a work order can have been.
LEMMA IssueEntry ==
  ASSUME StockInv, Counted, Brought, NEW s \in Sessions, IssuePart(s), ~Abort(s)
  PROVE  Book!BNext
<1> USE DEF StockInv
<1>1. PICK t : t = tx[s] OBVIOUS
<1>2. PICK left : left = ConsumeAndPost(t).reserved OBVIOUS
<1>3. /\ t.pc = "rows" /\ t.kind = "issue"
      /\ BalanceChecks(on_hand[t.cell] - t.qty, left)
      /\ left = IF t.ref = 0 THEN reserved[t.cell] ELSE SumQty(ActiveAt(t.cell) \ {t.ref})
      /\ t.ref # 0 => StatusGuard(reservation[t.ref].status, "consumed")
      /\ reservation' = WithStatus({t.ref} \ {0}, "consumed")
      /\ issue' = [issue EXCEPT ![t.n] = [qty |-> t.qty, cell |-> t.cell, wo |-> t.wo,
                                          res |-> t.ref, returned |-> 0]]
      /\ on_hand' = [on_hand EXCEPT ![t.cell] = @ - t.qty]
      /\ UNCHANGED <<lapsed, open, completed>>
  BY <1>1, <1>2 DEF IssuePart, ConsumeAndPost, End, orders
<1>4. /\ t.n \in Ids /\ Unwritten(t.n) /\ Keeps(t, held[s]) /\ Relies(t, held[s]) /\ Brings(t)
      /\ on_hand[t.cell] \in Nat /\ t.qty \in Nat
      /\ reserved[t.cell] = SumQty(ActiveAt(t.cell))
  BY <1>1, <1>3, Bearer
<1>5. t.ref \in {0} \cup Ids BY <1>1, TxFields
<1>6. /\ t.cell \in Cells /\ t.qty \in Quantities /\ t.wo \in open
      /\ t.ref # 0 => t.qty <= reservation[t.ref].qty
  BY <1>3, <1>4 DEF Brings, Relies
<1>7. t.wo \in WorkOrders BY <1>6 DEF TypeOK
<1>8. ASSUME t.ref # 0 PROVE Book!Backs(t.ref, t.wo, t.cell, t.qty)
  <2>1. reservation[t.ref].cell = t.cell BY <1>3, <1>4, <1>8 DEF Keeps
  <2>2. /\ reservation[t.ref].wo \in {None, t.wo}
        /\ reservation[t.ref].wo # None => \A i \in Ids : issue[i].res # t.ref
    BY <1>3, <1>4, <1>8 DEF Relies
  <2>3. reservation[t.ref].status \in {"active", "consumed"}
    BY <1>3, <1>8 DEF StatusGuard
  <2>4. reservation[t.ref].status = "consumed" => \E i \in Ids : issue[i].res = t.ref
    BY <1>5, <1>8 DEF Brought, Entered
  <2> QED BY <1>6, <1>8, <2>1, <2>2, <2>3, <2>4 DEF Book!Backs
<1>9. SumQty(ActiveAt(t.cell) \ {t.ref}) + t.qty <= on_hand[t.cell]
  <2>1. ActiveAt(t.cell) \ {t.ref} \in SUBSET Ids BY DEF ActiveAt
  <2>2. SumQty(ActiveAt(t.cell) \ {t.ref}) \in Nat BY <2>1, SumQtyFacts
  <2>3. t.ref = 0 => ActiveAt(t.cell) \ {t.ref} = ActiveAt(t.cell)
    BY DEF ActiveAt, Ids
  <2>4. left = SumQty(ActiveAt(t.cell) \ {t.ref}) BY <1>3, <1>4, <2>3
  <2> QED BY <1>3, <1>4, <2>2, <2>4 DEF BalanceChecks
<1>10. Book!Fit(t.n, t.wo, t.cell, t.qty, t.ref)
  BY <1>3, <1>6, <1>8, <1>9, BookReads DEF Book!Fit
<1> QED BY <1>4, <1>5, <1>6, <1>7, <1>10, BookReads DEF Book!BNext

\* A return: it goes back to where the issue came from, within what the issue left.
LEMMA ReturnEntry ==
  ASSUME StockInv, Counted, Brought, NEW s \in Sessions, ReturnPart(s)
  PROVE  Book!BNext
<1> USE DEF StockInv
<1>1. PICK t : t = tx[s] OBVIOUS
<1>2. /\ t.pc = "rows" /\ t.kind = "return"
      /\ issue' = [issue EXCEPT ![t.ref].returned = @ + t.qty]
      /\ on_hand' = [on_hand EXCEPT ![t.cell] = @ + t.qty]
      /\ UNCHANGED <<reservation, lapsed, open, completed>>
  BY <1>1 DEF ReturnPart, End, orders
<1>3. Relies(t, held[s]) /\ Brings(t) BY <1>1, <1>2, Bearer
<1>4. /\ t.ref \in Ids /\ t.qty \in Quantities /\ t.cell = issue[t.ref].cell
      /\ issue[t.ref].returned + t.qty <= issue[t.ref].qty
  BY <1>2, <1>3 DEF Relies, Brings
<1>5. Book!TakeBack(t.ref, t.qty) BY <1>2, <1>4 DEF Book!TakeBack
<1> QED BY <1>4, <1>5 DEF Book!BNext

\* A damage: what it gave up before it waited for the quarantine is what it would give
\* up now.
LEMMA DamageEntry ==
  ASSUME StockInv, Counted, Brought, NEW s \in Sessions, RecordDamage(s), ~Abort(s)
  PROVE  Book!BNext
<1> USE DEF StockInv
<1>1. PICK t : t = tx[s] OBVIOUS
<1>2. /\ t.pc = "other" /\ reservation' = WithStatus(t.freed, "released")
      /\ on_hand' = [on_hand EXCEPT ![t.cell] = @ - t.qty, ![Quarantine] = @ + t.qty]
      /\ ~(on_hand[t.cell] - t.qty < 0)
      /\ UNCHANGED <<issue, lapsed, open, completed>>
  BY <1>1 DEF RecordDamage, DamageRefused, Moved, End, orders
<1>3. /\ Relies(t, held[s]) /\ Brings(t) /\ on_hand[t.cell] \in Nat /\ t.qty \in Nat
      /\ reserved[t.cell] = SumQty(ActiveAt(t.cell))
  BY <1>1, <1>2, Bearer
<1>4. t.kind = "damage" BY <1>2, <1>3 DEF Relies
<1>5. t.cell \in Cells /\ t.qty \in Quantities /\ t.freed = FreedFor(t.cell, t.qty)
  BY <1>2, <1>3, <1>4 DEF Brings
<1>6. Book!GivenUp(t.cell, t.qty) = FreedFor(t.cell, t.qty)
  BY <1>3, BookReads DEF Book!GivenUp, FreedFor
<1>7. t.qty <= on_hand[t.cell] BY <1>2, <1>3
<1>8. Book!Damage(t.cell, t.qty)
  BY <1>2, <1>5, <1>6, <1>7, BookReads DEF Book!Damage
<1> QED BY <1>5, <1>8 DEF Book!BNext

\* Every step enters something in the book, or leaves it.
LEMMA StepEnters ==
  StockInv /\ Counted /\ Brought /\ [Next]_vars => [Book!BNext]_(Book!bvars)
<1> SUFFICES ASSUME StockInv, Counted, Brought, [Next]_vars
             PROVE  Book!BNext \/ UNCHANGED Book!bvars
  OBVIOUS
<1>1. CASE UNCHANGED vars BY <1>1 DEF vars, Book!bvars
<1>2. ASSUME NEW r \in Ids, Lapse(r) PROVE Book!BNext
  <2>1. Book!Lapse(r) BY <1>2 DEF Lapse, stock, orders, Book!Lapse
  <2> QED BY <2>1 DEF Book!BNext
<1>3. ASSUME NEW w \in WorkOrders, NEW complete \in BOOLEAN, CloseWorkOrder(w, complete)
      PROVE  Book!BNext
  <2>1. Book!Close(w, complete)
    BY <1>3 DEF CloseWorkOrder, NothingCommitted, stock, Book!Close
  <2> QED BY <2>1 DEF Book!BNext
<1>4. ASSUME NEW s \in Sessions, BeginRequest(s) \/ (Advance(s) /\ ~Abort(s))
      PROVE  UNCHANGED Book!bvars
  BY <1>4 DEF BeginRequest, Begin, Reserve, Release, BeginIssue, BeginReturn, BeginDamage,
              Advance, InsertIssue, LockIssue, LockCell, FreeReservations, stock, orders,
              Book!bvars
<1>5. ASSUME NEW s \in Sessions, Abort(s) PROVE UNCHANGED Book!bvars
  BY <1>5 DEF Abort, End, stock, orders, Book!bvars
<1>6. ASSUME NEW s \in Sessions, Finish(s), ~Abort(s) PROVE Book!BNext
  BY <1>6, ReserveEntry, ReleaseEntry, IssueEntry, ReturnEntry, DamageEntry DEF Finish
<1> QED BY <1>1, <1>2, <1>3, <1>4, <1>5, <1>6 DEF Next, Environment, Rollback


\* Reservations that end stay where they are; nothing is consumed that is not said to be.
LEMMA EndedAt ==
  ASSUME TypeOK, NEW R, NEW status \in Statuses \ {"none"},
         \A r \in R \cap Ids : reservation[r].status # "none"
  PROVE  \A r \in Ids :
           LET v == WithStatus(R, status)[r] IN
           /\ v.cell = reservation[r].cell
           /\ v.status # "none" => reservation[r].status # "none"
           /\ v.status = "consumed" =>
                reservation[r].status = "consumed" \/ (r \in R /\ status = "consumed")
<1> SUFFICES ASSUME NEW r \in Ids
             PROVE  LET v == WithStatus(R, status)[r] IN
                    /\ v.cell = reservation[r].cell
                    /\ v.status # "none" => reservation[r].status # "none"
                    /\ v.status = "consumed" =>
                         reservation[r].status = "consumed" \/ (r \in R /\ status = "consumed")
  OBVIOUS
<1>1. reservation[r] \in Reservation BY DEF TypeOK
<1>2. WithStatus(R, status)[r] = IF r \in R THEN [reservation[r] EXCEPT !.status = status]
                                 ELSE reservation[r]
  BY DEF WithStatus
<1> QED BY <1>1, <1>2 DEF Reservation

\* The entries of the book are at sellable cells, and say what consumed a reservation.
LEMMA EntriesKeep ==
  ASSUME TypeOK, Entered, Book!BNext \/ UNCHANGED Book!bvars
  PROVE  Entered'
<1>0. \A r \in Ids : reservation[r] \in Reservation /\ issue[r] \in Issue BY DEF TypeOK
<1>1. ASSUME UNCHANGED <<reservation, issue>> PROVE Entered' BY <1>1 DEF Entered
<1>2. ASSUME NEW R, NEW status \in {"released", "expired"}, issue' = issue,
             \A r \in R : reservation[r].status = "active",
             reservation' = WithStatus(R, status)
      PROVE  Entered'
  <2>1. \A r \in Ids : /\ reservation'[r].cell = reservation[r].cell
                       /\ reservation'[r].status # "none" => reservation[r].status # "none"
                       /\ reservation'[r].status = "consumed" =>
                            reservation[r].status = "consumed"
    BY <1>2, EndedAt DEF Statuses
  <2> QED BY <1>2, <2>1 DEF Entered
<1>3. ASSUME NEW n \in Ids, NEW c \in Cells, NEW q, NEW w, NEW k, Book!Reserve(n, c, q, w, k)
      PROVE  Entered'
  <2>1. PICK gone \in SUBSET (ActiveAt(c) \cap lapsed) :
          reservation' = [WithStatus(gone, "expired") EXCEPT ![n] =
            [status |-> "active", cell |-> c, qty |-> q, wo |-> w, key |-> k]]
    BY <1>3, BookReads DEF Book!Reserve
  <2>2. issue' = issue BY <1>3 DEF Book!Reserve
  <2>3. \A r \in gone : reservation[r].status = "active" BY DEF ActiveAt
  <2>4. DOMAIN WithStatus(gone, "expired") = Ids BY DEF WithStatus
  <2>5. reservation'[n].cell = c /\ reservation'[n].status = "active" BY <2>1, <2>4
  <2>6. \A r \in Ids \ {n} : reservation'[r] = WithStatus(gone, "expired")[r]
    BY <2>1, <2>4
  <2>7. \A r \in Ids :
          /\ reservation'[r].status # "none" => reservation'[r].cell \in Cells
          /\ reservation'[r].status = "consumed" => reservation[r].status = "consumed"
    <3>1. \A r \in Ids \ {n} :
            /\ reservation'[r].cell = reservation[r].cell
            /\ reservation'[r].status # "none" => reservation[r].status # "none"
            /\ reservation'[r].status = "consumed" => reservation[r].status = "consumed"
      BY <2>3, <2>6, EndedAt DEF Statuses
    <3> QED BY <2>5, <3>1 DEF Entered
  <2> QED BY <2>2, <2>7 DEF Entered
<1>4. ASSUME NEW n \in Ids, Book!Blank(n), NEW c \in Cells, NEW q, NEW w, NEW r \in {0} \cup Ids,
             Book!Fit(n, w, c, q, r)
      PROVE  Entered'
  <2>1. /\ reservation' = WithStatus({r} \ {0}, "consumed")
        /\ issue' = [issue EXCEPT ![n] = [qty |-> q, cell |-> c, wo |-> w, res |-> r,
                                          returned |-> 0]]
        /\ r # 0 => reservation[r].status # "none"
    BY <1>4, BookReads DEF Book!Fit, Book!Backs
  <2>2. /\ issue'[n].cell = c /\ issue'[n].res = r
        /\ \A i \in Ids \ {n} : issue'[i] = issue[i]
    BY <2>1 DEF TypeOK
  <2>3. \A u \in Ids : /\ reservation'[u].cell = reservation[u].cell
                       /\ reservation'[u].status # "none" => reservation[u].status # "none"
                       /\ reservation'[u].status = "consumed" =>
                            reservation[u].status = "consumed" \/ u = r
    BY <2>1, EndedAt DEF Statuses
  <2>4. \A i \in Ids : issue'[i].qty > 0 => issue'[i].cell \in Cells
    BY <2>2 DEF Entered
  <2>5. ASSUME NEW u \in Ids, reservation'[u].status = "consumed"
        PROVE  \E i \in Ids : issue'[i].res = u
    <3>1. CASE u = r BY <2>2, <3>1
    <3>2. CASE reservation[u].status = "consumed"
      <4>1. PICK i \in Ids : issue[i].res = u BY <3>2 DEF Entered
      <4>2. i # n BY <1>4, <4>1 DEF Book!Blank, Ids
      <4> QED BY <2>2, <4>1, <4>2
    <3> QED BY <2>3, <2>5, <3>1, <3>2
  <2> QED BY <2>3, <2>4, <2>5 DEF Entered
<1>5. ASSUME NEW i \in Ids, NEW q \in Quantities, Book!TakeBack(i, q) PROVE Entered'
  <2>1. \A j \in Ids : /\ issue'[j].qty = issue[j].qty /\ issue'[j].cell = issue[j].cell
                       /\ issue'[j].res = issue[j].res
    BY <1>0, <1>5 DEF Book!TakeBack, TypeOK, Issue
  <2>2. reservation' = reservation BY <1>5 DEF Book!TakeBack
  <2> QED BY <2>1, <2>2 DEF Entered
<1>6. ASSUME NEW r \in Ids, Book!Release(r) PROVE Entered'
  <2>1. /\ reservation' = WithStatus({r}, "released") /\ issue' = issue
        /\ reservation[r].status = "active"
    BY <1>6, BookReads DEF Book!Release
  <2> QED BY <1>2, <2>1
<1>7. ASSUME NEW c \in Cells, NEW q \in Quantities, Book!Damage(c, q) PROVE Entered'
  <2>1. PICK R : R = Book!GivenUp(c, q) OBVIOUS
  <2>2. \A r \in R : reservation[r].status = "active"
    BY <2>1 DEF Book!GivenUp, Book!Active
  <2>3. reservation' = WithStatus(R, "released") /\ issue' = issue
    BY <1>7, <2>1, BookReads DEF Book!Damage
  <2> QED BY <1>2, <2>2, <2>3
<1>8. ASSUME \/ \E r \in Ids : Book!Lapse(r)
             \/ \E w \in WorkOrders, complete \in BOOLEAN : Book!Close(w, complete)
             \/ UNCHANGED Book!bvars
      PROVE  Entered'
  BY <1>1, <1>8 DEF Book!Lapse, Book!Close, Book!bvars
<1> QED BY <1>3, <1>4, <1>5, <1>6, <1>7, <1>8 DEF Book!BNext

\* Initially there is nothing to bring.
LEMMA InitBrought == Init => Brought
<1> SUFFICES ASSUME Init PROVE Brought OBVIOUS
<1>1. \A s \in Sessions : tx[s].pc = "idle" BY DEF Init, Idle
<1>2. \A r \in Ids : reservation[r].status = "none" /\ issue[r].qty = 0
  BY DEF Init, NoReservation, NoIssue
<1>3. Entered BY <1>2 DEF Entered
<1> QED BY <1>1, <1>3 DEF Brought

\* A transaction that ends leaves the others what they have brought.
LEMMA OthersBring ==
  ASSUME StockInv, Counted, TypeOK', NEW s \in Sessions, Ends(s),
         NEW u \in Sessions \ {s}, tx[u].pc # "idle", Brings(tx[u])
  PROVE  Brings(tx[u])'
<1> USE DEF StockInv
<1>1. Wrote(s) BY FinishWrites DEF Ends
<1>2. PICK t : t = tx[u] OBVIOUS
<1>3. PICK k : k = t.cell OBVIOUS
<1>4. tx'[u] = t /\ lapsed' = lapsed BY <1>1, <1>2 DEF Wrote, End, TypeOK
<1>5. Brings(t) /\ Relies(t, held[u]) /\ Keeps(t, held[u])
  BY <1>2 DEF Counted, Placed, Carried
<1>6. t.ref \in {0} \cup Ids /\ k \in AllCells /\ t.qty \in Nat BY <1>2, <1>3, TxFields
<1>7. ASSUME t.kind = "issue", t.ref # 0 PROVE reservation'[t.ref].qty = reservation[t.ref].qty
  <2>1. t.ref \in Ids /\ reservation[t.ref].status # "none" BY <1>5, <1>6, <1>7 DEF Relies
  <2> QED BY <1>1, <2>1, PlacesKeep
<1>8. ASSUME t.kind = "return" PROVE issue'[t.ref].cell = issue[t.ref].cell
  <2>1. t.ref \in Ids /\ issue[t.ref].qty > 0 BY <1>5, <1>8 DEF Relies
  <2>2. issue'[t.ref] = issue[t.ref] \/ TakesBack(s, t.ref) \/ Fits(s, t.ref)
    BY <1>1, <2>1 DEF Wrote
  <2>3. ~Fits(s, t.ref) BY <1>1, <2>1 DEF Fits, Wrote, Numbered, Unwritten
  <2>4. issue[t.ref] \in Issue BY <2>1 DEF TypeOK
  <2> QED BY <2>2, <2>3, <2>4 DEF TakesBack, Issue
<1>9. ASSUME t.pc = "other" PROVE FreedFor(k, t.qty)' = FreedFor(k, t.qty)
  <2>1. Same(k)
    <3>1. ~Alone(s, k) BY <1>3, <1>5, <1>9 DEF Alone, Keeps
    <3> QED BY <1>6, <3>1, CellsChange DEF Handled
  <2>2. PICK A \in SUBSET Ids : A = ActiveAt(k) BY DEF ActiveAt
  <2>3. ActiveAt(k)' = A /\ on_hand'[k] = on_hand[k] /\ reserved'[k] = reserved[k]
    BY <2>1, <2>2 DEF Same
  <2>4. \A B \in SUBSET A : SumQty(B)' = SumQty(B)
    <3> SUFFICES ASSUME NEW B \in SUBSET A PROVE SumQty(B)' = SumQty(B) OBVIOUS
    <3>1. \A r \in B : reservation'[r].qty = reservation[r].qty
      BY <1>1, <2>2, PlacesKeep DEF ActiveAt
    <3> QED BY <3>1, SumQtyLasts
  <2>5. \A r \in A : {v \in A : v > r} \in SUBSET A OBVIOUS
  <2>6. PICK q : q = t.qty OBVIOUS
  <2>7. FreedFor(k, q) = {r \in A : reserved[k] - (on_hand[k] - q) > SumQty({v \in A : v > r})}
    BY <2>2 DEF FreedFor
  <2>8. FreedFor(k, q)' = {r \in A : reserved[k] - (on_hand[k] - q)
                                       > SumQty({v \in A : v > r})'}
    BY <2>3 DEF FreedFor
  <2>9. \A r \in A : SumQty({v \in A : v > r})' = SumQty({v \in A : v > r}) BY <2>4, <2>5
  <2> QED BY <2>6, <2>7, <2>8, <2>9
<1>10. /\ t.cell \in Cells /\ (t.kind # "release" => t.qty \in Quantities)
       /\ (t.kind = "reserve" => t.seen \subseteq lapsed')
       /\ t.kind = "issue" /\ t.ref # 0 => t.qty <= reservation'[t.ref].qty
       /\ t.kind = "return" => t.cell = issue'[t.ref].cell
       /\ t.pc = "other" => t.freed = FreedFor(t.cell, t.qty)'
  BY <1>3, <1>4, <1>5, <1>7, <1>8, <1>9 DEF Brings
<1> QED BY <1>4, <1>10 DEF Brings


\* A transaction that ends gives up its locks and leaves the others theirs.
LEMMA EndsBrought ==
  ASSUME StockInv, Counted, Brought, TypeOK', Entered', NEW s \in Sessions, Ends(s)
  PROVE  Brought'
<1>1. Wrote(s) BY FinishWrites DEF Ends
<1>2. tx'[s].pc = "idle"
      /\ \A u \in Sessions \ {s} : tx'[u] = tx[u] /\ held'[u] = held[u]
  BY <1>1 DEF Wrote, End, StockInv, TypeOK, Idle
<1>3. ASSUME NEW u \in Sessions, tx'[u].pc # "idle"
      PROVE  Brings(tx[u])' /\ Holds(tx'[u], held'[u])
  <2>1. u \in Sessions \ {s} /\ tx[u].pc # "idle" BY <1>2, <1>3
  <2>2. Brings(tx[u]) /\ Holds(tx[u], held[u]) BY <2>1 DEF Brought
  <2>3. Brings(tx[u])' BY <2>1, <2>2, OthersBring
  <2> QED BY <1>2, <2>1, <2>2, <2>3
<1>4. \A u \in Sessions : tx'[u].pc # "idle" => Brings(tx[u])' /\ Holds(tx[u], held[u])'
  BY <1>3 DEF Holds
<1> QED BY <1>4 DEF Brought

\* Whoever takes a step without writing leaves the others what they have.
LEMMA MoveBrought ==
  ASSUME StockInv, Brought, NEW s \in Sessions, NEW t, NEW L, Take(s, L),
         tx' = [tx EXCEPT ![s] = t], UNCHANGED <<stock, lapsed>>,
         Brings(t), Holds(t, held[s] \cup L)
  PROVE  Brought'
<1>1. /\ tx'[s] = t /\ held'[s] = held[s] \cup L
      /\ \A u \in Sessions \ {s} : tx'[u] = tx[u] /\ held'[u] = held[u]
  BY DEF Take, StockInv, TypeOK
<1>2. /\ reservation' = reservation /\ issue' = issue /\ on_hand' = on_hand
      /\ reserved' = reserved /\ lapsed' = lapsed
  BY DEF stock
<1>3. \A u \in Sessions : tx'[u].pc # "idle" => Brings(tx'[u]) /\ Holds(tx'[u], held'[u])
  BY <1>1 DEF Brought
<1>4. ASSUME NEW u \in Sessions, Brings(tx'[u]), Holds(tx'[u], held'[u])
      PROVE  Brings(tx[u])' /\ Holds(tx[u], held[u])'
  BY <1>2, <1>4 DEF Brings, Holds, FreedFor, ActiveAt, SumQty, Qty
<1>5. Entered' BY <1>2 DEF Brought, Entered
<1> QED BY <1>3, <1>4, <1>5 DEF Brought

\* A request begins with what it has just read, and at most one row locked.
LEMMA BeginBrought ==
  ASSUME StockInv, Brought, NEW s \in Sessions, NEW t \in Tx, NEW locks,
         Begin(s, t, locks), t.pc # "other", Brings(t), Holds(t, locks)
  PROVE  Brought'
<1>1. requests + 1 \in Ids BY StockAssumption DEF Begin, StockInv, TypeOK, Ids
<1> DEFINE tn == [t EXCEPT !.n = requests + 1]
<1>2. /\ tn.kind = t.kind /\ tn.pc = t.pc /\ tn.ref = t.ref /\ tn.cell = t.cell
      /\ tn.qty = t.qty /\ tn.seen = t.seen /\ tn.freed = t.freed
  BY DEF Tx
<1>3. Take(s, locks) /\ tx' = [tx EXCEPT ![s] = tn] /\ UNCHANGED <<stock, lapsed>>
  BY DEF Begin
<1>4. held[s] = {} BY DEF Begin, StockInv, Locked
<1> HIDE DEF tn
<1>5. Brings(tn) BY <1>2 DEF Brings
<1>6. Holds(tn, held[s] \cup locks) BY <1>2, <1>4 DEF Holds
<1> QED BY <1>3, <1>5, <1>6, MoveBrought

LEMMA RequestBrought ==
  ASSUME StockInv, Brought, NEW s \in Sessions, BeginRequest(s) PROVE Brought'
<1> USE DEF StockInv
<1>0. Entered BY DEF Brought
<1>1. ASSUME NEW c \in Cells, NEW q \in Quantities, NEW w \in WorkOrders \cup {None},
             NEW k \in Keys \cup {None}, Reserve(s, c, q, w, k)
      PROVE  Brought'
  <2> DEFINE t == [Idle EXCEPT !.pc = "cell", !.kind = "reserve", !.cell = c, !.qty = q,
                               !.wo = w, !.key = k, !.seen = lapsed]
  <2>1. t \in Tx BY IdleType DEF Tx, TypeOK, AllCells
  <2>2. t.pc = "cell" /\ t.kind = "reserve" /\ t.cell = c /\ t.qty = q /\ t.seen = lapsed
    BY DEF Idle
  <2>3. Begin(s, t, WorkOrderLock(w)) BY <1>1 DEF Reserve
  <2> HIDE DEF t
  <2>4. Brings(t) BY <2>2 DEF Brings
  <2>5. Holds(t, WorkOrderLock(w)) BY DEF Holds, WorkOrderLock
  <2> QED BY <2>1, <2>2, <2>3, <2>4, <2>5, BeginBrought
<1>2. ASSUME NEW r \in Ids, Release(s, r) PROVE Brought'
  <2> DEFINE t == [Idle EXCEPT !.pc = "cell", !.kind = "release", !.ref = r,
                               !.cell = reservation[r].cell]
  <2>1. reservation[r].cell \in AllCells BY DEF TypeOK, Reservation
  <2>2. t \in Tx BY <2>1, IdleType DEF Tx
  <2>3. t.pc = "cell" /\ t.kind = "release" /\ t.ref = r /\ t.cell = reservation[r].cell
    BY DEF Idle
  <2>4. Begin(s, t, {<<"update", r>>}) /\ reservation[r].status = "active"
    BY <1>2 DEF Release
  <2> HIDE DEF t
  <2>5. Brings(t) BY <1>0, <2>3, <2>4 DEF Brings, Entered
  <2>6. Holds(t, {<<"update", r>>}) BY <2>3 DEF Holds
  <2> QED BY <2>2, <2>3, <2>4, <2>5, <2>6, BeginBrought
<1>3. ASSUME NEW w \in WorkOrders, NEW c \in Cells, NEW q \in Quantities,
             NEW r \in {0} \cup Ids, BeginIssue(s, w, c, q, r)
      PROVE  Brought'
  <2> DEFINE pc == IF r = 0 THEN "cell" ELSE "insert"
             t == [Idle EXCEPT !.pc = pc, !.kind = "issue",
                               !.cell = c, !.qty = q, !.wo = w, !.ref = r]
  <2>1. pc \in {"cell", "insert"} OBVIOUS
  <2>2. Begin(s, t, WorkOrderLock(w)) /\ (r # 0 => q <= reservation[r].qty)
    BY <1>3 DEF BeginIssue, Matches
  <2> HIDE DEF pc
  <2>3. t \in Tx BY <2>1, IdleType DEF Tx, AllCells
  <2>4. t.pc = pc /\ t.kind = "issue" /\ t.cell = c /\ t.ref = r /\ t.qty = q BY DEF Idle
  <2> HIDE DEF t
  <2>5. Brings(t) BY <2>1, <2>2, <2>4 DEF Brings
  <2>6. Holds(t, WorkOrderLock(w)) BY DEF Holds, WorkOrderLock
  <2>7. t.pc # "other" BY <2>1, <2>4
  <2> QED BY <2>2, <2>3, <2>5, <2>6, <2>7, BeginBrought
<1>4. ASSUME NEW i \in Ids, NEW q \in Quantities, BeginReturn(s, i, q) PROVE Brought'
  <2> DEFINE t == [Idle EXCEPT !.pc = "issue", !.kind = "return", !.ref = i, !.qty = q,
                               !.cell = issue[i].cell]
  <2>1. issue[i].cell \in AllCells BY DEF TypeOK, Issue
  <2>2. t \in Tx BY <2>1, IdleType DEF Tx
  <2>3. /\ t.pc = "issue" /\ t.kind = "return" /\ t.cell = issue[i].cell /\ t.ref = i
        /\ t.qty = q
    BY DEF Idle
  <2>4. Begin(s, t, {}) /\ issue[i].qty > 0 BY <1>4 DEF BeginReturn
  <2> HIDE DEF t
  <2>5. Brings(t) BY <1>0, <2>3, <2>4 DEF Brings, Entered
  <2>6. Holds(t, {}) BY DEF Holds
  <2> QED BY <2>2, <2>3, <2>4, <2>5, <2>6, BeginBrought
<1>5. ASSUME NEW c \in Cells, NEW q \in Quantities, BeginDamage(s, c, q) PROVE Brought'
  <2> DEFINE t == [Idle EXCEPT !.pc = "cell", !.kind = "damage", !.cell = c, !.qty = q,
                               !.seen = ActiveAt(c)]
  <2>1. t \in Tx BY IdleType DEF Tx, AllCells, ActiveAt
  <2>2. t.pc = "cell" /\ t.kind = "damage" /\ t.cell = c /\ t.qty = q BY DEF Idle
  <2>3. Begin(s, t, {}) BY <1>5 DEF BeginDamage
  <2> HIDE DEF t
  <2>4. Brings(t) BY <2>2 DEF Brings
  <2>5. Holds(t, {}) BY DEF Holds
  <2> QED BY <2>1, <2>2, <2>3, <2>4, <2>5, BeginBrought
<1> QED BY <1>1, <1>2, <1>3, <1>4, <1>5 DEF BeginRequest

\* Each lock is taken at its place; a damage chooses what it gives up under the lock of
\* its cell.
LEMMA AdvanceBrought ==
  ASSUME StockInv, Brought, NEW s \in Sessions, Advance(s), ~Abort(s) PROVE Brought'
<1> USE DEF StockInv
<1>1. tx[s] \in Tx /\ tx[s].pc # "idle"
  BY DEF TypeOK, Tx, Advance, InsertIssue, LockIssue, LockCell, FreeReservations
<1>2. Brings(tx[s]) /\ Holds(tx[s], held[s]) /\ Relies(tx[s], held[s])
  BY <1>1 DEF Brought, Carried
<1>3. ASSUME NEW pc \in {"cell", "rows"}, Goto(s, pc), Take(s, Wants(s)),
             UNCHANGED <<stock, lapsed>>, tx[s].pc # "other",
             \A t : t.pc = pc /\ t.kind = tx[s].kind /\ t.ref = tx[s].ref
                    /\ t.cell = tx[s].cell /\ t.freed = tx[s].freed
                      => Holds(t, held[s] \cup Wants(s))
      PROVE  Brought'
  <2> DEFINE t == [tx[s] EXCEPT !.pc = pc]
  <2>1. /\ t.pc = pc /\ t.kind = tx[s].kind /\ t.ref = tx[s].ref /\ t.cell = tx[s].cell
        /\ t.qty = tx[s].qty /\ t.seen = tx[s].seen /\ t.freed = tx[s].freed
    BY <1>1 DEF Tx
  <2>2. tx' = [tx EXCEPT ![s] = t] BY <1>3 DEF Goto, TypeOK
  <2> HIDE DEF t
  <2>3. Brings(t) BY <1>2, <1>3, <2>1 DEF Brings
  <2>4. Holds(t, held[s] \cup Wants(s)) BY <1>3, <2>1
  <2> QED BY <1>3, <2>2, <2>3, <2>4, MoveBrought
<1>4. CASE InsertIssue(s)
  <2>1. tx[s].pc = "insert" /\ Wants(s) = {<<"share", tx[s].ref>>} /\ tx[s].kind = "issue"
    BY <1>2, <1>4, WantsAreLocks DEF InsertIssue, Relies
  <2>2. \A t : t.pc = "cell" /\ t.kind = tx[s].kind => Holds(t, held[s] \cup Wants(s))
    BY <1>2, <2>1 DEF Holds
  <2> QED BY <1>3, <1>4, <2>1, <2>2 DEF InsertIssue
<1>5. CASE LockIssue(s)
  <2>1. tx[s].pc = "issue" /\ Wants(s) = {<<"issue", tx[s].ref>>} /\ tx[s].kind = "return"
    BY <1>2, <1>5, WantsAreLocks DEF LockIssue, Relies
  <2>2. \A t : t.pc = "cell" /\ t.kind = tx[s].kind => Holds(t, held[s] \cup Wants(s))
    BY <1>2, <2>1 DEF Holds
  <2> QED BY <1>3, <1>5, <2>1, <2>2 DEF LockIssue
<1>6. CASE LockCell(s)
  <2>1. tx[s].pc = "cell" /\ Wants(s) = {<<"cell", tx[s].cell>>}
    BY <1>6, WantsAreLocks DEF LockCell
  <2>2. \A t : t.pc = "rows" /\ t.kind = tx[s].kind /\ t.ref = tx[s].ref
               /\ t.cell = tx[s].cell /\ t.freed = tx[s].freed
                 => Holds(t, held[s] \cup Wants(s))
    BY <1>2, <2>1 DEF Holds
  <2> QED BY <1>3, <1>6, <2>1, <2>2 DEF LockCell
<1>7. CASE FreeReservations(s)
  <2> DEFINE t == [tx[s] EXCEPT !.pc = "other", !.freed = Touched(tx[s])]
  <2>1. /\ tx[s].pc = "rows" /\ tx[s].kind = "damage" /\ Take(s, Wants(s))
        /\ tx' = [tx EXCEPT ![s] = t] /\ UNCHANGED <<stock, lapsed>>
    BY <1>7 DEF FreeReservations, TypeOK
  <2>2. Wants(s) = {<<"change", r>> : r \in Touched(tx[s])} BY <2>1, WantsAreLocks
  <2>3. /\ t.pc = "other" /\ t.kind = "damage" /\ t.cell = tx[s].cell /\ t.qty = tx[s].qty
        /\ t.freed = Touched(tx[s])
    BY <1>1, <2>1 DEF Tx
  <2>4. Touched(tx[s]) = FreedFor(tx[s].cell, tx[s].qty) BY <2>1 DEF Touched
  <2> HIDE DEF t
  <2>5. Brings(t) BY <1>2, <2>1, <2>3, <2>4 DEF Brings
  <2>6. Holds(t, held[s] \cup Wants(s)) BY <1>2, <2>1, <2>2, <2>3 DEF Holds
  <2> QED BY <2>1, <2>5, <2>6, MoveBrought
<1> QED BY <1>4, <1>5, <1>6, <1>7 DEF Advance

\* Time and the work orders take nothing away.
LEMMA QuietBrings ==
  ASSUME StockInv, Brought, Environment \/ UNCHANGED vars PROVE Brought'
<1>1. UNCHANGED stock /\ UNCHANGED <<tx, held>> /\ lapsed \subseteq lapsed'
  BY DEF Environment, Lapse, CloseWorkOrder, vars, stock
<1>2. /\ reservation' = reservation /\ issue' = issue /\ on_hand' = on_hand
      /\ reserved' = reserved
  BY <1>1 DEF stock
<1>3. \A u \in Sessions : Brings(tx[u]) => Brings(tx[u])'
  BY <1>1, <1>2 DEF Brings, FreedFor, ActiveAt, SumQty, Qty
<1>4. \A u \in Sessions : Holds(tx[u], held[u]) => Holds(tx[u], held[u])'
  BY <1>1 DEF Holds
<1>5. Entered' BY <1>2 DEF Brought, Entered
<1> QED BY <1>1, <1>3, <1>4, <1>5 DEF Brought

LEMMA StepBrought == StockInv /\ Counted /\ Brought /\ [Next]_vars => Brought'
<1> SUFFICES ASSUME StockInv, Counted, Brought, [Next]_vars PROVE Brought' OBVIOUS
<1>1. TypeOK' BY StepTypeOK DEF StockInv
<1>2. Entered'
  <2>1. Book!BNext \/ UNCHANGED Book!bvars BY StepEnters
  <2> QED BY <2>1, EntriesKeep DEF StockInv, Brought
<1>3. ASSUME NEW s \in Sessions, Ends(s) PROVE Brought' BY <1>1, <1>2, <1>3, EndsBrought
<1>4. ASSUME NEW s \in Sessions, Advance(s) PROVE Brought'
  <2>1. tx[s].pc # "idle" BY <1>4 DEF Advance, InsertIssue, LockIssue, LockCell, FreeReservations
  <2> QED BY <1>3, <1>4, <2>1, AdvanceBrought DEF Ends
<1>5. ASSUME NEW s \in Sessions, BeginRequest(s) \/ Advance(s) \/ Finish(s) \/ Rollback(s)
      PROVE  Brought'
  BY <1>3, <1>4, <1>5, RequestBrought DEF Ends, Rollback
<1> QED BY <1>5, QuietBrings DEF Next

LEMMA StockBrought == Spec => []Brought
  BY InitBrought, StepBrought, StockInductive, StockCounted, PTL DEF Spec

\* The service keeps the promises of the book: what a request that succeeds has written
\* is one entry that the tables allowed at its commit, although it read most of them
\* before it had a lock; what fails leaves no trace.
THEOREM StockIsABook == Spec => RequestsAreEntries
<1>1. Init => Book!BInit
  <2> SUFFICES ASSUME Init PROVE Book!BInit OBVIOUS
  <2>1. \A n \in Ids : Unwritten(n) /\ issue[n].returned = 0
    BY DEF Init, Unwritten, NoReservation, NoIssue
  <2> QED BY <2>1, BookReads DEF Init, Book!BInit, AllCells
<1> QED BY <1>1, StepEnters, StockInductive, StockCounted, StockBrought, PTL
        DEF Spec, RequestsAreEntries, Book!BSpec

-----------------------------------------------------------------------------
(* Who waits for whom.                                                     *)

\* The reservations a transaction wants to write lie where its balance is.
LEMMA TouchedThere ==
  ASSUME StockInv, Counted, NEW s \in Sessions, tx[s].pc = "rows", NEW r \in Touched(tx[s])
  PROVE  reservation[r].cell = tx[s].cell
<1>1. Keeps(tx[s], held[s]) BY DEF Counted, Placed
<1> QED BY <1>1 DEF Touched, Stale, FreedFor, ActiveAt, Keeps

LEMMA OneHasTheCell ==
  ASSUME StockInv, Counted, NEW s \in Sessions, NEW u \in Sessions, s # u,
         tx[s].pc \in {"rows", "other"}, tx[u].pc \in {"rows", "other"}
  PROVE  tx[s].cell # tx[u].cell
<1>1. Keeps(tx[u], held[u]) /\ Alone(s, tx[s].cell) BY OwnCell
<1> QED BY <1>1 DEF Keeps, Alone

\* Balances are locked before rows and rows before the quarantine, by all but the
\* release: so two that wait for each other are a release and whoever has its balance.
THEOREM OnlyReleasesDeadlock == Spec => []WaitsForward
<1>1. StockInv /\ Counted /\ Brought => WaitsForward
  <2> SUFFICES ASSUME StockInv, Counted, Brought, NEW s \in Sessions, NEW u \in Sessions \ {s},
                      NEW a \in Wants(s), NEW b \in held[u], Conflict(a, b)
               PROVE  \/ Stage(tx[u]) > Stage(tx[s])
                      \/ /\ tx[s].pc = "rows" /\ tx[u].pc = "cell"
                         /\ tx[u].kind = "release" /\ tx[u].cell = tx[s].cell
    BY DEF WaitsForward, Blockers
  <2> USE DEF StockInv
  <2>1. PICK t : t = tx[s] OBVIOUS
  <2>2. PICK v : v = tx[u] OBVIOUS
  <2>3. v.pc # "idle" BY <2>2 DEF Locked
  <2>4. /\ Holds(v, held[u]) /\ Brings(v) /\ Keeps(v, held[u])
        /\ t.pc # "idle" => Brings(t)
    BY <2>1, <2>2, <2>3 DEF Brought, Counted, Placed
  <2>5. b[2] \in AllCells \cup WorkOrders \cup Ids /\ b = <<b[1], b[2]>>
    BY DEF TypeOK
  <2>6. CASE t.pc = "insert"
    <3>1. a = <<"share", t.ref>> BY <2>1, <2>6, WantsAreLocks
    <3>2. b[1] = "update" BY <3>1 DEF Conflict
    <3>3. v.pc \in {"cell", "rows"} BY <2>4, <2>5, <3>2 DEF Holds
    <3>4. Stage(t) = 1 /\ Stage(v) \in {2, 3} BY <2>6, <3>3 DEF Stage
    <3> QED BY <2>1, <2>2, <3>4
  <2>7. CASE t.pc = "issue"
    <3>1. a = <<"issue", t.ref>> BY <2>1, <2>7, WantsAreLocks
    <3>2. b[1] = "issue" BY <3>1 DEF Conflict
    <3>3. v.pc \in {"cell", "rows"} BY <2>4, <2>5, <3>2 DEF Holds
    <3>4. Stage(t) = 1 /\ Stage(v) \in {2, 3} BY <2>7, <3>3 DEF Stage
    <3> QED BY <2>1, <2>2, <3>4
  <2>8. CASE t.pc = "cell"
    <3>1. a = <<"cell", t.cell>> BY <2>1, <2>8, WantsAreLocks
    <3>2. b[1] = "cell" BY <3>1 DEF Conflict
    <3>3. v.pc \in {"rows", "other"} BY <2>4, <2>5, <3>2 DEF Holds
    <3>4. Stage(t) = 2 /\ Stage(v) \in {3, 4} BY <2>8, <3>3 DEF Stage
    <3> QED BY <2>1, <2>2, <3>4
  <2>9. CASE t.pc = "rows"
    <3>1. PICK r \in Touched(t) : a = <<"change", r>> BY <2>1, <2>9, WantsAreLocks
    <3>2. reservation[r].cell = t.cell BY <2>1, <2>9, TouchedThere
    <3>3. b[2] = r /\ b[1] \in {"change", "update"} BY <3>1 DEF Conflict
    <3>4. CASE b[1] = "change"
      <4>1. v.pc = "other" /\ r \in v.freed BY <2>4, <2>5, <3>3, <3>4 DEF Holds
      <4>2. v.cell = t.cell BY <2>4, <3>2, <4>1 DEF Keeps, ActiveAt
      <4> QED BY <2>1, <2>2, <2>9, <4>1, <4>2, OneHasTheCell
    <3>5. CASE b[1] = "update"
      <4>1. v.kind = "release" /\ v.pc \in {"cell", "rows"} /\ r = v.ref
        BY <2>4, <2>5, <3>3, <3>5 DEF Holds
      <4>2. r \in Ids BY <2>1, <3>1, TouchedType
      <4>3. v.cell = t.cell BY <2>4, <3>2, <4>1, <4>2 DEF Keeps, Ids
      <4>4. v.pc # "rows" BY <2>1, <2>2, <2>9, <4>3, OneHasTheCell
      <4> QED BY <2>1, <2>2, <2>9, <4>1, <4>3, <4>4
    <3> QED BY <3>3, <3>4, <3>5
  <2>10. CASE t.pc = "other"
    <3>1. a = <<"cell", Quarantine>> BY <2>1, <2>10, WantsAreLocks
    <3>2. b[1] = "cell" /\ b[2] = Quarantine BY <3>1 DEF Conflict
    <3>3. v.cell = Quarantine BY <2>4, <2>5, <3>2 DEF Holds
    <3> QED BY <2>4, <3>3, StockAssumption DEF Brings
  <2>11. t.pc \in {"insert", "issue", "cell", "rows", "other"} BY <2>1 DEF Wants
  <2> QED BY <2>6, <2>7, <2>8, <2>9, <2>10, <2>11
<1> QED BY <1>1, StockInductive, StockCounted, StockBrought, PTL
=============================================================================
