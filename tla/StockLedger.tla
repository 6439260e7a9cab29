---------------------------- MODULE StockLedger ----------------------------
(***************************************************************************)
(* Parts stock: the balances, reservations, issues and returns of the inv  *)
(* schema and the service methods that reserve, release, issue, return and *)
(* damage stock. A cell is one item at one location.                       *)
(*                                                                         *)
(* Each request is one database transaction at READ COMMITTED. Its unlocked*)
(* reads and its waits for row locks are steps of their own; what it writes*)
(* under its last lock becomes visible at once with the commit, because the*)
(* rows it writes are locked until then. Any open transaction may roll back*)
(* (statement timeout, deadlock victim, lost connection, crash).           *)
(*                                                                         *)
(* A lock is <<mode, row>>. "change" is the row lock of an UPDATE, "update"*)
(* that of SELECT FOR UPDATE, "share" the key-share lock a foreign key     *)
(* takes on the row it names. The n-th request writes under the id n, so   *)
(* ids are also the order in which the requests began (created_at).        *)
(***************************************************************************)
EXTENDS Integers, FiniteSets, FiniteSetsExt

CONSTANTS
  Sessions,      \* database connections that serve requests
  Cells,         \* sellable cells
  Quarantine,    \* the quarantine cell damaged units go to
  WorkOrders,
  Keys,          \* idempotency keys of reservations
  Opening,       \* on_hand_qty per sellable cell after the opening count
  Quantities,    \* quantities requests may name
  MaxRequests,   \* bound: requests in a behaviour
  None           \* SQL NULL

ASSUME StockAssumption ==
  /\ IsFiniteSet(Cells) /\ Quarantine \notin Cells
  /\ Opening \in [Cells -> Nat]
  /\ Quantities \subseteq Nat \ {0}
  /\ MaxRequests \in Nat
  /\ None \notin WorkOrders \cup Keys

VARIABLES
  on_hand,       \* stock_balances.on_hand_qty
  reserved,      \* stock_balances.reserved_qty
  reservation,   \* stock_reservations by id
  issue,         \* part_issues by id, with the sum of their part_returns
  lapsed,        \* reservations with expires_at < now()
  open,          \* work orders that accept parts
  completed,     \* work orders certified complete, not cancelled
  events,        \* event keys in the outbox: <<type, reservation>>
  tx,            \* the open transaction of each session
  held,          \* the locks of each session
  requests       \* requests begun so far

vars == <<on_hand, reserved, reservation, issue, lapsed, open, completed, events, tx,
          held, requests>>
stock == <<on_hand, reserved, reservation, issue, events>>
orders == <<open, completed>>

AllCells == Cells \cup {Quarantine}
Ids == 1..MaxRequests

Statuses == {"none", "active", "released", "consumed", "expired"}

Reservation == [status : Statuses, cell : AllCells, qty : Nat,
                wo : WorkOrders \cup {None}, key : Keys \cup {None}]
Issue == [qty : Nat, cell : AllCells, wo : WorkOrders \cup {None},
          res : {0} \cup Ids, returned : Nat]

NoReservation == [status |-> "none", cell |-> Quarantine, qty |-> 0,
                  wo |-> None, key |-> None]
NoIssue == [qty |-> 0, cell |-> Quarantine, wo |-> None, res |-> 0, returned |-> 0]

\* What a request asked for and how far it has come. ref is the reservation or the
\* issue it names; seen is what it knows from before its locks: a reserve what had
\* lapsed when it began (now() is that moment), a damage the active reservations.
\* freed are the reservations a damage has released so far.
Idle == [pc |-> "idle", kind |-> "none", n |-> 0, cell |-> Quarantine, qty |-> 0,
         wo |-> None, key |-> None, ref |-> 0, seen |-> {}, freed |-> {}]

-----------------------------------------------------------------------------
(* Locks.                                                                  *)

Conflict(a, b) ==
  /\ a[2] = b[2]
  /\ \/ a[1] = b[1] /\ a[1] # "share"
     \/ {a[1], b[1]} \in {{"update", "change"}, {"update", "share"}}

\* The sessions that keep s from taking the locks.
Blockers(s, locks) ==
  {u \in Sessions \ {s} : \E a \in locks, b \in held[u] : Conflict(a, b)}

Take(s, locks) == /\ Blockers(s, locks) = {}
                  /\ held' = [held EXCEPT ![s] = @ \cup locks]

\* Mutant of WorkOrderLock: the state is read without FOR UPDATE.
NoWorkOrderLock(w) == {}

\* requireWorkOrderAcceptingParts locks the work order it reads.
WorkOrderLock(w) == IF w = None THEN {} ELSE {<<"wo", w>>}

-----------------------------------------------------------------------------
(* Reading the tables.                                                     *)

ActiveAt(c) == {r \in Ids : reservation[r].status = "active" /\ reservation[r].cell = c}

Qty == [r \in Ids |-> reservation[r].qty]
SumQty(S) == SumFunctionOnSet(Qty, S)

WithKey(k) == {r \in Ids : reservation[r].status # "none" /\ reservation[r].key = k}

\* The reservations that reserve_stock expires.
Stale(t) == ActiveAt(t.cell) \cap t.seen

\* reserve_stock finds the key, committed since the first look: it returns the
\* other request's reservation.
Resolved(k) == k # None /\ WithKey(k) # {}

\* free_reservations_for_loss: whole reservations, newest first, until what is
\* left of the cell covers what is left reserved.
FreedFor(c, loss) ==
  LET need == reserved[c] - (on_hand[c] - loss) IN
  {r \in ActiveAt(c) : need > SumQty({u \in ActiveAt(c) : u > r})}

\* The reservations the transaction updates once it has its cell.
Touched(t) ==
  CASE t.kind = "reserve" -> IF Resolved(t.key) THEN {} ELSE Stale(t)
    [] t.kind \in {"release", "issue"} -> {t.ref} \ {0}
    [] t.kind = "damage" -> FreedFor(t.cell, t.qty)
    [] OTHER -> {}

\* Mutant of Wants: consume_reservation locks its reservation before the balance.
WantsRowFirst(s) ==
  LET t == tx[s] IN
  CASE t.pc = "insert" -> {<<"update", t.ref>>}
    [] t.pc = "issue"  -> {<<"issue", t.ref>>}
    [] t.pc = "cell"   -> {<<"cell", t.cell>>}
    [] t.pc = "rows"   -> {<<"change", r>> : r \in Touched(t)}
    [] t.pc = "other"  -> {<<"cell", Quarantine>>}
    [] OTHER -> {}

\* The locks the next step of the transaction waits for.
Wants(s) ==
  LET t == tx[s] IN
  CASE t.pc = "insert" -> {<<"share", t.ref>>}
    [] t.pc = "issue"  -> {<<"issue", t.ref>>}
    [] t.pc = "cell"   -> {<<"cell", t.cell>>}
    [] t.pc = "rows"   -> {<<"change", r>> : r \in Touched(t)}
    [] t.pc = "other"  -> {<<"cell", Quarantine>>}
    [] OTHER -> {}

-----------------------------------------------------------------------------
(* Transactions.                                                           *)

Begin(s, t, locks) ==
  /\ tx[s].pc = "idle" /\ requests < MaxRequests
  /\ requests' = requests + 1
  /\ Take(s, locks)
  /\ tx' = [tx EXCEPT ![s] = [t EXCEPT !.n = requests + 1]]
  /\ UNCHANGED <<stock, lapsed, orders>>

Goto(s, pc) == tx' = [tx EXCEPT ![s].pc = pc]

End(s) == /\ tx' = [tx EXCEPT ![s] = Idle]
          /\ held' = [held EXCEPT ![s] = {}]
          /\ UNCHANGED <<lapsed, orders, requests>>

Abort(s) == End(s) /\ UNCHANGED stock

\* Mutant of BalanceChecks: only the reserved quantity is checked.
ReservedCheckOnly(oh, rs) == rs >= 0

\* The CHECKs of stock_balances on the row that is about to be written.
BalanceChecks(oh, rs) == oh >= 0 /\ rs >= 0 /\ oh - rs >= 0

\* Mutant of StatusGuard: the trigger lets every change through.
AnyStatus(old, new) == TRUE

\* guard_stock_reservation_status: a status other than active stays as it is.
StatusGuard(old, new) == old = "active" \/ new = old

\* publishEvent: a key that is in the outbox already aborts the transaction.
Unpublished(keys) == keys \cap events = {}

-----------------------------------------------------------------------------
(* The environment: time, and the lifecycle of work orders.                *)

\* The expiry date of an active reservation passes.
Lapse(r) ==
  /\ reservation[r].status = "active" /\ r \notin lapsed
  /\ lapsed' = lapsed \cup {r}
  /\ UNCHANGED <<stock, orders, tx, held, requests>>

\* countOpenCommitments: no active reservation and no unreturned issue.
NothingCommitted(w) ==
  /\ \A r \in Ids : reservation[r].status = "active" => reservation[r].wo # w
  /\ \A i \in Ids : issue[i].wo = w => issue[i].qty <= issue[i].returned

\* A transition into a state that accepts no parts, for good, with the row locked.
\* One that certifies the work complete asks for the commitments first; a
\* cancellation does not.
CloseWorkOrder(w, complete) ==
  /\ w \in open
  /\ \A u \in Sessions : <<"wo", w>> \notin held[u]
  /\ complete => NothingCommitted(w)
  /\ open' = open \ {w}
  /\ completed' = IF complete THEN completed \cup {w} ELSE completed
  /\ UNCHANGED <<stock, lapsed, tx, held, requests>>

-----------------------------------------------------------------------------
(* reserve.                                                                *)

\* The work order is locked and checked, then the key is looked up. A key that
\* is found answers the request at once: a replay or a conflict writes nothing.
Reserve(s, c, q, w, k) ==
  /\ w # None => w \in open
  /\ k # None => WithKey(k) = {}
  /\ Begin(s, [Idle EXCEPT !.pc = "cell", !.kind = "reserve", !.cell = c, !.qty = q,
                           !.wo = w, !.key = k, !.seen = lapsed],
           WorkOrderLock(w))

\* Mutant of Affordable: what others have reserved is forgotten.
TakesOnHand(t) == t.qty <= on_hand[t.cell]

\* The quantity against on_hand minus the reservations that stay active.
Affordable(t) == t.qty <= on_hand[t.cell] - SumQty(ActiveAt(t.cell) \ Stale(t))

\* The reservations in R take a new status.
WithStatus(R, status) ==
  [r \in Ids |-> IF r \in R THEN [reservation[r] EXCEPT !.status = status]
                 ELSE reservation[r]]

\* reserve_stock under the balance lock, then the event of the new reservation.
ReserveStock(s) ==
  LET t == tx[s]
      key == <<"stock.reserved", t.n>> IN
  /\ t.pc = "rows" /\ t.kind = "reserve"
  /\ Blockers(s, Wants(s)) = {}
  /\ IF Resolved(t.key) \/ ~Affordable(t) \/ ~Unpublished({key})
     THEN Abort(s)
     ELSE /\ reservation' = [WithStatus(Stale(t), "expired") EXCEPT ![t.n] =
               [status |-> "active", cell |-> t.cell, qty |-> t.qty,
                wo |-> t.wo, key |-> t.key]]
          /\ reserved' = [reserved EXCEPT ![t.cell] =
                            SumQty(ActiveAt(t.cell) \ Stale(t)) + t.qty]
          /\ events' = events \cup {key}
          /\ End(s)
          /\ UNCHANGED <<on_hand, issue>>

-----------------------------------------------------------------------------
(* release.                                                                *)

\* lockReservation, and the status read under the lock. A reservation that is
\* not active is reported as it is and nothing is written.
Release(s, r) ==
  /\ reservation[r].status = "active"
  /\ Begin(s, [Idle EXCEPT !.pc = "cell", !.kind = "release", !.ref = r,
                           !.cell = reservation[r].cell],
           {<<"update", r>>})

ReleaseReservation(s) ==
  LET t == tx[s]
      key == <<"stock.reservation.released", t.ref>> IN
  /\ t.pc = "rows" /\ t.kind = "release"
  /\ IF ~Unpublished({key})
     THEN Abort(s)
     ELSE /\ reservation' = WithStatus({t.ref}, "released")
          /\ reserved' = [reserved EXCEPT ![t.cell] = SumQty(ActiveAt(t.cell) \ {t.ref})]
          /\ events' = events \cup {key}
          /\ End(s)
          /\ UNCHANGED <<on_hand, issue>>

-----------------------------------------------------------------------------
(* issue.                                                                  *)

\* assertReservationMatchesIssue and the quantity, on an unlocked read.
Matches(r, c, q, w) ==
  /\ reservation[r].status = "active"
  /\ reservation[r].cell = c
  /\ reservation[r].wo \in {None, w}
  /\ q <= reservation[r].qty

\* The work order is locked and checked; r is 0 when no reservation is named.
BeginIssue(s, w, c, q, r) ==
  /\ w \in open
  /\ r # 0 => Matches(r, c, q, w)
  /\ Begin(s, [Idle EXCEPT !.pc = IF r = 0 THEN "cell" ELSE "insert", !.kind = "issue",
                           !.cell = c, !.qty = q, !.wo = w, !.ref = r],
           WorkOrderLock(w))

\* The part_issues row names the reservation; consume_reservation then reads its
\* status, still without a lock of its own.
InsertIssue(s) ==
  LET t == tx[s] IN
  /\ t.pc = "insert"
  /\ Blockers(s, Wants(s)) = {}
  /\ IF reservation[t.ref].status = "active"
     THEN /\ Take(s, Wants(s))
          /\ Goto(s, "cell")
          /\ UNCHANGED <<stock, lapsed, orders, requests>>
     ELSE Abort(s)

\* consume_reservation and then post_stock_movement on the balance of the cell.
ConsumeAndPost(t) ==
  LET left == IF t.ref = 0 THEN reserved[t.cell] ELSE SumQty(ActiveAt(t.cell) \ {t.ref}) IN
  [ok |-> BalanceChecks(on_hand[t.cell] - t.qty, left), reserved |-> left]

IssuePart(s) ==
  LET t == tx[s]
      after == ConsumeAndPost(t) IN
  /\ t.pc = "rows" /\ t.kind = "issue"
  /\ Blockers(s, Wants(s)) = {}
  /\ IF after.ok /\ (t.ref # 0 => StatusGuard(reservation[t.ref].status, "consumed"))
     THEN /\ reservation' = WithStatus({t.ref} \ {0}, "consumed")
          /\ issue' = [issue EXCEPT ![t.n] = [qty |-> t.qty, cell |-> t.cell, wo |-> t.wo,
                                              res |-> t.ref, returned |-> 0]]
          /\ on_hand' = [on_hand EXCEPT ![t.cell] = @ - t.qty]
          /\ reserved' = [reserved EXCEPT ![t.cell] = after.reserved]
          /\ End(s)
          /\ UNCHANGED events
     ELSE Abort(s)

-----------------------------------------------------------------------------
(* returnPart.                                                             *)

\* The readable check of the service, on an unlocked read.
BeginReturn(s, i, q) ==
  /\ issue[i].qty > 0
  /\ issue[i].returned + q <= issue[i].qty
  /\ Begin(s, [Idle EXCEPT !.pc = "issue", !.kind = "return", !.ref = i, !.qty = q,
                           !.cell = issue[i].cell], {})

\* return_part and guard_part_return_ceiling, with the issue locked.
WithinIssue(t) == issue[t.ref].returned + t.qty <= issue[t.ref].qty

LockIssue(s) ==
  LET t == tx[s] IN
  /\ t.pc = "issue"
  /\ Blockers(s, Wants(s)) = {}
  /\ IF WithinIssue(t)
     THEN /\ Take(s, Wants(s))
          /\ Goto(s, "cell")
          /\ UNCHANGED <<stock, lapsed, orders, requests>>
     ELSE Abort(s)

ReturnPart(s) ==
  LET t == tx[s] IN
  /\ t.pc = "rows" /\ t.kind = "return"
  /\ issue' = [issue EXCEPT ![t.ref].returned = @ + t.qty]
  /\ on_hand' = [on_hand EXCEPT ![t.cell] = @ + t.qty]
  /\ End(s)
  /\ UNCHANGED <<reserved, reservation, events>>

-----------------------------------------------------------------------------
(* recordDamage.                                                           *)

\* activeReservationsAt, ahead of every lock.
BeginDamage(s, c, q) ==
  Begin(s, [Idle EXCEPT !.pc = "cell", !.kind = "damage", !.cell = c, !.qty = q,
                        !.seen = ActiveAt(c)], {})

\* The reservations are released; then the balance of the quarantine is locked.
FreeReservations(s) ==
  /\ tx[s].pc = "rows" /\ tx[s].kind = "damage"
  /\ Take(s, Wants(s))
  /\ tx' = [tx EXCEPT ![s].pc = "other", ![s].freed = Touched(tx[s])]
  /\ UNCHANGED <<stock, lapsed, orders, requests>>

\* on_hand may not fall below zero, and whole reservations may not be given up
\* for a smaller damage.
DamageRefused(t, gone) == \/ on_hand[t.cell] - t.qty < 0
                          \/ SumQty(gone) > t.qty

\* Mutant of GoneSince: every reservation seen before counts as freed.
AllSeen(t) == t.seen

\* Whatever was active before and is active no longer is taken for freed by this
\* damage, and published as released.
GoneSince(t) ==
  {r \in t.seen : r \in t.freed \/ reservation[r].status # "active"}

\* Mutant of Moved: the quarantine leg is forgotten.
OutLegOnly(t) == [on_hand EXCEPT ![t.cell] = @ - t.qty]

\* Both legs of the damage movement.
Moved(t) == [on_hand EXCEPT ![t.cell] = @ - t.qty, ![Quarantine] = @ + t.qty]

RecordDamage(s) ==
  LET t == tx[s]
      gone == GoneSince(t)
      keys == {<<"stock.reservation.released", r>> : r \in gone} IN
  /\ t.pc = "other"
  /\ Blockers(s, Wants(s)) = {}
  /\ IF DamageRefused(t, gone) \/ ~Unpublished(keys)
     THEN Abort(s)
     ELSE /\ reservation' = WithStatus(t.freed, "released")
          /\ reserved' = [reserved EXCEPT ![t.cell] = SumQty(ActiveAt(t.cell) \ t.freed)]
          /\ on_hand' = Moved(t)
          /\ events' = events \cup keys
          /\ End(s)
          /\ UNCHANGED issue

-----------------------------------------------------------------------------
\* lock_stock_balance of the cell the request is about.
LockCell(s) ==
  /\ tx[s].pc = "cell"
  /\ Take(s, Wants(s))
  /\ Goto(s, "rows")
  /\ UNCHANGED <<stock, lapsed, orders, requests>>

\* withTransaction rolls back on any error, and so does the server when the
\* connection is gone.
Rollback(s) == tx[s].pc # "idle" /\ Abort(s)

Init ==
  /\ on_hand = [c \in AllCells |-> IF c \in Cells THEN Opening[c] ELSE 0]
  /\ reserved = [c \in AllCells |-> 0]
  /\ reservation = [r \in Ids |-> NoReservation]
  /\ issue = [i \in Ids |-> NoIssue]
  /\ lapsed = {} /\ open = WorkOrders /\ completed = {} /\ events = {}
  /\ tx = [s \in Sessions |-> Idle]
  /\ held = [s \in Sessions |-> {}]
  /\ requests = 0

Environment == \/ \E r \in Ids : Lapse(r)
               \/ \E w \in WorkOrders, complete \in BOOLEAN : CloseWorkOrder(w, complete)

BeginRequest(s) ==
  \/ \E c \in Cells, q \in Quantities, w \in WorkOrders \cup {None}, k \in Keys \cup {None} :
       Reserve(s, c, q, w, k)
  \/ \E r \in Ids : Release(s, r)
  \/ \E w \in WorkOrders, c \in Cells, q \in Quantities, r \in {0} \cup Ids :
       BeginIssue(s, w, c, q, r)
  \/ \E i \in Ids, q \in Quantities : BeginReturn(s, i, q)
  \/ \E c \in Cells, q \in Quantities : BeginDamage(s, c, q)

Advance(s) == \/ InsertIssue(s) \/ LockIssue(s) \/ LockCell(s) \/ FreeReservations(s)

Finish(s) == \/ ReserveStock(s) \/ ReleaseReservation(s) \/ IssuePart(s)
             \/ ReturnPart(s) \/ RecordDamage(s)

Next == \/ Environment
        \/ \E s \in Sessions : BeginRequest(s) \/ Advance(s) \/ Finish(s) \/ Rollback(s)

Spec == Init /\ [][Next]_vars

-----------------------------------------------------------------------------
(* Properties.                                                             *)

Modes == {"cell", "wo", "issue", "update", "change", "share"}

\* Types, with the CHECK that on_hand_qty is not negative; reserved_qty is what
\* Coherent says, a sum of quantities.
TypeOK ==
  /\ on_hand \in [AllCells -> Nat]
  /\ DOMAIN reserved = AllCells
  /\ reservation \in [Ids -> Reservation]
  /\ issue \in [Ids -> Issue]
  /\ lapsed \subseteq Ids
  /\ open \subseteq WorkOrders /\ completed \subseteq WorkOrders
  /\ events \subseteq {"stock.reserved", "stock.reservation.released"} \X Ids
  /\ tx \in [Sessions ->
       [pc : {"idle", "insert", "issue", "cell", "rows", "other"},
        kind : {"none", "reserve", "release", "issue", "return", "damage"},
        n : {0} \cup Ids, cell : AllCells, qty : {0} \cup Quantities,
        wo : WorkOrders \cup {None}, key : Keys \cup {None},
        ref : {0} \cup Ids, seen : SUBSET Ids, freed : SUBSET Ids]]
  /\ held \in [Sessions -> SUBSET (Modes \X (AllCells \cup WorkOrders \cup Ids))]
  /\ requests \in 0..MaxRequests

\* The balances agree with the reservations, and no cell is promised beyond what
\* lies in it: two requests for the last unit have one winner, whatever expires,
\* is issued or is damaged in between.
Coherent ==
  \A c \in AllCells : /\ reserved[c] = SumQty(ActiveAt(c))
                      /\ reserved[c] <= on_hand[c]

\* What is fitted of each issue.
Fitted == [i \in Ids |-> issue[i].qty - issue[i].returned]

\* No unit appears or vanishes: what lies in all cells and what is fitted to work
\* orders is what was counted at the opening.
Conserved ==
  SumFunctionOnSet(on_hand, AllCells) + SumFunctionOnSet(Fitted, Ids)
    = SumFunctionOnSet(Opening, Cells)

\* The returns of an issue, also concurrent ones that all passed the first check,
\* never exceed what was issued.
ReturnsWithinIssue == \A i \in Ids : issue[i].returned <= issue[i].qty

\* A retry racing its first attempt books no second reservation.
OneReservationPerKey == \A k \in Keys : Cardinality(WithKey(k)) <= 1

\* A reservation of a work order is fitted by one issue: the lock on the work order
\* orders the issues although each reads the reservation without a lock.
OwnReservationConsumedOnce ==
  \A i, j \in Ids :
    (issue[i].res # 0 /\ issue[i].res = issue[j].res
     /\ reservation[issue[i].res].wo # None) => i = j

\* The outbox never calls a reservation released that still holds stock.
ReleasedNotActive ==
  \A r \in Ids : <<"stock.reservation.released", r>> \in events =>
                  reservation[r].status \notin {"none", "active"}

\* A released, consumed or expired reservation stays what it is, though an issue
\* may be on its way with an old read of it.
TerminalStatus ==
  [][\A r \in Ids : reservation[r].status \notin {"none", "active"} =>
                     reservation'[r] = reservation[r]]_vars

\* No part reaches a work order after it was closed, even when the closure comes
\* between the check and the movement.
IssuedWhileOpen ==
  [][\A i \in Ids : issue'[i].qty > issue[i].qty => issue'[i].wo \in open]_vars

\* A work order that was certified complete holds no stock: neither a reservation nor
\* an issue that was on its way while the commitments were counted is booked on it.
CompletedHoldsNothing == \A w \in completed : NothingCommitted(w)

\* A reservation is consumed by one issue.
ConsumedByOneIssue ==
  \A i, j \in Ids : (issue[i].res # 0 /\ issue[i].res = issue[j].res) => i = j

\* A release that is published took place.
PublishedReleaseHappened ==
  \A r \in Ids : <<"stock.reservation.released", r>> \in events =>
                  reservation[r].status = "released"

\* A release that took place is published.
ReleasePublished ==
  \A r \in Ids : reservation[r].status = "released" =>
                  <<"stock.reservation.released", r>> \in events

\* How far a transaction has come with its locks.
Stage(t) == CASE t.pc \in {"insert", "issue"} -> 1
              [] t.pc = "cell" -> 2
              [] t.pc = "rows" -> 3
              [] t.pc = "other" -> 4
              [] OTHER -> 0

\* Who waits for locks waits for a transaction that is further on, and so not for ever.
\* The one exception is a release: it locks its reservation before the balance, and
\* whoever has the balance and wants that reservation waits for it in vain.
WaitsForward ==
  \A s \in Sessions : \A u \in Blockers(s, Wants(s)) :
    \/ Stage(tx[u]) > Stage(tx[s])
    \/ /\ tx[s].pc = "rows" /\ tx[u].pc = "cell"
       /\ tx[u].kind = "release" /\ tx[u].cell = tx[s].cell

-----------------------------------------------------------------------------
(* The abstract specification: every request is one entry in a book.       *)

Book == INSTANCE StockBook

\* Whatever was read without a lock, what a request writes is decided by what the
\* tables say when it commits.
RequestsAreEntries == Book!BSpec

-----------------------------------------------------------------------------
(* The inductive invariant behind the properties: what a transaction may   *)
(* rely on from one step to the next, because of the locks it holds.       *)

\* A release has its reservation locked; a reserve or an issue for a work order has it
\* open and locked; the reservation of that work order an issue names is not consumed
\* by any other issue; a return that has locked its issue stays within it; a damage
\* has locked the reservations it released.
Relies(t, locks) ==
  /\ t.kind = "release" => t.ref \in Ids /\ <<"update", t.ref>> \in locks
  /\ (t.kind = "reserve" /\ t.wo # None) => t.wo \in open /\ <<"wo", t.wo>> \in locks
  /\ t.kind = "issue" =>
       /\ t.wo \in open /\ <<"wo", t.wo>> \in locks
       /\ t.ref # 0 =>
            /\ reservation[t.ref].status # "none"
            /\ reservation[t.ref].wo # None =>
                 reservation[t.ref].wo = t.wo /\ \A i \in Ids : issue[i].res # t.ref
  /\ t.kind = "return" =>
       /\ t.ref \in Ids /\ issue[t.ref].qty > 0
       /\ t.pc \in {"cell", "rows"} =>
            <<"issue", t.ref>> \in locks /\ issue[t.ref].returned + t.qty <= issue[t.ref].qty
  /\ t.pc = "insert" => t.kind = "issue" /\ t.ref \in Ids
  /\ t.pc = "issue" => t.kind = "return"
  /\ t.pc = "other" => t.kind = "damage" /\ \A r \in t.freed : <<"change", r>> \in locks

Carried == \A s \in Sessions : tx[s].pc # "idle" => Relies(tx[s], held[s])

\* Only open transactions hold locks, and none that conflict; a reservation that
\* somebody has locked for a change is active.
Locked ==
  /\ \A s \in Sessions : tx[s].pc = "idle" => held[s] = {}
  /\ \A s, u \in Sessions : \A a \in held[s], b \in held[u] : Conflict(a, b) => s = u
  /\ \A s \in Sessions, r \in Ids :
       <<"update", r>> \in held[s] \/ <<"change", r>> \in held[s]
         => reservation[r].status = "active"

\* Open transactions have ids of their own, which no row has taken yet.
Unwritten(n) == reservation[n].status = "none" /\ issue[n].qty = 0 /\ issue[n].res = 0

Numbered ==
  /\ \A s \in Sessions : tx[s].pc # "idle" =>
       tx[s].n \in 1..requests /\ Unwritten(tx[s].n)
  /\ \A s, u \in Sessions :
       (tx[s].pc # "idle" /\ tx[u].pc # "idle" /\ tx[s].n = tx[u].n) => s = u
  /\ \A n \in Ids : n > requests => Unwritten(n)

\* An issue's reservation is consumed.
Consumes == \A i \in Ids : issue[i].res # 0 => reservation[issue[i].res].status = "consumed"

\* A completed work order is closed, and holds nothing.
Settled == CompletedHoldsNothing /\ completed \cap open = {}

StockInv == /\ TypeOK /\ Carried /\ Locked /\ Numbered /\ Consumes
            /\ ReturnsWithinIssue /\ OneReservationPerKey /\ OwnReservationConsumedOnce
            /\ Settled

\* What the balances rest on: past LockCell a transaction has the balance of its cell
\* locked, the reservation it names lies there, and what a damage leaves reserved is
\* covered by what it leaves on hand.
Keeps(t, locks) ==
  /\ t.pc \in {"rows", "other"} => <<"cell", t.cell>> \in locks
  /\ t.kind \in {"release", "issue"} /\ t.ref # 0 => reservation[t.ref].cell = t.cell
  /\ t.kind = "damage" => t.cell \in Cells
  /\ t.pc = "other" =>
       /\ t.freed \subseteq ActiveAt(t.cell)
       /\ on_hand[t.cell] - t.qty >= 0 =>
            SumQty(ActiveAt(t.cell) \ t.freed) <= on_hand[t.cell] - t.qty

Placed == \A s \in Sessions : tx[s].pc # "idle" => Keeps(tx[s], held[s])

Counted == Placed /\ Coherent /\ Conserved

\* What a transaction brings from its unlocked reads and still holds when it writes:
\* what has lapsed, where the issue it returns to came from, that the reservation
\* covers the issue; a damage gives up the reservations it would choose now.
Brings(t) ==
  /\ t.cell \in Cells
  /\ t.kind # "release" => t.qty \in Quantities
  /\ t.kind = "reserve" => t.seen \subseteq lapsed
  /\ t.kind = "issue" /\ t.ref # 0 => t.qty <= reservation[t.ref].qty
  /\ t.kind = "return" => t.cell = issue[t.ref].cell
  /\ t.pc = "other" => t.freed = FreedFor(t.cell, t.qty)

\* Which locks a transaction can hold, by how far it has come.
Holds(t, locks) ==
  \A row \in AllCells \cup WorkOrders \cup Ids :
    /\ <<"cell", row>> \in locks => t.pc \in {"rows", "other"} /\ row = t.cell
    /\ <<"issue", row>> \in locks => t.kind = "return" /\ t.pc \in {"cell", "rows"}
    /\ <<"update", row>> \in locks =>
         t.kind = "release" /\ t.pc \in {"cell", "rows"} /\ row = t.ref
    /\ <<"change", row>> \in locks => t.pc = "other" /\ row \in t.freed

\* Rows exist at sellable cells, and a consumed reservation has an issue.
Entered ==
  /\ \A r \in Ids : reservation[r].status # "none" => reservation[r].cell \in Cells
  /\ \A i \in Ids : issue[i].qty > 0 => issue[i].cell \in Cells
  /\ \A r \in Ids : reservation[r].status = "consumed" => \E i \in Ids : issue[i].res = r

Brought == /\ Entered
           /\ \A s \in Sessions : tx[s].pc # "idle" => Brings(tx[s]) /\ Holds(tx[s], held[s])

=============================================================================
