----------------------------- MODULE StockBook -----------------------------
(***************************************************************************)
(* What the stock service promises, without connections, locks, races or   *)
(* balances of what is reserved: a book of reservations and issues in which*)
(* every request that succeeds is one indivisible entry, decided on the    *)
(* book as it is at that moment. One that fails leaves no entry.           *)
(***************************************************************************)
EXTENDS Integers, FiniteSetsExt

CONSTANTS Cells, Quarantine, WorkOrders, Keys, Opening, Quantities, Ids, None

VARIABLES
  on_hand,      \* what lies in each cell
  reservation,  \* by the id of the request that made it
  issue,        \* likewise, with what came back of it
  lapsed,       \* reservations whose date has passed
  open,         \* work orders that accept parts
  completed     \* work orders certified complete

bvars == <<on_hand, reservation, issue, lapsed, open, completed>>

Active(c) == {r \in Ids : reservation[r].status = "active" /\ reservation[r].cell = c}

Promised(S) == SumFunctionOnSet([r \in Ids |-> reservation[r].qty], S)

\* No entry bears this id.
Blank(n) == reservation[n].status = "none" /\ issue[n].qty = 0 /\ issue[n].res = 0

Ended(R, status) ==
  [r \in Ids |-> IF r \in R THEN [reservation[r] EXCEPT !.status = status]
                 ELSE reservation[r]]

\* Units of a cell that nobody was promised, but for the reservations that lapsed and
\* are now ended, are promised under a blank id, once for a key, to an open work order
\* or to none.
Reserve(n, c, q, w, k) ==
  /\ w = None \/ w \in open
  /\ k = None \/ \A r \in Ids : reservation[r].status # "none" => reservation[r].key # k
  /\ UNCHANGED <<on_hand, issue, lapsed, open, completed>>
  /\ \E gone \in SUBSET (Active(c) \cap lapsed) :
       /\ reservation' = [Ended(gone, "expired") EXCEPT ![n] =
            [status |-> "active", cell |-> c, qty |-> q, wo |-> w, key |-> k]]
       /\ Promised(Active(c) \ gone) + q <= on_hand[c]

Release(r) ==
  /\ reservation[r].status = "active"
  /\ reservation' = Ended({r}, "released")
  /\ UNCHANGED <<on_hand, issue, lapsed, open, completed>>

\* A reservation backs an issue of its cell and its work order. One without a work
\* order may back a second issue, which takes what nobody else was promised.
Backs(r, w, c, q) ==
  /\ reservation[r].cell = c /\ reservation[r].wo \in {None, w} /\ q <= reservation[r].qty
  /\ \/ reservation[r].status = "active"
     \/ reservation[r].status = "consumed" /\ reservation[r].wo = None

Fit(n, w, c, q, r) ==
  /\ w \in open
  /\ r = 0 \/ Backs(r, w, c, q)
  /\ issue' = [issue EXCEPT ![n] =
       [qty |-> q, cell |-> c, wo |-> w, res |-> r, returned |-> 0]]
  /\ on_hand' = [on_hand EXCEPT ![c] = @ - q]
  /\ reservation' = Ended({r} \ {0}, "consumed")
  /\ UNCHANGED <<lapsed, open, completed>>
  /\ Promised(Active(c) \ {r}) + q <= on_hand[c]

\* No more comes back than was issued, and it comes back to where it was.
TakeBack(i, q) ==
  /\ issue[i].returned + q <= issue[i].qty
  /\ issue' = [issue EXCEPT ![i].returned = @ + q]
  /\ on_hand' = [on_hand EXCEPT ![issue[i].cell] = @ + q]
  /\ UNCHANGED <<reservation, lapsed, open, completed>>

\* Damaged units go to the quarantine. The newest reservations are given up, and no
\* more of them than leave the others covered.
GivenUp(c, q) ==
  LET uncovered == Promised(Active(c)) - (on_hand[c] - q) IN
  {r \in Active(c) : uncovered > Promised({u \in Active(c) : u > r})}

Damage(c, q) ==
  /\ q <= on_hand[c]
  /\ on_hand' = [on_hand EXCEPT ![c] = @ - q, ![Quarantine] = @ + q]
  /\ reservation' = Ended(GivenUp(c, q), "released")
  /\ UNCHANGED <<issue, lapsed, open, completed>>

Lapse(r) ==
  /\ reservation[r].status = "active"
  /\ lapsed' = lapsed \cup {r}
  /\ UNCHANGED <<on_hand, reservation, issue, open, completed>>

\* A work order is closed for good; certified complete only if it holds nothing.
Close(w, complete) ==
  /\ w \in open
  /\ complete => /\ \A r \in Ids : reservation[r].status = "active" => reservation[r].wo # w
                 /\ \A i \in Ids : issue[i].wo = w => issue[i].qty <= issue[i].returned
  /\ open' = open \ {w}
  /\ completed' = IF complete THEN completed \cup {w} ELSE completed
  /\ UNCHANGED <<on_hand, reservation, issue, lapsed>>

BInit ==
  /\ on_hand = [c \in Cells \cup {Quarantine} |-> IF c \in Cells THEN Opening[c] ELSE 0]
  /\ \A n \in Ids : Blank(n) /\ issue[n].returned = 0
  /\ lapsed = {} /\ open = WorkOrders /\ completed = {}

BNext ==
  \/ \E n \in Ids : Blank(n) /\ \E c \in Cells, q \in Quantities :
       \/ \E w \in WorkOrders \cup {None}, k \in Keys \cup {None} : Reserve(n, c, q, w, k)
       \/ \E w \in WorkOrders, r \in {0} \cup Ids : Fit(n, w, c, q, r)
  \/ \E r \in Ids : Release(r) \/ Lapse(r)
  \/ \E i \in Ids, q \in Quantities : TakeBack(i, q)
  \/ \E c \in Cells, q \in Quantities : Damage(c, q)
  \/ \E w \in WorkOrders, complete \in BOOLEAN : Close(w, complete)

BSpec == BInit /\ [][BNext]_bvars
=============================================================================
