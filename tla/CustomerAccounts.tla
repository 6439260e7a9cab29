-------------------------- MODULE CustomerAccounts --------------------------
(***************************************************************************)
(* What the sal schema promises of the money, as if it kept accounts: an   *)
(* issued invoice has a balance and a receipt a rest, every request is one *)
(* posting, and no posting overdraws. A vehicle may leave once the balance *)
(* of its invoice was seen to be zero, or by an override.                  *)
(***************************************************************************)
EXTENDS Integers

CONSTANTS WorkOrders, Invoices, Receipts, Credits, Keys, Gross, Amounts, None

VARIABLES
  bill,      \* the work order an issued invoice bills, or None
  open,      \* what is still owed on each invoice
  rest,      \* what each receipt has left
  paid,      \* what each receipt has paid on each invoice
  entered,   \* receipts that came in
  used,      \* the keys they came in under
  reversed,  \* receipts that were taken back
  credited,  \* credit notes that were approved
  cleared,   \* work orders whose invoice was found settled at the handover
  handed     \* how each work order was handed over

accounts == <<bill, open, rest, paid, entered, used, reversed, credited>>
avars == <<bill, open, rest, paid, entered, used, reversed, credited, cleared, handed>>

AInit ==
  /\ bill = [i \in Invoices |-> None] /\ open = [i \in Invoices |-> 0]
  /\ rest = [r \in Receipts |-> 0] /\ paid = [r \in Receipts |-> [i \in Invoices |-> 0]]
  /\ entered = {} /\ used = {} /\ reversed = {} /\ credited = {}
  /\ cleared = {} /\ handed = [w \in WorkOrders |-> "no"]

\* A work order is billed once.
Bill(i, w) ==
  /\ bill[i] = None /\ \A j \in Invoices : bill[j] # w
  /\ bill' = [bill EXCEPT ![i] = w]
  /\ open' = [open EXCEPT ![i] = Gross[i]]
  /\ UNCHANGED <<rest, paid, entered, used, reversed, credited, cleared, handed>>

\* A payment comes in once under its key.
Enter(r, a, k) ==
  /\ r \notin entered /\ k \notin used
  /\ entered' = entered \cup {r}
  /\ used' = used \cup ({k} \ {None})
  /\ rest' = [rest EXCEPT ![r] = a]
  /\ UNCHANGED <<bill, open, paid, reversed, credited, cleared, handed>>

Pay(r, i, a) ==
  /\ a <= rest[r] /\ a <= open[i]
  /\ rest' = [rest EXCEPT ![r] = @ - a]
  /\ open' = [open EXCEPT ![i] = @ - a]
  /\ paid' = [paid EXCEPT ![r][i] = @ + a]
  /\ UNCHANGED <<bill, entered, used, reversed, credited, cleared, handed>>

\* A credit note is worth its amount once.
Credit(c, i, a) ==
  /\ c \notin credited /\ a <= open[i]
  /\ credited' = credited \cup {c}
  /\ open' = [open EXCEPT ![i] = @ - a]
  /\ UNCHANGED <<bill, rest, paid, entered, used, reversed, cleared, handed>>

\* What a receipt has paid is owed again, and it pays nothing more.
Reverse(r) ==
  /\ r \in entered \ reversed
  /\ reversed' = reversed \cup {r}
  /\ rest' = [rest EXCEPT ![r] = 0]
  /\ open' = [i \in Invoices |-> open[i] + paid[r][i]]
  /\ UNCHANGED <<bill, paid, entered, used, credited, cleared, handed>>

\* The handover finds the invoice settled, at a moment of its own, and may still fail.
Clear(w) ==
  /\ handed[w] = "no" /\ w \notin cleared
  /\ \E i \in Invoices : bill[i] = w /\ open[i] = 0
  /\ cleared' = cleared \cup {w}
  /\ UNCHANGED <<accounts, handed>>

Withdraw(w) ==
  /\ handed[w] = "no" /\ w \in cleared
  /\ cleared' = cleared \ {w}
  /\ UNCHANGED <<accounts, handed>>

HandOver(w) ==
  /\ handed[w] = "no"
  /\ handed' = [handed EXCEPT ![w] = IF w \in cleared THEN "settled" ELSE "overridden"]
  /\ UNCHANGED <<accounts, cleared>>

ANext ==
  \/ \E i \in Invoices, w \in WorkOrders : Bill(i, w)
  \/ \E r \in Receipts, a \in Amounts, k \in Keys \cup {None} : Enter(r, a, k)
  \/ \E r \in Receipts, i \in Invoices, a \in Amounts : Pay(r, i, a)
  \/ \E c \in Credits, i \in Invoices, a \in Amounts : Credit(c, i, a)
  \/ \E r \in Receipts : Reverse(r)
  \/ \E w \in WorkOrders : Clear(w) \/ Withdraw(w) \/ HandOver(w)

ASpec == AInit /\ [][ANext]_avars

=============================================================================
