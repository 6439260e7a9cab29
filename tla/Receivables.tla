---------------------------- MODULE Receivables ----------------------------
(***************************************************************************)
(* Money owed by customers: invoices, receipts, their allocations, credit  *)
(* notes and reversals of the sal schema with the services of billing and  *)
(* payments, and the handover of a vehicle, which asks whether its invoice *)
(* is settled.                                                             *)
(*                                                                         *)
(* Each request is one transaction at READ COMMITTED. One that reads, waits*)
(* or decides before its last lock is several steps; one whose reads are   *)
(* all covered by locks it takes at its start is a single step. A request  *)
(* that finds its work done already (a replay) writes nothing and is no    *)
(* step. What an amount is worth at any moment is derived, never stored:   *)
(* OpenReceivable of an invoice and Unallocated of a receipt.              *)
(***************************************************************************)
EXTENDS Integers, FiniteSets, FiniteSetsExt

CONSTANTS
  Sessions,      \* database connections that serve requests
  WorkOrders,
  Invoices,
  Receipts,
  Credits,       \* credit notes
  Keys,          \* idempotency keys of receipts
  Gross,         \* gross_total of each invoice, fixed by its quotation
  Amounts,       \* amounts requests may name
  None           \* SQL NULL

ASSUME ReceivablesAssumption ==
  /\ IsFiniteSet(Invoices) /\ IsFiniteSet(Receipts) /\ IsFiniteSet(Credits)
  /\ Gross \in [Invoices -> Nat]
  /\ Amounts \subseteq Nat \ {0}
  /\ None \notin WorkOrders \cup Invoices \cup Receipts \cup Credits \cup Keys

VARIABLES
  invoice,       \* status and work order of each invoice
  receipt,       \* status, amount and idempotency key of each receipt
  allocated,     \* sum of the payment_allocations per receipt and invoice
  credit,        \* approval state, invoice and amount of each credit note
  reversal,      \* the reversal each receipt has: none, pending or approved
  booked,        \* sum of the financial_events per event type
  delivered,     \* how each work order was handed over
  tx,            \* the open transaction of each session
  held           \* the rows each session has locked

vars == <<invoice, receipt, allocated, credit, reversal, booked, delivered, tx, held>>
documents == <<invoice, receipt, allocated, credit, reversal, booked>>

EventTypes == {"invoice_issued", "receipt_recorded", "payment_allocated",
               "credit_note_issued", "receipt_reversed"}

Idle == [pc |-> "idle", kind |-> "none", wo |-> None, inv |-> None, rcp |-> None,
         crn |-> None, amount |-> 0, key |-> None, way |-> "no"]

-----------------------------------------------------------------------------
(* What an invoice and a receipt are worth.                                *)

\* Mutant of Counts: the money of a reversed receipt is still counted.
CountsAlways(r) == TRUE

\* Allocations of a reversed receipt no longer count.
Counts(r) == receipt[r].status # "reversed"

Paid(i) == SumFunctionOnSet([r \in Receipts |-> allocated[r][i]],
                            {r \in Receipts : Counts(r)})
Approved(i) == {c \in Credits : credit[c].state = "approved" /\ credit[c].invoice = i}
Credited(i) == SumFunctionOnSet([c \in Credits |-> credit[c].amount], Approved(i))

Issued(i) == invoice[i].status = "issued"

\* sal.invoice_open_receivable.
OpenReceivable(i) == IF Issued(i) THEN Gross[i] - Paid(i) - Credited(i) ELSE 0

AllocatedOf(r) == SumFunctionOnSet(allocated[r], Invoices)

\* sal.receipt_unallocated.
Unallocated(r) ==
  IF receipt[r].status \in {"absent", "reversed"} THEN 0
  ELSE receipt[r].amount - AllocatedOf(r)

\* The invoices of a work order that are not void.
Live(w) == {i \in Invoices : invoice[i].wo = w /\ invoice[i].status \in {"draft", "issued"}}

-----------------------------------------------------------------------------
(* Transactions.                                                           *)

\* The rows are free of the FOR UPDATE locks of others.
Free(s, locks) == \A u \in Sessions \ {s} : held[u] \cap locks = {}

Take(s, locks) == Free(s, locks) /\ held' = [held EXCEPT ![s] = @ \cup locks]

Begin(s, t, locks) == /\ tx[s].pc = "idle"
                      /\ Take(s, locks)
                      /\ tx' = [tx EXCEPT ![s] = t]
                      /\ UNCHANGED <<documents, delivered>>

End(s) == /\ tx' = [tx EXCEPT ![s] = Idle]
          /\ held' = [held EXCEPT ![s] = {}]

Abort(s) == End(s) /\ UNCHANGED <<documents, delivered>>

\* The financial event of a command, in its transaction.
Book(type, amount) == booked' = [booked EXCEPT ![type] = @ + amount]

\* A document that does not exist and that no open transaction is about to insert.
Fresh(x) == /\ \A i \in Invoices : i = x => invoice[i].status = "absent"
            /\ \A r \in Receipts : r = x => receipt[r].status = "absent"
            /\ \A u \in Sessions : tx[u].pc = "insert" => x \notin {tx[u].inv, tx[u].rcp}

-----------------------------------------------------------------------------
(* Invoices.                                                               *)

\* createInvoice looks for a live invoice of the work order, without a lock ...
CreateInvoice(s, w, i) ==
  /\ Fresh(i)
  /\ Live(w) = {}
  /\ Begin(s, [Idle EXCEPT !.pc = "insert", !.kind = "create", !.wo = w, !.inv = i], {})

\* Mutant of SlotFree: the index is missing.
SlotAlwaysFree(w) == TRUE

\* uq_invoices_work_order_active: one invoice of a work order that is not void.
SlotFree(w) == Live(w) = {}

\* ... and inserts the draft with its amounts and lines.
InsertInvoice(s) ==
  LET t == tx[s] IN
  /\ t.pc = "insert" /\ t.kind = "create"
  /\ IF SlotFree(t.wo)
     THEN /\ invoice' = [invoice EXCEPT ![t.inv] = [status |-> "draft", wo |-> t.wo]]
          /\ End(s)
          /\ UNCHANGED <<receipt, allocated, credit, reversal, booked, delivered>>
     ELSE Abort(s)

\* Issue or void: the invoice is locked first, and must still be a draft.
Decide(i, status) ==
  /\ invoice[i].status = "draft"
  /\ \A u \in Sessions : <<"invoice", i>> \notin held[u]
  /\ invoice' = [invoice EXCEPT ![i].status = status]
  /\ UNCHANGED <<receipt, allocated, credit, reversal, delivered, tx, held>>

IssueInvoice(i) == Decide(i, "issued") /\ Book("invoice_issued", Gross[i])

CancelInvoice(i) == Decide(i, "void_before_issue") /\ UNCHANGED booked

-----------------------------------------------------------------------------
(* Receipts and their allocations.                                         *)

WithKey(k) == {r \in Receipts : receipt[r].status # "absent" /\ receipt[r].key = k}

\* recordPayment looks the key up, and so does record_receipt, both without a lock.
RecordPayment(s, r, a, k) ==
  /\ Fresh(r)
  /\ k # None => WithKey(k) = {}
  /\ Begin(s, [Idle EXCEPT !.pc = "insert", !.kind = "record", !.rcp = r, !.amount = a,
                           !.key = k], {})

\* uq_receipts_idempotency.
KeyFree(k) == k = None \/ WithKey(k) = {}

RecordReceipt(s) ==
  LET t == tx[s] IN
  /\ t.pc = "insert" /\ t.kind = "record"
  /\ IF KeyFree(t.key)
     THEN /\ receipt' = [receipt EXCEPT ![t.rcp] =
                           [status |-> "recorded", amount |-> t.amount, key |-> t.key]]
          /\ Book("receipt_recorded", t.amount)
          /\ End(s)
          /\ UNCHANGED <<invoice, allocated, credit, reversal, delivered>>
     ELSE Abort(s)

\* Mutants of ReceiptLock and InvoiceLock: the row is read without FOR UPDATE.
NoReceiptLock(r) == {}
NoInvoiceLock(i) == {}

\* FOR UPDATE on the receipt and on the invoice, in that order.
ReceiptLock(r) == {<<"receipt", r>>}
InvoiceLock(i) == {<<"invoice", i>>}

\* allocatePayment locks the receipt and bounds the amount by what is left of it.
AllocatePayment(s, r, i, a) ==
  /\ Counts(r) /\ a <= Unallocated(r)
  /\ Begin(s, [Idle EXCEPT !.pc = "invoice", !.kind = "allocate", !.rcp = r, !.inv = i,
                           !.amount = a],
           ReceiptLock(r))

\* allocate_receipt then locks the invoice and bounds the amount by what is open;
\* the service's own look at the invoice, before that lock, can only refuse sooner.
LockInvoice(s) ==
  LET t == tx[s] IN
  /\ t.pc = "invoice"
  /\ Free(s, InvoiceLock(t.inv))
  /\ IF Issued(t.inv) /\ t.amount <= OpenReceivable(t.inv)
     THEN /\ Take(s, InvoiceLock(t.inv))
          /\ tx' = [tx EXCEPT ![s].pc = "write"]
          /\ UNCHANGED <<documents, delivered>>
     ELSE Abort(s)

\* Mutant of AllocationStatus: the sum before this allocation is looked at.
StatusBefore(r, a) == IF AllocatedOf(r) >= receipt[r].amount
                      THEN "allocated" ELSE "partially_allocated"

AllocationStatus(r, a) == IF AllocatedOf(r) + a >= receipt[r].amount
                          THEN "allocated" ELSE "partially_allocated"

AllocateReceipt(s) ==
  LET t == tx[s] IN
  /\ t.pc = "write" /\ t.kind = "allocate"
  /\ allocated' = [allocated EXCEPT ![t.rcp][t.inv] = @ + t.amount]
  /\ receipt' = [receipt EXCEPT ![t.rcp].status = AllocationStatus(t.rcp, t.amount)]
  /\ Book("payment_allocated", t.amount)
  /\ End(s)
  /\ UNCHANGED <<invoice, credit, reversal, delivered>>

-----------------------------------------------------------------------------
(* Credit notes.                                                           *)

\* A pending note is worth nothing yet. The ceiling is read under the invoice lock.
RequestCreditNote(c, i, a) ==
  /\ credit[c].state = "absent"
  /\ Issued(i) /\ a <= OpenReceivable(i)
  /\ \A u \in Sessions : <<"invoice", i>> \notin held[u]
  /\ credit' = [credit EXCEPT ![c] = [state |-> "pending", invoice |-> i, amount |-> a]]
  /\ UNCHANGED <<invoice, receipt, allocated, reversal, booked, delivered, tx, held>>

\* Somebody other than the requester approves: the note and then its invoice are
\* locked, and the ceiling is read again.
ApproveCreditNote(s, c) ==
  LET i == credit[c].invoice IN
  /\ credit[c].state = "pending"
  /\ credit[c].amount <= OpenReceivable(i)
  /\ Begin(s, [Idle EXCEPT !.pc = "write", !.kind = "approve", !.crn = c, !.inv = i],
           {<<"credit", c>>} \cup InvoiceLock(i))

CreditApproved(s) ==
  LET t == tx[s] IN
  /\ t.pc = "write" /\ t.kind = "approve"
  /\ credit' = [credit EXCEPT ![t.crn].state = "approved"]
  /\ Book("credit_note_issued", credit[t.crn].amount)
  /\ End(s)
  /\ UNCHANGED <<invoice, receipt, allocated, reversal, delivered>>

-----------------------------------------------------------------------------
(* Reversals: the schema's own functions; no route reaches them yet.       *)

\* The row names the receipt, so the insert waits for whoever has it FOR UPDATE.
RequestReversal(r) ==
  /\ receipt[r].status # "absent" /\ reversal[r] = "none"
  /\ \A u \in Sessions : <<"receipt", r>> \notin held[u]
  /\ reversal' = [reversal EXCEPT ![r] = "pending"]
  /\ UNCHANGED <<invoice, receipt, allocated, credit, booked, delivered, tx, held>>

\* Mutant of ReverseReceipt: the receipt keeps its status.
ReversalOnly(r) == reversal' = [reversal EXCEPT ![r] = "approved"] /\ UNCHANGED receipt

ReverseReceipt(r) == /\ reversal' = [reversal EXCEPT ![r] = "approved"]
                     /\ receipt' = [receipt EXCEPT ![r].status = "reversed"]

\* The receipt is locked; no invoice is, though what is open of them grows.
ApproveReceiptReversal(r) ==
  /\ reversal[r] = "pending"
  /\ \A u \in Sessions : <<"receipt", r>> \notin held[u]
  /\ ReverseReceipt(r)
  /\ Book("receipt_reversed", receipt[r].amount)
  /\ UNCHANGED <<invoice, allocated, credit, delivered, tx, held>>

-----------------------------------------------------------------------------
(* The handover.                                                           *)

\* completeDelivery locks the delivery record, which no document is tied to.
CompleteDelivery(s, w) ==
  /\ delivered[w] = "no"
  /\ Begin(s, [Idle EXCEPT !.pc = "assess", !.kind = "deliver", !.wo = w],
           {<<"delivery", w>>})

\* Mutant of Settled: a live invoice with nothing open will do, also a draft.
NothingOpen(w) == \E i \in Live(w) : OpenReceivable(i) = 0

\* readFinancialFact: no live invoice, or one not issued, is not a settled one.
Settled(w) == \E i \in Live(w) : Issued(i) /\ OpenReceivable(i) = 0

\* The facts are read without a lock; an unsettled balance is refused unless the
\* caller overrides that blocker. Any other blocker is a rollback.
Assess(s) ==
  /\ tx[s].pc = "assess"
  /\ \/ tx' = [tx EXCEPT ![s].pc = "write",
                         ![s].way = IF Settled(tx[s].wo) THEN "settled" ELSE "overridden"]
        /\ UNCHANGED <<documents, delivered, held>>
     \/ ~Settled(tx[s].wo) /\ Abort(s)

Deliver(s) ==
  /\ tx[s].pc = "write" /\ tx[s].kind = "deliver"
  /\ delivered' = [delivered EXCEPT ![tx[s].wo] = tx[s].way]
  /\ End(s)
  /\ UNCHANGED documents

-----------------------------------------------------------------------------
\* Any error, timeout or lost connection rolls the transaction back.
Rollback(s) == tx[s].pc # "idle" /\ Abort(s)

Init ==
  /\ invoice = [i \in Invoices |-> [status |-> "absent", wo |-> None]]
  /\ receipt = [r \in Receipts |-> [status |-> "absent", amount |-> 0, key |-> None]]
  /\ allocated = [r \in Receipts |-> [i \in Invoices |-> 0]]
  /\ credit = [c \in Credits |-> [state |-> "absent", invoice |-> None, amount |-> 0]]
  /\ reversal = [r \in Receipts |-> "none"]
  /\ booked = [e \in EventTypes |-> 0]
  /\ delivered = [w \in WorkOrders |-> "no"]
  /\ tx = [s \in Sessions |-> Idle]
  /\ held = [s \in Sessions |-> {}]

\* The requests that are one step.
Request == \/ \E i \in Invoices : IssueInvoice(i) \/ CancelInvoice(i)
           \/ \E c \in Credits, i \in Invoices, a \in Amounts : RequestCreditNote(c, i, a)
           \/ \E r \in Receipts : RequestReversal(r) \/ ApproveReceiptReversal(r)

BeginRequest(s) ==
  \/ \E w \in WorkOrders, i \in Invoices : CreateInvoice(s, w, i)
  \/ \E r \in Receipts, a \in Amounts, k \in Keys \cup {None} : RecordPayment(s, r, a, k)
  \/ \E r \in Receipts, i \in Invoices, a \in Amounts : AllocatePayment(s, r, i, a)
  \/ \E c \in Credits : ApproveCreditNote(s, c)
  \/ \E w \in WorkOrders : CompleteDelivery(s, w)

Finish(s) == \/ InsertInvoice(s) \/ RecordReceipt(s) \/ AllocateReceipt(s)
             \/ CreditApproved(s) \/ Deliver(s)

Next == \/ Request
        \/ \E s \in Sessions :
             BeginRequest(s) \/ LockInvoice(s) \/ Assess(s) \/ Finish(s) \/ Rollback(s)

Spec == Init /\ [][Next]_vars

-----------------------------------------------------------------------------
(* Properties.                                                             *)

\* Types, with the rule of guard_receipt_freeze: a receipt is reversed exactly
\* when its reversal is approved.
TypeOK ==
  /\ invoice \in [Invoices -> [status : {"absent", "draft", "issued", "void_before_issue"},
                               wo : WorkOrders \cup {None}]]
  /\ receipt \in [Receipts -> [status : {"absent", "recorded", "partially_allocated",
                                         "allocated", "reversed"},
                               amount : {0} \cup Amounts, key : Keys \cup {None}]]
  /\ allocated \in [Receipts -> [Invoices -> Nat]]
  /\ credit \in [Credits -> [state : {"absent", "pending", "approved"},
                             invoice : Invoices \cup {None}, amount : {0} \cup Amounts]]
  /\ reversal \in [Receipts -> {"none", "pending", "approved"}]
  /\ \A r \in Receipts : (receipt[r].status = "reversed") <=> (reversal[r] = "approved")
  /\ booked \in [EventTypes -> Nat]
  /\ delivered \in [WorkOrders -> {"no", "settled", "overridden"}]
  /\ tx \in [Sessions ->
       [pc : {"idle", "insert", "invoice", "assess", "write"},
        kind : {"none", "create", "record", "allocate", "approve", "deliver"},
        wo : WorkOrders \cup {None}, inv : Invoices \cup {None},
        rcp : Receipts \cup {None}, crn : Credits \cup {None},
        amount : {0} \cup Amounts, key : Keys \cup {None},
        way : {"no", "settled", "overridden"}]]
  /\ held \in [Sessions -> SUBSET ({"invoice", "receipt", "credit", "delivery"}
                                    \X (Invoices \cup Receipts \cup Credits \cup WorkOrders))]

\* Payments and credits never take more off an invoice than it is worth, whatever
\* allocations, credit approvals and reversals race for it (H-fin-2).
NeverOverpaid == \A i \in Invoices : OpenReceivable(i) >= 0

\* A payment counts once. Retried while its first attempt is open it is recorded once;
\* a receipt is never allocated beyond its amount, and its status says how far it is
\* (BR-SAL-002), also when two requests spend the rest of it at once.
ReceiptSpentOnce ==
  /\ \A k \in Keys : Cardinality(WithKey(k)) <= 1
  /\ \A r \in Receipts : receipt[r].status \notin {"absent", "reversed"} =>
       /\ AllocatedOf(r) <= receipt[r].amount
       /\ receipt[r].status = IF AllocatedOf(r) = 0 THEN "recorded"
                              ELSE IF AllocatedOf(r) < receipt[r].amount
                              THEN "partially_allocated" ELSE "allocated"

\* The immutable ledger alone yields what customers owe: issued less credited less
\* received (net of reversals) is what is open on invoices less what is unspent of
\* receipts.
LedgerAgrees ==
  booked["invoice_issued"] - booked["credit_note_issued"]
    - (booked["receipt_recorded"] - booked["receipt_reversed"])
  = SumFunctionOnSet([i \in Invoices |-> OpenReceivable(i)], Invoices)
    - SumFunctionOnSet([r \in Receipts |-> Unallocated(r)], Receipts)

\* Two requests that both found no live invoice bill a work order once.
OneLiveInvoice == \A w \in WorkOrders : Cardinality(Live(w)) <= 1

\* A vehicle that left without an override had an issued invoice which payments (also
\* those reversed since) and credits had covered, although the balance is read
\* without a lock on any of them.
Covered(w) ==
  \E i \in Live(w) :
    /\ Issued(i)
    /\ SumFunctionOnSet([r \in Receipts |-> allocated[r][i]], Receipts) + Credited(i) >= Gross[i]

HandedOverPaid == \A w \in WorkOrders : delivered[w] = "settled" => Covered(w)

-----------------------------------------------------------------------------
(* The abstract specification: the derived balances are kept accounts.     *)

\* The work orders whose invoice a handover found settled, done or still open.
Cleared == {w \in WorkOrders :
              \/ delivered[w] = "settled"
              \/ \E s \in Sessions : /\ tx[s].kind = "deliver" /\ tx[s].wo = w
                                     /\ tx[s].way = "settled"}

Accounts == INSTANCE CustomerAccounts WITH
  bill <- [i \in Invoices |-> IF Issued(i) THEN invoice[i].wo ELSE None],
  open <- [i \in Invoices |-> OpenReceivable(i)],
  rest <- [r \in Receipts |-> Unallocated(r)],
  paid <- allocated,
  entered <- {r \in Receipts : receipt[r].status # "absent"},
  used <- {receipt[r].key : r \in {q \in Receipts : receipt[q].status # "absent"}} \ {None},
  reversed <- {r \in Receipts : receipt[r].status = "reversed"},
  credited <- {c \in Credits : credit[c].state = "approved"},
  cleared <- Cleared,
  handed <- delivered

\* The sums that are derived anew at every look behave like accounts on which each
\* request is one posting that overdraws nothing, although the sum was read some steps
\* before the row it depends on is written; and a vehicle leaves as settled only if its
\* invoice was, at one moment, owed nothing.
BalancesAreAccounts == Accounts!ASpec

-----------------------------------------------------------------------------
(* The inductive invariant behind the properties.                          *)

\* Money moves on documents that exist: only a recorded receipt is allocated or
\* reversed, and only an issued invoice is paid or credited.
Documented ==
  /\ \A r \in Receipts, i \in Invoices :
       allocated[r][i] > 0 => receipt[r].status # "absent" /\ Issued(i)
  /\ \A r \in Receipts : receipt[r].status = "absent" => reversal[r] = "none"
  /\ \A c \in Credits : credit[c].state # "absent" =>
       credit[c].invoice \in Invoices /\ Issued(credit[c].invoice)

\* What an open transaction has read and may rely on, under the locks it holds.
Relies(t, locks) ==
  /\ t.pc = "insert" =>
       \/ /\ t.kind = "create" /\ t.wo \in WorkOrders /\ t.inv \in Invoices
          /\ invoice[t.inv].status = "absent"
       \/ t.kind = "record" /\ t.rcp \in Receipts /\ receipt[t.rcp].status = "absent"
  /\ t.pc = "invoice" => t.kind = "allocate"
  /\ t.pc = "assess" => t.kind = "deliver"
  /\ t.kind = "allocate" =>
       /\ t.pc \in {"invoice", "write"}
       /\ t.rcp \in Receipts /\ t.inv \in Invoices /\ t.amount \in Amounts
       /\ <<"receipt", t.rcp>> \in locks
       /\ receipt[t.rcp].status \notin {"absent", "reversed"}
       /\ t.amount <= Unallocated(t.rcp)
       /\ t.pc = "write" => /\ <<"invoice", t.inv>> \in locks
                            /\ Issued(t.inv) /\ t.amount <= OpenReceivable(t.inv)
  /\ t.kind = "approve" =>
       /\ t.crn \in Credits /\ t.inv \in Invoices
       /\ {<<"credit", t.crn>>, <<"invoice", t.inv>>} \subseteq locks
       /\ credit[t.crn].state = "pending" /\ credit[t.crn].invoice = t.inv
       /\ Issued(t.inv) /\ credit[t.crn].amount <= OpenReceivable(t.inv)
  /\ t.kind = "deliver" => t.wo \in WorkOrders /\ (t.way = "settled" => Covered(t.wo))

Carried == \A s \in Sessions : tx[s].pc # "idle" => Relies(tx[s], held[s])

\* No row is locked twice, and no document is about to be inserted twice.
Exclusive ==
  \A s, u \in Sessions : s # u =>
    /\ held[s] \cap held[u] = {}
    /\ (tx[s].pc = "insert" /\ tx[u].pc = "insert") =>
         /\ tx[s].inv \in Invoices => tx[u].inv # tx[s].inv
         /\ tx[s].rcp \in Receipts => tx[u].rcp # tx[s].rcp

\* What the postings need besides: an invoice bills a work order, amounts are those that
\* were named, and a handover that is open has the delivery record to itself.
Posted ==
  /\ \A i \in Invoices : invoice[i].status # "absent" => invoice[i].wo \in WorkOrders
  /\ \A c \in Credits : credit[c].state # "absent" => credit[c].amount \in Amounts
  /\ \A s \in Sessions :
       /\ tx[s].kind = "record" => tx[s].amount \in Amounts
       /\ tx[s].kind = "deliver" =>
            /\ tx[s].pc \in {"assess", "write"} /\ tx[s].wo \in WorkOrders
            /\ tx[s].way = "no" <=> tx[s].pc = "assess"
            /\ <<"delivery", tx[s].wo>> \in held[s] /\ delivered[tx[s].wo] = "no"

Inv == /\ TypeOK /\ Documented /\ Carried /\ Exclusive
       /\ NeverOverpaid /\ ReceiptSpentOnce /\ LedgerAgrees /\ OneLiveInvoice /\ HandedOverPaid

=============================================================================
