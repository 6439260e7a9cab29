------------------------- MODULE ReceivablesProofs -------------------------
(***************************************************************************)
(* Proofs about Receivables: no invoice is overpaid, no receipt is spent   *)
(* twice, the ledger yields the balance and nothing is handed over unpaid, *)
(* for every number of documents and connections. The balances are sums    *)
(* that change by one term, which SumTheorems is about. And, step by step, *)
(* that they implement the accounts of CustomerAccounts.                   *)
(***************************************************************************)
EXTENDS Receivables, SumTheorems

USE ReceivablesAssumption

-----------------------------------------------------------------------------
(* What the sums are, and when they stay.                                  *)

PaidBy(i) == [r \in Receipts |-> allocated[r][i]]
Credit == [c \in Credits |-> credit[c].amount]
Counting == {r \in Receipts : Counts(r)}

\* The sums range over finite sets.
LEMMA Parts ==
  /\ IsFiniteSet(Counting)
  /\ \A i : IsFiniteSet(Approved(i))
<1>1. Counting \subseteq Receipts /\ \A i : Approved(i) \subseteq Credits
  BY DEF Counting, Approved
<1> QED
  BY <1>1, FS_Subset

\* Money is counted in natural numbers.
LEMMA Natural ==
  ASSUME TypeOK
  PROVE  /\ \A r \in Receipts, i \in Invoices : allocated[r][i] \in Nat
         /\ \A r \in Receipts : receipt[r].amount \in Nat
         /\ \A c \in Credits : credit[c].amount \in Nat
         /\ \A i \in Invoices : Gross[i] \in Nat
         /\ \A e \in EventTypes : booked[e] \in Nat
<1>1. {0} \cup Amounts \subseteq Nat
  OBVIOUS
<1>2. \A r \in Receipts, i \in Invoices : allocated[r][i] \in Nat
  BY DEF TypeOK
<1>3. \A r \in Receipts : receipt[r].amount \in Nat
  BY <1>1 DEF TypeOK
<1>4. \A c \in Credits : credit[c].amount \in Nat
  BY <1>1 DEF TypeOK
<1>5. \A e \in EventTypes : booked[e] \in Nat
  BY DEF TypeOK
<1> QED
  BY <1>2, <1>3, <1>4, <1>5

\* Sums of money are natural numbers ...
LEMMA Sums ==
  ASSUME TypeOK
  PROVE  /\ \A i \in Invoices : Paid(i) \in Nat /\ Credited(i) \in Nat
         /\ \A r \in Receipts : AllocatedOf(r) \in Nat
<1>1. ASSUME NEW i \in Invoices PROVE Paid(i) \in Nat
  <2>1. \A r \in Counting : PaidBy(i)[r] \in Nat
    BY Natural DEF Counting, PaidBy
  <2>2. SumFunctionOnSet(PaidBy(i), Counting) \in Nat
    BY <2>1, Parts, SumNatural
  <2> QED
    BY <2>2 DEF Paid, PaidBy, Counting
<1>2. ASSUME NEW i \in Invoices PROVE Credited(i) \in Nat
  <2>1. \A c \in Approved(i) : Credit[c] \in Nat
    BY Natural DEF Approved, Credit
  <2>2. SumFunctionOnSet(Credit, Approved(i)) \in Nat
    BY <2>1, Parts, SumNatural
  <2> QED
    BY <2>2 DEF Credited, Credit
<1>3. ASSUME NEW r \in Receipts PROVE AllocatedOf(r) \in Nat
  <2>1. SumFunctionOnSet(allocated[r], Invoices) \in Nat
    BY Natural, SumNatural
  <2> QED
    BY <2>1 DEF AllocatedOf
<1> QED
  BY <1>1, <1>2, <1>3

\* ... and what is left after them is an integer, before it is known not to be negative.
LEMMA Balances ==
  ASSUME TypeOK
  PROVE  /\ \A i \in Invoices : OpenReceivable(i) \in Int
         /\ \A r \in Receipts : Unallocated(r) \in Int
<1>1. ASSUME NEW i \in Invoices PROVE OpenReceivable(i) \in Int
  <2>1. Paid(i) \in Nat /\ Credited(i) \in Nat /\ Gross[i] \in Nat
    BY Sums, Natural
  <2> QED
    BY <2>1 DEF OpenReceivable
<1>2. ASSUME NEW r \in Receipts PROVE Unallocated(r) \in Int
  <2>1. AllocatedOf(r) \in Nat /\ receipt[r].amount \in Nat
    BY Sums, Natural
  <2> QED
    BY <2>1 DEF Unallocated
<1> QED
  BY <1>1, <1>2

\* What is counted, spent and owed.
Worth == /\ \A r \in Receipts, i \in Invoices : allocated[r][i] \in Nat
         /\ \A r \in Receipts : AllocatedOf(r) \in Nat /\ Unallocated(r) \in Int
         /\ \A i \in Invoices : Paid(i) \in Nat /\ Credited(i) \in Nat /\ OpenReceivable(i) \in Int

\* The same one step later.
LEMMA NextWorth == TypeOK' => Worth'
<1>1. TypeOK => Worth
  BY Natural, Sums, Balances DEF Worth
<1> QED
  BY <1>1, PTL

\* The conjuncts of Worth in the next state.
LEMMA NextState ==
  ASSUME TypeOK'
  PROVE  /\ \A r \in Receipts, i \in Invoices : allocated'[r][i] \in Nat
         /\ \A r \in Receipts : AllocatedOf(r)' \in Nat /\ Unallocated(r)' \in Int
         /\ \A i \in Invoices : Paid(i)' \in Nat /\ Credited(i)' \in Nat
         /\ \A i \in Invoices : OpenReceivable(i)' \in Int
  BY NextWorth DEF Worth

\* What is paid on an invoice changes with its allocations and with their receipts.
LEMMA PaidLasts ==
  ASSUME NEW i \in Invoices,
         \A r \in Receipts : allocated'[r][i] = allocated[r][i] /\ (Counts(r)' <=> Counts(r))
  PROVE  Paid(i)' = Paid(i)
<1>1. PaidBy(i)' = PaidBy(i) /\ Counting' = Counting
  BY DEF PaidBy, Counting
<1>2. Paid(i) = SumFunctionOnSet(PaidBy(i), Counting)
  BY DEF Paid, PaidBy, Counting
<1>3. Paid(i)' = SumFunctionOnSet(PaidBy(i)', Counting')
  BY DEF Paid, PaidBy, Counting
<1> QED
  BY <1>1, <1>2, <1>3

\* What is credited changes with the approved notes and their amounts.
LEMMA CreditedLasts ==
  ASSUME NEW i \in Invoices, Approved(i)' = Approved(i),
         \A c \in Approved(i) : credit'[c].amount = credit[c].amount
  PROVE  Credited(i)' = Credited(i)
<1>1. Credited(i) = SumFunctionOnSet(Credit, Approved(i))
  BY DEF Credited, Credit
<1>2. Credited(i)' = SumFunctionOnSet(Credit', Approved(i)')
  BY DEF Credited, Credit
<1>3. \A c \in Approved(i) : Credit[c] = Credit'[c]
  BY DEF Approved, Credit
<1>4. SumFunctionOnSet(Credit, Approved(i)) = SumFunctionOnSet(Credit', Approved(i))
  BY <1>3, Parts, SumSame
<1> QED
  BY <1>1, <1>2, <1>4

\* What is spent of a receipt changes with its allocations.
LEMMA AllocatedLasts ==
  ASSUME NEW r \in Receipts, \A i \in Invoices : allocated'[r][i] = allocated[r][i]
  PROVE  AllocatedOf(r)' = AllocatedOf(r)
<1>1. SumFunctionOnSet(allocated[r], Invoices) = SumFunctionOnSet(allocated'[r], Invoices)
  BY SumSame
<1> QED
  BY <1>1 DEF AllocatedOf

\* While the documents stay, so does what they are worth.
LEMMA Unmoved ==
  ASSUME UNCHANGED documents
  PROVE  /\ \A i \in Invoices : /\ Issued(i)' = Issued(i) /\ Paid(i)' = Paid(i)
                                /\ Credited(i)' = Credited(i)
                                /\ OpenReceivable(i)' = OpenReceivable(i)
         /\ \A r \in Receipts : /\ AllocatedOf(r)' = AllocatedOf(r)
                                /\ Unallocated(r)' = Unallocated(r)
         /\ \A w : Live(w)' = Live(w)
         /\ \A w : Covered(w)' = Covered(w)
  BY DEF documents, Issued, Paid, Credited, OpenReceivable, AllocatedOf, Unallocated, Live,
         Covered, Counts, Approved

\* Nothing is paid or credited before an invoice is issued, nor spent of a receipt
\* before it is recorded.
LEMMA Nothing ==
  ASSUME TypeOK, Documented
  PROVE  /\ \A i \in Invoices : ~ Issued(i) =>
              /\ Paid(i) = 0 /\ Credited(i) = 0
              /\ \A r \in Receipts : allocated[r][i] = 0
         /\ \A r \in Receipts : receipt[r].status = "absent" => AllocatedOf(r) = 0
<1>1. ASSUME NEW i \in Invoices, ~ Issued(i)
      PROVE  Paid(i) = 0 /\ Credited(i) = 0 /\ \A r \in Receipts : allocated[r][i] = 0
  <2>1. \A r \in Receipts : allocated[r][i] = 0
    BY <1>1, Natural DEF Documented
  <2>2. \A r \in Counting : PaidBy(i)[r] = 0
    BY <2>1 DEF Counting, PaidBy
  <2>3. SumFunctionOnSet(PaidBy(i), Counting) = 0
    BY <2>2, Parts, SumZero
  <2>4. Approved(i) = {}
    BY <1>1 DEF Approved, Documented
  <2>5. SumFunctionOnSet(Credit, {}) = 0
    BY SumZero, FS_EmptySet
  <2> QED
    BY <2>1, <2>3, <2>4, <2>5 DEF Paid, PaidBy, Counting, Credited, Credit
<1>2. ASSUME NEW r \in Receipts, receipt[r].status = "absent" PROVE AllocatedOf(r) = 0
  <2>1. \A i \in Invoices : allocated[r][i] = 0
    BY <1>2, Natural DEF Documented
  <2>2. SumFunctionOnSet(allocated[r], Invoices) = 0
    BY <2>1, SumZero
  <2> QED
    BY <2>2 DEF AllocatedOf
<1> QED
  BY <1>1, <1>2

-----------------------------------------------------------------------------
(* How the balances move.                                                  *)

\* An allocation moves money from one receipt to one invoice.
LEMMA Allocation ==
  ASSUME TypeOK, NEW r \in Receipts, NEW i \in Invoices, NEW a \in Nat, NEW status,
         Counts(r), status # "reversed",
         allocated' = [allocated EXCEPT ![r][i] = @ + a],
         receipt' = [receipt EXCEPT ![r].status = status]
  PROVE  /\ Paid(i)' = Paid(i) + a /\ AllocatedOf(r)' = AllocatedOf(r) + a
         /\ \A j \in Invoices \ {i} : Paid(j)' = Paid(j)
         /\ \A q \in Receipts \ {r} : AllocatedOf(q)' = AllocatedOf(q)
<1>1. /\ allocated'[r][i] = allocated[r][i] + a
      /\ \A q \in Receipts, j \in Invoices :
           q # r \/ j # i => allocated'[q][j] = allocated[q][j]
  BY DEF TypeOK
<1>2. \A q \in Receipts : Counts(q)' <=> Counts(q)
  BY DEF TypeOK, Counts
<1>3. Paid(i)' = Paid(i) + a
  <2> DEFINE f == PaidBy(i)
             g == PaidBy(i)'
  <2>1. Counting' = Counting /\ r \in Counting
    BY <1>2 DEF Counting
  <2>2. /\ \A q \in Counting : f[q] \in Int
        /\ g[r] = f[r] + a /\ g[r] \in Int /\ f[r] \in Int
        /\ \A q \in Counting \ {r} : g[q] = f[q]
    BY <1>1, Natural DEF PaidBy, Counting
  <2>3. Paid(i) = SumFunctionOnSet(f, Counting) /\ Paid(i)' = SumFunctionOnSet(g, Counting)
    BY <2>1 DEF Paid, PaidBy, Counting
  <2> HIDE DEF f, g
  <2>4. SumFunctionOnSet(g, Counting) = SumFunctionOnSet(f, Counting) + g[r] - f[r]
    BY <2>1, <2>2, Parts, SumChange
  <2>5. SumFunctionOnSet(f, Counting) \in Int
    BY <2>2, Parts, SumType
  <2> QED
    BY <2>2, <2>3, <2>4, <2>5
<1>4. AllocatedOf(r)' = AllocatedOf(r) + a
  <2> DEFINE f == allocated[r]
             g == allocated'[r]
  <2>1. /\ \A j \in Invoices : f[j] \in Int
        /\ g[i] = f[i] + a /\ g[i] \in Int /\ f[i] \in Int
        /\ \A j \in Invoices \ {i} : g[j] = f[j]
    BY <1>1, Natural
  <2>2. AllocatedOf(r) = SumFunctionOnSet(f, Invoices)
        /\ AllocatedOf(r)' = SumFunctionOnSet(g, Invoices)
    BY DEF AllocatedOf
  <2> HIDE DEF f, g
  <2>3. SumFunctionOnSet(g, Invoices) = SumFunctionOnSet(f, Invoices) + g[i] - f[i]
    BY <2>1, SumChange
  <2>4. SumFunctionOnSet(f, Invoices) \in Int
    BY <2>1, SumType
  <2> QED
    BY <2>1, <2>2, <2>3, <2>4
<1>5. ASSUME NEW j \in Invoices \ {i} PROVE Paid(j)' = Paid(j)
  BY <1>1, <1>2, PaidLasts
<1>6. ASSUME NEW q \in Receipts \ {r} PROVE AllocatedOf(q)' = AllocatedOf(q)
  BY <1>1, AllocatedLasts
<1> QED
  BY <1>3, <1>4, <1>5, <1>6

\* A reversal gives every invoice its allocation back.
LEMMA Reversed ==
  ASSUME TypeOK, NEW r \in Receipts, Counts(r),
         allocated' = allocated, receipt' = [receipt EXCEPT ![r].status = "reversed"]
  PROVE  \A i \in Invoices : Paid(i)' = Paid(i) - allocated[r][i]
<1> SUFFICES ASSUME NEW i \in Invoices PROVE Paid(i)' = Paid(i) - allocated[r][i]
  OBVIOUS
<1>1. Counting' = Counting \ {r} /\ r \in Counting
  BY DEF Counting, Counts, TypeOK
<1>2. PaidBy(i)' = PaidBy(i) /\ PaidBy(i)[r] = allocated[r][i]
  BY DEF PaidBy
<1>3. \A q \in Counting : PaidBy(i)[q] \in Int
  BY Natural DEF PaidBy, Counting
<1>4. SumFunctionOnSet(PaidBy(i), Counting)
      = PaidBy(i)[r] + SumFunctionOnSet(PaidBy(i), Counting \ {r})
  BY <1>1, <1>3, Parts, SumRemove
<1>5. SumFunctionOnSet(PaidBy(i), Counting \ {r}) \in Int
  <2>1. IsFiniteSet(Counting \ {r})
    BY Parts, FS_Subset
  <2> QED
    BY <2>1, <1>3, SumType
<1>6. /\ Paid(i) = SumFunctionOnSet(PaidBy(i), Counting)
      /\ Paid(i)' = SumFunctionOnSet(PaidBy(i), Counting \ {r})
  BY <1>1, <1>2 DEF Paid, PaidBy, Counting
<1> QED
  BY <1>2, <1>4, <1>5, <1>6, Natural

\* An approved credit note counts for its invoice.
LEMMA CreditCounts ==
  ASSUME TypeOK, NEW c \in Credits, credit[c].state = "pending",
         credit' = [credit EXCEPT ![c].state = "approved"]
  PROVE  \A i \in Invoices :
           Credited(i)' = Credited(i) + IF i = credit[c].invoice THEN credit[c].amount ELSE 0
<1>1. Credit' = Credit
  BY DEF Credit, TypeOK
<1>2. ASSUME NEW i \in Invoices, i = credit[c].invoice
      PROVE  Credited(i)' = Credited(i) + credit[c].amount
  <2>1. Approved(i)' = Approved(i) \cup {c} /\ c \notin Approved(i)
    BY <1>2 DEF Approved, TypeOK
  <2>2. \A d \in Approved(i) \cup {c} : Credit[d] \in Int
    BY Natural DEF Credit, Approved
  <2>3. SumFunctionOnSet(Credit, Approved(i) \cup {c})
        = SumFunctionOnSet(Credit, Approved(i)) + Credit[c]
    BY <2>1, <2>2, Parts, SumAdd
  <2>4. /\ Credited(i) = SumFunctionOnSet(Credit, Approved(i))
        /\ Credited(i)' = SumFunctionOnSet(Credit', Approved(i)')
    BY DEF Credited, Credit
  <2> QED
    BY <1>1, <2>1, <2>3, <2>4 DEF Credit
<1>3. ASSUME NEW i \in Invoices, i # credit[c].invoice PROVE Credited(i)' = Credited(i)
  <2>1. Approved(i)' = Approved(i)
    BY <1>3 DEF Approved, TypeOK
  <2>2. \A d \in Approved(i) : credit'[d].amount = credit[d].amount
    BY DEF Approved, TypeOK
  <2> QED
    BY <2>1, <2>2, CreditedLasts
<1>4. \A i \in Invoices : Credited(i) \in Nat
  BY Sums
<1> QED
  BY <1>2, <1>3, <1>4

-----------------------------------------------------------------------------
(* Types.                                                                  *)

Tx == [pc : {"idle", "insert", "invoice", "assess", "write"},
       kind : {"none", "create", "record", "allocate", "approve", "deliver"},
       wo : WorkOrders \cup {None}, inv : Invoices \cup {None},
       rcp : Receipts \cup {None}, crn : Credits \cup {None},
       amount : {0} \cup Amounts, key : Keys \cup {None},
       way : {"no", "settled", "overridden"}]

Rows == {"invoice", "receipt", "credit", "delivery"}
          \X (Invoices \cup Receipts \cup Credits \cup WorkOrders)

Invoice == [status : {"absent", "draft", "issued", "void_before_issue"},
            wo : WorkOrders \cup {None}]
Receipt == [status : {"absent", "recorded", "partially_allocated", "allocated", "reversed"},
            amount : {0} \cup Amounts, key : Keys \cup {None}]

CreditNote == [state : {"absent", "pending", "approved"}, invoice : Invoices \cup {None},
               amount : {0} \cup Amounts]

DocumentsOK ==
  /\ invoice \in [Invoices -> Invoice]
  /\ receipt \in [Receipts -> Receipt]
  /\ allocated \in [Receipts -> [Invoices -> Nat]]
  /\ credit \in [Credits -> CreditNote]
  /\ reversal \in [Receipts -> {"none", "pending", "approved"}]
  /\ \A r \in Receipts : (receipt[r].status = "reversed") <=> (reversal[r] = "approved")
  /\ booked \in [EventTypes -> Nat]

\* TypeOK with names for its record sets.
LEMMA TypeParts ==
  TypeOK <=> /\ DocumentsOK
             /\ delivered \in [WorkOrders -> {"no", "settled", "overridden"}]
             /\ tx \in [Sessions -> Tx]
             /\ held \in [Sessions -> SUBSET Rows]
  BY DEF TypeOK, DocumentsOK, Invoice, Receipt, CreditNote, Tx, Rows

\* An idle connection has a well-typed transaction.
LEMMA IdleType == Idle \in Tx
  BY DEF Idle, Tx

\* Beginning a transaction keeps the types.
LEMMA BeginTypes ==
  ASSUME TypeOK, NEW s \in Sessions, NEW t \in Tx, NEW locks \in SUBSET Rows,
         Begin(s, t, locks)
  PROVE  TypeOK'
<1>1. DocumentsOK' /\ delivered' = delivered
  BY TypeParts DEF Begin, documents, DocumentsOK
<1>2. tx' \in [Sessions -> Tx] /\ held' \in [Sessions -> SUBSET Rows]
  BY TypeParts DEF Begin, Take
<1> QED
  BY <1>1, <1>2, TypeParts DEF TypeOK, DocumentsOK, Invoice, Receipt, CreditNote, Tx, Rows

\* So does ending one.
LEMMA EndTypes ==
  ASSUME TypeOK, NEW s \in Sessions, End(s)
  PROVE  tx' \in [Sessions -> Tx] /\ held' \in [Sessions -> SUBSET Rows]
  BY TypeParts, IdleType DEF End

\* An amount booked leaves the ledger natural numbers.
LEMMA BookTypes ==
  ASSUME TypeOK, NEW e \in EventTypes, NEW a \in Nat, Book(e, a)
  PROVE  booked' \in [EventTypes -> Nat]
  BY DEF TypeOK, Book

\* TypeOK of the next state from its parts.
LEMMA TypePartsNext ==
  ASSUME DocumentsOK', delivered' \in [WorkOrders -> {"no", "settled", "overridden"}],
         tx' \in [Sessions -> Tx], held' \in [Sessions -> SUBSET Rows]
  PROVE  TypeOK'
  BY DEF TypeOK, DocumentsOK, Invoice, Receipt, CreditNote, Tx, Rows

\* A rollback keeps the types.
LEMMA AbortTypes ==
  ASSUME TypeOK, NEW s \in Sessions, Abort(s)
  PROVE  TypeOK'
<1>1. DocumentsOK' /\ delivered' = delivered
  BY TypeParts DEF Abort, documents, DocumentsOK
<1>2. tx' \in [Sessions -> Tx] /\ held' \in [Sessions -> SUBSET Rows]
  BY EndTypes DEF Abort
<1> QED
  BY <1>1, <1>2, TypeParts, TypePartsNext

\* An invoice that changes its status keeps its type.
LEMMA DraftTypes ==
  ASSUME TypeOK, NEW i \in Invoices, NEW status \in {"issued", "void_before_issue"}
  PROVE  [invoice EXCEPT ![i].status = status] \in [Invoices -> Invoice]
<1>1. [invoice[i] EXCEPT !.status = status] \in Invoice
  <2>1. invoice[i] \in Invoice
    BY TypeParts DEF DocumentsOK
  <2> QED
    BY <2>1 DEF Invoice
<1> QED
  BY <1>1, TypeParts DEF DocumentsOK

\* So does a receipt.
LEMMA ReceiptTypes ==
  ASSUME TypeOK, NEW r \in Receipts,
         NEW status \in {"partially_allocated", "allocated", "reversed"}
  PROVE  [receipt EXCEPT ![r].status = status] \in [Receipts -> Receipt]
<1>1. [receipt[r] EXCEPT !.status = status] \in Receipt
  <2>1. receipt[r] \in Receipt
    BY TypeParts DEF DocumentsOK
  <2> QED
    BY <2>1 DEF Receipt
<1> QED
  BY <1>1, TypeParts DEF DocumentsOK

\* The steps of one request keep the types.
LEMMA RequestTypes ==
  ASSUME TypeOK, Request
  PROVE  TypeOK'
<1>1. ASSUME NEW i \in Invoices, IssueInvoice(i) PROVE TypeOK'
  <2>1. booked' \in [EventTypes -> Nat]
    BY <1>1, BookTypes DEF IssueInvoice, EventTypes
  <2>2. invoice' \in [Invoices -> Invoice]
    BY <1>1, TypeParts, DraftTypes DEF IssueInvoice, Decide
  <2>3. DocumentsOK'
    BY <1>1, <2>1, <2>2, TypeParts DEF IssueInvoice, Decide, DocumentsOK
  <2> QED
    BY <1>1, <2>3, TypeParts, TypePartsNext DEF IssueInvoice, Decide
<1>2. ASSUME NEW i \in Invoices, CancelInvoice(i) PROVE TypeOK'
  <2>1. invoice' \in [Invoices -> Invoice]
    BY <1>2, TypeParts, DraftTypes DEF CancelInvoice, Decide
  <2>2. DocumentsOK'
    BY <1>2, <2>1, TypeParts DEF CancelInvoice, Decide, DocumentsOK
  <2> QED
    BY <1>2, <2>2, TypeParts, TypePartsNext DEF CancelInvoice, Decide
<1>3. ASSUME NEW c \in Credits, NEW i \in Invoices, NEW a \in Amounts, RequestCreditNote(c, i, a)
      PROVE  TypeOK'
  <2>1. DocumentsOK'
    BY <1>3, TypeParts DEF RequestCreditNote, DocumentsOK, CreditNote
  <2> QED
    BY <1>3, <2>1, TypeParts, TypePartsNext DEF RequestCreditNote
<1>4. ASSUME NEW r \in Receipts, RequestReversal(r) PROVE TypeOK'
  <2>1. DocumentsOK'
    BY <1>4, TypeParts DEF RequestReversal, DocumentsOK
  <2> QED
    BY <1>4, <2>1, TypeParts, TypePartsNext DEF RequestReversal
<1>5. ASSUME NEW r \in Receipts, ApproveReceiptReversal(r) PROVE TypeOK'
  <2>1. booked' \in [EventTypes -> Nat]
    BY <1>5, Natural, BookTypes DEF ApproveReceiptReversal, EventTypes
  <2>2. receipt' \in [Receipts -> Receipt]
    BY <1>5, ReceiptTypes DEF ApproveReceiptReversal, ReverseReceipt
  <2>3. /\ reversal' \in [Receipts -> {"none", "pending", "approved"}]
        /\ \A q \in Receipts : (receipt'[q].status = "reversed") <=> (reversal'[q] = "approved")
    BY <1>5, TypeParts DEF ApproveReceiptReversal, ReverseReceipt, DocumentsOK, Receipt
  <2>4. DocumentsOK'
    BY <1>5, <2>1, <2>2, <2>3, TypeParts DEF ApproveReceiptReversal, DocumentsOK
  <2> QED
    BY <1>5, <2>4, TypeParts, TypePartsNext DEF ApproveReceiptReversal
<1> QED
  BY <1>1, <1>2, <1>3, <1>4, <1>5 DEF Request

\* Every request that opens a transaction keeps the types.
LEMMA BeginRequestTypes ==
  ASSUME TypeOK, Documented, NEW s \in Sessions, BeginRequest(s)
  PROVE  TypeOK'
<1>1. ASSUME NEW w \in WorkOrders, NEW i \in Invoices, CreateInvoice(s, w, i) PROVE TypeOK'
  <2>1. [Idle EXCEPT !.pc = "insert", !.kind = "create", !.wo = w, !.inv = i] \in Tx
    BY DEF Idle, Tx
  <2> QED
    BY <1>1, <2>1, BeginTypes DEF CreateInvoice
<1>2. ASSUME NEW r \in Receipts, NEW a \in Amounts, NEW k \in Keys \cup {None},
             RecordPayment(s, r, a, k)
      PROVE  TypeOK'
  <2>1. [Idle EXCEPT !.pc = "insert", !.kind = "record", !.rcp = r, !.amount = a, !.key = k]
        \in Tx
    BY DEF Idle, Tx
  <2> QED
    BY <1>2, <2>1, BeginTypes DEF RecordPayment
<1>3. ASSUME NEW r \in Receipts, NEW i \in Invoices, NEW a \in Amounts,
             AllocatePayment(s, r, i, a)
      PROVE  TypeOK'
  <2>1. [Idle EXCEPT !.pc = "invoice", !.kind = "allocate", !.rcp = r, !.inv = i,
                     !.amount = a] \in Tx
    BY DEF Idle, Tx
  <2>2. ReceiptLock(r) \in SUBSET Rows
    BY DEF ReceiptLock, Rows
  <2> QED
    BY <1>3, <2>1, <2>2, BeginTypes DEF AllocatePayment
<1>4. ASSUME NEW c \in Credits, ApproveCreditNote(s, c) PROVE TypeOK'
  <2> DEFINE i == credit[c].invoice
  <2>1. i \in Invoices
    BY <1>4 DEF Documented, ApproveCreditNote
  <2>2. [Idle EXCEPT !.pc = "write", !.kind = "approve", !.crn = c, !.inv = i] \in Tx
    BY <2>1 DEF Idle, Tx
  <2>3. {<<"credit", c>>} \cup InvoiceLock(i) \in SUBSET Rows
    BY <2>1 DEF InvoiceLock, Rows
  <2> QED
    BY <1>4, <2>2, <2>3, BeginTypes DEF ApproveCreditNote
<1>5. ASSUME NEW w \in WorkOrders, CompleteDelivery(s, w) PROVE TypeOK'
  <2>1. [Idle EXCEPT !.pc = "assess", !.kind = "deliver", !.wo = w] \in Tx
    BY DEF Idle, Tx
  <2>2. {<<"delivery", w>>} \in SUBSET Rows
    BY DEF Rows
  <2> QED
    BY <1>5, <2>1, <2>2, BeginTypes DEF CompleteDelivery
<1> QED
  BY <1>1, <1>2, <1>3, <1>4, <1>5 DEF BeginRequest

\* Every later step of a transaction keeps the types.
LEMMA FinishTypes ==
  ASSUME TypeOK, Carried, NEW s \in Sessions,
         LockInvoice(s) \/ Assess(s) \/ Finish(s) \/ Rollback(s)
  PROVE  TypeOK'
<1> DEFINE t == tx[s]
<1>1. t \in Tx /\ (t.pc # "idle" => Relies(t, held[s]))
  BY TypeParts DEF Carried
<1> HIDE DEF t
<1>2. CASE LockInvoice(s)
  <2>1. CASE Abort(s)
    BY <2>1, AbortTypes
  <2>2. CASE /\ Take(s, InvoiceLock(t.inv)) /\ tx' = [tx EXCEPT ![s].pc = "write"]
             /\ UNCHANGED <<documents, delivered>>
    <3>1. t.inv \in Invoices
      BY <1>1, <1>2 DEF t, LockInvoice, Relies
    <3>2. InvoiceLock(t.inv) \in SUBSET Rows
      BY <3>1 DEF InvoiceLock, Rows
    <3>3. held' \in [Sessions -> SUBSET Rows]
      BY <2>2, <3>2, TypeParts DEF Take
    <3>4. [t EXCEPT !.pc = "write"] \in Tx
      BY <1>1 DEF Tx
    <3>5. tx' \in [Sessions -> Tx]
      BY <2>2, <3>4, TypeParts DEF t
    <3>6. DocumentsOK'
      BY <2>2, TypeParts DEF documents, DocumentsOK
    <3> QED
      BY <2>2, <3>3, <3>5, <3>6, TypeParts, TypePartsNext
  <2> QED
    BY <1>2, <2>1, <2>2 DEF t, LockInvoice
<1>3. CASE Assess(s)
  <2>1. CASE Abort(s)
    BY <2>1, AbortTypes
  <2>2. ASSUME NEW way \in {"settled", "overridden"},
               tx' = [tx EXCEPT ![s].pc = "write", ![s].way = way],
               UNCHANGED <<documents, delivered, held>>
        PROVE  TypeOK'
    <3>1. [t EXCEPT !.pc = "write", !.way = way] \in Tx
      BY <1>1 DEF Tx
    <3>2. tx' \in [Sessions -> Tx]
      BY <2>2, <3>1, TypeParts DEF t
    <3>3. DocumentsOK'
      BY <2>2, TypeParts DEF documents, DocumentsOK
    <3> QED
      BY <2>2, <3>2, <3>3, TypeParts, TypePartsNext
  <2> QED
    BY <1>3, <2>1, <2>2 DEF Assess
<1>4. CASE InsertInvoice(s)
  <2>1. CASE Abort(s)
    BY <2>1, AbortTypes
  <2>2. CASE ~ Abort(s)
    <3>1. t.inv \in Invoices /\ t.wo \in WorkOrders
      BY <1>1, <1>4 DEF t, InsertInvoice, Relies
    <3>2. /\ invoice' = [invoice EXCEPT ![t.inv] = [status |-> "draft", wo |-> t.wo]]
          /\ End(s)
          /\ UNCHANGED <<receipt, allocated, credit, reversal, booked, delivered>>
      BY <1>4, <2>2 DEF t, InsertInvoice
    <3>3. invoice' \in [Invoices -> Invoice]
      BY <3>1, <3>2, TypeParts DEF DocumentsOK, Invoice
    <3>4. DocumentsOK'
      BY <3>2, <3>3, TypeParts DEF DocumentsOK
    <3> QED
      BY <3>2, <3>4, EndTypes, TypeParts, TypePartsNext
  <2> QED
    BY <2>1, <2>2
<1>5. CASE RecordReceipt(s)
  <2>1. CASE Abort(s)
    BY <2>1, AbortTypes
  <2>2. CASE ~ Abort(s)
    <3>1. t.rcp \in Receipts /\ receipt[t.rcp].status = "absent"
      BY <1>1, <1>5 DEF t, RecordReceipt, Relies
    <3>2. /\ receipt' = [receipt EXCEPT ![t.rcp] =
                           [status |-> "recorded", amount |-> t.amount, key |-> t.key]]
          /\ Book("receipt_recorded", t.amount)
          /\ End(s)
          /\ UNCHANGED <<invoice, allocated, credit, reversal, delivered>>
      BY <1>5, <2>2 DEF t, RecordReceipt
    <3>3. t.amount \in {0} \cup Amounts /\ t.key \in Keys \cup {None}
      BY <1>1 DEF Tx
    <3>4. receipt' \in [Receipts -> Receipt]
      BY <3>1, <3>2, <3>3, TypeParts DEF DocumentsOK, Receipt
    <3>5. booked' \in [EventTypes -> Nat]
      BY <3>2, <3>3, BookTypes DEF EventTypes
    <3>6. \A r \in Receipts : (receipt'[r].status = "reversed") <=> (reversal'[r] = "approved")
      BY <3>1, <3>2, TypeParts DEF DocumentsOK
    <3>7. DocumentsOK'
      BY <3>2, <3>4, <3>5, <3>6, TypeParts DEF DocumentsOK
    <3> QED
      BY <3>2, <3>7, EndTypes, TypeParts, TypePartsNext
  <2> QED
    BY <2>1, <2>2
<1>6. CASE AllocateReceipt(s)
  <2>1. /\ t.rcp \in Receipts /\ t.inv \in Invoices /\ t.amount \in Amounts
        /\ receipt[t.rcp].status # "reversed"
    BY <1>1, <1>6 DEF t, AllocateReceipt, Relies
  <2>2. /\ allocated' = [allocated EXCEPT ![t.rcp][t.inv] = @ + t.amount]
        /\ receipt' = [receipt EXCEPT ![t.rcp].status = AllocationStatus(t.rcp, t.amount)]
        /\ Book("payment_allocated", t.amount)
        /\ End(s)
        /\ UNCHANGED <<invoice, credit, reversal, delivered>>
    BY <1>6 DEF t, AllocateReceipt
  <2>3. AllocationStatus(t.rcp, t.amount) \in {"partially_allocated", "allocated"}
    BY DEF AllocationStatus
  <2>4. receipt' \in [Receipts -> Receipt]
    BY <2>1, <2>2, <2>3, ReceiptTypes
  <2>5. booked' \in [EventTypes -> Nat]
    BY <2>1, <2>2, BookTypes DEF EventTypes
  <2>6. allocated' \in [Receipts -> [Invoices -> Nat]]
    BY <2>1, <2>2, TypeParts DEF DocumentsOK
  <2>7. \A r \in Receipts : (receipt'[r].status = "reversed") <=> (reversal'[r] = "approved")
    BY <2>1, <2>2, <2>3, TypeParts DEF DocumentsOK
  <2>8. DocumentsOK'
    BY <2>2, <2>4, <2>5, <2>6, <2>7, TypeParts DEF DocumentsOK
  <2> QED
    BY <2>2, <2>8, EndTypes, TypeParts, TypePartsNext
<1>7. CASE CreditApproved(s)
  <2>1. t.crn \in Credits
    BY <1>1, <1>7 DEF t, CreditApproved, Relies
  <2>2. /\ credit' = [credit EXCEPT ![t.crn].state = "approved"]
        /\ Book("credit_note_issued", credit[t.crn].amount)
        /\ End(s)
        /\ UNCHANGED <<invoice, receipt, allocated, reversal, delivered>>
    BY <1>7 DEF t, CreditApproved
  <2>3. booked' \in [EventTypes -> Nat]
    BY <2>1, <2>2, Natural, BookTypes DEF EventTypes
  <2>4. credit' \in [Credits -> CreditNote]
    <3>1. credit \in [Credits -> CreditNote]
      BY TypeParts DEF DocumentsOK
    <3>2. [credit[t.crn] EXCEPT !.state = "approved"] \in CreditNote
      BY <3>1, <2>1 DEF CreditNote
    <3> QED
      BY <2>2, <3>1, <3>2
  <2>5. DocumentsOK'
    BY <2>2, <2>3, <2>4, TypeParts DEF DocumentsOK
  <2> QED
    BY <2>2, <2>5, EndTypes, TypeParts, TypePartsNext
<1>8. CASE Deliver(s)
  <2>1. t.wo \in WorkOrders /\ t.way \in {"no", "settled", "overridden"}
    BY <1>1, <1>8 DEF t, Deliver, Relies, Tx
  <2>2. /\ delivered' = [delivered EXCEPT ![t.wo] = t.way]
        /\ End(s)
        /\ UNCHANGED documents
    BY <1>8 DEF t, Deliver
  <2>3. DocumentsOK'
    BY <2>2, TypeParts DEF documents, DocumentsOK
  <2> QED
    BY <2>1, <2>2, <2>3, EndTypes, TypeParts, TypePartsNext
<1>9. CASE Rollback(s)
  BY <1>9, AbortTypes DEF Rollback
<1> QED
  BY <1>2, <1>3, <1>4, <1>5, <1>6, <1>7, <1>8, <1>9 DEF Finish

\* A step that changes nothing keeps the types.
LEMMA StutterTypes == TypeOK /\ UNCHANGED vars => TypeOK'
  BY DEF TypeOK, vars

\* TypeOK is kept by every step, given what documents and transactions look like.
LEMMA TypeStep ==
  ASSUME TypeOK, Documented, Carried, [Next]_vars
  PROVE  TypeOK'
  BY RequestTypes, BeginRequestTypes, FinishTypes, StutterTypes DEF Next

-----------------------------------------------------------------------------
(* What every step owes: the documents stay in order, a vehicle that was   *)
(* covered stays so, and what others rely on is spared.                    *)

KeyOnce == \A k \in Keys : Cardinality(WithKey(k)) <= 1

Within(r) ==
  receipt[r].status \notin {"absent", "reversed"} =>
    /\ AllocatedOf(r) <= receipt[r].amount
    /\ receipt[r].status = IF AllocatedOf(r) = 0 THEN "recorded"
                           ELSE IF AllocatedOf(r) < receipt[r].amount
                           THEN "partially_allocated" ELSE "allocated"

\* What is owed on all invoices, what is left of all receipts and what the ledger says.
Owed == SumFunctionOnSet([i \in Invoices |-> OpenReceivable(i)], Invoices)
Rest == SumFunctionOnSet([r \in Receipts |-> Unallocated(r)], Receipts)
Ledger == booked["invoice_issued"] - booked["credit_note_issued"]
            - (booked["receipt_recorded"] - booked["receipt_reversed"])

Money == Documented /\ NeverOverpaid /\ ReceiptSpentOnce /\ LedgerAgrees /\ OneLiveInvoice

CoverLasts == \A w \in WorkOrders : Covered(w) => Covered(w)'

\* A step leaves alone what an open transaction relies on.
Spares(t) ==
  /\ t.kind = "allocate" => \A r \in Receipts : r = t.rcp =>
       receipt'[r] = receipt[r] /\ Unallocated(r)' = Unallocated(r)
  /\ (t.kind = "allocate" /\ t.pc = "write") \/ t.kind = "approve" =>
       \A i \in Invoices : i = t.inv =>
         Issued(i)' = Issued(i) /\ OpenReceivable(i) <= OpenReceivable(i)'
  /\ t.kind = "approve" => credit'[t.crn] = credit[t.crn]
  /\ t.pc = "insert" /\ t.kind = "create" => invoice'[t.inv] = invoice[t.inv]
  /\ t.pc = "insert" /\ t.kind = "record" => receipt'[t.rcp] = receipt[t.rcp]

Open(u) == tx[u].pc # "idle"

\* What a step owes when it is a step of a transaction other than those of U.
Kept(U) == Money' /\ CoverLasts /\ \A u \in U : Open(u) => Spares(tx[u])

\* ReceiptSpentOnce, taken apart ...
LEMMA SpentParts == ReceiptSpentOnce <=> KeyOnce /\ \A r \in Receipts : Within(r)
  BY DEF ReceiptSpentOnce, KeyOnce, Within

\* ... and put together in the next state.
LEMMA SpentNext ==
  ASSUME KeyOnce', \A r \in Receipts : Within(r)'
  PROVE  ReceiptSpentOnce'
  BY DEF ReceiptSpentOnce, KeyOnce, Within

\* A transaction that is spared may go on relying on what it read.
LEMMA ReliesLasts ==
  ASSUME TypeOK, TypeOK', NEW t \in Tx, NEW locks, Relies(t, locks), Spares(t), CoverLasts
  PROVE  Relies(t, locks)'
<1>1. t.pc = "insert" =>
        \/ /\ t.kind = "create" /\ t.wo \in WorkOrders /\ t.inv \in Invoices
           /\ invoice'[t.inv].status = "absent"
        \/ t.kind = "record" /\ t.rcp \in Receipts /\ receipt'[t.rcp].status = "absent"
  BY DEF Relies, Spares
<1>2. (t.pc = "invoice" => t.kind = "allocate") /\ (t.pc = "assess" => t.kind = "deliver")
  BY DEF Relies
<1>3. ASSUME t.kind = "allocate"
      PROVE  /\ t.pc \in {"invoice", "write"}
             /\ t.rcp \in Receipts /\ t.inv \in Invoices /\ t.amount \in Amounts
             /\ <<"receipt", t.rcp>> \in locks
             /\ receipt'[t.rcp].status \notin {"absent", "reversed"}
             /\ t.amount <= Unallocated(t.rcp)'
             /\ t.pc = "write" => /\ <<"invoice", t.inv>> \in locks
                                  /\ Issued(t.inv)' /\ t.amount <= OpenReceivable(t.inv)'
  <2>1. t.rcp \in Receipts /\ t.inv \in Invoices /\ t.amount \in Amounts
    BY <1>3 DEF Relies
  <2>2. OpenReceivable(t.inv) \in Int /\ OpenReceivable(t.inv)' \in Int /\ t.amount \in Nat
    BY <2>1, Balances, NextState
  <2> QED
    BY <1>3, <2>1, <2>2 DEF Relies, Spares
<1>4. ASSUME t.kind = "approve"
      PROVE  /\ t.crn \in Credits /\ t.inv \in Invoices
             /\ {<<"credit", t.crn>>, <<"invoice", t.inv>>} \subseteq locks
             /\ credit'[t.crn].state = "pending" /\ credit'[t.crn].invoice = t.inv
             /\ Issued(t.inv)' /\ credit'[t.crn].amount <= OpenReceivable(t.inv)'
  <2>1. /\ t.crn \in Credits /\ t.inv \in Invoices /\ credit'[t.crn] = credit[t.crn]
        /\ Issued(t.inv)' /\ credit[t.crn].amount <= OpenReceivable(t.inv)
        /\ OpenReceivable(t.inv) <= OpenReceivable(t.inv)'
    BY <1>4 DEF Relies, Spares
  <2>2. OpenReceivable(t.inv) \in Int /\ OpenReceivable(t.inv)' \in Int /\ credit[t.crn].amount \in Nat
    BY <2>1, Balances, NextState, Natural
  <2>3. credit'[t.crn].amount <= OpenReceivable(t.inv)'
    BY <2>1, <2>2
  <2> QED
    BY <1>4, <2>1, <2>3 DEF Relies
<1>5. ASSUME t.kind = "deliver"
      PROVE  t.wo \in WorkOrders /\ (t.way = "settled" => Covered(t.wo)')
  BY <1>5 DEF Relies, CoverLasts
<1> QED
  BY <1>1, <1>2, <1>3, <1>4, <1>5 DEF Relies

\* Allocations, credits and issued invoices only come: what is covered stays so.
LEMMA Grows ==
  ASSUME TypeOK, TypeOK',
         \A i \in Invoices : Issued(i) => Issued(i)' /\ invoice'[i].wo = invoice[i].wo,
         \A r \in Receipts, i \in Invoices : allocated[r][i] <= allocated'[r][i],
         \A i \in Invoices : Credited(i) <= Credited(i)'
  PROVE  CoverLasts
<1> SUFFICES ASSUME NEW w \in WorkOrders, Covered(w) PROVE Covered(w)'
  BY DEF CoverLasts
<1>1. PICK i \in Live(w) :
        Issued(i) /\ SumFunctionOnSet(PaidBy(i), Receipts) + Credited(i) >= Gross[i]
  BY DEF Covered, PaidBy
<1>2. i \in Invoices /\ i \in Live(w)' /\ Issued(i)'
  BY <1>1 DEF Live, Issued
<1> DEFINE f == PaidBy(i)
           g == PaidBy(i)'
<1>3. \A r \in Receipts : f[r] \in Int /\ g[r] \in Int /\ f[r] <= g[r]
  BY <1>2, Natural, NextState DEF PaidBy
<1>4. /\ SumFunctionOnSet(f, Receipts) <= SumFunctionOnSet(g, Receipts)
      /\ SumFunctionOnSet(f, Receipts) \in Int /\ SumFunctionOnSet(g, Receipts) \in Int
  <2> HIDE DEF f, g
  <2> QED
    BY <1>3, SumMonotone, SumType
<1>5. Credited(i) \in Nat /\ Credited(i)' \in Nat /\ Gross[i] \in Nat
  BY <1>2, Sums, NextState, Natural
<1>6. SumFunctionOnSet(PaidBy(i)', Receipts) + Credited(i)' >= Gross[i]
  BY <1>1, <1>2, <1>4, <1>5
<1> QED
  BY <1>2, <1>6 DEF Covered, PaidBy

\* One open balance moves, or one rest.
LEMMA BalanceMoves ==
  ASSUME TypeOK, TypeOK', NEW i \in Invoices,
         \A j \in Invoices \ {i} : OpenReceivable(j)' = OpenReceivable(j)
  PROVE  Owed' = Owed + OpenReceivable(i)' - OpenReceivable(i)
<1> DEFINE f == [j \in Invoices |-> OpenReceivable(j)]
           g == [j \in Invoices |-> OpenReceivable(j)']
<1>1. /\ \A j \in Invoices : f[j] \in Int /\ f[j] = OpenReceivable(j)
      /\ g[i] \in Int /\ g[i] = OpenReceivable(i)'
      /\ \A j \in Invoices \ {i} : g[j] = f[j]
  BY Balances, NextState
<1>2. SumFunctionOnSet(g, Invoices) = SumFunctionOnSet(f, Invoices) + g[i] - f[i]
  <2> HIDE DEF f, g
  <2> QED
    BY <1>1, SumChange
<1> QED
  BY <1>1, <1>2 DEF Owed

\* The rest of one receipt moves the sum of the rests by as much.
LEMMA RestMoves ==
  ASSUME TypeOK, TypeOK', NEW r \in Receipts,
         \A q \in Receipts \ {r} : Unallocated(q)' = Unallocated(q)
  PROVE  Rest' = Rest + Unallocated(r)' - Unallocated(r)
<1> DEFINE f == [q \in Receipts |-> Unallocated(q)]
           g == [q \in Receipts |-> Unallocated(q)']
<1>1. /\ \A q \in Receipts : f[q] \in Int /\ f[q] = Unallocated(q)
      /\ g[r] \in Int /\ g[r] = Unallocated(r)'
      /\ \A q \in Receipts \ {r} : g[q] = f[q]
  BY Balances, NextState
<1>2. SumFunctionOnSet(g, Receipts) = SumFunctionOnSet(f, Receipts) + g[r] - f[r]
  <2> HIDE DEF f, g
  <2> QED
    BY <1>1, SumChange
<1> QED
  BY <1>1, <1>2 DEF Rest

\* While no balance moves, neither does the sum.
LEMMA BalancesStay ==
  /\ (\A i \in Invoices : OpenReceivable(i)' = OpenReceivable(i)) => Owed' = Owed
  /\ (\A r \in Receipts : Unallocated(r)' = Unallocated(r)) => Rest' = Rest
<1>1. ASSUME \A i \in Invoices : OpenReceivable(i)' = OpenReceivable(i) PROVE Owed' = Owed
  <2>1. [i \in Invoices |-> OpenReceivable(i)'] = [i \in Invoices |-> OpenReceivable(i)]
    BY <1>1
  <2> QED
    BY <2>1 DEF Owed
<1>2. ASSUME \A r \in Receipts : Unallocated(r)' = Unallocated(r) PROVE Rest' = Rest
  <2>1. [r \in Receipts |-> Unallocated(r)'] = [r \in Receipts |-> Unallocated(r)]
    BY <1>2
  <2> QED
    BY <2>1 DEF Rest
<1> QED
  BY <1>1, <1>2

\* LedgerAgrees in terms of the three sums ...
LEMMA LedgerParts == LedgerAgrees <=> Ledger = Owed - Rest
  BY DEF LedgerAgrees, Ledger, Owed, Rest

\* ... and in the next state.
LEMMA LedgerNext ==
  ASSUME Ledger' = Owed' - Rest'
  PROVE  LedgerAgrees'
  BY DEF LedgerAgrees, Ledger, Owed, Rest

\* The three sums are integers.
LEMMA LedgerTypes ==
  ASSUME TypeOK
  PROVE  /\ Owed \in Int /\ Rest \in Int
         /\ \A e \in EventTypes : booked[e] \in Nat
<1>1. Owed \in Int
  <2>1. \A i \in Invoices : [j \in Invoices |-> OpenReceivable(j)][i] \in Int
    BY Balances
  <2> QED
    BY <2>1, SumType DEF Owed
<1>2. Rest \in Int
  <2>1. \A r \in Receipts : [q \in Receipts |-> Unallocated(q)][r] \in Int
    BY Balances
  <2> QED
    BY <2>1, SumType DEF Rest
<1> QED
  BY <1>1, <1>2, Natural

\* A work order whose live invoices only leave has at most one still.
LEMMA FewerLive ==
  ASSUME OneLiveInvoice, \A w \in WorkOrders : Live(w)' \subseteq Live(w)
  PROVE  OneLiveInvoice'
<1> SUFFICES ASSUME NEW w \in WorkOrders PROVE Cardinality(Live(w)') <= 1
  BY DEF OneLiveInvoice
<1>1. Live(w) \subseteq Invoices
  BY DEF Live
<1>2. IsFiniteSet(Live(w))
  BY <1>1, FS_Subset
<1>3. /\ Cardinality(Live(w)') <= Cardinality(Live(w))
      /\ Cardinality(Live(w)') \in Nat /\ Cardinality(Live(w)) \in Nat
  BY <1>2, FS_Subset, FS_CardinalityType
<1> QED
  BY <1>3 DEF OneLiveInvoice

-----------------------------------------------------------------------------
(* What each step keeps.                                                   *)

\* Steps that touch no receipt, no credit note or no invoice.
LEMMA ReceiptsStay ==
  ASSUME UNCHANGED <<receipt, allocated>>
  PROVE  /\ \A i \in Invoices : Paid(i)' = Paid(i)
         /\ \A r \in Receipts : AllocatedOf(r)' = AllocatedOf(r) /\ Unallocated(r)' = Unallocated(r)
         /\ Rest' = Rest
         /\ ReceiptSpentOnce => ReceiptSpentOnce'
<1>1. /\ \A i \in Invoices : Paid(i)' = Paid(i)
      /\ \A r \in Receipts : AllocatedOf(r)' = AllocatedOf(r) /\ Unallocated(r)' = Unallocated(r)
  BY DEF Paid, Counts, AllocatedOf, Unallocated
<1>2. ReceiptSpentOnce => ReceiptSpentOnce'
  BY DEF ReceiptSpentOnce, WithKey, AllocatedOf
<1> QED
  BY <1>1, <1>2, BalancesStay

\* A step that writes no credit note leaves what is credited.
LEMMA CreditsStay ==
  ASSUME UNCHANGED credit
  PROVE  \A i : Approved(i)' = Approved(i) /\ Credited(i)' = Credited(i)
  BY DEF Credited, Approved

\* A step that writes no invoice leaves which are live.
LEMMA InvoicesStay ==
  ASSUME UNCHANGED invoice
  PROVE  /\ \A i : Issued(i)' = Issued(i)
         /\ \A w : Live(w)' = Live(w)
         /\ OneLiveInvoice => OneLiveInvoice'
<1>1. \A w : Live(w)' = Live(w)
  BY DEF Live
<1>2. \A i : Issued(i)' = Issued(i)
  BY DEF Issued
<1> QED
  BY <1>1, <1>2, FewerLive

\* What has to be shown for Kept.
LEMMA KeptBy ==
  ASSUME NEW U, Documented', NeverOverpaid', ReceiptSpentOnce', LedgerAgrees', OneLiveInvoice',
         CoverLasts, \A u \in U : Open(u) => Spares(tx[u])
  PROVE  Kept(U)
  BY DEF Kept, Money

\* A step that writes no document spares everybody.
LEMMA StillSpared ==
  ASSUME TypeOK, UNCHANGED documents, NEW t
  PROVE  Spares(t)
<1>1. \A i \in Invoices : OpenReceivable(i) <= OpenReceivable(i)'
  BY Unmoved, Balances
<1>2. receipt' = receipt /\ credit' = credit /\ invoice' = invoice
  BY DEF documents
<1>3. /\ \A r \in Receipts : Unallocated(r)' = Unallocated(r)
      /\ \A i \in Invoices : Issued(i)' = Issued(i)
  BY Unmoved
<1> QED
  BY <1>1, <1>2, <1>3 DEF Spares

\* A step that writes no document.
LEMMA Quiet ==
  ASSUME TypeOK, Money, Carried, UNCHANGED documents
  PROVE  Kept(Sessions)
<1>1. Documented'
  BY DEF Money, documents, Documented, Issued
<1>2. NeverOverpaid'
  BY Unmoved DEF Money, NeverOverpaid
<1>3. ReceiptSpentOnce' /\ Rest' = Rest
  BY ReceiptsStay DEF Money, documents
<1>4. LedgerAgrees'
  <2>1. Owed' = Owed /\ Ledger' = Ledger
    BY Unmoved, BalancesStay DEF documents, Ledger
  <2> QED
    BY <1>3, <2>1, LedgerParts, LedgerNext DEF Money
<1>5. OneLiveInvoice'
  BY InvoicesStay DEF Money, documents
<1>6. CoverLasts
  BY Unmoved DEF CoverLasts
<1>7. \A u \in Sessions : Spares(tx[u])
  BY StillSpared
<1> QED
  BY <1>1, <1>2, <1>3, <1>4, <1>5, <1>6, <1>7, KeptBy

\* An invoice is issued or voided: nobody relies on a draft.
LEMMA InvoiceDecided ==
  ASSUME TypeOK, TypeOK', Money, Carried, NEW i \in Invoices,
         NEW status \in {"issued", "void_before_issue"},
         Decide(i, status),
         Ledger' = Ledger + IF status = "issued" THEN Gross[i] ELSE 0
  PROVE  Kept(Sessions)
<1>1. /\ invoice[i].status = "draft" /\ \A u \in Sessions : <<"invoice", i>> \notin held[u]
      /\ invoice' = [invoice EXCEPT ![i].status = status]
      /\ UNCHANGED <<receipt, allocated, credit, reversal>>
  BY DEF Decide
<1>2. /\ \A j \in Invoices \ {i} : invoice'[j] = invoice[j] /\ Issued(j)' = Issued(j)
      /\ invoice'[i].status = status /\ invoice'[i].wo = invoice[i].wo
      /\ ~ Issued(i) /\ (Issued(i)' <=> status = "issued")
  BY <1>1 DEF TypeOK, Issued
<1>3. /\ \A j \in Invoices : Paid(j)' = Paid(j) /\ Credited(j)' = Credited(j)
      /\ Rest' = Rest /\ ReceiptSpentOnce'
  BY <1>1, ReceiptsStay, CreditsStay DEF Money
<1>4. /\ OpenReceivable(i) = 0
      /\ OpenReceivable(i)' = IF status = "issued" THEN Gross[i] ELSE 0
      /\ \A j \in Invoices \ {i} : OpenReceivable(j)' = OpenReceivable(j)
  <2>1. Paid(i) = 0 /\ Credited(i) = 0 /\ Gross[i] \in Nat
    BY <1>2, Nothing, Natural DEF Money
  <2> QED
    BY <1>2, <1>3, <2>1 DEF OpenReceivable
<1>5. Documented'
  <2>1. \A j \in Invoices : Issued(j) => Issued(j)'
    BY <1>2
  <2>2. /\ \A r \in Receipts, j \in Invoices :
             allocated'[r][j] > 0 => receipt'[r].status # "absent" /\ Issued(j)'
        /\ \A r \in Receipts : receipt'[r].status = "absent" => reversal'[r] = "none"
    BY <1>1, <2>1 DEF Money, Documented
  <2>3. \A c \in Credits : credit'[c].state # "absent" =>
          credit'[c].invoice \in Invoices /\ Issued(credit[c].invoice)'
    BY <1>1, <2>1 DEF Money, Documented, Issued
  <2> QED
    BY <2>2, <2>3, <1>1 DEF Documented, Issued
<1>6. NeverOverpaid'
  BY <1>4, Natural DEF Money, NeverOverpaid
<1>7. LedgerAgrees'
  <2>1. Ledger = Owed - Rest /\ Owed' = Owed + OpenReceivable(i)' - OpenReceivable(i)
    BY <1>4, BalanceMoves, LedgerParts DEF Money
  <2>2. Ledger' = Owed' - Rest'
    BY <1>3, <1>4, <2>1, LedgerTypes, Natural
  <2> QED
    BY <2>2, LedgerNext
<1>8. OneLiveInvoice'
  <2>1. \A w \in WorkOrders : Live(w)' \subseteq Live(w)
    BY <1>1, <1>2 DEF Live
  <2> QED
    BY <2>1, FewerLive DEF Money
<1>9. CoverLasts
  <2>1. \A r \in Receipts, j \in Invoices : allocated[r][j] <= allocated'[r][j]
    BY <1>1, Natural
  <2>2. \A j \in Invoices : Credited(j) <= Credited(j)'
    BY <1>3, Sums
  <2> QED
    BY <1>2, <2>1, <2>2, Grows
<1>10. ASSUME NEW u \in Sessions, Open(u) PROVE Spares(tx[u])
  <2>1. Relies(tx[u], held[u])
    BY <1>10 DEF Carried, Open
  <2>2. (tx[u].kind = "allocate" /\ tx[u].pc = "write") \/ tx[u].kind = "approve" => tx[u].inv # i
    BY <1>1, <2>1 DEF Relies
  <2>3. tx[u].pc = "insert" /\ tx[u].kind = "create" => tx[u].inv # i /\ tx[u].inv \in Invoices
    BY <1>1, <2>1 DEF Relies
  <2>4. \A j \in Invoices \ {i} : OpenReceivable(j) <= OpenReceivable(j)'
    BY <1>4, Balances
  <2>5. \A r \in Receipts : Unallocated(r)' = Unallocated(r)
    BY <1>1, ReceiptsStay
  <2> QED
    BY <1>1, <1>2, <2>2, <2>3, <2>4, <2>5 DEF Spares
<1> QED
  BY <1>3, <1>5, <1>6, <1>7, <1>8, <1>9, <1>10, KeptBy

\* A draft takes the free slot of its work order.
LEMMA InvoiceInserted ==
  ASSUME TypeOK, TypeOK', Money, Carried, Exclusive, NEW s \in Sessions, InsertInvoice(s), ~ Abort(s)
  PROVE  Kept(Sessions \ {s})
<1>0. /\ tx[s].pc = "insert" /\ tx[s].kind = "create"
      /\ tx[s].inv \in Invoices /\ tx[s].wo \in WorkOrders
      /\ invoice[tx[s].inv].status = "absent"
  BY DEF InsertInvoice, Carried, Relies
<1>1. PICK i \in Invoices, w \in WorkOrders : tx[s].inv = i /\ tx[s].wo = w
  BY <1>0
<1>2. /\ Live(w) = {} /\ invoice[i].status = "absent"
      /\ invoice' = [invoice EXCEPT ![i] = [status |-> "draft", wo |-> w]]
      /\ UNCHANGED <<receipt, allocated, credit, reversal, booked>>
  BY <1>0, <1>1 DEF InsertInvoice, SlotFree
<1>a. \A u \in Sessions \ {s} : tx[u].pc = "insert" /\ tx[u].kind = "create" => tx[u].inv # i
  BY <1>0, <1>1 DEF Exclusive
<1>3. /\ \A j \in Invoices \ {i} : invoice'[j] = invoice[j] /\ Issued(j)' = Issued(j)
      /\ invoice'[i] = [status |-> "draft", wo |-> w]
      /\ ~ Issued(i) /\ ~ Issued(i)'
  BY <1>2 DEF TypeOK, Issued
<1>4. /\ \A j \in Invoices : Paid(j)' = Paid(j) /\ Credited(j)' = Credited(j)
      /\ Rest' = Rest /\ ReceiptSpentOnce'
  BY <1>2, ReceiptsStay, CreditsStay DEF Money
<1>5. \A j \in Invoices : OpenReceivable(j)' = OpenReceivable(j) /\ Issued(j)' = Issued(j)
  BY <1>3, <1>4 DEF OpenReceivable, Issued
<1>6. Documented'
  BY <1>2, <1>5 DEF Money, Documented, Issued
<1>7. NeverOverpaid'
  BY <1>5 DEF Money, NeverOverpaid
<1>8. LedgerAgrees'
  <2>1. Ledger = Owed - Rest /\ Owed' = Owed /\ Ledger' = Ledger
    BY <1>2, <1>5, BalancesStay, LedgerParts DEF Money, Ledger
  <2> QED
    BY <1>4, <2>1, LedgerNext
<1>9. OneLiveInvoice'
  <2>1. ASSUME NEW v \in WorkOrders PROVE Cardinality(Live(v)') <= 1
    <3>1. CASE v = w
      <4>1. Live(v)' = {i}
        BY <1>2, <1>3, <3>1 DEF Live
      <4> QED
        BY <4>1, FS_Singleton, SMT
    <3>2. CASE v # w
      <4>1. Live(v)' = Live(v)
        BY <1>2, <1>3, <3>2 DEF Live
      <4> QED
        BY <4>1 DEF Money, OneLiveInvoice
    <3> QED
      BY <3>1, <3>2
  <2> QED
    BY <2>1 DEF OneLiveInvoice
<1>10. CoverLasts
  <2>1. \A r \in Receipts, j \in Invoices : allocated[r][j] <= allocated'[r][j]
    BY <1>2, Natural
  <2>2. \A j \in Invoices : Credited(j) <= Credited(j)'
    BY <1>4, Sums
  <2> QED
    BY <1>3, <2>1, <2>2, Grows
<1>11. ASSUME NEW u \in Sessions \ {s}, Open(u) PROVE Spares(tx[u])
  <2>1. Relies(tx[u], held[u])
    BY <1>11 DEF Carried, Open
  <2>2. tx[u].pc = "insert" /\ tx[u].kind = "create" => tx[u].inv # i /\ tx[u].inv \in Invoices
    BY <1>a, <2>1 DEF Relies
  <2>3. \A j \in Invoices : OpenReceivable(j) <= OpenReceivable(j)'
    BY <1>5, Balances
  <2>4. \A r \in Receipts : Unallocated(r)' = Unallocated(r)
    BY <1>2, ReceiptsStay
  <2> QED
    BY <1>2, <1>3, <1>5, <2>2, <2>3, <2>4 DEF Spares
<1> QED
  BY <1>4, <1>6, <1>7, <1>8, <1>9, <1>10, <1>11, KeptBy

\* A receipt is recorded under a key no other has; nothing is spent of it yet.
LEMMA ReceiptRecorded ==
  ASSUME TypeOK, TypeOK', Money, Carried, Exclusive, NEW s \in Sessions, RecordReceipt(s), ~ Abort(s)
  PROVE  Kept(Sessions \ {s})
<1>0. /\ tx[s].pc = "insert" /\ tx[s].kind = "record"
      /\ tx[s].rcp \in Receipts /\ receipt[tx[s].rcp].status = "absent"
      /\ tx[s].amount \in {0} \cup Amounts /\ tx[s].key \in Keys \cup {None}
  BY TypeParts DEF RecordReceipt, Carried, Relies, Tx
<1>1. PICK r \in Receipts, a \in {0} \cup Amounts, k \in Keys \cup {None} :
        tx[s].rcp = r /\ tx[s].amount = a /\ tx[s].key = k
  BY <1>0
<1>b. receipt[r].status = "absent" /\ a \in Nat
  BY <1>0, <1>1
<1>c. KeyFree(tx[s].key)
  BY DEF RecordReceipt
<1>2. /\ receipt[r].status = "absent" /\ KeyFree(k) /\ a \in Nat
      /\ receipt' = [receipt EXCEPT ![r] = [status |-> "recorded", amount |-> a, key |-> k]]
      /\ booked' = [booked EXCEPT !["receipt_recorded"] = @ + a]
      /\ UNCHANGED <<invoice, allocated, credit, reversal>>
  BY <1>1, <1>b, <1>c DEF RecordReceipt, Book
<1>a. \A u \in Sessions \ {s} : tx[u].pc = "insert" /\ tx[u].kind = "record" => tx[u].rcp # r
  BY <1>0, <1>1 DEF Exclusive
<1>3. /\ \A q \in Receipts \ {r} : receipt'[q] = receipt[q]
      /\ receipt'[r] = [status |-> "recorded", amount |-> a, key |-> k]
      /\ \A q \in Receipts : Counts(q)' <=> Counts(q)
  BY <1>2 DEF TypeOK, Counts
<1>4. /\ \A i \in Invoices : Paid(i)' = Paid(i)
      /\ \A q \in Receipts : AllocatedOf(q)' = AllocatedOf(q)
  BY <1>2, <1>3, PaidLasts, AllocatedLasts
<1>5. \A i \in Invoices : Issued(i)' = Issued(i) /\ Credited(i)' = Credited(i)
  BY <1>2, CreditsStay, InvoicesStay
<1>6. \A i \in Invoices : OpenReceivable(i)' = OpenReceivable(i)
  BY <1>4, <1>5 DEF OpenReceivable
<1>7. /\ AllocatedOf(r) = 0 /\ Unallocated(r) = 0 /\ Unallocated(r)' = a
      /\ \A q \in Receipts \ {r} : Unallocated(q)' = Unallocated(q)
  <2>1. AllocatedOf(r) = 0
    BY <1>2, Nothing DEF Money
  <2> QED
    BY <1>2, <1>3, <1>4, <2>1 DEF Unallocated
<1>8. Documented'
  BY <1>2, <1>3, <1>5 DEF Money, Documented, Issued
<1>9. NeverOverpaid'
  BY <1>6 DEF Money, NeverOverpaid
<1>10. ReceiptSpentOnce'
  <2>1. ASSUME NEW q \in Keys PROVE Cardinality(WithKey(q)') <= 1
    <3>1. CASE q = k
      <4>1. WithKey(q) = {}
        BY <1>2, <3>1 DEF KeyFree
      <4>2. WithKey(q)' = {r}
        BY <1>3, <3>1, <4>1 DEF WithKey
      <4>3. Cardinality({r}) = 1
        BY FS_Singleton
      <4> QED
        BY <4>2, <4>3
    <3>2. CASE q # k
      <4>1. WithKey(q)' = WithKey(q)
        BY <1>2, <1>3, <3>2 DEF WithKey
      <4> QED
        BY <4>1, SpentParts DEF Money, KeyOnce
    <3> QED
      BY <3>1, <3>2
  <2>2. ASSUME NEW q \in Receipts PROVE Within(q)'
    <3>1. CASE q = r
      BY <1>2, <1>3, <1>4, <1>7, <3>1 DEF Within
    <3>2. CASE q # r
      BY <1>3, <1>4, <3>2, SpentParts DEF Money, Within
    <3> QED
      BY <3>1, <3>2
  <2> QED
    BY <2>1, <2>2, SpentNext DEF KeyOnce
<1>11. LedgerAgrees'
  <2>1. Ledger = Owed - Rest /\ Owed' = Owed /\ Rest' = Rest + a
    BY <1>2, <1>6, <1>7, BalancesStay, RestMoves, LedgerParts, LedgerTypes DEF Money
  <2>2. Ledger' = Ledger - a
    BY <1>2, LedgerTypes DEF Ledger, EventTypes, TypeOK
  <2> QED
    BY <1>2, <2>1, <2>2, LedgerNext, LedgerTypes
<1>12. OneLiveInvoice'
  BY <1>2, InvoicesStay DEF Money
<1>13. CoverLasts
  <2>1. \A q \in Receipts, i \in Invoices : allocated[q][i] <= allocated'[q][i]
    BY <1>2, Natural
  <2>2. \A i \in Invoices : Credited(i) <= Credited(i)'
    BY <1>5, Sums
  <2> QED
    BY <1>2, <1>5, <2>1, <2>2, Grows
<1>14. ASSUME NEW u \in Sessions \ {s}, Open(u) PROVE Spares(tx[u])
  <2>1. Relies(tx[u], held[u])
    BY <1>14 DEF Carried, Open
  <2>2. /\ tx[u].kind = "allocate" => tx[u].rcp # r
        /\ tx[u].pc = "insert" /\ tx[u].kind = "record" => tx[u].rcp # r /\ tx[u].rcp \in Receipts
    BY <1>a, <1>2, <2>1 DEF Relies
  <2>3. \A i \in Invoices : OpenReceivable(i) <= OpenReceivable(i)'
    BY <1>6, Balances
  <2> QED
    BY <1>2, <1>3, <1>5, <1>7, <2>2, <2>3 DEF Spares
<1> QED
  BY <1>8, <1>9, <1>10, <1>11, <1>12, <1>13, <1>14, KeptBy

\* An allocation takes from its receipt and its invoice what both still have.
LEMMA ReceiptAllocated ==
  ASSUME TypeOK, TypeOK', Money, Carried, Exclusive, NEW s \in Sessions, AllocateReceipt(s)
  PROVE  Kept(Sessions \ {s})
<1>0. /\ tx[s].pc = "write" /\ tx[s].kind = "allocate" /\ Relies(tx[s], held[s])
      /\ tx[s].rcp \in Receipts /\ tx[s].inv \in Invoices /\ tx[s].amount \in Amounts
  BY DEF AllocateReceipt, Carried, Relies
<1>1. PICK r \in Receipts, i \in Invoices, a \in Amounts :
        tx[s].rcp = r /\ tx[s].inv = i /\ tx[s].amount = a
  BY <1>0
<1>2. /\ <<"receipt", r>> \in held[s] /\ <<"invoice", i>> \in held[s]
      /\ receipt[r].status \notin {"absent", "reversed"}
      /\ Issued(i) /\ a <= Unallocated(r) /\ a <= OpenReceivable(i) /\ a \in Nat \ {0}
  BY <1>0, <1>1 DEF Relies
<1> DEFINE status == AllocationStatus(r, a)
<1>3. /\ allocated' = [allocated EXCEPT ![r][i] = @ + a]
      /\ receipt' = [receipt EXCEPT ![r].status = status]
      /\ booked' = [booked EXCEPT !["payment_allocated"] = @ + a]
      /\ UNCHANGED <<invoice, credit, reversal>>
  BY <1>1 DEF AllocateReceipt, Book
<1>4. status = IF AllocatedOf(r) + a >= receipt[r].amount THEN "allocated" ELSE "partially_allocated"
  BY DEF AllocationStatus
<1> HIDE DEF status
<1>5. /\ Paid(i)' = Paid(i) + a /\ AllocatedOf(r)' = AllocatedOf(r) + a
      /\ \A j \in Invoices \ {i} : Paid(j)' = Paid(j)
      /\ \A q \in Receipts \ {r} : AllocatedOf(q)' = AllocatedOf(q)
  BY <1>2, <1>3, <1>4, Allocation DEF Counts
<1>6. /\ \A q \in Receipts \ {r} : receipt'[q] = receipt[q]
      /\ receipt'[r].status = status /\ receipt'[r].amount = receipt[r].amount
      /\ \A q \in Receipts : receipt'[q].key = receipt[q].key
      /\ \A q \in Receipts : receipt'[q].status = "absent" <=> receipt[q].status = "absent"
  BY <1>2, <1>3, <1>4 DEF TypeOK
<1>7. \A j \in Invoices : Issued(j)' = Issued(j) /\ Credited(j)' = Credited(j)
  BY <1>3, CreditsStay, InvoicesStay
<1>8. /\ OpenReceivable(i)' = OpenReceivable(i) - a
      /\ \A j \in Invoices \ {i} : OpenReceivable(j)' = OpenReceivable(j)
  <2>1. Paid(i) \in Nat /\ Credited(i) \in Nat /\ Gross[i] \in Nat
    BY Sums, Natural
  <2> QED
    BY <1>2, <1>5, <1>7, <2>1 DEF OpenReceivable
<1>9. /\ Unallocated(r) = receipt[r].amount - AllocatedOf(r)
      /\ Unallocated(r)' = Unallocated(r) - a
      /\ \A q \in Receipts \ {r} : Unallocated(q)' = Unallocated(q)
  <2>1. AllocatedOf(r) \in Nat /\ receipt[r].amount \in Nat
    BY Sums, Natural
  <2> QED
    BY <1>2, <1>4, <1>5, <1>6, <2>1 DEF Unallocated
<1>10. Documented'
  <2>1. \A q \in Receipts, j \in Invoices : q # r \/ j # i => allocated'[q][j] = allocated[q][j]
    BY <1>3 DEF TypeOK
  <2>2. \A q \in Receipts, j \in Invoices :
          allocated'[q][j] > 0 => receipt'[q].status # "absent" /\ Issued(j)'
    BY <1>2, <1>6, <1>7, <2>1 DEF Money, Documented
  <2>3. \A q \in Receipts : receipt'[q].status = "absent" => reversal'[q] = "none"
    BY <1>3, <1>6 DEF Money, Documented
  <2> QED
    BY <1>3, <2>2, <2>3 DEF Money, Documented, Issued
<1>11. NeverOverpaid'
  BY <1>2, <1>8, Balances DEF Money, NeverOverpaid
<1>12. ReceiptSpentOnce'
  <2>1. \A k \in Keys : WithKey(k)' = WithKey(k)
    BY <1>6 DEF WithKey
  <2>2. ASSUME NEW q \in Receipts PROVE Within(q)'
    <3>1. CASE q = r
      <4>1. AllocatedOf(r) \in Nat /\ receipt[r].amount \in Nat
        BY Sums, Natural
      <4> QED
        BY <1>2, <1>4, <1>5, <1>6, <1>9, <3>1, <4>1 DEF Within
    <3>2. CASE q # r
      BY <1>5, <1>6, <3>2, SpentParts DEF Money, Within
    <3> QED
      BY <3>1, <3>2
  <2> QED
    BY <2>1, <2>2, SpentParts, SpentNext DEF KeyOnce, Money
<1>13. LedgerAgrees'
  <2>1. Ledger = Owed - Rest /\ Ledger' = Ledger
    BY <1>3, LedgerParts DEF Money, Ledger, TypeOK, EventTypes
  <2>2. Owed' = Owed - a /\ Rest' = Rest - a
    BY <1>2, <1>8, <1>9, BalanceMoves, RestMoves, LedgerTypes, Balances
  <2> QED
    BY <1>2, <2>1, <2>2, LedgerNext, LedgerTypes
<1>14. OneLiveInvoice'
  BY <1>3, InvoicesStay DEF Money
<1>15. CoverLasts
  <2>1. \A q \in Receipts, j \in Invoices : allocated[q][j] <= allocated'[q][j]
    BY <1>2, <1>3, Natural DEF TypeOK
  <2>2. \A j \in Invoices : Credited(j) <= Credited(j)'
    BY <1>7, Sums
  <2> QED
    BY <1>3, <1>7, <2>1, <2>2, Grows
<1>16. ASSUME NEW u \in Sessions \ {s}, Open(u) PROVE Spares(tx[u])
  <2>1. Relies(tx[u], held[u]) /\ held[u] \cap held[s] = {}
    BY <1>16 DEF Carried, Open, Exclusive
  <2>2. /\ tx[u].kind = "allocate" => tx[u].rcp # r
        /\ tx[u].pc = "insert" /\ tx[u].kind = "record" => tx[u].rcp # r /\ tx[u].rcp \in Receipts
        /\ (tx[u].kind = "allocate" /\ tx[u].pc = "write") \/ tx[u].kind = "approve"
             => tx[u].inv # i
    BY <1>2, <2>1 DEF Relies
  <2>3. \A j \in Invoices \ {i} : OpenReceivable(j) <= OpenReceivable(j)'
    BY <1>8, Balances
  <2> QED
    BY <1>3, <1>6, <1>7, <1>9, <2>2, <2>3 DEF Spares
<1> QED
  BY <1>10, <1>11, <1>12, <1>13, <1>14, <1>15, <1>16, KeptBy

\* A requested note is worth nothing.
LEMMA CreditRequested ==
  ASSUME TypeOK, TypeOK', Money, Carried,
         NEW c \in Credits, NEW i \in Invoices, NEW a \in Amounts, RequestCreditNote(c, i, a)
  PROVE  Kept(Sessions)
<1>1. /\ credit[c].state = "absent" /\ Issued(i)
      /\ credit' = [credit EXCEPT ![c] = [state |-> "pending", invoice |-> i, amount |-> a]]
      /\ UNCHANGED <<invoice, receipt, allocated, reversal, booked>>
  BY DEF RequestCreditNote
<1>2. /\ \A d \in Credits \ {c} : credit'[d] = credit[d]
      /\ credit'[c] = [state |-> "pending", invoice |-> i, amount |-> a]
  BY <1>1 DEF TypeOK
<1>3. ASSUME NEW j \in Invoices PROVE Credited(j)' = Credited(j)
  <2>1. Approved(j)' = Approved(j) /\ \A d \in Approved(j) : credit'[d].amount = credit[d].amount
    BY <1>1, <1>2 DEF Approved
  <2> QED
    BY <2>1, CreditedLasts
<1>4. /\ \A j \in Invoices : Issued(j)' = Issued(j) /\ Paid(j)' = Paid(j)
      /\ \A r \in Receipts : Unallocated(r)' = Unallocated(r)
      /\ Rest' = Rest /\ ReceiptSpentOnce' /\ OneLiveInvoice'
  BY <1>1, ReceiptsStay, InvoicesStay DEF Money
<1>5. \A j \in Invoices : OpenReceivable(j)' = OpenReceivable(j)
  BY <1>3, <1>4 DEF OpenReceivable, Issued
<1>6. Documented'
  <2>1. \A d \in Credits : credit'[d].state # "absent" =>
          credit'[d].invoice \in Invoices /\ Issued(credit'[d].invoice)
    BY <1>1, <1>2 DEF Money, Documented
  <2> QED
    BY <1>1, <2>1 DEF Money, Documented, Issued
<1>7. NeverOverpaid'
  BY <1>5 DEF Money, NeverOverpaid
<1>8. LedgerAgrees'
  <2>1. Ledger = Owed - Rest /\ Owed' = Owed /\ Ledger' = Ledger
    BY <1>1, <1>5, BalancesStay, LedgerParts DEF Money, Ledger
  <2> QED
    BY <1>4, <2>1, LedgerNext
<1>9. CoverLasts
  <2>1. \A r \in Receipts, j \in Invoices : allocated[r][j] <= allocated'[r][j]
    BY <1>1, Natural
  <2>2. \A j \in Invoices : Credited(j) <= Credited(j)'
    BY <1>3, Sums
  <2> QED
    BY <1>1, <1>4, <2>1, <2>2, Grows
<1>10. ASSUME NEW u \in Sessions, Open(u) PROVE Spares(tx[u])
  <2>1. Relies(tx[u], held[u])
    BY <1>10 DEF Carried, Open
  <2>2. tx[u].kind = "approve" => tx[u].crn # c /\ tx[u].crn \in Credits
    BY <1>1, <2>1 DEF Relies
  <2>3. \A j \in Invoices : OpenReceivable(j) <= OpenReceivable(j)'
    BY <1>5, Balances
  <2> QED
    BY <1>1, <1>2, <1>4, <2>2, <2>3 DEF Spares
<1> QED
  BY <1>4, <1>6, <1>7, <1>8, <1>9, <1>10, KeptBy

\* An approved note takes from its invoice what is open of it.
LEMMA CreditTaken ==
  ASSUME TypeOK, TypeOK', Money, Carried, Exclusive, NEW s \in Sessions, CreditApproved(s)
  PROVE  Kept(Sessions \ {s})
<1>0. /\ tx[s].pc = "write" /\ tx[s].kind = "approve" /\ Relies(tx[s], held[s])
      /\ tx[s].crn \in Credits /\ tx[s].inv \in Invoices
  BY DEF CreditApproved, Carried, Relies
<1>1. PICK c \in Credits, i \in Invoices : tx[s].crn = c /\ tx[s].inv = i
  BY <1>0
<1> DEFINE a == credit[c].amount
<1>2. /\ <<"credit", c>> \in held[s] /\ <<"invoice", i>> \in held[s]
      /\ credit[c].state = "pending" /\ credit[c].invoice = i
      /\ Issued(i) /\ a <= OpenReceivable(i) /\ a \in Nat
  BY <1>0, <1>1, Natural DEF Relies
<1>3. /\ credit' = [credit EXCEPT ![c].state = "approved"]
      /\ booked' = [booked EXCEPT !["credit_note_issued"] = @ + a]
      /\ UNCHANGED <<invoice, receipt, allocated, reversal>>
  BY <1>1 DEF CreditApproved, Book
<1>4. /\ \A d \in Credits \ {c} : credit'[d] = credit[d]
      /\ credit'[c].invoice = i /\ credit'[c].state = "approved"
  BY <1>2, <1>3 DEF TypeOK
<1>5. /\ Credited(i)' = Credited(i) + a
      /\ \A j \in Invoices \ {i} : Credited(j)' = Credited(j)
  <2>1. \A j \in Invoices : Credited(j) \in Nat
    BY Sums
  <2>2. \A j \in Invoices : Credited(j)' = Credited(j) + IF j = i THEN a ELSE 0
    BY <1>2, <1>3, CreditCounts
  <2> QED
    BY <1>2, <2>1, <2>2
<1>6. /\ \A j \in Invoices : Issued(j)' = Issued(j) /\ Paid(j)' = Paid(j)
      /\ \A r \in Receipts : Unallocated(r)' = Unallocated(r)
      /\ Rest' = Rest /\ ReceiptSpentOnce' /\ OneLiveInvoice'
  BY <1>3, ReceiptsStay, InvoicesStay DEF Money
<1> HIDE DEF a
<1>7. /\ OpenReceivable(i)' = OpenReceivable(i) - a
      /\ \A j \in Invoices \ {i} : OpenReceivable(j)' = OpenReceivable(j)
  <2>1. Paid(i) \in Nat /\ Credited(i) \in Nat /\ Gross[i] \in Nat
    BY Sums, Natural
  <2> QED
    BY <1>2, <1>5, <1>6, <2>1 DEF OpenReceivable
<1>8. Documented'
  <2>1. \A d \in Credits : credit'[d].state # "absent" =>
          credit'[d].invoice \in Invoices /\ Issued(credit'[d].invoice)
    BY <1>2, <1>4 DEF Money, Documented
  <2> QED
    BY <1>3, <2>1 DEF Money, Documented, Issued
<1>9. NeverOverpaid'
  BY <1>2, <1>7, Balances DEF Money, NeverOverpaid
<1>10. LedgerAgrees'
  <2>1. Ledger = Owed - Rest /\ Owed' = Owed - a
    BY <1>2, <1>7, LedgerParts, BalanceMoves, LedgerTypes, Balances DEF Money
  <2>2. Ledger' = Ledger - a
    BY <1>2, <1>3, LedgerTypes DEF Ledger, EventTypes, TypeOK
  <2> QED
    BY <1>2, <1>6, <2>1, <2>2, LedgerNext, LedgerTypes
<1>11. CoverLasts
  <2>1. \A r \in Receipts, j \in Invoices : allocated[r][j] <= allocated'[r][j]
    BY <1>3, Natural
  <2>2. \A j \in Invoices : Credited(j) <= Credited(j)'
    BY <1>2, <1>5, Sums
  <2> QED
    BY <1>3, <1>6, <2>1, <2>2, Grows
<1>12. ASSUME NEW u \in Sessions \ {s}, Open(u) PROVE Spares(tx[u])
  <2>1. Relies(tx[u], held[u]) /\ held[u] \cap held[s] = {}
    BY <1>12 DEF Carried, Open, Exclusive
  <2>2. /\ tx[u].kind = "approve" => tx[u].crn # c /\ tx[u].crn \in Credits
        /\ (tx[u].kind = "allocate" /\ tx[u].pc = "write") \/ tx[u].kind = "approve"
             => tx[u].inv # i
    BY <1>2, <2>1 DEF Relies
  <2>3. \A j \in Invoices \ {i} : OpenReceivable(j) <= OpenReceivable(j)'
    BY <1>7, Balances
  <2> QED
    BY <1>3, <1>4, <1>6, <2>2, <2>3 DEF Spares
<1> QED
  BY <1>6, <1>8, <1>9, <1>10, <1>11, <1>12, KeptBy

\* A request to reverse moves no money.
LEMMA ReversalRequested ==
  ASSUME TypeOK, TypeOK', Money, Carried, NEW r \in Receipts, RequestReversal(r)
  PROVE  Kept(Sessions)
<1>1. /\ receipt[r].status # "absent" /\ reversal' = [reversal EXCEPT ![r] = "pending"]
      /\ UNCHANGED <<invoice, receipt, allocated, credit, booked>>
  BY DEF RequestReversal
<1>2. /\ \A j \in Invoices : /\ Issued(j)' = Issued(j) /\ Paid(j)' = Paid(j)
                             /\ Credited(j)' = Credited(j)
      /\ \A q \in Receipts : Unallocated(q)' = Unallocated(q)
      /\ Rest' = Rest /\ ReceiptSpentOnce' /\ OneLiveInvoice'
  BY <1>1, ReceiptsStay, InvoicesStay, CreditsStay DEF Money
<1>3. \A j \in Invoices : OpenReceivable(j)' = OpenReceivable(j)
  BY <1>2 DEF OpenReceivable, Issued
<1>4. Documented'
  <2>1. \A q \in Receipts : receipt[q].status = "absent" => reversal'[q] = "none"
    BY <1>1 DEF Money, Documented, TypeOK
  <2> QED
    BY <1>1, <2>1 DEF Money, Documented, Issued
<1>5. NeverOverpaid'
  BY <1>3 DEF Money, NeverOverpaid
<1>6. LedgerAgrees'
  <2>1. Ledger = Owed - Rest /\ Owed' = Owed /\ Ledger' = Ledger
    BY <1>1, <1>3, BalancesStay, LedgerParts DEF Money, Ledger
  <2> QED
    BY <1>2, <2>1, LedgerNext
<1>7. CoverLasts
  <2>1. \A q \in Receipts, j \in Invoices : allocated[q][j] <= allocated'[q][j]
    BY <1>1, Natural
  <2>2. \A j \in Invoices : Credited(j) <= Credited(j)'
    BY <1>2, Sums
  <2> QED
    BY <1>1, <1>2, <2>1, <2>2, Grows
<1>8. ASSUME NEW u \in Sessions, Open(u) PROVE Spares(tx[u])
  <2>1. \A j \in Invoices : OpenReceivable(j) <= OpenReceivable(j)'
    BY <1>3, Balances
  <2> QED
    BY <1>1, <1>2, <2>1 DEF Spares
<1> QED
  BY <1>2, <1>4, <1>5, <1>6, <1>7, <1>8, KeptBy

\* An approved reversal gives each invoice its allocation back, and the ledger the whole
\* receipt, spent or not.
LEMMA ReceiptReversed ==
  ASSUME TypeOK, TypeOK', Money, Carried, NEW r \in Receipts, ApproveReceiptReversal(r)
  PROVE  Kept(Sessions)
<1> DEFINE a == receipt[r].amount
<1>1. /\ reversal[r] = "pending" /\ \A u \in Sessions : <<"receipt", r>> \notin held[u]
      /\ receipt' = [receipt EXCEPT ![r].status = "reversed"]
      /\ reversal' = [reversal EXCEPT ![r] = "approved"]
      /\ booked' = [booked EXCEPT !["receipt_reversed"] = @ + a]
      /\ UNCHANGED <<invoice, allocated, credit>>
  BY DEF ApproveReceiptReversal, ReverseReceipt, Book
<1>2. receipt[r].status \notin {"absent", "reversed"} /\ Counts(r) /\ a \in Nat
  BY <1>1, Natural DEF TypeOK, Money, Documented, Counts
<1>3. /\ \A q \in Receipts \ {r} : receipt'[q] = receipt[q] /\ reversal'[q] = reversal[q]
      /\ receipt'[r].status = "reversed"
      /\ \A q \in Receipts : receipt'[q].key = receipt[q].key
      /\ \A q \in Receipts : receipt'[q].status = "absent" <=> receipt[q].status = "absent"
  BY <1>1, <1>2 DEF TypeOK
<1>4. /\ \A i \in Invoices : Paid(i)' = Paid(i) - allocated[r][i]
      /\ \A q \in Receipts : AllocatedOf(q)' = AllocatedOf(q)
  BY <1>1, <1>2, Reversed, AllocatedLasts
<1>5. \A i \in Invoices : Issued(i)' = Issued(i) /\ Credited(i)' = Credited(i)
  BY <1>1, CreditsStay, InvoicesStay
<1> HIDE DEF a
<1>6. ASSUME NEW i \in Invoices
      PROVE  OpenReceivable(i)' = OpenReceivable(i) + allocated[r][i]
  <2>1. /\ Paid(i) \in Nat /\ Credited(i) \in Nat /\ Gross[i] \in Nat /\ allocated[r][i] \in Nat
        /\ ~ Issued(i) => allocated[r][i] = 0
    BY Sums, Natural, Nothing DEF Money
  <2> QED
    BY <1>4, <1>5, <2>1 DEF OpenReceivable
<1>7. /\ Unallocated(r) = a - AllocatedOf(r) /\ Unallocated(r)' = 0
      /\ \A q \in Receipts \ {r} : Unallocated(q)' = Unallocated(q)
  BY <1>2, <1>3, <1>4 DEF Unallocated, a
<1>8. Documented'
  <2>1. \A q \in Receipts : receipt'[q].status = "absent" => reversal'[q] = "none"
    BY <1>2, <1>3 DEF Money, Documented
  <2> QED
    BY <1>1, <1>3, <2>1 DEF Money, Documented, Issued
<1>9. NeverOverpaid'
  BY <1>6, Natural, Balances DEF Money, NeverOverpaid
<1>10. ReceiptSpentOnce'
  <2>1. \A k \in Keys : WithKey(k)' = WithKey(k)
    BY <1>3 DEF WithKey
  <2>2. \A q \in Receipts : Within(q)'
    BY <1>3, <1>4, SpentParts DEF Money, Within
  <2> QED
    BY <2>1, <2>2, SpentParts, SpentNext DEF KeyOnce, Money
<1>11. LedgerAgrees'
  <2>1. Owed' = Owed + AllocatedOf(r)
    <3> DEFINE f == [i \in Invoices |-> OpenReceivable(i)]
               g == allocated[r]
               h == [i \in Invoices |-> OpenReceivable(i)']
    <3>1. \A i \in Invoices : f[i] \in Int /\ g[i] \in Int /\ h[i] = f[i] + g[i]
      BY <1>6, Balances, Natural
    <3>2. /\ Owed = SumFunctionOnSet(f, Invoices) /\ Owed' = SumFunctionOnSet(h, Invoices)
          /\ AllocatedOf(r) = SumFunctionOnSet(g, Invoices)
      BY DEF Owed, AllocatedOf
    <3> HIDE DEF f, g, h
    <3> QED
      BY <3>1, <3>2, SumPlus
  <2>2. Rest' = Rest + AllocatedOf(r) - a
    <3>1. Rest' = Rest + Unallocated(r)' - Unallocated(r)
      BY <1>7, RestMoves
    <3>2. Rest \in Int /\ AllocatedOf(r) \in Nat
      BY LedgerTypes, Sums
    <3> QED
      BY <1>2, <1>7, <3>1, <3>2
  <2>3. Ledger' = Ledger + a
    BY <1>1, <1>2, LedgerTypes DEF Ledger, EventTypes, TypeOK
  <2>4. Ledger = Owed - Rest /\ Owed \in Int /\ Rest \in Int /\ AllocatedOf(r) \in Nat
    BY LedgerParts, LedgerTypes, Sums DEF Money
  <2> QED
    BY <1>2, <2>1, <2>2, <2>3, <2>4, LedgerNext
<1>12. OneLiveInvoice'
  BY <1>1, InvoicesStay DEF Money
<1>13. CoverLasts
  <2>1. \A q \in Receipts, i \in Invoices : allocated[q][i] <= allocated'[q][i]
    BY <1>1, Natural
  <2>2. \A i \in Invoices : Credited(i) <= Credited(i)'
    BY <1>5, Sums
  <2> QED
    BY <1>1, <1>5, <2>1, <2>2, Grows
<1>14. ASSUME NEW u \in Sessions, Open(u) PROVE Spares(tx[u])
  <2>1. Relies(tx[u], held[u])
    BY <1>14 DEF Carried, Open
  <2>2. /\ tx[u].kind = "allocate" => tx[u].rcp # r
        /\ tx[u].pc = "insert" /\ tx[u].kind = "record" => tx[u].rcp # r /\ tx[u].rcp \in Receipts
    BY <1>1, <1>2, <2>1 DEF Relies
  <2>3. \A i \in Invoices : OpenReceivable(i) <= OpenReceivable(i)'
    BY <1>6, Balances, Natural
  <2> QED
    BY <1>1, <1>3, <1>5, <1>7, <2>2, <2>3 DEF Spares
<1> QED
  BY <1>8, <1>9, <1>10, <1>11, <1>12, <1>13, <1>14, KeptBy

-----------------------------------------------------------------------------
(* The open transactions.                                                  *)

\* A transaction in which nothing happened goes on.
LEMMA OthersCarry ==
  ASSUME TypeOK, TypeOK', Carried, NEW U \in SUBSET Sessions, Kept(U),
         \A u \in U : tx'[u] = tx[u] /\ held'[u] = held[u]
  PROVE  \A u \in U : tx'[u].pc # "idle" => Relies(tx[u], held[u])'
<1> SUFFICES ASSUME NEW u \in U, tx'[u].pc # "idle" PROVE Relies(tx[u], held[u])'
  OBVIOUS
<1>1. PICK t \in Tx, locks \in SUBSET Rows : t = tx[u] /\ locks = held[u]
  BY TypeParts
<1>2. Relies(t, locks) /\ Spares(t) /\ CoverLasts
  BY <1>1 DEF Carried, Kept, Open
<1>3. Relies(t, locks)'
  BY <1>2, ReliesLasts
<1>4. tx'[u] = t /\ held'[u] = locks
  BY <1>1
<1> QED
  BY <1>3, <1>4 DEF Relies

\* Carried in the next state, when one transaction moved.
LEMMA CarriedNext ==
  ASSUME NEW s \in Sessions, \A u \in Sessions \ {s} : tx'[u].pc # "idle" => Relies(tx[u], held[u])',
         tx'[s].pc # "idle" => Relies(tx[s], held[s])'
  PROVE  Carried'
  BY DEF Carried

\* What keeps the locks and the inserts of connections apart.
LEMMA EndExclusive ==
  ASSUME TypeOK, Exclusive, NEW s \in Sessions, End(s)
  PROVE  Exclusive'
<1>1. /\ tx'[s] = Idle /\ held'[s] = {}
      /\ \A u \in Sessions \ {s} : tx'[u] = tx[u] /\ held'[u] = held[u]
  BY DEF End, TypeOK
<1>2. Idle.pc = "idle"
  BY DEF Idle
<1> QED
  BY <1>1, <1>2 DEF Exclusive

\* Locks that were free are taken by one connection.
LEMMA TakeExclusive ==
  ASSUME TypeOK, Exclusive, NEW s \in Sessions, NEW locks, Take(s, locks),
         \A u \in Sessions \ {s} : tx'[u] = tx[u],
         tx'[s].pc # "insert"
  PROVE  Exclusive'
<1>1. /\ held'[s] = held[s] \cup locks
      /\ \A u \in Sessions \ {s} : held'[u] = held[u] /\ held[u] \cap locks = {}
  BY DEF Take, Free, TypeOK
<1> QED
  BY <1>1 DEF Exclusive

\* A fresh document is about to be inserted by one connection.
LEMMA InsertExclusive ==
  ASSUME TypeOK, Exclusive, NEW s \in Sessions, NEW t,
         tx' = [tx EXCEPT ![s] = t], held' = [held EXCEPT ![s] = @ \cup {}],
         \A u \in Sessions \ {s} : tx[u].pc = "insert" =>
           /\ t.inv \in Invoices => tx[u].inv # t.inv
           /\ t.rcp \in Receipts => tx[u].rcp # t.rcp
  PROVE  Exclusive'
<1>1. /\ tx'[s] = t /\ held'[s] = held[s]
      /\ \A u \in Sessions \ {s} : tx'[u] = tx[u] /\ held'[u] = held[u]
  BY DEF TypeOK
<1> QED
  BY <1>1 DEF Exclusive

\* A handover stands as long as what it rested on.
LEMMA HandedNext ==
  ASSUME HandedOverPaid, CoverLasts,
         \A w \in WorkOrders : delivered'[w] = "settled" => delivered[w] = "settled" \/ Covered(w)
  PROVE  HandedOverPaid'
  BY DEF HandedOverPaid, CoverLasts

\* An invoice with nothing open is covered, even if reversals no longer count.
LEMMA SettledCovered ==
  ASSUME TypeOK, NEW w, Settled(w)
  PROVE  Covered(w)
<1>1. PICK i \in Live(w) : Issued(i) /\ OpenReceivable(i) = 0
  BY DEF Settled
<1>2. i \in Invoices
  BY DEF Live
<1>3. Paid(i) + Credited(i) = Gross[i] /\ Paid(i) \in Nat /\ Credited(i) \in Nat
  BY <1>1, <1>2, Sums, Natural DEF OpenReceivable
<1>4. Paid(i) = SumFunctionOnSet(PaidBy(i), Counting)
  BY DEF Paid, PaidBy, Counting
<1>5. \A r \in Receipts : PaidBy(i)[r] \in Nat
  BY <1>2, Natural DEF PaidBy
<1>6. /\ SumFunctionOnSet(PaidBy(i), Counting) <= SumFunctionOnSet(PaidBy(i), Receipts)
      /\ SumFunctionOnSet(PaidBy(i), Receipts) \in Nat
  BY <1>5, SumPart, SumNatural DEF Counting
<1>7. SumFunctionOnSet(PaidBy(i), Receipts) + Credited(i) >= Gross[i]
  BY <1>2, <1>3, <1>4, <1>6, Natural
<1> QED
  BY <1>1, <1>7 DEF Covered, PaidBy

-----------------------------------------------------------------------------
(* The invariant.                                                          *)

\* What the lemmas above assume of Inv.
LEMMA InvParts == Inv => TypeOK /\ Money /\ Carried /\ Exclusive /\ HandedOverPaid
  BY DEF Inv, Money

\* Inv in the next state from what they yield.
LEMMA InvNext ==
  ASSUME TypeOK', NEW U, Kept(U), Carried', Exclusive', HandedOverPaid'
  PROVE  Inv'
  BY DEF Inv, Kept, Money

\* The requests of one step keep Inv.
LEMMA RequestStep ==
  ASSUME Inv, TypeOK', Request
  PROVE  Inv'
<1> USE InvParts
<1>1. UNCHANGED <<delivered, tx, held>>
  BY DEF Request, IssueInvoice, CancelInvoice, Decide, RequestCreditNote, RequestReversal,
         ApproveReceiptReversal
<1>2. Kept(Sessions)
  <2>1. ASSUME NEW i \in Invoices, IssueInvoice(i) PROVE Kept(Sessions)
    <3>1. Ledger' = Ledger + Gross[i] /\ Decide(i, "issued")
      BY <2>1, LedgerTypes, Natural DEF IssueInvoice, Book, Ledger, EventTypes, TypeOK
    <3> QED
      BY <3>1, InvoiceDecided
  <2>2. ASSUME NEW i \in Invoices, CancelInvoice(i) PROVE Kept(Sessions)
    <3>1. Ledger' = Ledger + 0 /\ Decide(i, "void_before_issue")
      BY <2>2, LedgerTypes DEF CancelInvoice, Ledger, EventTypes
    <3> QED
      BY <3>1, InvoiceDecided
  <2> QED
    BY <2>1, <2>2, CreditRequested, ReversalRequested, ReceiptReversed DEF Request
<1>3. \A u \in Sessions : tx'[u].pc # "idle" => Relies(tx[u], held[u])'
  BY <1>1, <1>2, OthersCarry
<1>4. Carried'
  BY <1>3 DEF Carried
<1>5. Exclusive'
  BY <1>1 DEF Exclusive
<1>6. HandedOverPaid'
  BY <1>1, <1>2, HandedNext DEF Kept
<1> QED
  BY <1>2, <1>4, <1>5, <1>6, InvNext

\* A transaction that ends gives its locks back.
LEMMA EndStep ==
  ASSUME Inv, TypeOK', NEW s \in Sessions, End(s), Kept(Sessions \ {s}),
         \A w \in WorkOrders : delivered'[w] = "settled" => delivered[w] = "settled" \/ Covered(w)
  PROVE  Inv'
<1> USE InvParts
<1>1. /\ tx'[s] = Idle
      /\ \A u \in Sessions \ {s} : tx'[u] = tx[u] /\ held'[u] = held[u]
  BY DEF End, TypeOK
<1>2. \A u \in Sessions \ {s} : tx'[u].pc # "idle" => Relies(tx[u], held[u])'
  BY <1>1, OthersCarry
<1>3. Carried'
  BY <1>1, <1>2, CarriedNext DEF Idle
<1> QED
  BY <1>3, EndExclusive, HandedNext, InvNext DEF Kept

\* A rollback keeps Inv.
LEMMA AbortStep ==
  ASSUME Inv, TypeOK', NEW s \in Sessions, Abort(s)
  PROVE  Inv'
<1>1. Kept(Sessions) /\ End(s) /\ delivered' = delivered
  BY InvParts, Quiet DEF Abort
<1>2. Kept(Sessions \ {s})
  BY <1>1 DEF Kept
<1> QED
  BY <1>1, <1>2, EndStep

\* A transaction moves on without writing a document.
LEMMA OpenStep ==
  ASSUME Inv, TypeOK', NEW s \in Sessions, NEW t \in Tx, NEW locks \in SUBSET Rows,
         tx' = [tx EXCEPT ![s] = t], held' = [held EXCEPT ![s] = locks],
         UNCHANGED <<documents, delivered>>, Relies(t, locks), Exclusive'
  PROVE  Inv'
<1> USE InvParts
<1>1. /\ tx'[s] = t /\ held'[s] = locks
      /\ \A u \in Sessions \ {s} : tx'[u] = tx[u] /\ held'[u] = held[u]
  BY DEF TypeOK
<1>2. Kept(Sessions) /\ Kept(Sessions \ {s})
  BY Quiet DEF Kept
<1>3. \A u \in Sessions \ {s} : tx'[u].pc # "idle" => Relies(tx[u], held[u])'
  BY <1>1, <1>2, OthersCarry
<1>4. Relies(tx[s], held[s])'
  <2>1. Relies(t, locks)'
    BY <1>2, StillSpared, ReliesLasts DEF Kept
  <2> QED
    BY <1>1, <2>1 DEF Relies
<1>5. Carried'
  BY <1>3, <1>4, CarriedNext
<1>6. HandedOverPaid'
  BY <1>2, HandedNext DEF Kept
<1> QED
  BY <1>2, <1>5, <1>6, InvNext

\* A request that opens a transaction keeps Inv: what it has read, it may rely on.
LEMMA BeginStep ==
  ASSUME Inv, TypeOK', NEW s \in Sessions, BeginRequest(s)
  PROVE  Inv'
<1> USE InvParts
<1>1. ASSUME NEW w \in WorkOrders, NEW i \in Invoices, CreateInvoice(s, w, i) PROVE Inv'
  <2> DEFINE t == [Idle EXCEPT !.pc = "insert", !.kind = "create", !.wo = w, !.inv = i]
  <2>1. /\ t \in Tx /\ t.pc = "insert" /\ t.kind = "create" /\ t.wo = w /\ t.inv = i
        /\ t.rcp = None
    BY DEF Idle, Tx
  <2>2. /\ Fresh(i) /\ tx' = [tx EXCEPT ![s] = t] /\ held' = [held EXCEPT ![s] = @ \cup {}]
        /\ UNCHANGED <<documents, delivered>>
    BY <1>1 DEF CreateInvoice, Begin, Take
  <2> HIDE DEF t
  <2>3. Exclusive'
    <3>1. \A u \in Sessions \ {s} : tx[u].pc = "insert" => tx[u].inv # i
      BY <2>2 DEF Fresh
    <3> QED
      BY <2>1, <2>2, <3>1, InsertExclusive
  <2>4. invoice[i].status = "absent"
    BY <2>2 DEF Fresh
  <2>5. Relies(t, held[s])
    BY <2>1, <2>4 DEF Relies
  <2>6. held' = [held EXCEPT ![s] = held[s]] /\ held[s] \in SUBSET Rows
    BY <2>2, TypeParts
  <2> QED
    BY <2>1, <2>2, <2>3, <2>5, <2>6, OpenStep
<1>2. ASSUME NEW r \in Receipts, NEW a \in Amounts, NEW k \in Keys \cup {None},
             RecordPayment(s, r, a, k)
      PROVE  Inv'
  <2> DEFINE t == [Idle EXCEPT !.pc = "insert", !.kind = "record", !.rcp = r, !.amount = a,
                               !.key = k]
  <2>1. /\ t \in Tx /\ t.pc = "insert" /\ t.kind = "record" /\ t.rcp = r /\ t.inv = None
    BY DEF Idle, Tx
  <2>2. /\ Fresh(r) /\ tx' = [tx EXCEPT ![s] = t] /\ held' = [held EXCEPT ![s] = @ \cup {}]
        /\ UNCHANGED <<documents, delivered>>
    BY <1>2 DEF RecordPayment, Begin, Take
  <2> HIDE DEF t
  <2>3. Exclusive'
    <3>1. \A u \in Sessions \ {s} : tx[u].pc = "insert" => tx[u].rcp # r
      BY <2>2 DEF Fresh
    <3>2. t.inv \notin Invoices
      BY <2>1
    <3>3. \A u \in Sessions \ {s} : tx[u].pc = "insert" =>
            /\ t.inv \in Invoices => tx[u].inv # t.inv
            /\ t.rcp \in Receipts => tx[u].rcp # t.rcp
      BY <2>1, <3>1, <3>2
    <3> QED
      BY <2>2, <3>3, InsertExclusive
  <2>4. receipt[r].status = "absent"
    BY <2>2 DEF Fresh
  <2>5. Relies(t, held[s])
    BY <2>1, <2>4 DEF Relies
  <2>6. held' = [held EXCEPT ![s] = held[s]] /\ held[s] \in SUBSET Rows
    BY <2>2, TypeParts
  <2> QED
    BY <2>1, <2>2, <2>3, <2>5, <2>6, OpenStep
<1>3. ASSUME NEW r \in Receipts, NEW i \in Invoices, NEW a \in Amounts,
             AllocatePayment(s, r, i, a)
      PROVE  Inv'
  <2> DEFINE t == [Idle EXCEPT !.pc = "invoice", !.kind = "allocate", !.rcp = r, !.inv = i,
                               !.amount = a]
             locks == held[s] \cup ReceiptLock(r)
  <2>1. /\ t \in Tx /\ t.pc = "invoice" /\ t.kind = "allocate" /\ t.rcp = r /\ t.inv = i
        /\ t.amount = a
    BY DEF Idle, Tx
  <2>2. /\ Counts(r) /\ a <= Unallocated(r)
        /\ Take(s, ReceiptLock(r)) /\ tx' = [tx EXCEPT ![s] = t]
        /\ UNCHANGED <<documents, delivered>>
    BY <1>3 DEF AllocatePayment, Begin
  <2> HIDE DEF t
  <2>3. Exclusive'
    BY <2>1, <2>2, TakeExclusive DEF TypeOK
  <2>4. receipt[r].status \notin {"absent", "reversed"}
    BY <2>2 DEF Counts, Unallocated
  <2>5. <<"receipt", r>> \in locks
    BY DEF ReceiptLock
  <2>6. locks \in SUBSET Rows
    BY TypeParts DEF ReceiptLock, Rows
  <2>7. held' = [held EXCEPT ![s] = locks]
    BY <2>2 DEF Take
  <2> HIDE DEF locks
  <2>8. Relies(t, locks)
    BY <2>1, <2>2, <2>4, <2>5 DEF Relies
  <2> QED
    BY <2>1, <2>2, <2>3, <2>6, <2>7, <2>8, OpenStep
<1>4. ASSUME NEW c \in Credits, ApproveCreditNote(s, c) PROVE Inv'
  <2> DEFINE i == credit[c].invoice
             t == [Idle EXCEPT !.pc = "write", !.kind = "approve", !.crn = c, !.inv = i]
             new == {<<"credit", c>>} \cup InvoiceLock(i)
             locks == held[s] \cup new
  <2>1. credit[c].state = "pending" /\ i \in Invoices /\ credit[c].amount <= OpenReceivable(i)
    BY <1>4 DEF ApproveCreditNote, Money, Documented
  <2>2. /\ t \in Tx /\ t.pc = "write" /\ t.kind = "approve" /\ t.crn = c /\ t.inv = i
        /\ t.way = "no"
    BY <2>1 DEF Idle, Tx
  <2>3. /\ Take(s, new) /\ tx' = [tx EXCEPT ![s] = t] /\ UNCHANGED <<documents, delivered>>
    BY <1>4 DEF ApproveCreditNote, Begin
  <2>4. Issued(i)
    BY <1>4 DEF ApproveCreditNote, Money, Documented
  <2>5. {<<"credit", c>>, <<"invoice", i>>} \subseteq locks /\ locks \in SUBSET Rows
    BY <2>1, TypeParts DEF InvoiceLock, Rows
  <2>6. held' = [held EXCEPT ![s] = locks]
    BY <2>3 DEF Take
  <2> HIDE DEF t, new
  <2>7. Exclusive'
    BY <2>2, <2>3, TakeExclusive DEF TypeOK
  <2> HIDE DEF locks, i
  <2>8. Relies(t, locks)
    BY <2>1, <2>2, <2>4, <2>5 DEF Relies, i
  <2> QED
    BY <2>2, <2>3, <2>5, <2>6, <2>7, <2>8, OpenStep
<1>5. ASSUME NEW w \in WorkOrders, CompleteDelivery(s, w) PROVE Inv'
  <2> DEFINE t == [Idle EXCEPT !.pc = "assess", !.kind = "deliver", !.wo = w]
             locks == held[s] \cup {<<"delivery", w>>}
  <2>1. t \in Tx /\ t.pc = "assess" /\ t.kind = "deliver" /\ t.wo = w /\ t.way = "no"
    BY DEF Idle, Tx
  <2>2. /\ Take(s, {<<"delivery", w>>}) /\ tx' = [tx EXCEPT ![s] = t]
        /\ UNCHANGED <<documents, delivered>>
    BY <1>5 DEF CompleteDelivery, Begin
  <2> HIDE DEF t
  <2>3. Exclusive'
    BY <2>1, <2>2, TakeExclusive DEF TypeOK
  <2>4. locks \in SUBSET Rows
    BY TypeParts DEF Rows
  <2>5. held' = [held EXCEPT ![s] = locks]
    BY <2>2 DEF Take
  <2> HIDE DEF locks
  <2>6. Relies(t, locks)
    BY <2>1 DEF Relies
  <2> QED
    BY <2>1, <2>2, <2>3, <2>4, <2>5, <2>6, OpenStep
<1> QED
  BY <1>1, <1>2, <1>3, <1>4, <1>5 DEF BeginRequest

\* The later steps of a transaction keep Inv.
LEMMA FinishStep ==
  ASSUME Inv, TypeOK', NEW s \in Sessions,
         LockInvoice(s) \/ Assess(s) \/ Finish(s) \/ Rollback(s)
  PROVE  Inv'
<1> USE InvParts
<1>1. CASE LockInvoice(s)
  <2>1. CASE Abort(s)
    BY <2>1, AbortStep
  <2>2. CASE ~ Abort(s)
    <3>0. tx[s].pc = "invoice" /\ Relies(tx[s], held[s]) /\ tx[s] \in Tx /\ tx[s].inv \in Invoices
      BY <1>1, TypeParts DEF LockInvoice, Carried, Relies
    <3>1. PICK t \in Tx, i \in Invoices : t = tx[s] /\ i = tx[s].inv
      BY <3>0
    <3> DEFINE w == [t EXCEPT !.pc = "write"]
               locks == held[s] \cup InvoiceLock(i)
    <3>2. /\ Issued(i) /\ t.amount <= OpenReceivable(i)
          /\ Take(s, InvoiceLock(i)) /\ tx' = [tx EXCEPT ![s] = w]
          /\ UNCHANGED <<documents, delivered>>
      BY <1>1, <2>2, <3>1 DEF LockInvoice
    <3>3. /\ t.kind = "allocate" /\ t.rcp \in Receipts /\ t.inv = i /\ t.amount \in Amounts
          /\ <<"receipt", t.rcp>> \in held[s]
          /\ receipt[t.rcp].status \notin {"absent", "reversed"}
          /\ t.amount <= Unallocated(t.rcp)
      BY <3>0, <3>1 DEF Relies
    <3>4. /\ w \in Tx /\ w.pc = "write" /\ w.kind = "allocate" /\ w.rcp = t.rcp /\ w.inv = i
          /\ w.amount = t.amount
      BY <3>3 DEF Tx
    <3>5. locks \in SUBSET Rows /\ <<"invoice", i>> \in locks /\ held[s] \subseteq locks
      BY TypeParts DEF InvoiceLock, Rows
    <3>6. held' = [held EXCEPT ![s] = locks]
      BY <3>2 DEF Take
    <3> HIDE DEF w
    <3>7. Exclusive'
      BY <3>2, <3>4, TakeExclusive DEF TypeOK
    <3> HIDE DEF locks
    <3>8. Relies(w, locks)
      BY <3>2, <3>3, <3>4, <3>5 DEF Relies
    <3> QED
      BY <3>2, <3>4, <3>5, <3>6, <3>7, <3>8, OpenStep
  <2> QED
    BY <2>1, <2>2
<1>2. CASE Assess(s)
  <2>1. CASE Abort(s)
    BY <2>1, AbortStep
  <2>2. CASE ~ Abort(s)
    <3>0. tx[s].pc = "assess" /\ Relies(tx[s], held[s]) /\ tx[s] \in Tx /\ held[s] \in SUBSET Rows
      BY <1>2, TypeParts DEF Assess, Carried
    <3>1. PICK t \in Tx, w \in WorkOrders : t = tx[s] /\ w = tx[s].wo /\ t.kind = "deliver"
      BY <3>0 DEF Relies
    <3>2. PICK way \in {"settled", "overridden"} : way = IF Settled(w) THEN "settled" ELSE "overridden"
      OBVIOUS
    <3> DEFINE x == [t EXCEPT !.pc = "write", !.way = way]
    <3>3. tx' = [tx EXCEPT ![s] = x] /\ UNCHANGED <<documents, delivered, held>>
      BY <1>2, <2>2, <3>1, <3>2 DEF Assess
    <3>4. /\ x \in Tx /\ x.pc = "write" /\ x.kind = "deliver" /\ x.wo = w /\ x.way = way
      BY <3>1 DEF Tx
    <3> HIDE DEF x
    <3>5. Exclusive'
      <4>1. tx'[s].pc # "insert" /\ \A u \in Sessions \ {s} : tx'[u] = tx[u]
        BY <3>3, <3>4 DEF TypeOK
      <4> QED
        BY <3>3, <4>1 DEF Exclusive
    <3>6. x.way = "settled" => Covered(w)
      BY <3>2, <3>4, SettledCovered
    <3>7. Relies(x, held[s])
      BY <3>4, <3>6 DEF Relies
    <3>8. held' = [held EXCEPT ![s] = held[s]]
      BY <3>3, TypeParts
    <3> QED
      BY <3>0, <3>3, <3>4, <3>5, <3>7, <3>8, OpenStep
  <2> QED
    BY <2>1, <2>2
<1>3. ASSUME Kept(Sessions \ {s}), End(s), delivered' = delivered PROVE Inv'
  BY <1>3, EndStep
<1>4. CASE InsertInvoice(s)
  <2>1. CASE Abort(s)
    BY <2>1, AbortStep
  <2>2. CASE ~ Abort(s)
    BY <1>3, <1>4, <2>2, InvoiceInserted DEF InsertInvoice
  <2> QED
    BY <2>1, <2>2
<1>5. CASE RecordReceipt(s)
  <2>1. CASE Abort(s)
    BY <2>1, AbortStep
  <2>2. CASE ~ Abort(s)
    BY <1>3, <1>5, <2>2, ReceiptRecorded DEF RecordReceipt
  <2> QED
    BY <2>1, <2>2
<1>6. CASE AllocateReceipt(s)
  BY <1>3, <1>6, ReceiptAllocated DEF AllocateReceipt
<1>7. CASE CreditApproved(s)
  BY <1>3, <1>7, CreditTaken DEF CreditApproved
<1>8. CASE Deliver(s)
  <2>1. /\ Relies(tx[s], held[s]) /\ tx[s].kind = "deliver" /\ End(s) /\ UNCHANGED documents
        /\ delivered' = [delivered EXCEPT ![tx[s].wo] = tx[s].way]
    BY <1>8 DEF Deliver, Carried
  <2>2. Kept(Sessions \ {s})
    BY <2>1, Quiet DEF Kept
  <2>3. \A w \in WorkOrders : delivered'[w] = "settled" => delivered[w] = "settled" \/ Covered(w)
    BY <2>1 DEF Relies, TypeOK
  <2> QED
    BY <2>1, <2>2, <2>3, EndStep
<1>9. CASE Rollback(s)
  BY <1>9, AbortStep DEF Rollback
<1> QED
  BY <1>1, <1>2, <1>4, <1>5, <1>6, <1>7, <1>8, <1>9 DEF Finish

\* Every step keeps Inv ...
LEMMA InvStep ==
  ASSUME Inv, [Next]_vars
  PROVE  Inv'
<1>1. TypeOK'
  BY InvParts, TypeStep DEF Money
<1>2. CASE Request
  BY <1>1, <1>2, RequestStep
<1>3. ASSUME NEW s \in Sessions, BeginRequest(s) PROVE Inv'
  BY <1>1, <1>3, BeginStep
<1>4. ASSUME NEW s \in Sessions, LockInvoice(s) \/ Assess(s) \/ Finish(s) \/ Rollback(s)
      PROVE  Inv'
  BY <1>1, <1>4, FinishStep
<1>5. CASE UNCHANGED vars
  <2>1. UNCHANGED documents /\ tx' = tx /\ held' = held /\ delivered' = delivered
    BY <1>5 DEF vars, documents
  <2>2. Kept(Sessions)
    BY <2>1, Quiet, InvParts
  <2>3. \A u \in Sessions : tx'[u].pc # "idle" => Relies(tx[u], held[u])'
    BY <1>1, <2>1, <2>2, OthersCarry, InvParts
  <2>4. Carried'
    BY <2>3 DEF Carried
  <2>5. Exclusive'
    BY <2>1, InvParts DEF Exclusive
  <2>6. HandedOverPaid'
    BY <2>1, <2>2, HandedNext, InvParts DEF Kept
  <2> QED
    BY <1>1, <2>2, <2>4, <2>5, <2>6, InvNext
<1> QED
  BY <1>2, <1>3, <1>4, <1>5 DEF Next

\* ... which holds initially.
LEMMA InvInit ==
  ASSUME Init
  PROVE  Inv
<1>1. TypeOK
  BY IdleType DEF Init, TypeOK, Idle, EventTypes
<1>2. /\ \A i \in Invoices : invoice[i].status = "absent" /\ ~ Issued(i) /\ OpenReceivable(i) = 0
      /\ \A r \in Receipts : receipt[r].status = "absent" /\ Unallocated(r) = 0
      /\ \A s \in Sessions : tx[s].pc = "idle" /\ held[s] = {}
  BY DEF Init, Issued, OpenReceivable, Unallocated, Idle
<1>3. Documented
  BY DEF Init, Documented
<1>4. Carried /\ Exclusive
  BY <1>2 DEF Carried, Exclusive
<1>5. NeverOverpaid /\ HandedOverPaid
  BY <1>2 DEF NeverOverpaid, HandedOverPaid, Init
<1>6. ReceiptSpentOnce
  <2>1. \A k : WithKey(k) = {}
    BY <1>2 DEF WithKey
  <2>2. \A k : Cardinality(WithKey(k)) = 0
    BY <2>1, FS_EmptySet
  <2> QED
    BY <1>2, <2>2 DEF ReceiptSpentOnce
<1>7. LedgerAgrees
  <2>1. \A i \in Invoices : [j \in Invoices |-> OpenReceivable(j)][i] = 0
    BY <1>2
  <2>2. \A r \in Receipts : [q \in Receipts |-> Unallocated(q)][r] = 0
    BY <1>2
  <2>3. Owed = 0 /\ Rest = 0
    BY <2>1, <2>2, SumZero DEF Owed, Rest
  <2> QED
    BY <2>3, LedgerParts DEF Ledger, Init, EventTypes
<1>8. OneLiveInvoice
  <2>1. \A w : Live(w) = {}
    BY <1>2 DEF Live
  <2> QED
    BY <2>1, FS_EmptySet DEF OneLiveInvoice
<1> QED
  BY <1>1, <1>3, <1>4, <1>5, <1>6, <1>7, <1>8 DEF Inv

\* The conjuncts of Inv hold in every reachable state.
THEOREM Invariant == Spec => []Inv
<1>1. Init => Inv
  BY InvInit
<1>2. Inv /\ [Next]_vars => Inv'
  BY InvStep
<1> QED
  BY <1>1, <1>2, PTL DEF Spec

-----------------------------------------------------------------------------
(* The results.                                                            *)

\* Documents, transactions and locks keep their types, and a receipt is reversed exactly
\* when its reversal is approved.
THEOREM ReceivablesTypeCorrect == Spec => []TypeOK
<1>1. Inv => TypeOK
  BY DEF Inv
<1> QED
  BY <1>1, Invariant, PTL

\* Whatever allocations, credit notes and reversals race for it, no invoice is paid or
\* credited beyond its gross.
THEOREM NeverOverpaidAlways == Spec => []NeverOverpaid
<1>1. Inv => NeverOverpaid
  BY DEF Inv
<1> QED
  BY <1>1, Invariant, PTL

\* A receipt is recorded once per key and spent no further than it goes, and its status
\* says how far.
THEOREM ReceiptsSpentOnce == Spec => []ReceiptSpentOnce
<1>1. Inv => ReceiptSpentOnce
  BY DEF Inv
<1> QED
  BY <1>1, Invariant, PTL

\* The financial events alone yield what is open on invoices less what receipts have left.
THEOREM LedgerYieldsBalance == Spec => []LedgerAgrees
<1>1. Inv => LedgerAgrees
  BY DEF Inv
<1> QED
  BY <1>1, Invariant, PTL

\* A work order never has two invoices that are not void.
THEOREM OneInvoicePerWorkOrder == Spec => []OneLiveInvoice
<1>1. Inv => OneLiveInvoice
  BY DEF Inv
<1> QED
  BY <1>1, Invariant, PTL

\* What was handed over as settled had been paid or credited in full, though the
\* balance was read without a lock.
THEOREM NothingLeavesUnpaid == Spec => []HandedOverPaid
<1>1. Inv => HandedOverPaid
  BY DEF Inv
<1> QED
  BY <1>1, Invariant, PTL

-----------------------------------------------------------------------------
(* The derived balances are kept accounts.                                 *)

\* The accounts, as functions and sets of their own.
Bills == [i \in Invoices |-> IF Issued(i) THEN invoice[i].wo ELSE None]
Owes == [i \in Invoices |-> OpenReceivable(i)]
Rests == [r \in Receipts |-> Unallocated(r)]
CameIn == {r \in Receipts : receipt[r].status # "absent"}
KeysUsed == {receipt[r].key : r \in {q \in Receipts : receipt[q].status # "absent"}} \ {None}
Gone == {r \in Receipts : receipt[r].status = "reversed"}
Granted == {c \in Credits : credit[c].state = "approved"}

Books == <<Bills, Owes, Rests, allocated, CameIn, KeysUsed, Gone, Granted>>

\* What a handover found tells which work orders are cleared.
Tells(t) == t.kind = "deliver" /\ t.way = "settled"

\* A step that writes no document posts nothing.
LEMMA SameBooks ==
  ASSUME UNCHANGED documents PROVE UNCHANGED Books
<1>1. /\ \A i \in Invoices : Issued(i)' = Issued(i) /\ OpenReceivable(i)' = OpenReceivable(i)
      /\ \A r \in Receipts : Unallocated(r)' = Unallocated(r)
  BY Unmoved
<1>2. UNCHANGED <<invoice, receipt, allocated, credit>> BY DEF documents
<1>3. UNCHANGED Bills BY <1>1, <1>2 DEF Bills
<1>4. UNCHANGED <<Owes, Rests>> BY <1>1 DEF Owes, Rests
<1>5. UNCHANGED <<CameIn, KeysUsed, Gone, Granted>>
  BY <1>2 DEF CameIn, KeysUsed, Gone, Granted
<1> QED BY <1>2, <1>3, <1>4, <1>5 DEF Books

\* A session whose transaction tells the same before and after clears nothing.
LEMMA ClearedStays ==
  ASSUME NEW s \in Sessions, \A u \in Sessions \ {s} : tx'[u] = tx[u],
         UNCHANGED delivered, ~ Tells(tx[s]), ~ Tells(tx'[s])
  PROVE  Cleared' = Cleared
  BY DEF Cleared, Tells

\* Nor does a step without sessions.
LEMMA ClearedSame == UNCHANGED <<tx, delivered>> => Cleared' = Cleared
  BY DEF Cleared

\* A step that posts nothing stutters.
LEMMA NoPosting ==
  ASSUME UNCHANGED Books, Cleared' = Cleared, UNCHANGED delivered
  PROVE  UNCHANGED Accounts!avars
  BY DEF Books, Bills, Owes, Rests, CameIn, KeysUsed, Gone, Granted, Accounts!avars

\* The postings, in terms of the accounts.
LEMMA PostBill ==
  ASSUME NEW i \in Invoices, NEW w \in WorkOrders,
         Bills[i] = None, \A j \in Invoices : Bills[j] # w,
         Bills' = [Bills EXCEPT ![i] = w], Owes' = [Owes EXCEPT ![i] = Gross[i]],
         UNCHANGED <<Rests, allocated, CameIn, KeysUsed, Gone, Granted, Cleared, delivered>>
  PROVE  Accounts!Bill(i, w)
  BY DEF Accounts!Bill, Bills, Owes, Rests, CameIn, KeysUsed, Gone, Granted

\* A receipt that came in, likewise.
LEMMA PostEntry ==
  ASSUME NEW r \in Receipts, NEW a \in Amounts, NEW k \in Keys \cup {None},
         r \notin CameIn, k \notin KeysUsed,
         CameIn' = CameIn \cup {r}, KeysUsed' = KeysUsed \cup ({k} \ {None}),
         Rests' = [Rests EXCEPT ![r] = a],
         UNCHANGED <<Bills, Owes, allocated, Gone, Granted, Cleared, delivered>>
  PROVE  Accounts!Enter(r, a, k)
  BY DEF Accounts!Enter, Bills, Owes, Rests, CameIn, KeysUsed, Gone, Granted

\* A payment.
LEMMA PostPayment ==
  ASSUME NEW r \in Receipts, NEW i \in Invoices, NEW a \in Amounts,
         a <= Rests[r], a <= Owes[i],
         Rests' = [Rests EXCEPT ![r] = @ - a], Owes' = [Owes EXCEPT ![i] = @ - a],
         allocated' = [allocated EXCEPT ![r][i] = @ + a],
         UNCHANGED <<Bills, CameIn, KeysUsed, Gone, Granted, Cleared, delivered>>
  PROVE  Accounts!Pay(r, i, a)
  BY DEF Accounts!Pay, Bills, Owes, Rests, CameIn, KeysUsed, Gone, Granted

\* A credit note.
LEMMA PostCredit ==
  ASSUME NEW c \in Credits, NEW i \in Invoices, NEW a \in Amounts,
         c \notin Granted, a <= Owes[i],
         Granted' = Granted \cup {c}, Owes' = [Owes EXCEPT ![i] = @ - a],
         UNCHANGED <<Bills, Rests, allocated, CameIn, KeysUsed, Gone, Cleared, delivered>>
  PROVE  Accounts!Credit(c, i, a)
  BY DEF Accounts!Credit, Bills, Owes, Rests, CameIn, KeysUsed, Gone, Granted

\* A reversal.
LEMMA PostReversal ==
  ASSUME NEW r \in Receipts, r \in CameIn \ Gone,
         Gone' = Gone \cup {r}, Rests' = [Rests EXCEPT ![r] = 0],
         Owes' = [i \in Invoices |-> Owes[i] + allocated[r][i]],
         UNCHANGED <<Bills, allocated, CameIn, KeysUsed, Granted, Cleared, delivered>>
  PROVE  Accounts!Reverse(r)
  BY DEF Accounts!Reverse, Bills, Owes, Rests, CameIn, KeysUsed, Gone, Granted

\* The steps of a handover, likewise.
LEMMA HandoverPosts ==
  ASSUME UNCHANGED Books, NEW w \in WorkOrders, delivered[w] = "no"
  PROVE  /\ (/\ w \notin Cleared /\ Cleared' = Cleared \cup {w} /\ UNCHANGED delivered
             /\ \E i \in Invoices : Bills[i] = w /\ Owes[i] = 0)
              => Accounts!Clear(w)
         /\ (w \in Cleared /\ Cleared' = Cleared \ {w} /\ UNCHANGED delivered)
              => Accounts!Withdraw(w)
         /\ (/\ UNCHANGED Cleared
             /\ delivered' = [delivered EXCEPT ![w] =
                                IF w \in Cleared THEN "settled" ELSE "overridden"])
              => Accounts!HandOver(w)
  BY DEF Accounts!Clear, Accounts!Withdraw, Accounts!HandOver, Accounts!accounts, Books,
         Bills, Owes, Rests, CameIn, KeysUsed, Gone, Granted

\* Posted is about one session at a time.
PostedBy(t, locks) ==
  /\ t.kind = "record" => t.amount \in Amounts
  /\ t.kind = "deliver" =>
       /\ t.pc \in {"assess", "write"} /\ t.wo \in WorkOrders
       /\ t.way = "no" <=> t.pc = "assess"
       /\ <<"delivery", t.wo>> \in locks /\ delivered[t.wo] = "no"

PostedDocuments ==
  /\ \A i \in Invoices : invoice[i].status # "absent" => invoice[i].wo \in WorkOrders
  /\ \A c \in Credits : credit[c].state # "absent" => credit[c].amount \in Amounts

\* Posted, taken apart.
LEMMA PostedParts ==
  Posted <=> PostedDocuments /\ \A s \in Sessions : PostedBy(tx[s], held[s])
  BY DEF Posted, PostedBy, PostedDocuments

\* And put together in the next state.
LEMMA PostedNext ==
  ASSUME PostedDocuments', \A s \in Sessions : PostedBy(tx[s], held[s])' PROVE Posted'
  BY DEF Posted, PostedBy, PostedDocuments

\* Documents keep the work order and the amount they are made with.
LEMMA DocumentsPosted ==
  ASSUME TypeOK, TypeOK', Carried, Posted, [Next]_vars PROVE PostedDocuments'
<1> USE DEF PostedDocuments, Posted
<1>1. ASSUME NEW i \in Invoices, NEW status, Decide(i, status), credit' = credit
      PROVE  PostedDocuments'
  BY <1>1 DEF Decide, TypeOK
<1>2. ASSUME NEW c \in Credits, NEW i \in Invoices, NEW a \in Amounts, RequestCreditNote(c, i, a)
      PROVE  PostedDocuments'
  BY <1>2 DEF RequestCreditNote, TypeOK
<1>3. ASSUME UNCHANGED <<invoice, credit>> PROVE PostedDocuments'
  BY <1>3
<1>4. CASE Request
  BY <1>1, <1>2, <1>3, <1>4 DEF Request, IssueInvoice, CancelInvoice, Decide, RequestReversal,
     ApproveReceiptReversal
<1>5. ASSUME NEW s \in Sessions, Abort(s) PROVE PostedDocuments'
  BY <1>3, <1>5 DEF Abort, documents
<1>6. ASSUME NEW s \in Sessions, BeginRequest(s) PROVE PostedDocuments'
  BY <1>3, <1>6 DEF BeginRequest, CreateInvoice, RecordPayment, AllocatePayment,
     ApproveCreditNote, CompleteDelivery, Begin, documents
<1>7. ASSUME NEW s \in Sessions, LockInvoice(s) \/ Assess(s) \/ Rollback(s) PROVE PostedDocuments'
  BY <1>3, <1>5, <1>7 DEF LockInvoice, Assess, Rollback, documents
<1>8. ASSUME NEW s \in Sessions, InsertInvoice(s) PROVE PostedDocuments'
  <2>1. tx[s].pc = "insert" /\ tx[s].kind = "create" BY <1>8 DEF InsertInvoice
  <2>2. tx[s].wo \in WorkOrders /\ tx[s].inv \in Invoices BY <2>1 DEF Carried, Relies
  <2>3. CASE Abort(s) BY <1>5, <2>3
  <2>4. CASE ~ Abort(s)
    <3>1. /\ invoice' = [invoice EXCEPT ![tx[s].inv] = [status |-> "draft", wo |-> tx[s].wo]]
          /\ credit' = credit
      BY <1>8, <2>4 DEF InsertInvoice
    <3> QED BY <2>2, <3>1 DEF TypeOK
  <2> QED BY <2>3, <2>4
<1>9. ASSUME NEW s \in Sessions, CreditApproved(s) PROVE PostedDocuments'
  <2>1. tx[s].pc = "write" /\ tx[s].kind = "approve" BY <1>9 DEF CreditApproved
  <2>2. tx[s].crn \in Credits /\ credit[tx[s].crn].state = "pending"
    BY <2>1 DEF Carried, Relies
  <2>3. invoice' = invoice /\ credit' = [credit EXCEPT ![tx[s].crn].state = "approved"]
    BY <1>9 DEF CreditApproved
  <2> QED BY <2>2, <2>3 DEF TypeOK
<1>10. ASSUME NEW s \in Sessions, RecordReceipt(s) \/ AllocateReceipt(s) \/ Deliver(s)
       PROVE  PostedDocuments'
  BY <1>3, <1>5, <1>10 DEF RecordReceipt, AllocateReceipt, Deliver, documents
<1> QED
  BY <1>3, <1>4, <1>6, <1>7, <1>8, <1>9, <1>10 DEF Next, Finish, vars

\* What a session brings stays true while it has the delivery record.
LEMMA OthersPosted ==
  ASSUME TypeOK, Posted, Exclusive, NEW s \in Sessions,
         \A u \in Sessions \ {s} : tx'[u] = tx[u] /\ held'[u] = held[u],
         \/ UNCHANGED delivered
         \/ \E w, way : <<"delivery", w>> \in held[s] /\ delivered' = [delivered EXCEPT ![w] = way]
  PROVE  \A u \in Sessions \ {s} : PostedBy(tx[u], held[u])'
<1> SUFFICES ASSUME NEW u \in Sessions \ {s} PROVE PostedBy(tx[u], held[u])' OBVIOUS
<1>1. PICK t, locks : t = tx[u] /\ locks = held[u] /\ tx'[u] = t /\ held'[u] = locks OBVIOUS
<1>2. PostedBy(t, locks) BY <1>1, PostedParts
<1>3. t.kind = "deliver" => delivered'[t.wo] = delivered[t.wo]
  BY <1>1, <1>2 DEF PostedBy, Exclusive, TypeOK
<1> QED BY <1>1, <1>2, <1>3 DEF PostedBy

\* A transaction that has ended brings nothing.
LEMMA EndedPosted ==
  ASSUME TypeOK, NEW s \in Sessions, End(s) PROVE PostedBy(tx[s], held[s])'
<1>1. tx'[s] = Idle BY DEF End, TypeOK
<1> QED BY <1>1 DEF PostedBy, Idle

\* What a request begins with.
LEMMA BegunPosted ==
  ASSUME TypeOK, NEW s \in Sessions, BeginRequest(s)
  PROVE  /\ PostedBy(tx[s], held[s])' /\ UNCHANGED <<documents, delivered>>
         /\ \A u \in Sessions \ {s} : tx'[u] = tx[u] /\ held'[u] = held[u]
         /\ tx[s].pc = "idle" /\ tx'[s].way = "no"
<1> DEFINE Begun ==
      /\ PostedBy(tx[s], held[s])' /\ UNCHANGED <<documents, delivered>>
      /\ \A u \in Sessions \ {s} : tx'[u] = tx[u] /\ held'[u] = held[u]
      /\ tx[s].pc = "idle" /\ tx'[s].way = "no"
<1>1. ASSUME NEW t, NEW locks, Begin(s, t, locks), t.way = "no",
             t.kind = "record" => t.amount \in Amounts,
             t.kind = "deliver" => /\ t.pc = "assess" /\ t.wo \in WorkOrders
                                   /\ <<"delivery", t.wo>> \in locks /\ delivered[t.wo] = "no"
      PROVE  Begun
  <2>1. /\ tx'[s] = t /\ locks \subseteq held'[s] /\ UNCHANGED <<documents, delivered>>
        /\ \A u \in Sessions \ {s} : tx'[u] = tx[u] /\ held'[u] = held[u]
        /\ tx[s].pc = "idle"
    BY <1>1 DEF Begin, Take, TypeOK
  <2> QED BY <1>1, <2>1 DEF PostedBy
<1>2. ASSUME NEW w \in WorkOrders, NEW i \in Invoices, CreateInvoice(s, w, i) PROVE Begun
  <2> DEFINE t == [Idle EXCEPT !.pc = "insert", !.kind = "create", !.wo = w, !.inv = i]
  <2>1. Begin(s, t, {}) BY <1>2 DEF CreateInvoice
  <2>2. t.way = "no" /\ t.kind = "create" BY DEF Idle
  <2> HIDE DEF t
  <2> QED BY <1>1, <2>1, <2>2
<1>3. ASSUME NEW r \in Receipts, NEW a \in Amounts, NEW k \in Keys \cup {None},
             RecordPayment(s, r, a, k) PROVE Begun
  <2> DEFINE t == [Idle EXCEPT !.pc = "insert", !.kind = "record", !.rcp = r, !.amount = a,
                               !.key = k]
  <2>1. Begin(s, t, {}) BY <1>3 DEF RecordPayment
  <2>2. t.way = "no" /\ t.kind = "record" /\ t.amount = a BY DEF Idle
  <2> HIDE DEF t
  <2> QED BY <1>1, <2>1, <2>2
<1>4. ASSUME NEW r \in Receipts, NEW i \in Invoices, NEW a \in Amounts,
             AllocatePayment(s, r, i, a) PROVE Begun
  <2> DEFINE t == [Idle EXCEPT !.pc = "invoice", !.kind = "allocate", !.rcp = r, !.inv = i,
                               !.amount = a]
  <2>1. Begin(s, t, ReceiptLock(r)) BY <1>4 DEF AllocatePayment
  <2>2. t.way = "no" /\ t.kind = "allocate" BY DEF Idle
  <2> HIDE DEF t
  <2> QED BY <1>1, <2>1, <2>2
<1>5. ASSUME NEW c \in Credits, ApproveCreditNote(s, c) PROVE Begun
  <2> DEFINE t == [Idle EXCEPT !.pc = "write", !.kind = "approve", !.crn = c,
                               !.inv = credit[c].invoice]
  <2>1. Begin(s, t, {<<"credit", c>>} \cup InvoiceLock(credit[c].invoice))
    BY <1>5 DEF ApproveCreditNote
  <2>2. t.way = "no" /\ t.kind = "approve" BY DEF Idle
  <2> HIDE DEF t
  <2> QED BY <1>1, <2>1, <2>2
<1>6. ASSUME NEW w \in WorkOrders, CompleteDelivery(s, w) PROVE Begun
  <2> DEFINE t == [Idle EXCEPT !.pc = "assess", !.kind = "deliver", !.wo = w]
  <2>1. Begin(s, t, {<<"delivery", w>>}) BY <1>6 DEF CompleteDelivery
  <2>2. t.way = "no" /\ t.kind = "deliver" /\ t.pc = "assess" /\ t.wo = w BY DEF Idle
  <2> HIDE DEF t
  <2> QED BY <1>6, <1>1, <2>1, <2>2 DEF CompleteDelivery
<1> QED BY <1>2, <1>3, <1>4, <1>5, <1>6 DEF BeginRequest

\* Every step keeps Posted.
LEMMA PostedStep == Inv /\ Posted /\ [Next]_vars => Posted'
<1> SUFFICES ASSUME Inv, Posted, [Next]_vars PROVE Posted' OBVIOUS
<1>1. TypeOK /\ TypeOK' /\ Carried /\ Exclusive BY InvStep DEF Inv
<1>2. PostedDocuments' BY <1>1, DocumentsPosted
<1>3. ASSUME NEW s \in Sessions, PostedBy(tx[s], held[s])',
             \A u \in Sessions \ {s} : tx'[u] = tx[u] /\ held'[u] = held[u],
             \/ UNCHANGED delivered
             \/ \E w, way : /\ <<"delivery", w>> \in held[s]
                            /\ delivered' = [delivered EXCEPT ![w] = way]
      PROVE  Posted'
  BY <1>1, <1>2, <1>3, OthersPosted, PostedNext
<1>4. ASSUME UNCHANGED <<tx, held, delivered>> PROVE Posted'
  <2>1. \A s \in Sessions : PostedBy(tx[s], held[s])' BY <1>4, PostedParts DEF PostedBy
  <2> QED BY <1>2, <2>1, PostedNext
<1>5. CASE Request \/ UNCHANGED vars
  BY <1>4, <1>5 DEF Request, IssueInvoice, CancelInvoice, Decide, RequestCreditNote,
     RequestReversal, ApproveReceiptReversal, vars
<1>6. ASSUME NEW s \in Sessions, BeginRequest(s) PROVE Posted'
  BY <1>1, <1>3, <1>6, BegunPosted
<1>7. ASSUME NEW s \in Sessions, End(s), UNCHANGED delivered PROVE Posted'
  <2>1. \A u \in Sessions \ {s} : tx'[u] = tx[u] /\ held'[u] = held[u]
    BY <1>1, <1>7 DEF End, TypeOK
  <2> QED BY <1>1, <1>3, <1>7, <2>1, EndedPosted
<1>8. ASSUME NEW s \in Sessions, LockInvoice(s) PROVE Posted'
  <2>1. CASE Abort(s) BY <1>7, <2>1 DEF Abort
  <2>2. CASE ~ Abort(s)
    <3>1. tx[s].pc = "invoice" /\ tx[s].kind = "allocate"
      BY <1>1, <1>8 DEF LockInvoice, Carried, Relies
    <3>2. /\ tx'[s].kind = "allocate" /\ UNCHANGED delivered
          /\ \A u \in Sessions \ {s} : tx'[u] = tx[u] /\ held'[u] = held[u]
      BY <1>1, <1>8, <2>2, <3>1 DEF LockInvoice, Take, TypeOK
    <3>3. PostedBy(tx[s], held[s])' BY <3>2 DEF PostedBy
    <3> QED BY <1>3, <3>2, <3>3
  <2> QED BY <2>1, <2>2
<1>9. ASSUME NEW s \in Sessions, Assess(s) PROVE Posted'
  <2>1. CASE Abort(s) BY <1>7, <2>1 DEF Abort
  <2>2. CASE ~ Abort(s)
    <3>1. PICK t : t = tx[s] OBVIOUS
    <3>2. t.kind = "deliver" /\ PostedBy(t, held[s])
      BY <1>1, <1>9, <3>1, PostedParts DEF Assess, Carried, Relies
    <3>3. /\ tx' = [tx EXCEPT ![s].pc = "write",
                              ![s].way = IF Settled(t.wo) THEN "settled" ELSE "overridden"]
          /\ UNCHANGED <<delivered, held>>
      BY <1>9, <2>2, <3>1 DEF Assess
    <3>4. /\ tx'[s].kind = "deliver" /\ tx'[s].pc = "write" /\ tx'[s].wo = t.wo
          /\ tx'[s].way # "no" /\ \A u \in Sessions \ {s} : tx'[u] = tx[u]
      BY <1>1, <3>1, <3>2, <3>3 DEF TypeOK
    <3>5. PostedBy(tx[s], held[s])' BY <3>2, <3>3, <3>4 DEF PostedBy
    <3> QED BY <1>3, <3>3, <3>4, <3>5
  <2> QED BY <2>1, <2>2
<1>10. ASSUME NEW s \in Sessions, Deliver(s) PROVE Posted'
  <2>1. /\ <<"delivery", tx[s].wo>> \in held[s] /\ End(s)
        /\ delivered' = [delivered EXCEPT ![tx[s].wo] = tx[s].way]
    BY <1>10, PostedParts DEF Deliver, PostedBy
  <2>2. \A u \in Sessions \ {s} : tx'[u] = tx[u] /\ held'[u] = held[u]
    BY <1>1, <2>1 DEF End, TypeOK
  <2> QED BY <1>1, <1>3, <2>1, <2>2, EndedPosted
<1>11. ASSUME NEW s \in Sessions, InsertInvoice(s) \/ RecordReceipt(s) \/ AllocateReceipt(s)
                                    \/ CreditApproved(s) \/ Rollback(s)
       PROVE  Posted'
  BY <1>7, <1>11 DEF InsertInvoice, RecordReceipt, AllocateReceipt, CreditApproved, Rollback, Abort
<1> QED BY <1>5, <1>6, <1>8, <1>9, <1>10, <1>11 DEF Next, Finish

\* Posted holds in every reachable state.
LEMMA PostedAlways == Spec => []Posted
<1>1. Init => Posted BY DEF Init, Posted, Idle
<1> QED BY <1>1, PostedStep, Invariant, PTL DEF Spec

\* A posting is one of the steps of the accounts.
Posting == Accounts!ANext \/ UNCHANGED Accounts!avars

\* Only an issued invoice is owed anything; a draft that is decided has been paid nothing.
LEMMA DecidedBooks ==
  ASSUME Inv, Posted, NEW i \in Invoices, NEW status \in {"issued", "void_before_issue"},
         Decide(i, status)
  PROVE  Posting
<1> USE InvParts DEF Money
<1>1. /\ invoice[i].status = "draft" /\ UNCHANGED <<receipt, allocated, credit, tx, delivered>>
      /\ invoice' = [invoice EXCEPT ![i].status = status]
  BY DEF Decide
<1>2. /\ \A j \in Invoices \ {i} : invoice'[j] = invoice[j]
      /\ invoice'[i].status = status /\ invoice'[i].wo = invoice[i].wo
      /\ ~ Issued(i) /\ (Issued(i)' <=> status = "issued")
      /\ \A j \in Invoices \ {i} : Issued(j)' = Issued(j)
  BY <1>1 DEF TypeOK, Issued
<1>3. \A j \in Invoices : Paid(j)' = Paid(j) /\ Credited(j)' = Credited(j)
  BY <1>1, ReceiptsStay, CreditsStay
<1>4. /\ OpenReceivable(i) = 0
      /\ OpenReceivable(i)' = IF status = "issued" THEN Gross[i] ELSE 0
      /\ \A j \in Invoices \ {i} : OpenReceivable(j)' = OpenReceivable(j)
  <2>1. Paid(i) = 0 /\ Credited(i) = 0 /\ Gross[i] \in Nat BY <1>2, Nothing, Natural
  <2> QED BY <1>2, <1>3, <2>1 DEF OpenReceivable
<1>5. PICK w \in WorkOrders : invoice[i].wo = w BY <1>1 DEF Posted
<1>6. UNCHANGED <<Rests, allocated, CameIn, KeysUsed, Gone, Granted, Cleared, delivered>>
  <2>1. UNCHANGED Rests BY <1>1, ReceiptsStay DEF Rests
  <2> QED BY <1>1, <2>1, ClearedSame DEF CameIn, KeysUsed, Gone, Granted
<1>7. CASE status = "issued"
  <2>1. Bills[i] = None BY <1>2 DEF Bills
  <2>2. ASSUME NEW j \in Invoices, Bills[j] = w PROVE FALSE
    <3>1. j # i /\ i \in Live(w) /\ j \in Live(w)
      BY <1>1, <1>2, <1>5, <2>2 DEF Bills, Live, Issued
    <3>2. Cardinality({i, j}) = 2
      <4>1. Cardinality({i}) = 1 /\ IsFiniteSet({i}) BY FS_Singleton
      <4>2. {i, j} = {i} \cup {j} OBVIOUS
      <4>3. j \notin {i} BY <3>1
      <4>4. Cardinality({i} \cup {j}) = Cardinality({i}) + 1 BY <4>1, <4>3, FS_AddElement
      <4> QED BY <4>1, <4>2, <4>4
    <3>3. IsFiniteSet(Live(w)) BY FS_Subset DEF Live
    <3>4. {i, j} \subseteq Live(w) BY <3>1
    <3>5. Cardinality({i, j}) <= Cardinality(Live(w)) BY <3>3, <3>4, FS_Subset
    <3>6. Cardinality(Live(w)) <= 1 BY DEF OneLiveInvoice
    <3> QED BY <3>2, <3>3, <3>5, <3>6, FS_CardinalityType
  <2>3. Bills' = [Bills EXCEPT ![i] = w] BY <1>2, <1>5, <1>7 DEF Bills
  <2>4. Owes' = [Owes EXCEPT ![i] = Gross[i]]
    <3>1. \A j \in Invoices : OpenReceivable(j)' = IF j = i THEN Gross[i] ELSE OpenReceivable(j)
      BY <1>4, <1>7
    <3> QED BY <3>1 DEF Owes
  <2> QED BY <1>6, <2>1, <2>2, <2>3, <2>4, PostBill DEF Posting, Accounts!ANext
<1>8. CASE status # "issued"
  <2>1. UNCHANGED <<Bills, Owes>> BY <1>2, <1>4, <1>8 DEF Bills, Owes
  <2> QED BY <1>6, <2>1, NoPosting DEF Posting, Books
<1> QED BY <1>7, <1>8

\* A draft is owed nothing.
LEMMA InsertBooks ==
  ASSUME Inv, NEW s \in Sessions, InsertInvoice(s), ~ Abort(s) PROVE UNCHANGED Books
<1> USE InvParts DEF Money
<1>1. /\ tx[s].inv \in Invoices /\ invoice[tx[s].inv].status = "absent"
      /\ UNCHANGED <<receipt, allocated, credit>>
      /\ invoice' = [invoice EXCEPT ![tx[s].inv] = [status |-> "draft", wo |-> tx[s].wo]]
  BY DEF InsertInvoice, Carried, Relies
<1>2. \A j \in Invoices : /\ Issued(j)' = Issued(j)
                          /\ Issued(j) => invoice'[j] = invoice[j]
  BY <1>1 DEF TypeOK, Issued
<1>3. \A j \in Invoices : OpenReceivable(j)' = OpenReceivable(j)
  <2>1. \A j \in Invoices : Paid(j)' = Paid(j) /\ Credited(j)' = Credited(j)
    BY <1>1, ReceiptsStay, CreditsStay
  <2> QED BY <1>2, <2>1 DEF OpenReceivable
<1>4. UNCHANGED <<Bills, Owes>> BY <1>2, <1>3 DEF Bills, Owes
<1>5. UNCHANGED Rests BY <1>1, ReceiptsStay DEF Rests
<1> QED BY <1>1, <1>4, <1>5 DEF Books, CameIn, KeysUsed, Gone, Granted

\* Nor is a credit note worth anything that is asked for.
LEMMA RequestedBooks ==
  ASSUME Inv, NEW c \in Credits, NEW i \in Invoices, NEW a \in Amounts, RequestCreditNote(c, i, a)
  PROVE  UNCHANGED Books
<1> USE InvParts DEF Money
<1>1. /\ credit[c].state = "absent" /\ UNCHANGED <<invoice, receipt, allocated>>
      /\ credit' = [credit EXCEPT ![c] = [state |-> "pending", invoice |-> i, amount |-> a]]
  BY DEF RequestCreditNote
<1>2. /\ \A d \in Credits \ {c} : credit'[d] = credit[d]
      /\ credit'[c].state = "pending"
  BY <1>1 DEF TypeOK
<1>3. ASSUME NEW j \in Invoices PROVE Credited(j)' = Credited(j)
  <2>1. Approved(j)' = Approved(j) /\ \A d \in Approved(j) : credit'[d].amount = credit[d].amount
    BY <1>1, <1>2 DEF Approved
  <2> QED BY <2>1, CreditedLasts
<1>4. /\ \A j \in Invoices : OpenReceivable(j)' = OpenReceivable(j)
      /\ \A r \in Receipts : Unallocated(r)' = Unallocated(r)
  <2>1. /\ \A j \in Invoices : Issued(j)' = Issued(j) /\ Paid(j)' = Paid(j)
        /\ \A r \in Receipts : Unallocated(r)' = Unallocated(r)
    BY <1>1, ReceiptsStay, InvoicesStay
  <2> QED BY <1>3, <2>1 DEF OpenReceivable
<1>5. UNCHANGED <<Owes, Rests>> BY <1>4 DEF Owes, Rests
<1>6. UNCHANGED <<Bills, CameIn, KeysUsed, Gone>>
  BY <1>1 DEF Bills, CameIn, KeysUsed, Gone, Issued
<1>7. UNCHANGED Granted BY <1>1, <1>2 DEF Granted
<1> QED BY <1>1, <1>5, <1>6, <1>7 DEF Books

\* A receipt comes in whole, under a key that no receipt has.
LEMMA RecordBooks ==
  ASSUME Inv, Posted, NEW s \in Sessions, RecordReceipt(s), ~ Abort(s) PROVE Posting
<1> USE InvParts DEF Money
<1>0. /\ tx[s].kind = "record" /\ tx[s].rcp \in Receipts /\ receipt[tx[s].rcp].status = "absent"
      /\ tx[s].amount \in Amounts /\ tx[s].key \in Keys \cup {None}
  BY TypeParts DEF RecordReceipt, Carried, Relies, Tx, Posted
<1>1. PICK r \in Receipts, a \in Amounts, k \in Keys \cup {None} :
        tx[s].rcp = r /\ tx[s].amount = a /\ tx[s].key = k
  BY <1>0
<1>2. /\ receipt[r].status = "absent" /\ KeyFree(k) /\ End(s)
      /\ receipt' = [receipt EXCEPT ![r] = [status |-> "recorded", amount |-> a, key |-> k]]
      /\ UNCHANGED <<invoice, allocated, credit, reversal, delivered>>
  BY <1>0, <1>1 DEF RecordReceipt
<1>3. /\ \A q \in Receipts \ {r} : receipt'[q] = receipt[q]
      /\ receipt'[r] = [status |-> "recorded", amount |-> a, key |-> k]
      /\ \A q \in Receipts : Counts(q)' <=> Counts(q)
  BY <1>2 DEF TypeOK, Counts
<1>4. /\ \A i \in Invoices : Paid(i)' = Paid(i) /\ Issued(i)' = Issued(i)
                             /\ Credited(i)' = Credited(i)
      /\ \A q \in Receipts : AllocatedOf(q)' = AllocatedOf(q)
  BY <1>2, <1>3, PaidLasts, AllocatedLasts, CreditsStay, InvoicesStay
<1>5. \A i \in Invoices : OpenReceivable(i)' = OpenReceivable(i)
  BY <1>4 DEF OpenReceivable
<1>6. Unallocated(r)' = a /\ \A q \in Receipts \ {r} : Unallocated(q)' = Unallocated(q)
  <2>1. AllocatedOf(r) = 0 BY <1>2, Nothing
  <2>2. a \in Nat OBVIOUS
  <2> QED BY <1>2, <1>3, <1>4, <2>1, <2>2 DEF Unallocated
<1>7. Rests' = [Rests EXCEPT ![r] = a]
  <2>1. \A q \in Receipts : Unallocated(q)' = IF q = r THEN a ELSE Unallocated(q) BY <1>6
  <2> QED BY <2>1 DEF Rests
<1>8. UNCHANGED <<Bills, Owes>> BY <1>2, <1>4, <1>5 DEF Bills, Owes
<1>9. r \notin CameIn /\ CameIn' = CameIn \cup {r} BY <1>2, <1>3 DEF CameIn
<1>10. k \notin KeysUsed BY <1>2 DEF KeysUsed, KeyFree, WithKey
<1>11. KeysUsed' = KeysUsed \cup ({k} \ {None}) BY <1>2, <1>3 DEF KeysUsed
<1>12. UNCHANGED <<Gone, Granted>> BY <1>2, <1>3 DEF Gone, Granted
<1>13. Cleared' = Cleared
  <2>1. tx'[s] = Idle /\ \A u \in Sessions \ {s} : tx'[u] = tx[u] BY <1>2 DEF End, TypeOK
  <2> QED BY <1>0, <1>2, <2>1, ClearedStays DEF Tells, Idle
<1>14. Accounts!Enter(r, a, k)
  BY <1>2, <1>7, <1>8, <1>9, <1>10, <1>11, <1>12, <1>13, PostEntry
<1> QED BY <1>14 DEF Posting, Accounts!ANext

\* An allocation moves its amount from the rest to the balance, and both cover it.
LEMMA AllocateBooks ==
  ASSUME Inv, Posted, NEW s \in Sessions, AllocateReceipt(s) PROVE Posting
<1> USE InvParts DEF Money
<1>0. /\ tx[s].pc = "write" /\ tx[s].kind = "allocate" /\ Relies(tx[s], held[s])
      /\ tx[s].rcp \in Receipts /\ tx[s].inv \in Invoices /\ tx[s].amount \in Amounts
  BY DEF AllocateReceipt, Carried, Relies
<1>1. PICK r \in Receipts, i \in Invoices, a \in Amounts :
        tx[s].rcp = r /\ tx[s].inv = i /\ tx[s].amount = a
  BY <1>0
<1>2. /\ receipt[r].status \notin {"absent", "reversed"}
      /\ Issued(i) /\ a <= Unallocated(r) /\ a <= OpenReceivable(i) /\ a \in Nat \ {0}
  BY <1>0, <1>1 DEF Relies
<1>3. PICK status \in {"allocated", "partially_allocated"} : status = AllocationStatus(r, a)
  BY DEF AllocationStatus
<1>4. /\ allocated' = [allocated EXCEPT ![r][i] = @ + a]
      /\ receipt' = [receipt EXCEPT ![r].status = status]
      /\ UNCHANGED <<invoice, credit, reversal, delivered>> /\ End(s)
  BY <1>1, <1>3 DEF AllocateReceipt
<1>5. /\ Paid(i)' = Paid(i) + a /\ AllocatedOf(r)' = AllocatedOf(r) + a
      /\ \A j \in Invoices \ {i} : Paid(j)' = Paid(j)
      /\ \A q \in Receipts \ {r} : AllocatedOf(q)' = AllocatedOf(q)
  BY <1>2, <1>4, Allocation DEF Counts
<1>6. /\ \A q \in Receipts \ {r} : receipt'[q] = receipt[q]
      /\ receipt'[r].status = status /\ receipt'[r].amount = receipt[r].amount
      /\ \A q \in Receipts : receipt'[q].key = receipt[q].key
      /\ \A q \in Receipts : /\ receipt'[q].status = "absent" <=> receipt[q].status = "absent"
                             /\ receipt'[q].status = "reversed" <=> receipt[q].status = "reversed"
  BY <1>2, <1>4 DEF TypeOK
<1>7. \A j \in Invoices : Issued(j)' = Issued(j) /\ Credited(j)' = Credited(j)
  BY <1>4, CreditsStay, InvoicesStay
<1>8. \A j \in Invoices :
        OpenReceivable(j)' = IF j = i THEN OpenReceivable(j) - a ELSE OpenReceivable(j)
  <2>1. Paid(i) \in Nat /\ Credited(i) \in Nat /\ Gross[i] \in Nat BY Sums, Natural
  <2> QED BY <1>2, <1>5, <1>7, <2>1 DEF OpenReceivable
<1>9. \A q \in Receipts : Unallocated(q)' = IF q = r THEN Unallocated(q) - a ELSE Unallocated(q)
  <2>1. AllocatedOf(r) \in Nat /\ receipt[r].amount \in Nat BY Sums, Natural
  <2> QED BY <1>2, <1>5, <1>6, <2>1 DEF Unallocated
<1>10. a <= Rests[r] /\ Rests' = [Rests EXCEPT ![r] = @ - a] BY <1>2, <1>9 DEF Rests
<1>11. a <= Owes[i] /\ Owes' = [Owes EXCEPT ![i] = @ - a] BY <1>2, <1>8 DEF Owes
<1>12. UNCHANGED <<Bills, CameIn, Gone, Granted>>
  BY <1>4, <1>6, <1>7 DEF Bills, CameIn, Gone, Granted
<1>13. UNCHANGED KeysUsed BY <1>6 DEF KeysUsed
<1>14. Cleared' = Cleared
  <2>1. tx'[s] = Idle /\ \A u \in Sessions \ {s} : tx'[u] = tx[u] BY <1>4 DEF End, TypeOK
  <2> QED BY <1>0, <1>4, <2>1, ClearedStays DEF Tells, Idle
<1>15. Accounts!Pay(r, i, a)
  BY <1>4, <1>10, <1>11, <1>12, <1>13, <1>14, PostPayment
<1> QED BY <1>15 DEF Posting, Accounts!ANext

\* An approved note takes its amount off the balance, which covers it.
LEMMA CreditBooks ==
  ASSUME Inv, Posted, NEW s \in Sessions, CreditApproved(s) PROVE Posting
<1> USE InvParts DEF Money
<1>0. /\ tx[s].pc = "write" /\ tx[s].kind = "approve" /\ Relies(tx[s], held[s])
      /\ tx[s].crn \in Credits /\ tx[s].inv \in Invoices
  BY DEF CreditApproved, Carried, Relies
<1>1. PICK c \in Credits, i \in Invoices : tx[s].crn = c /\ tx[s].inv = i
  BY <1>0
<1>2. /\ credit[c].state = "pending" /\ credit[c].invoice = i
      /\ Issued(i) /\ credit[c].amount <= OpenReceivable(i) /\ credit[c].amount \in Amounts
  BY <1>0, <1>1 DEF Relies, Posted
<1>3. PICK a \in Amounts : credit[c].amount = a BY <1>2
<1>4. /\ credit' = [credit EXCEPT ![c].state = "approved"] /\ End(s)
      /\ UNCHANGED <<invoice, receipt, allocated, reversal, delivered>>
  BY <1>1 DEF CreditApproved
<1>5. \A j \in Invoices : Credited(j)' = Credited(j) + IF j = i THEN a ELSE 0
  BY <1>2, <1>3, <1>4, CreditCounts
<1>6. /\ \A j \in Invoices : Issued(j)' = Issued(j) /\ Paid(j)' = Paid(j)
      /\ \A r \in Receipts : Unallocated(r)' = Unallocated(r)
  BY <1>4, ReceiptsStay, InvoicesStay
<1>7. \A j \in Invoices :
        OpenReceivable(j)' = IF j = i THEN OpenReceivable(j) - a ELSE OpenReceivable(j)
  <2>1. /\ \A j \in Invoices : Paid(j) \in Nat /\ Credited(j) \in Nat /\ Gross[j] \in Nat
        /\ a \in Nat
    BY Sums, Natural
  <2> QED BY <1>2, <1>5, <1>6, <2>1 DEF OpenReceivable
<1>8. a <= Owes[i] /\ Owes' = [Owes EXCEPT ![i] = @ - a] BY <1>2, <1>3, <1>7 DEF Owes
<1>9. c \notin Granted /\ Granted' = Granted \cup {c} BY <1>2, <1>4 DEF Granted, TypeOK
<1>10. UNCHANGED <<Bills, Rests, CameIn, KeysUsed, Gone>>
  BY <1>4, <1>6 DEF Bills, Rests, CameIn, KeysUsed, Gone
<1>11. Cleared' = Cleared
  <2>1. tx'[s] = Idle /\ \A u \in Sessions \ {s} : tx'[u] = tx[u] BY <1>4 DEF End, TypeOK
  <2> QED BY <1>0, <1>4, <2>1, ClearedStays DEF Tells, Idle
<1>12. Accounts!Credit(c, i, a)
  BY <1>4, <1>8, <1>9, <1>10, <1>11, PostCredit
<1> QED BY <1>12 DEF Posting, Accounts!ANext

\* What a reversed receipt has paid is owed again, and nothing is left of it.
LEMMA ReversalBooks ==
  ASSUME Inv, Posted, NEW r \in Receipts, ApproveReceiptReversal(r) PROVE Posting
<1> USE InvParts DEF Money
<1>1. /\ reversal[r] = "pending" /\ receipt' = [receipt EXCEPT ![r].status = "reversed"]
      /\ UNCHANGED <<invoice, allocated, credit, delivered, tx>>
  BY DEF ApproveReceiptReversal, ReverseReceipt
<1>2. receipt[r].status \notin {"absent", "reversed"}
  BY <1>1 DEF Documented, TypeOK
<1>3. \A i \in Invoices : Paid(i)' = Paid(i) - allocated[r][i]
  BY <1>1, <1>2, Reversed DEF Counts
<1>4. /\ \A q \in Receipts \ {r} : receipt'[q] = receipt[q]
      /\ receipt'[r].status = "reversed"
      /\ \A q \in Receipts : receipt'[q].key = receipt[q].key
      /\ \A q \in Receipts : receipt'[q].status = "absent" <=> receipt[q].status = "absent"
  BY <1>1, <1>2 DEF TypeOK
<1>5. \A j \in Invoices : Issued(j)' = Issued(j) /\ Credited(j)' = Credited(j)
  BY <1>1, CreditsStay, InvoicesStay
<1>6. \A i \in Invoices : OpenReceivable(i)' = OpenReceivable(i) + allocated[r][i]
  <2>1. \A i \in Invoices : /\ Paid(i) \in Nat /\ Credited(i) \in Nat /\ Gross[i] \in Nat
                            /\ allocated[r][i] \in Nat
    BY Sums, Natural
  <2>2. \A i \in Invoices : ~ Issued(i) => allocated[r][i] = 0 BY Nothing
  <2> QED BY <1>3, <1>5, <2>1, <2>2 DEF OpenReceivable
<1>7. \A q \in Receipts : Unallocated(q)' = IF q = r THEN 0 ELSE Unallocated(q)
  <2>1. \A q \in Receipts : AllocatedOf(q)' = AllocatedOf(q) BY <1>1, AllocatedLasts
  <2> QED BY <1>4, <2>1 DEF Unallocated
<1>8. Rests' = [Rests EXCEPT ![r] = 0] BY <1>7 DEF Rests
<1>9. Owes' = [i \in Invoices |-> Owes[i] + allocated[r][i]] BY <1>6 DEF Owes
<1>10. r \in CameIn \ Gone /\ Gone' = Gone \cup {r} BY <1>2, <1>4 DEF CameIn, Gone
<1>11. UNCHANGED <<Bills, CameIn, Granted>> BY <1>1, <1>4, <1>5 DEF Bills, CameIn, Granted
<1>12. UNCHANGED KeysUsed BY <1>4 DEF KeysUsed
<1>13. Accounts!Reverse(r)
  BY <1>1, <1>8, <1>9, <1>10, <1>11, <1>12, ClearedSame, PostReversal
<1> QED BY <1>13 DEF Posting, Accounts!ANext

\* A handover that is told settled is the only one to clear its work order, which it has
\* locked and not yet handed over.
LEMMA OneClears ==
  ASSUME Posted, Exclusive, NEW s \in Sessions, tx[s].kind = "deliver"
  PROVE  /\ tx[s].wo \in WorkOrders /\ delivered[tx[s].wo] = "no"
         /\ \A u \in Sessions \ {s} : Tells(tx[u]) => tx[u].wo # tx[s].wo
         /\ tx[s].wo \in Cleared <=> tx[s].way = "settled"
<1>1. /\ tx[s].wo \in WorkOrders /\ delivered[tx[s].wo] = "no"
      /\ <<"delivery", tx[s].wo>> \in held[s]
  BY DEF Posted
<1>2. \A u \in Sessions \ {s} : Tells(tx[u]) => tx[u].wo # tx[s].wo
  BY <1>1 DEF Posted, Exclusive, Tells
<1> QED BY <1>1, <1>2 DEF Cleared, Tells

\* A session that begins told nothing before, and tells nothing yet.
LEMMA BeginBooks ==
  ASSUME Inv, Posted, NEW s \in Sessions, BeginRequest(s) PROVE Posting
<1> USE InvParts
<1>1. /\ UNCHANGED <<documents, delivered>> /\ tx[s].pc = "idle" /\ tx'[s].way = "no"
      /\ \A u \in Sessions \ {s} : tx'[u] = tx[u]
  BY BegunPosted
<1>2. ~ Tells(tx[s]) /\ ~ Tells(tx'[s]) BY <1>1 DEF Tells, Posted
<1>3. Cleared' = Cleared BY <1>1, <1>2, ClearedStays
<1> QED BY <1>1, <1>3, SameBooks, NoPosting DEF Posting

\* A transaction that fails takes back what it has found, and nothing else.
LEMMA AbortBooks ==
  ASSUME Inv, Posted, NEW s \in Sessions, Abort(s) PROVE Posting
<1> USE InvParts
<1>1. /\ UNCHANGED <<documents, delivered>> /\ tx'[s] = Idle
      /\ \A u \in Sessions \ {s} : tx'[u] = tx[u]
  BY DEF Abort, End, TypeOK
<1>2. UNCHANGED Books BY <1>1, SameBooks
<1>3. ~ Tells(tx'[s]) BY <1>1 DEF Tells, Idle
<1>4. CASE ~ Tells(tx[s])
  BY <1>1, <1>2, <1>3, <1>4, ClearedStays, NoPosting DEF Posting
<1>5. CASE Tells(tx[s])
  <2>1. PICK w \in WorkOrders : /\ w = tx[s].wo /\ delivered[w] = "no" /\ w \in Cleared
                                /\ \A u \in Sessions \ {s} : Tells(tx[u]) => tx[u].wo # w
    BY <1>5, OneClears DEF Tells
  <2>2. \A v \in WorkOrders : v \in Cleared' <=> (v \in Cleared /\ v # w)
    BY <1>1, <1>3, <2>1 DEF Cleared, Tells
  <2>3. Cleared' = Cleared \ {w} BY <2>2 DEF Cleared
  <2>4. Accounts!Withdraw(w) BY <1>1, <1>2, <2>1, <2>3, HandoverPosts
  <2> QED BY <2>4 DEF Posting, Accounts!ANext
<1> QED BY <1>4, <1>5

\* The second lock of an allocation posts nothing.
LEMMA LockBooks ==
  ASSUME Inv, Posted, NEW s \in Sessions, LockInvoice(s), ~ Abort(s) PROVE Posting
<1> USE InvParts
<1>1. tx[s].kind = "allocate" BY DEF LockInvoice, Carried, Relies
<1>2. /\ UNCHANGED <<documents, delivered>> /\ tx'[s].kind = "allocate"
      /\ \A u \in Sessions \ {s} : tx'[u] = tx[u]
  BY <1>1 DEF LockInvoice, TypeOK
<1> QED BY <1>1, <1>2, ClearedStays, SameBooks, NoPosting DEF Posting, Tells

\* The handover clears a work order at the moment it finds its invoice settled.
LEMMA AssessBooks ==
  ASSUME Inv, Posted, NEW s \in Sessions, Assess(s), ~ Abort(s) PROVE Posting
<1> USE InvParts
<1>1. tx[s].kind = "deliver" /\ tx[s].pc = "assess" BY DEF Assess, Carried, Relies
<1>2. PICK w \in WorkOrders :
        /\ w = tx[s].wo /\ delivered[w] = "no" /\ w \notin Cleared
        /\ \A u \in Sessions \ {s} : Tells(tx[u]) => tx[u].wo # w
  BY <1>1, OneClears DEF Posted
<1>3. PICK way : way = IF Settled(w) THEN "settled" ELSE "overridden" OBVIOUS
<1>4. /\ tx' = [tx EXCEPT ![s].pc = "write", ![s].way = way]
      /\ UNCHANGED <<documents, delivered>>
  BY <1>2, <1>3 DEF Assess
<1>5. /\ \A u \in Sessions \ {s} : tx'[u] = tx[u]
      /\ tx'[s].kind = "deliver" /\ tx'[s].wo = w /\ tx'[s].way = way
  BY <1>1, <1>2, <1>4 DEF TypeOK
<1>6. UNCHANGED Books BY <1>4, SameBooks
<1>7. ~ Tells(tx[s]) BY <1>1, <1>2, OneClears DEF Tells
<1>8. CASE ~ Settled(w)
  <2>1. ~ Tells(tx'[s]) BY <1>3, <1>5, <1>8 DEF Tells
  <2>2. Cleared' = Cleared BY <1>4, <1>5, <1>7, <2>1, ClearedStays
  <2> QED BY <1>4, <1>6, <2>2, NoPosting DEF Posting
<1>9. CASE Settled(w)
  <2>1. Tells(tx'[s]) BY <1>3, <1>5, <1>9 DEF Tells
  <2>2. \A v \in WorkOrders : v \in Cleared' <=> (v \in Cleared \/ v = w)
    BY <1>4, <1>5, <1>7, <2>1 DEF Cleared, Tells
  <2>3. Cleared' = Cleared \cup {w} BY <2>2 DEF Cleared
  <2>4. \E i \in Invoices : Bills[i] = w /\ Owes[i] = 0
    BY <1>9 DEF Settled, Live, Bills, Owes
  <2>5. Accounts!Clear(w) BY <1>2, <1>4, <1>6, <2>3, <2>4, HandoverPosts
  <2> QED BY <2>5 DEF Posting, Accounts!ANext
<1> QED BY <1>8, <1>9

\* And it hands the vehicle over as what it found.
LEMMA DeliverBooks ==
  ASSUME Inv, Posted, NEW s \in Sessions, Deliver(s) PROVE Posting
<1> USE InvParts
<1>1. /\ tx[s].pc = "write" /\ tx[s].kind = "deliver" /\ UNCHANGED documents
      /\ delivered' = [delivered EXCEPT ![tx[s].wo] = tx[s].way]
  BY DEF Deliver
<1>2. tx'[s] = Idle /\ \A u \in Sessions \ {s} : tx'[u] = tx[u] BY DEF Deliver, End, TypeOK
<1>3. PICK w \in WorkOrders : /\ w = tx[s].wo /\ delivered[w] = "no"
                              /\ \A u \in Sessions \ {s} : Tells(tx[u]) => tx[u].wo # w
                              /\ w \in Cleared <=> tx[s].way = "settled"
  BY <1>1, OneClears
<1>4. tx[s].way = IF w \in Cleared THEN "settled" ELSE "overridden"
  BY <1>1, <1>3, TypeParts DEF Posted, Tx
<1>5. /\ delivered' = [delivered EXCEPT ![w] = IF w \in Cleared THEN "settled" ELSE "overridden"]
      /\ \A v \in WorkOrders \ {w} : delivered'[v] = delivered[v]
      /\ delivered'[w] = "settled" <=> w \in Cleared
  BY <1>1, <1>3, <1>4 DEF TypeOK
<1>6. ~ Tells(tx'[s]) BY <1>2 DEF Tells, Idle
<1>7. \A v \in WorkOrders \ {w} : v \in Cleared' <=> v \in Cleared
  BY <1>2, <1>3, <1>5, <1>6 DEF Cleared, Tells
<1>8. w \in Cleared' <=> w \in Cleared BY <1>2, <1>3, <1>5, <1>6 DEF Cleared, Tells
<1>9. UNCHANGED Cleared BY <1>7, <1>8 DEF Cleared
<1>10. Accounts!HandOver(w) BY <1>1, <1>3, <1>5, <1>9, SameBooks, HandoverPosts
<1> QED BY <1>10 DEF Posting, Accounts!ANext

\* Asking for a reversal posts nothing.
LEMMA AskedBooks ==
  ASSUME Inv, NEW r \in Receipts, RequestReversal(r) PROVE Posting
<1>1. UNCHANGED <<invoice, receipt, allocated, credit, delivered, tx>> BY DEF RequestReversal
<1>2. /\ \A q \in Receipts : Unallocated(q)' = Unallocated(q)
      /\ \A i \in Invoices : Paid(i)' = Paid(i) /\ Credited(i)' = Credited(i)
                             /\ Issued(i)' = Issued(i)
  BY <1>1, ReceiptsStay, CreditsStay, InvoicesStay
<1>3. \A i \in Invoices : OpenReceivable(i)' = OpenReceivable(i) BY <1>2 DEF OpenReceivable
<1>4. UNCHANGED <<Bills, Owes, Rests>> BY <1>1, <1>2, <1>3 DEF Bills, Owes, Rests
<1>5. UNCHANGED <<CameIn, KeysUsed, Gone, Granted>>
  BY <1>1 DEF CameIn, KeysUsed, Gone, Granted
<1> QED BY <1>1, <1>4, <1>5, ClearedSame, NoPosting DEF Posting, Books

\* An insert of a draft posts nothing: its session told nothing.
LEMMA DraftBooks ==
  ASSUME Inv, Posted, NEW s \in Sessions, InsertInvoice(s), ~ Abort(s) PROVE Posting
<1> USE InvParts
<1>1. UNCHANGED Books BY InsertBooks
<1>2. tx[s].kind = "create" /\ tx'[s] = Idle /\ UNCHANGED delivered
      /\ \A u \in Sessions \ {s} : tx'[u] = tx[u]
  BY DEF InsertInvoice, End, TypeOK
<1>3. ~ Tells(tx[s]) /\ ~ Tells(tx'[s]) BY <1>2 DEF Tells, Idle
<1> QED BY <1>1, <1>2, <1>3, ClearedStays, NoPosting DEF Posting

\* Every step is a posting or a stutter.
LEMMA StepPosts == Inv /\ Posted /\ [Next]_vars => Posting
<1> SUFFICES ASSUME Inv, Posted, [Next]_vars PROVE Posting OBVIOUS
<1>1. CASE Request
  <2>1. ASSUME NEW c \in Credits, NEW i \in Invoices, NEW a \in Amounts,
               RequestCreditNote(c, i, a) PROVE Posting
    <3>1. UNCHANGED Books BY <2>1, RequestedBooks
    <3>2. UNCHANGED <<tx, delivered>> BY <2>1 DEF RequestCreditNote
    <3> QED BY <3>1, <3>2, ClearedSame, NoPosting DEF Posting
  <2> QED BY <1>1, <2>1, DecidedBooks, AskedBooks, ReversalBooks
          DEF Request, IssueInvoice, CancelInvoice
<1>2. ASSUME NEW s \in Sessions, LockInvoice(s) \/ Assess(s) \/ Rollback(s) PROVE Posting
  BY <1>2, AbortBooks, LockBooks, AssessBooks DEF Rollback
<1>3. ASSUME NEW s \in Sessions, Finish(s) PROVE Posting
  BY <1>3, AbortBooks, DraftBooks, RecordBooks, AllocateBooks, CreditBooks, DeliverBooks
     DEF Finish
<1>4. CASE UNCHANGED vars
  <2>1. UNCHANGED <<documents, tx, delivered>> BY <1>4 DEF vars, documents
  <2> QED BY <2>1, SameBooks, ClearedSame, NoPosting DEF Posting
<1> QED BY <1>1, <1>2, <1>3, <1>4, BeginBooks DEF Next

\* Before the first request all accounts are empty.
LEMMA InitPosts == Init => Accounts!AInit
<1> SUFFICES ASSUME Init PROVE Accounts!AInit OBVIOUS
<1>1. /\ \A i \in Invoices : ~ Issued(i) /\ OpenReceivable(i) = 0
      /\ \A r \in Receipts : Unallocated(r) = 0
  BY DEF Init, Issued, OpenReceivable, Unallocated
<1>2. Cleared = {} BY DEF Init, Cleared, Idle
<1>3. /\ {r \in Receipts : receipt[r].status # "absent"} = {}
      /\ {r \in Receipts : receipt[r].status = "reversed"} = {}
      /\ {c \in Credits : credit[c].state = "approved"} = {}
      /\ {receipt[r].key : r \in {q \in Receipts : receipt[q].status # "absent"}} \ {None} = {}
  BY DEF Init
<1> QED BY <1>1, <1>2, <1>3 DEF Init, Accounts!AInit

\* The requests of billing, payments and delivery implement the accounts: every request is
\* one posting that overdraws nothing, for any number of sessions, documents and amounts.
THEOREM BalancesAreKept == Spec => BalancesAreAccounts
<1>1. Inv /\ Posted /\ [Next]_vars => [Accounts!ANext]_(Accounts!avars)
  BY StepPosts DEF Posting
<1> QED BY <1>1, InitPosts, Invariant, PostedAlways, PTL
        DEF Spec, BalancesAreAccounts, Accounts!ASpec

=============================================================================
