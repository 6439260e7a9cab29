SPECIFICATION Spec
CONSTANTS
  Sessions = {s1, s2}
  WorkOrders = {w1}
  Invoices = {i1, i2}
  Receipts = {r1, r2}
  Credits = {n1}
  Keys = {k1}
  Gross <- GrossOfTwo
  Amounts = {1, 2}
  None = None
SYMMETRY Symmetric
INVARIANT TypeOK
INVARIANT NeverOverpaid
INVARIANT ReceiptSpentOnce
INVARIANT LedgerAgrees
INVARIANT OneLiveInvoice
PROPERTY BalancesAreAccounts
CHECK_DEADLOCK FALSE
