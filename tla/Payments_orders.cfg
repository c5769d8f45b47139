CONSTANTS
  None = None
  OrderIds = {o1}
  Invoices = {i1, i2}
  Members = {m1}
  Kinds = {"plan", "fame", "highlight"}
  Keys = {k1}
  Places = 1
  Attempts = 2
  Calls = {c1, c2}
  Humans = {m1}
  Agents = {m1}
  Answers = {"open", "finished"}
SPECIFICATION Spec
CHECK_DEADLOCK FALSE
SYMMETRY Symmetry
INVARIANTS
  TypeOK
  GrantsArePaid
  RefundCloses
  BoundedInvoices
PROPERTIES
  ReceiptKept
  FinishedIsFinal
  PlacesArePermanent
