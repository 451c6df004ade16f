SPECIFICATION Spec
CONSTANTS
  b1 = b1
  b2 = b2
  i1 = i1
  p1 = p1
  p2 = p2
  r1 = r1
  r2 = r2
  c1 = c1
  c2 = c2
  d1 = d1
  d2 = d2
  Businesses = {b1, b2}
  Items = {i1}
  PaymentIds = {p1, p2}
  InventoryCalls = {c1}
  Owner <- MCOwner
  Quantities = {2}
  Levels = {3}
  Prices = {20}
  RefundCalls = {d1, d2}
  RefundIds = {r1, r2}
  Amounts = {4, 36, 50}
  Whole = Whole
  Batches <- MCBatches
SYMMETRY Symmetry
INVARIANTS
  TypeOK
  EachRefundWithinPayment
  StatusHasCause
  UnmarkedRefundIsInterrupted
  TenantsSeparate
