SPECIFICATION Spec
CONSTANTS
  b1 = b1
  b2 = b2
  i1 = i1
  p1 = p1
  p2 = p2
  r1 = r1
  r2 = r2
  c1 = c1
  c2 = c2
  d1 = d1
  d2 = d2
  Businesses = {b1, b2}
  Items = {i1}
  PaymentIds = {p1, p2}
  InventoryCalls = {c1, c2}
  Owner <- MCOwner
  Quantities = {1, 2}
  Levels = {1, 2}
  Prices = {4, 20}
  RefundCalls = {d1}
  RefundIds = {}
  Amounts = {36}
  Whole = Whole
  Batches <- MCBatches
SYMMETRY Symmetry
INVARIANTS
  SalesArePaid
  StockBalanced
  OversellBounded
