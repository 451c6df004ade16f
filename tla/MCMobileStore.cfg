SPECIFICATION Spec
CONSTANTS
  r1 = r1
  r2 = r2
  Requests = {r1, r2}
  Shops = {"shop"}
  Values = {"set"}
  MaxId = 2
  MaxCalls = 4
SYMMETRY Symmetry
INVARIANTS
  TypeOK
  OneDefaultOneThread
  LossNeedsOverlap
  ReturnNeedsOverlap
PROPERTY
  ActsAsRegisters
