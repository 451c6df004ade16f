SPECIFICATION Spec
CONSTANTS
  q1 = q1
  q2 = q2
  w1 = w1
  Keys = {"paymentSummary"}
  Kinds = {"bookings", "sales"}
  Readers = {q1, q2}
  Writers = {w1}
  MaxWrites = 2
INVARIANTS
  TypeOK
  StaleHasCause
PROPERTY
  EventuallyFresh
