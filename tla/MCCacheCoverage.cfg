SPECIFICATION Spec
CONSTANTS
  q1 = q1
  q2 = q2
  w1 = w1
  Keys = {"applicationStats"}
  Kinds = {"bookings", "sales", "refunds"}
  Readers = {q1}
  Writers = {w1}
  MaxWrites = 2
INVARIANT
  WritesDropTheirModels
