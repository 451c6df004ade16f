------------------------------- MODULE MCSales -------------------------------
(* Instances of Sales.  Every item belongs to b1, so b1 and b2 are told    *)
(* apart; the other model values are interchangeable.                      *)
EXTENDS Sales, TLC

CONSTANTS b1, b2, i1, p1, p2, r1, r2, c1, c2, d1, d2

MCOwner == [i \in Items |-> b1]
MCBatches == {<<p, p>> : p \in PaymentIds}
Symmetry == Permutations({r1, r2}) \cup Permutations({c1, c2}) \cup Permutations({d1, d2})
  \cup Permutations({p1, p2})
===============================================================================
