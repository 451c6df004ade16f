------------------------------ MODULE MCSessions ------------------------------
(* An instance of Sessions: the model values of a kind are interchangeable. *)
EXTENDS Sessions, TLC

CONSTANTS u1, u2, t1, t2, t3, t4, c1, c2

Symmetry == Permutations({t1, t2, t3, t4}) \cup Permutations({c1, c2})
  \cup Permutations({u1, u2})
===============================================================================
