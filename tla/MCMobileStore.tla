---------------------------- MODULE MCMobileStore ----------------------------
(* An instance of MobileStore *)
EXTENDS MobileStore, TLC

CONSTANTS r1, r2

(* The slots for requests are interchangeable *)
Symmetry == Permutations(Requests)
===============================================================================
