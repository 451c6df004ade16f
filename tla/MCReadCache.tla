----------------------------- MODULE MCReadCache -----------------------------
(* An instance of ReadCache *)
EXTENDS ReadCache

CONSTANTS q1, q2, w1
===============================================================================
