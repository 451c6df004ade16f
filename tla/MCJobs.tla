-------------------------------- MODULE MCJobs --------------------------------
(* An instance of Jobs *)
EXTENDS Jobs

CONSTANTS r1, r2, w1, e1, a1, t1
===============================================================================
