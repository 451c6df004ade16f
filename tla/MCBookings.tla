------------------------------ MODULE MCBookings ------------------------------
(* An instance of Bookings *)
EXTENDS Bookings

CONSTANTS r1, r2, b1, b2, c1, t1
===============================================================================
