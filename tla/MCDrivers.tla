----------------------------- MODULE MCDrivers -----------------------------
(* Short rings, two drives of two sectors, and drives slower than the      *)
(* driver waits.                                                           *)
EXTENDS Drivers
=============================================================================
