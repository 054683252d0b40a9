----------------------------- MODULE MCSockets -----------------------------
(* Sockets on small tables: the values of the constants are in the cfgs.   *)
EXTENDS Sockets
=============================================================================
