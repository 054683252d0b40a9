------------------------------ MODULE MCShell ------------------------------
(* The command line with a short buffer, and a screen of three rows.       *)
EXTENDS Shell, TLC

CONSTANTS a, b

Letters == Permutations({a, b})
=============================================================================
