------------------------------ MODULE MCFat16 -------------------------------
(* Fat16 on a disk of a few clusters, with two names in 8.3 form and one   *)
(* that is cut to the first of them.                                       *)
EXTENDS Fat16

CONSTANTS a, b, long

CutNames == [n \in Names |-> IF n = long THEN a ELSE n]
LastClusters == <<total_clusters, total_clusters + 1>>
=============================================================================
