----------------------------- MODULE MCPhysMem -----------------------------
(* Instances of PhysMem with a handful of blocks, and memory maps for them. *)
EXTENDS PhysMem

\* Regions overlapping the managed blocks at their start, inside and past their end.
MCRegions == {[first |-> 0, last |-> 1], [first |-> 1, last |-> 2], [first |-> 2, last |-> 9]}
=============================================================================
