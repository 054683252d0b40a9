---------------------------- MODULE AddressSpace ----------------------------
(***************************************************************************)
(* What the page tables are for: a translation of virtual pages to frames. *)
(* Mapping gives one page without a translation its frame; unmapping takes *)
(* translations away; nothing else ever changes what a page stands for.    *)
(***************************************************************************)
CONSTANTS Pages, Frames, NONE

VARIABLE translation

SpaceInit == translation \in [Pages -> Frames \cup {NONE}]

Map(v) ==
  /\ translation[v] = NONE
  /\ translation'[v] \in Frames
  /\ \A u \in Pages \ {v} : translation'[u] = translation[u]

Unmap == \A v \in Pages : translation'[v] \in {translation[v], NONE}

SpaceNext == Unmap \/ \E v \in Pages : Map(v)

SpaceSpec == SpaceInit /\ [][SpaceNext]_translation
=============================================================================
