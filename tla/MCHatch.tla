------------------------------- MODULE MCHatch ------------------------------
(***************************************************************************)
(* Instances of Hatch for TLC.  The weights keep the order and about the   *)
(* ratios of RARITIES, with fewer draws and tiers; a seed takes seven      *)
(* ticks, long enough for watering to speed it up.                         *)
(***************************************************************************)
EXTENDS Hatch, TLC

FourTiers == 0 :> 10 @@ 1 :> 4 @@ 2 :> 2 @@ 3 :> 1

Slow == {[grow |-> 7, luck |-> 0]}

Plots == Permutations(Plot)

=============================================================================
