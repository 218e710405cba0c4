------------------------------ MODULE MCGenome ------------------------------
(***************************************************************************)
(* Instances of Genome for TLC: two rarities, the upper one epic.  Seven   *)
(* binary digits hold more than the hundred seeds.                         *)
(***************************************************************************)
EXTENDS Genome, TLC

Glows == 0 :> 0 @@ 1 :> 45
Gates == "halo" :> 1 @@ "aurora" :> 0
SeedsDrawn == <<99, 64, 5, 32>>

Symmetry == Permutations(Form)

=============================================================================
