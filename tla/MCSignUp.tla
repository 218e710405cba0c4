------------------------------ MODULE MCSignUp ------------------------------
(***************************************************************************)
(* Instances of SignUp for TLC.                                            *)
(***************************************************************************)
EXTENDS SignUp, TLC

Symmetry ==
    Permutations(Req) \cup Permutations(Player) \cup Permutations(Tab)
    \cup Permutations(Device \ Chosen)

=============================================================================
