------------------------------ MODULE MCGuild -------------------------------
(***************************************************************************)
(* Instances of Guild for TLC: a constellation holds two of the players,   *)
(* a hatch contributes one, and two of three ids are drawn for one name.   *)
(***************************************************************************)
EXTENDS Guild, TLC

CONSTANTS c1, c2, c3

Names == c1 :> "dawn" @@ c2 :> "dawn" @@ c3 :> "dusk"

Symmetric == Permutations(Player) \cup Permutations({c1, c2}) \cup Permutations(Req)

=============================================================================
