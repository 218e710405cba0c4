----------------------------- MODULE MCRealtime -----------------------------
(***************************************************************************)
(* Instances of Realtime for TLC: one player with two sockets and one with *)
(* a single one, and constellations whose names do not collide.            *)
(***************************************************************************)
EXTENDS Realtime, TLC

CONSTANTS ann, bob, s1, s2

\* The sockets of ann are alike, and so are constellations and requests.
Symmetric == Permutations({s1, s2}) \cup Permutations(Con) \cup Permutations(Req)

Owners == s1 :> ann @@ s2 :> ann

Names == [c \in Con |-> c]

=============================================================================
