----------------------------- MODULE MCPgStore ------------------------------
(***************************************************************************)
(* Instances of PgStore for TLC.  Amounts are in units of 25: a new player *)
(* has 300 petals and 50 lumen, the tax is 100 and 25 per Lumi, a visit    *)
(* pays 25, the cheapest seed costs 50, the ritual 25 lumen.               *)
(***************************************************************************)
EXTENDS PgGame, TLC

CONSTANTS p1, p2, l1, l2

NewPlayerWallet == [c \in Currency |-> IF c = "petals" THEN 12 ELSE 2]
MCOpening == [p \in Player |-> NewPlayerWallet]

\* One Lumi each, or two for the player who breeds; the others are unminted.
OneEach == [l \in Lumi |-> CASE l = l1 -> p1 [] l = l2 -> p2 [] OTHER -> NoPlayer]
TwoForOne == [l \in Lumi |-> IF l \in {l1, l2} THEN p1 ELSE NoPlayer]

ReqSymmetry == Permutations(Req)

EmptyPlots == [p \in Player |-> NoPlanting]
\* p1 has sown a seed in an earlier request.
CONSTANT s1
FirstSown == [p \in Player |-> IF p = p1 THEN s1 ELSE NoPlanting]

\* 225 petals: more than a new player can give, once the tax is counted.
Unaffordable == [offerLumi |-> {}, offerPetals |-> 9, requestLumi |-> {}]
GiftPetals == [offerLumi |-> {}, offerPetals |-> 1, requestLumi |-> {}]
GiftLumi   == [offerLumi |-> {l1}, offerPetals |-> 0, requestLumi |-> {}]
Swap       == [offerLumi |-> {l1}, offerPetals |-> 1, requestLumi |-> {l2}]
AllOffers  == {Unaffordable, GiftPetals, GiftLumi, Swap}
TwoOffers  == {GiftPetals, Swap}
=============================================================================
