------------------------------- MODULE Keeper -------------------------------
(***************************************************************************)
(* A player's progress and wallet together.  Tiers and milestones pay into *)
(* the wallet, the premium lane and the Bloom Ritual are paid from it, and *)
(* each of these is one request that does both or neither.                 *)
(***************************************************************************)
EXTENDS Track, FiniteSetsExt

CONSTANTS
    PetalsCap, LumenCap, Plant, Decor, Biome, Starter, cost, Gifts, Start,
    MaxBought, MaxGiven,   \* Shop
    Other,                 \* rewards of the other routes
    tierReward,            \* the currency in each reward of the pass
    dexReward              \* and in each milestone

\* An item stands for the reason of its purchase, shop:kind:id, which is not
\* the reason of a reward or of a trade.
ASSUME KeeperAssumption ==
    /\ IsFiniteSet(Plant \cup Decor \cup Biome) /\ Starter \in Biome
    /\ {"reward", "trade_petals_in"} \cap (Plant \cup Decor \cup Biome) = {}
    /\ Gifts \subseteq Nat /\ MaxBought \in Nat /\ MaxGiven \in Nat

VARIABLES wallet, biome, decor, source, sink, byReason, bought   \* Shop

S == INSTANCE Shop WITH Service <- {"pass_premium", "breed_ritual"},
                        Rewards <- Other \cup {tierReward[r] : r \in Reward}

shop == <<wallet, biome, decor, source, sink, byReason, bought>>
keeperVars == <<vars, shop>>

ASSUME WalletAssumption ==
    /\ S!CapAssumption /\ Start \in S!Balance
    /\ cost \in [S!Item -> S!Balance] /\ Other \subseteq S!Balance
    /\ tierReward \in [Reward -> S!Balance] /\ dexReward \in [Milestone -> S!Balance]

KeeperTypeOK == TypeOK /\ S!TypeOK

KeeperInit == Init /\ S!Init

-----------------------------------------------------------------------------

Harvests == Harvest /\ UNCHANGED shop

\* purchaseRitual comes first, and throws when the player is short of Lumen.
Breeds == Breed /\ S!Buy("breed_ritual")

\* Lumi, petals or both change hands.
Trades ==
    \/ Trade /\ UNCHANGED shop
    \/ \E n \in Gifts : S!Receive(n) /\ (Trade \/ UNCHANGED vars)

\* POST pass/claim: claimTier, then the grant.  Decor, seeds and cosmetics are
\* answered and not stored.
ClaimsTier(tier, lane) ==
    ClaimTier(tier, lane) /\ S!Grants(tierReward[<<tier, lane>>])

\* POST pass/upgrade.
Upgrades == Upgrade /\ S!Buy("pass_premium")

\* POST bloomdex/claim: one grant for all the milestones.
Both(K) == [c \in S!Currency |-> MapThenSumSet(LAMBDA k : dexReward[k][c], K)]

ClaimsDex == ClaimDex /\ S!Grants(Both(claimableMilestones))

Buys == \E i \in Plant \cup Decor \cup Biome : S!Buy(i) /\ UNCHANGED vars

Earns == \E reward \in Other : S!Grants(reward) /\ UNCHANGED vars

KeeperNext ==
    \/ Harvests \/ Breeds \/ Trades \/ Upgrades \/ ClaimsDex \/ Buys \/ Earns
    \/ \E tier \in 1..Tiers, lane \in Lane : ClaimsTier(tier, lane)

KeeperSpec == KeeperInit /\ [][KeeperNext]_keeperVars

-----------------------------------------------------------------------------
(***************************************************************************)
(* Properties.                                                             *)
(***************************************************************************)

\* The report on sources and sinks, see Shop.
ReportAddsUp == S!ReportAddsUp

\* A reward takes nothing away but what exceeds a cap.
RewardsGive ==
    [][\A c \in S!Currency :
          wallet'[c] < wallet[c] /\ sink' = sink => wallet'[c] = S!HardCap[c]]_keeperVars

=============================================================================
