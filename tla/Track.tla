------------------------------- MODULE Track --------------------------------
(***************************************************************************)
(* The long-term progress of one player: Keeper levels and the features    *)
(* they unlock, the Bloom Pass with its two lanes, and the milestones of   *)
(* the Bloomdex.  Every hatch moves the first two; hatches and trades move *)
(* the collection the third is derived from.                               *)
(*                                                                         *)
(* Rewards are counted here; what they hold, and the price of the premium  *)
(* lane, are in Keeper.  Of a Lumi only its species is kept.               *)
(***************************************************************************)
EXTENDS Integers, FiniteSets

CONSTANTS
    HatchXp, BreedXp,   \* XP of a harvest, by rarity, and of a Bloom Ritual
    Feature, LevelOf,   \* the features of player.unlocks, and their LEVEL_UNLOCKS
    Tiers, XpPerTier,   \* BLOOM_PASS.tiers and xpPerTier
    Reward,             \* the tier and lane of each reward of the sample
    Species, Total,     \* species, and how many the Bloomdex counts
    Milestone,          \* the percentages of BLOOMDEX_MILESTONES
    MaxXp, MaxOwned     \* bounds: XP, and Lumi of a species

Lane == {"free", "premium"}

ASSUME TrackAssumption ==
    /\ HatchXp \subseteq Nat /\ BreedXp \in Nat
    /\ LevelOf \in [Feature -> Nat \ {0, 1}]
    /\ Tiers \in Nat \ {0} /\ XpPerTier \in Nat \ {0}
    /\ Reward \subseteq (1..Tiers) \X Lane
    /\ Total \in Nat \ {0} /\ Milestone \subseteq 1..100
    /\ MaxXp \in Nat /\ MaxOwned \in Nat

VARIABLES
    xp, unlocks,               \* player.xp, and the features of player.unlocks
    passXp, premium, claimed,  \* player.pass, the claimed tiers of both lanes
    owned,                     \* player.collection
    dexClaimed,                \* player.bloomdexClaimed
    paid, dexPaid              \* history: how often a reward, a milestone was paid

pass == <<passXp, premium, claimed, paid>>
dex == <<dexClaimed, dexPaid>>
vars == <<xp, unlocks, pass, owned, dex>>

TypeOK ==
    /\ xp \in Nat /\ passXp \in Nat
    /\ unlocks \subseteq Feature
    /\ premium \in BOOLEAN
    /\ claimed \subseteq Reward
    /\ owned \in [Species -> Nat]
    /\ dexClaimed \subseteq Milestone
    /\ paid \in [Reward -> Nat] /\ dexPaid \in [Milestone -> Nat]

-----------------------------------------------------------------------------

xpForLevel(n) == IF n <= 1 THEN 0 ELSE 40 * (n - 1) * (n - 1) + 40 * (n - 1)

\* levelFromXp: the first level whose next one is out of reach.
reaches(x, n) == xpForLevel(n) <= x

\* Mutant of the next: the level reached is not unlocked.
crossedBelow(before, add) ==
    {f \in Feature : ~ reaches(before, LevelOf[f]) /\ reaches(before + add, LevelOf[f] + 1)}

\* applyXp: the features of the levels crossed.
crossed(before, add) ==
    {f \in Feature : ~ reaches(before, LevelOf[f]) /\ reaches(before + add, LevelOf[f])}

MinOf(a, b) == IF a <= b THEN a ELSE b

tierFromXp(x) == MinOf(Tiers, x \div XpPerTier)

\* Mutant of the next: a lane that is not owned is claimed.
claimTierUnowned(tier, lane) ==
    /\ tierFromXp(passXp) >= tier
    /\ <<tier, lane>> \in Reward \ claimed

\* The rewards claimTier hands out: a tier that is reached, in a lane that is
\* owned, not claimed before.
claimTier(tier, lane) ==
    /\ tierFromXp(passXp) >= tier
    /\ lane = "premium" => premium
    /\ <<tier, lane>> \in Reward \ claimed

\* claimableTiers, the list the player is shown.
claimableTiers ==
    {r \in Reward : r[1] <= tierFromXp(passXp) /\ r[2] = "free" /\ r \notin claimed}
    \cup (IF premium THEN {r \in Reward : r[1] <= tierFromXp(passXp) /\ r[2] = "premium" /\ r \notin claimed}
          ELSE {})

discovered == {s \in Species : owned[s] > 0}

\* pct, in tenths of a percent, rounded.
pct(have) == (2000 * have + Total) \div (2 * Total)

milestonesReached == {k \in Milestone : pct(Cardinality(discovered)) >= 10 * k}

\* Mutant of the next: a milestone that is reached is claimable.
claimableReached == milestonesReached

claimableMilestones == milestonesReached \ dexClaimed

-----------------------------------------------------------------------------

\* A new player owns a starter pair.
Init ==
    /\ xp = 0 /\ unlocks = {}
    /\ passXp = 0 /\ premium = FALSE /\ claimed = {}
    /\ \E s, t \in Species :
          owned = [u \in Species |-> (IF u = s THEN 1 ELSE 0) + (IF u = t THEN 1 ELSE 0)]
    /\ dexClaimed = {}
    /\ paid = [r \in Reward |-> 0] /\ dexPaid = [k \in Milestone |-> 0]

Gets(s) == owned[s] < MaxOwned /\ owned' = [owned EXCEPT ![s] = @ + 1]

\* onHatch.
Progress(gain) ==
    /\ xp + gain <= MaxXp
    /\ xp' = xp + gain
    /\ unlocks' = unlocks \cup crossed(xp, gain)
    /\ passXp' = passXp + gain
    /\ UNCHANGED <<premium, claimed, paid, dex>>

Harvest == \E s \in Species, gain \in HatchXp : Gets(s) /\ Progress(gain)

\* Two Lumi are bred.  player.unlocks is not asked.
Breed ==
    /\ \/ Cardinality(discovered) > 1
       \/ \E s \in Species : owned[s] > 1
    /\ \E s \in Species : Gets(s) /\ Progress(BreedXp)

\* A trade takes one Lumi away, or brings one.
Trade ==
    /\ \/ \E s \in Species : Gets(s)
       \/ \E s \in discovered : owned' = [owned EXCEPT ![s] = @ - 1]
    /\ UNCHANGED <<xp, unlocks, pass, dex>>

\* POST pass/claim.
ClaimTier(tier, lane) ==
    /\ claimTier(tier, lane)
    /\ claimed' = claimed \cup {<<tier, lane>>}
    /\ paid' = [paid EXCEPT ![<<tier, lane>>] = @ + 1]
    /\ UNCHANGED <<xp, unlocks, passXp, premium, owned, dex>>

\* Mutant of the next: what was claimed on the free lane is closed.
upgradedClosed == claimed \cup {r \in Reward : <<r[1], "free">> \in claimed}

\* What is claimed once the premium lane is bought.
upgradedClaims == claimed

\* POST pass/upgrade, for a player who can pay.
Upgrade ==
    /\ ~ premium
    /\ premium' = TRUE
    /\ claimed' = upgradedClaims
    /\ UNCHANGED <<xp, unlocks, passXp, paid, owned, dex>>

\* POST bloomdex/claim: all claimable milestones at once.
ClaimDex ==
    /\ claimableMilestones # {}
    /\ dexClaimed' = dexClaimed \cup claimableMilestones
    /\ dexPaid' = [k \in Milestone |-> IF k \in claimableMilestones THEN dexPaid[k] + 1 ELSE dexPaid[k]]
    /\ UNCHANGED <<xp, unlocks, pass, owned>>

Next ==
    \/ Harvest \/ Breed \/ Trade
    \/ \E tier \in 1..Tiers, lane \in Lane : ClaimTier(tier, lane)
    \/ Upgrade
    \/ ClaimDex

Spec == Init /\ [][Next]_vars

-----------------------------------------------------------------------------
(***************************************************************************)
(* Properties.                                                             *)
(***************************************************************************)

\* The features that were unlocked step by step are those of the level reached.
UnlocksAgree == unlocks = {f \in Feature : reaches(xp, LevelOf[f])}

\* Nothing lapses and nothing pays twice: a reward that is reached, in a lane
\* that is owned, was paid once or is still on the list the player is shown.
PaidOrListed ==
    \A r \in Reward :
        (tierFromXp(passXp) >= r[1] /\ (r[2] = "premium" => premium)) =>
            paid[r] + (IF r \in claimableTiers THEN 1 ELSE 0) = 1

\* Moreover, what is on the list can be claimed, and nothing else.
ListIsHonest ==
    PaidOrListed /\ claimableTiers = {r \in Reward : claimTier(r[1], r[2])}

\* A milestone pays once, however often the collection shrinks and grows.
MilestonePaysOnce == \A k \in Milestone : dexPaid[k] <= 1

=============================================================================
