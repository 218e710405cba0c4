------------------------------- MODULE Hatch --------------------------------
(***************************************************************************)
(* How Lumi are born: a seed grows in a plot, watering speeds it up, the   *)
(* harvest rolls a rarity that care and bloom improve, and bad-luck        *)
(* protection (pity) puts a floor under the roll after too many hatches    *)
(* without a rare one.  Breeding is the other way to a Lumi; it keeps the  *)
(* pity counters as well, but the floor is not asked for.                  *)
(*                                                                         *)
(* A rarity is its index in RARITIES, and a Lumi is its rarity.  Of a Lumi *)
(* seed only the first number drawn from it is kept, which decides the     *)
(* rarity.  readyAt and the clock are kept as the time left to grow.       *)
(***************************************************************************)
EXTENDS Integers, FiniteSets, FiniteSetsExt

CONSTANTS
    Top,           \* index of the last of the RARITIES
    Rare, Epic,    \* the indices of rare and epic
    Weight,        \* RARITIES[k].weight
    Draws,         \* a draw is one of 0, 1/Draws, 2/Draws, ...
    RareEvery, EpicEvery,
    Plot,
    Species,       \* growMinutes and rarityLuck of the PLANTS
    WorldBloom,    \* the levels of the world's bloom at which a seed is sown
    FullBloom,     \* the bloom of a garden that is tended to the full
    Starters,      \* the rarities that the two Lumi granted on signup can have
    Rituals,       \* how many Bloom Rituals the player's Lumen pay for
    MaxOwned,      \* bound: how many Lumi a player comes to own
    Nothing        \* an empty plot

Rank == 0..Top

ASSUME HatchAssumption ==
    /\ Top \in Nat /\ Rare \in 1..Top /\ Epic \in Rare..Top
    /\ Weight \in [Rank -> Nat \ {0}]
    /\ Draws \in Nat \ {0}
    /\ RareEvery \in Nat \ {0} /\ EpicEvery \in Nat \ {0}
    /\ Species \subseteq [grow : Nat, luck : Nat]
    /\ WorldBloom \subseteq Nat /\ Starters \subseteq Rank
    /\ FullBloom \in Nat /\ Rituals \in Nat /\ MaxOwned \in Nat
    /\ Nothing \notin [left : Nat, watered : 0..3, draw : 0..(Draws - 1), bloom : Nat]

VARIABLES
    plots,      \* what grows in each plot
    bloom,      \* garden.bloom, in steps of one harvest
    pity,       \* hatches since the last rare and the last epic Lumi
    owned,      \* how many Lumi of a rarity are in the collection
    rituals,    \* Bloom Rituals the Lumen left still pay for
    dry         \* history: of those hatches, the harvests

vars == <<plots, bloom, pity, owned, rituals, dry>>

Planting == [left : Nat, watered : 0..3, draw : 0..(Draws - 1), bloom : Nat]
Counters == [rare : Nat, epic : Nat]

TypeOK ==
    /\ plots \in [Plot -> Planting \cup {Nothing}]
    /\ bloom \in 0..FullBloom
    /\ pity \in Counters
    /\ owned \in [Rank -> Nat]
    /\ rituals \in 0..Rituals
    /\ dry \in Counters

-----------------------------------------------------------------------------
(***************************************************************************)
(* Rarity.  Luck is counted in 1500ths: the bloom a seed was sown under    *)
(* contributes 0.015 for each percent, care up to 0.8.  Both kinds of      *)
(* bloom come in steps of two percent.                                     *)
(***************************************************************************)
MinOf(a, b) == IF a <= b THEN a ELSE b

\* Mutant of the next: a plant that was watered once is not cared for as much.
careForgets(p, b) == MinOf(1200, 420 + 216 * (p.watered % 2) + 8 * b)

\* 0.8 * min(1, 0.35 + 0.18 * watered + b / 300), b being the bloom of the garden.
care(p, b) == MinOf(1200, 420 + 216 * p.watered + 8 * b)

luck(p, b) == 45 * p.bloom + care(p, b)

\* The weights of the tiers up to k, plain and as luck lifts them: a tier's
\* lifted weight is Weight[k] * (1 + luck * k / Top).
plain[k \in Rank] == Weight[k] + (IF k = 0 THEN 0 ELSE plain[k - 1])
slope[k \in Rank] == Weight[k] * k + (IF k = 0 THEN 0 ELSE slope[k - 1])
lifted(k, l) == 1500 * Top * plain[k] + l * slope[k]

\* weighted: the first tier at which the draw, scaled to the total, is used up.
rollRarity(draw, l) ==
    LET used == {k \in Rank : draw * lifted(Top, l) < Draws * lifted(k, l)}
    IN  IF used = {} THEN Top ELSE CHOOSE k \in used : \A j \in used : k <= j

\* What a planting would hatch into in a garden of bloom b, floors aside.
Rolled(p, b) == rollRarity(p.draw, luck(p, b))

\* inheritRarity: the better parent's, one up, or one down.
inherited(a, b) ==
    LET hi == IF a >= b THEN a ELSE b
    IN  {r \in Rank : r \in (hi - 1)..(hi + 1)}

-----------------------------------------------------------------------------
(***************************************************************************)
(* Bad-luck protection.                                                    *)
(***************************************************************************)

\* Mutant of the next: a floor one hatch late.
pityFloorLate(c) ==
    IF c.epic >= EpicEvery THEN Epic ELSE IF c.rare >= RareEvery THEN Rare ELSE 0

\* The floor of the next harvest; 0 stands for no floor.
pityFloor(c) ==
    IF c.epic + 1 >= EpicEvery THEN Epic
    ELSE IF c.rare + 1 >= RareEvery THEN Rare
    ELSE 0

floored(r, floor) == IF floor > r THEN floor ELSE r

recordHatch(c, r) == [rare |-> IF r >= Rare THEN 0 ELSE c.rare + 1,
                      epic |-> IF r >= Epic THEN 0 ELSE c.epic + 1]

\* Breeding is not one of the harvests that dry counts, but ends a dry streak.
recordBred(c, r) == [rare |-> IF r >= Rare THEN 0 ELSE c.rare,
                     epic |-> IF r >= Epic THEN 0 ELSE c.epic]

-----------------------------------------------------------------------------
Total == MapThenSumSet(LAMBDA k : owned[k], Rank)

\* A new player owns a starter pair.
Init ==
    /\ plots = [i \in Plot |-> Nothing]
    /\ bloom = 0
    /\ pity = [rare |-> 0, epic |-> 0]
    /\ dry = pity
    /\ rituals = Rituals
    /\ \E a, b \in Starters :
          owned = [k \in Rank |-> (IF k = a THEN 1 ELSE 0) + (IF k = b THEN 1 ELSE 0)]

Plant(i) ==
    /\ plots[i] = Nothing
    /\ \E s \in Species, d \in 0..(Draws - 1), w \in WorldBloom :
          plots' = [plots EXCEPT ![i] =
             [left |-> s.grow, watered |-> 0, draw |-> d, bloom |-> MinOf(50, w + s.luck)]]
    /\ UNCHANGED <<bloom, pity, owned, rituals, dry>>

\* Mutant of the next: the time left grows.
shavedWrong(left) == (left * 108 + 50) \div 100

\* Eight percent off the time left, rounded.
shaved(left) == (left * 92 + 50) \div 100

Water(i) ==
    /\ plots[i] # Nothing
    /\ plots[i].watered < 3
    /\ plots' = [plots EXCEPT ![i].watered = @ + 1, ![i].left = shaved(@)]
    /\ UNCHANGED <<bloom, pity, owned, rituals, dry>>

\* tend: a harvest is one step of bloom, up to the cap.
tended(b) == MinOf(FullBloom, b + 1)

Hatch(r) == owned' = [owned EXCEPT ![r] = @ + 1]

Harvest(i) ==
    /\ plots[i] # Nothing
    /\ plots[i].left = 0
    /\ Total < MaxOwned
    /\ LET r == floored(Rolled(plots[i], bloom), pityFloor(pity))
       IN  /\ Hatch(r)
           /\ pity' = recordHatch(pity, r)
           /\ dry' = recordHatch(dry, r)
    /\ plots' = [plots EXCEPT ![i] = Nothing]
    /\ bloom' = tended(bloom)
    /\ UNCHANGED rituals

\* Two different Lumi of the player are bred.
Breed ==
    /\ rituals > 0
    /\ Total < MaxOwned
    /\ \E a, b \in {k \in Rank : owned[k] > 0} :
          /\ a = b => owned[a] > 1
          /\ \E r \in inherited(a, b) :
                /\ Hatch(r)
                /\ pity' = recordHatch(pity, r)
                /\ dry' = recordBred(dry, r)
    /\ rituals' = rituals - 1
    /\ UNCHANGED <<plots, bloom>>

Tick ==
    /\ \E i \in Plot : plots[i] # Nothing /\ plots[i].left > 0
    /\ plots' = [i \in Plot |->
                   IF plots[i] # Nothing /\ plots[i].left > 0
                   THEN [plots[i] EXCEPT !.left = @ - 1] ELSE plots[i]]
    /\ UNCHANGED <<bloom, pity, owned, rituals, dry>>

Next ==
    \/ \E i \in Plot : Plant(i) \/ Water(i) \/ Harvest(i)
    \/ Breed
    \/ Tick

Spec == Init /\ [][Next]_vars

-----------------------------------------------------------------------------
(***************************************************************************)
(* Properties.                                                             *)
(***************************************************************************)

\* Among the harvests since the last rare (epic) Lumi there are never
\* RareEvery (EpicEvery), whatever is bred in between.
HarvestsRescued == dry.rare < RareEvery /\ dry.epic < EpicEvery

Grows(i) == plots[i] # Nothing /\ plots'[i] # Nothing

\* Tending pays: whatever happens while a seed grows, in its plot or in another
\* one, what it would hatch into never gets worse and nothing delays its harvest.
TendingPays ==
    [][\A i \in Plot : Grows(i) =>
          /\ Rolled(plots'[i], bloom') >= Rolled(plots[i], bloom)
          /\ plots'[i].left <= plots[i].left]_vars

=============================================================================
