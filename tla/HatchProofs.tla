---------------------------- MODULE HatchProofs -----------------------------
(***************************************************************************)
(* Theorems about Hatch, for every value of its constants.                 *)
(***************************************************************************)
EXTENDS Hatch, WellFoundedInduction, TLAPS

USE DEF Rank

\* A set of natural numbers that is not empty has a least element.
LEMMA LeastElement ==
    ASSUME NEW S \in SUBSET Nat, S # {}
    PROVE  \E k \in S : \A j \in S : k <= j
<1>1. PICK k \in S : \A j \in S : ~ (<<j, k>> \in OpToRel(<, Nat))
  BY NatLessThanWellFounded, WFMin
<1>2. \A j \in S : ~ (j < k)
  BY <1>1 DEF OpToRel
<1> QED BY <1>2

\* A roll yields one of the RARITIES, whatever is drawn.
LEMMA RolledType ==
    ASSUME NEW p, NEW b
    PROVE  Rolled(p, b) \in Rank
<1> DEFINE used == {k \in Rank : p.draw * lifted(Top, luck(p, b)) < Draws * lifted(k, luck(p, b))}
<1>1. used \in SUBSET Rank /\ used \in SUBSET Nat
  BY HatchAssumption
<1>2. Rolled(p, b) = IF used = {} THEN Top ELSE CHOOSE k \in used : \A j \in used : k <= j
  BY DEF Rolled, rollRarity
<1> HIDE DEF used
<1>3. ASSUME used # {}
      PROVE  (CHOOSE k \in used : \A j \in used : k <= j) \in used
  <2>1. \E k \in used : \A j \in used : k <= j
    BY <1>1, <1>3, LeastElement
  <2> QED BY <2>1
<1>4. Top \in Rank
  BY HatchAssumption
<1> QED BY <1>1, <1>2, <1>3, <1>4

\* A floor is never undercut.
LEMMA FlooredType ==
    ASSUME NEW r \in Rank, NEW c \in Counters
    PROVE  /\ floored(r, pityFloor(c)) \in Rank
           /\ floored(r, pityFloor(c)) >= pityFloor(c)
BY HatchAssumption DEF floored, pityFloor, Counters

LEMMA OwnedType ==
    ASSUME NEW f \in [Rank -> Nat], NEW k \in Rank
    PROVE  [f EXCEPT ![k] = @ + 1] \in [Rank -> Nat]
OBVIOUS

LEMMA CountersType ==
    ASSUME NEW c \in Counters, NEW r \in Rank
    PROVE  recordHatch(c, r) \in Counters /\ recordBred(c, r) \in Counters
BY DEF recordHatch, recordBred, Counters

LEMMA RetimedType ==
    ASSUME NEW p \in Planting, NEW l \in Nat, NEW w \in 0..3
    PROVE  /\ [p EXCEPT !.left = l] \in Planting
           /\ [p EXCEPT !.watered = w, !.left = l] \in Planting
BY DEF Planting

-----------------------------------------------------------------------------
(***************************************************************************)
(* Type correctness.                                                       *)
(***************************************************************************)

LEMMA TypeOKInit == Init => TypeOK
<1> SUFFICES ASSUME Init PROVE TypeOK
  OBVIOUS
<1>1. owned \in [Rank -> Nat]
  BY DEF Init
<1> QED BY <1>1, HatchAssumption DEF Init, TypeOK, Counters

LEMMA TypeOKStep == TypeOK /\ [Next]_vars => TypeOK'
<1> SUFFICES ASSUME TypeOK, [Next]_vars PROVE TypeOK'
  OBVIOUS
<1> USE HatchAssumption DEF TypeOK
<1>1. ASSUME NEW i \in Plot, Plant(i) PROVE TypeOK'
  <2>1. PICK s \in Species, d \in 0..(Draws - 1), w \in WorldBloom :
           plots' = [plots EXCEPT ![i] =
             [left |-> s.grow, watered |-> 0, draw |-> d, bloom |-> MinOf(50, w + s.luck)]]
    BY <1>1 DEF Plant
  <2>2. s.grow \in Nat /\ MinOf(50, w + s.luck) \in Nat
    BY DEF MinOf
  <2>3. [left |-> s.grow, watered |-> 0, draw |-> d, bloom |-> MinOf(50, w + s.luck)] \in Planting
    BY <2>2 DEF Planting
  <2> QED BY <1>1, <2>1, <2>3 DEF Plant
<1>2. ASSUME NEW i \in Plot, Water(i) PROVE TypeOK'
  <2>1. plots[i] \in Planting /\ plots[i].watered < 3
    BY <1>2 DEF Water
  <2>2. shaved(plots[i].left) \in Nat /\ plots[i].watered + 1 \in 0..3
    BY <2>1 DEF shaved, Planting
  <2>3. [plots[i] EXCEPT !.watered = @ + 1, !.left = shaved(@)] \in Planting
    BY <2>1, <2>2, RetimedType
  <2>4. plots' = [plots EXCEPT ![i] = [plots[i] EXCEPT !.watered = @ + 1, !.left = shaved(@)]]
    BY <1>2 DEF Water
  <2> QED BY <1>2, <2>3, <2>4 DEF Water
<1>3. ASSUME NEW i \in Plot, Harvest(i) PROVE TypeOK'
  <2> DEFINE r == floored(Rolled(plots[i], bloom), pityFloor(pity))
  <2>1. Hatch(r) /\ pity' = recordHatch(pity, r) /\ dry' = recordHatch(dry, r)
    BY <1>3 DEF Harvest
  <2>2. r \in Rank
    BY RolledType, FlooredType
  <2> HIDE DEF r
  <2>3. owned' \in [Rank -> Nat]
    BY <2>1, <2>2, OwnedType DEF Hatch
  <2>4. pity' \in Counters /\ dry' \in Counters
    BY <2>1, <2>2, CountersType
  <2>5. bloom' \in 0..FullBloom
    BY <1>3 DEF Harvest, tended, MinOf
  <2>6. plots' \in [Plot -> Planting \cup {Nothing}] /\ rituals' = rituals
    BY <1>3 DEF Harvest
  <2> QED BY <2>3, <2>4, <2>5, <2>6
<1>4. ASSUME Breed PROVE TypeOK'
  <2>1. PICK a \in Rank, b \in Rank : \E r \in inherited(a, b) :
           /\ Hatch(r)
           /\ pity' = recordHatch(pity, r)
           /\ dry' = recordBred(dry, r)
    BY <1>4 DEF Breed
  <2>2. PICK r \in inherited(a, b) :
           Hatch(r) /\ pity' = recordHatch(pity, r) /\ dry' = recordBred(dry, r)
    BY <2>1
  <2>3. r \in Rank
    BY DEF inherited
  <2>4. owned' \in [Rank -> Nat]
    BY <2>2, <2>3, OwnedType DEF Hatch
  <2>5. pity' \in Counters /\ dry' \in Counters
    BY <2>2, <2>3, CountersType
  <2>6. rituals' \in 0..Rituals /\ UNCHANGED <<plots, bloom>>
    BY <1>4 DEF Breed
  <2> QED BY <2>4, <2>5, <2>6
<1>5. ASSUME Tick PROVE TypeOK'
  <2>1. ASSUME NEW i \in Plot, plots[i] # Nothing, plots[i].left > 0
        PROVE  [plots[i] EXCEPT !.left = @ - 1] \in Planting
    <3>1. plots[i] \in Planting
      BY <2>1
    <3>2. plots[i].left - 1 \in Nat /\ plots[i].watered \in 0..3
      BY <2>1, <3>1 DEF Planting
    <3> QED BY <3>1, <3>2, RetimedType
  <2>2. plots' \in [Plot -> Planting \cup {Nothing}]
    BY <1>5, <2>1 DEF Tick
  <2> QED BY <1>5, <2>2 DEF Tick
<1>6. CASE UNCHANGED vars
  BY <1>6 DEF vars
<1> QED BY <1>1, <1>2, <1>3, <1>4, <1>5, <1>6 DEF Next

\* The garden, the counters and the collection keep their types.
THEOREM HatchTypeCorrect == Spec => []TypeOK
BY TypeOKInit, TypeOKStep, PTL DEF Spec

-----------------------------------------------------------------------------
(***************************************************************************)
(* Bad-luck protection.  The counters never fall behind the harvests they  *)
(* should count: breeding only adds to them or sets both back together.    *)
(***************************************************************************)
Ahead == dry.rare <= pity.rare /\ dry.epic <= pity.epic

RescueInv == TypeOK /\ Ahead /\ HarvestsRescued

LEMMA RescueInit == Init => RescueInv
BY TypeOKInit, HatchAssumption DEF Init, RescueInv, Ahead, HarvestsRescued

LEMMA RescueStep == RescueInv /\ [Next]_vars => RescueInv'
<1> SUFFICES ASSUME RescueInv, [Next]_vars PROVE RescueInv'
  OBVIOUS
<1> USE HatchAssumption DEF RescueInv, Ahead, HarvestsRescued
<1>1. TypeOK'
  BY TypeOKStep
<1>2. dry \in Counters /\ pity \in Counters
  BY DEF TypeOK
<1>3. ASSUME UNCHANGED <<pity, dry>> PROVE RescueInv'
  BY <1>1, <1>3
<1>4. ASSUME NEW i \in Plot, Harvest(i) PROVE RescueInv'
  <2> DEFINE r == floored(Rolled(plots[i], bloom), pityFloor(pity))
  <2>1. r \in Rank /\ r >= pityFloor(pity)
    BY <1>2, RolledType, FlooredType
  <2>2. pity' = recordHatch(pity, r) /\ dry' = recordHatch(dry, r)
    BY <1>4 DEF Harvest
  <2>3. dry.epic + 1 >= EpicEvery => r >= Epic
    BY <1>2, <2>1 DEF pityFloor, Counters
  <2>4. dry.rare + 1 >= RareEvery => r >= Rare
    BY <1>2, <2>1 DEF pityFloor, Counters
  <2> HIDE DEF r
  <2> QED BY <1>1, <1>2, <2>1, <2>2, <2>3, <2>4 DEF recordHatch, Counters
<1>5. ASSUME Breed PROVE RescueInv'
  <2>1. PICK a \in Rank, b \in Rank : \E r \in inherited(a, b) :
           pity' = recordHatch(pity, r) /\ dry' = recordBred(dry, r)
    BY <1>5 DEF Breed
  <2>2. PICK r \in Rank : pity' = recordHatch(pity, r) /\ dry' = recordBred(dry, r)
    BY <2>1 DEF inherited
  <2> QED BY <1>1, <1>2, <2>2 DEF recordHatch, recordBred, Counters
<1> QED BY <1>3, <1>4, <1>5 DEF Next, Plant, Water, Tick, vars

\* Whatever the rolls, the breeding in between and the thresholds, a rare and
\* an epic Lumi come within RareEvery and EpicEvery harvests.
THEOREM EveryDroughtEnds == Spec => []HarvestsRescued
<1>1. RescueInv => HarvestsRescued
  BY DEF RescueInv
<1> QED BY RescueInit, RescueStep, <1>1, PTL DEF Spec

-----------------------------------------------------------------------------
(***************************************************************************)
(* Sums over the tiers.  That a recursive definition over Rank has a       *)
(* solution, and what holds of it, is shown by the least tier at which it  *)
(* would fail.                                                             *)
(***************************************************************************)
SumsUp(g, w, n) == g = [k \in 0..n |-> w[k] + (IF k = 0 THEN 0 ELSE g[k - 1])]

LEMMA SumsExist ==
    ASSUME NEW w, NEW n \in Nat
    PROVE  \E g : SumsUp(g, w, n)
<1> DEFINE Bad == {m \in 0..n : ~ \E g : SumsUp(g, w, m)}
<1>1. ASSUME Bad # {} PROVE FALSE
  <2>1. PICK m \in Bad : \A j \in Bad : m <= j
    <3>1. Bad \in SUBSET Nat
      OBVIOUS
    <3> HIDE DEF Bad
    <3> QED BY <1>1, <3>1, LeastElement
  <2>2. m \in 0..n /\ ~ \E g : SumsUp(g, w, m)
    BY <2>1
  <2>3. CASE m = 0
    <3> DEFINE g == [k \in 0..0 |-> w[k] + 0]
    <3>1. g = [k \in 0..0 |-> w[k] + (IF k = 0 THEN 0 ELSE g[k - 1])]
      OBVIOUS
    <3> QED BY <2>2, <2>3, <3>1 DEF SumsUp
  <2>4. CASE m # 0
    <3>1. m - 1 \in 0..n /\ m - 1 \notin Bad
      BY <2>1, <2>2, <2>4
    <3>2. PICK h : SumsUp(h, w, m - 1)
      BY <3>1
    <3> DEFINE g == [k \in 0..m |-> IF k = m THEN w[m] + h[m - 1] ELSE h[k]]
    <3>3. \A k \in 0..(m - 1) : h[k] = w[k] + (IF k = 0 THEN 0 ELSE h[k - 1])
      BY <3>2 DEF SumsUp
    <3>4. \A k \in 0..m : g[k] = w[k] + (IF k = 0 THEN 0 ELSE g[k - 1])
      <4> SUFFICES ASSUME NEW k \in 0..m
                   PROVE  g[k] = w[k] + (IF k = 0 THEN 0 ELSE g[k - 1])
        OBVIOUS
      <4>1. CASE k = m
        BY <2>2, <2>4, <4>1
      <4>2. CASE k # m
        <5>1. k \in 0..(m - 1) /\ (k # 0 => k - 1 \in 0..m /\ k - 1 # m)
          BY <2>2, <4>2
        <5> QED BY <3>3, <4>2, <5>1
      <4> QED BY <4>1, <4>2
    <3>5. g = [k \in 0..m |-> w[k] + (IF k = 0 THEN 0 ELSE g[k - 1])]
      <4> HIDE DEF g
      <4>1. g = [k \in 0..m |-> g[k]]
        BY DEF g
      <4> QED BY <3>4, <4>1
    <3> QED BY <2>2, <3>5 DEF SumsUp
  <2> QED BY <2>3, <2>4
<1>2. n \in 0..n
  OBVIOUS
<1> QED BY <1>1, <1>2

\* The recursive definitions of Hatch mean what they say.
LEMMA PlainSums ==
    \A k \in Rank : plain[k] = Weight[k] + (IF k = 0 THEN 0 ELSE plain[k - 1])
<1>1. PICK g : SumsUp(g, Weight, Top)
  BY SumsExist, HatchAssumption
<1>2. \E h : h = [k \in Rank |-> Weight[k] + (IF k = 0 THEN 0 ELSE h[k - 1])]
  BY <1>1 DEF SumsUp
<1>3. plain = [k \in Rank |-> Weight[k] + (IF k = 0 THEN 0 ELSE plain[k - 1])]
  BY <1>2 DEF plain
<1> QED BY <1>3

LEMMA SlopeSums ==
    \A k \in Rank : slope[k] = Weight[k] * k + (IF k = 0 THEN 0 ELSE slope[k - 1])
<1> DEFINE w == [k \in Rank |-> Weight[k] * k]
<1>1. PICK g : SumsUp(g, w, Top)
  BY SumsExist, HatchAssumption
<1>2. g = [k \in Rank |-> Weight[k] * k + (IF k = 0 THEN 0 ELSE g[k - 1])]
  <2>1. g = [k \in Rank |-> w[k] + (IF k = 0 THEN 0 ELSE g[k - 1])]
    BY <1>1 DEF SumsUp
  <2> QED BY <2>1
<1>3. slope = [k \in Rank |-> Weight[k] * k + (IF k = 0 THEN 0 ELSE slope[k - 1])]
  BY <1>2 DEF slope
<1> QED BY <1>3

LEMMA TimesMonotone ==
    ASSUME NEW a \in Int, NEW b \in Int, NEW c \in Nat, a <= b
    PROVE  a * c <= b * c
<1>1. PICK d \in Nat : b = a + d
  <2>1. b - a \in Nat /\ b = a + (b - a)
    OBVIOUS
  <2> QED BY <2>1
<1>2. b * c = a * c + d * c /\ d * c >= 0
  BY <1>1
<1>3. a * c \in Int /\ d * c \in Int
  BY <1>1
<1> QED BY <1>2, <1>3

\* The weights add up to something, and the average tier of the first k + 1 is
\* at most k.
LEMMA SumsType ==
    \A k \in Rank : /\ plain[k] \in Nat \ {0} /\ slope[k] \in Nat
                    /\ slope[k] <= plain[k] * k
<1> DEFINE Bad == {k \in Rank : ~ (/\ plain[k] \in Nat \ {0} /\ slope[k] \in Nat
                                   /\ slope[k] <= plain[k] * k)}
<1>1. ASSUME Bad # {} PROVE FALSE
  <2>1. PICK m \in Bad : \A j \in Bad : m <= j
    <3>1. Bad \in SUBSET Nat
      BY HatchAssumption
    <3> HIDE DEF Bad
    <3> QED BY <1>1, <3>1, LeastElement
  <2>2. /\ m \in Nat /\ m \in Rank
        /\ ~ (/\ plain[m] \in Nat \ {0} /\ slope[m] \in Nat /\ slope[m] <= plain[m] * m)
    BY <2>1, HatchAssumption
  <2>w. PICK w \in Nat \ {0} : w = Weight[m]
    BY <2>2, HatchAssumption
  <2>3. CASE m = 0
    BY <2>2, <2>w, <2>3, PlainSums, SlopeSums
  <2>4. CASE m # 0
    <3>1. m - 1 \in Rank /\ m - 1 \notin Bad
      BY <2>1, <2>2, <2>4, HatchAssumption
    <3>2. PICK p \in Nat \ {0}, s \in Nat :
             p = plain[m - 1] /\ s = slope[m - 1] /\ s <= p * (m - 1)
      BY <3>1
    <3>3. plain[m] = w + p /\ slope[m] = w * m + s
      BY <2>2, <2>w, <2>4, <3>2, PlainSums, SlopeSums
    <3>4. (w + p) * m = w * m + p * m /\ p * (m - 1) = p * m - p
      BY <2>2
    <3>5. w * m \in Nat /\ p * m \in Nat
      BY <2>2
    <3> QED BY <2>2, <3>2, <3>3, <3>4, <3>5
  <2> QED BY <2>3, <2>4
<1> QED BY <1>1

\* The average tier of the first j + 1 grows with j.
LEMMA AverageGrows ==
    ASSUME NEW k \in Rank
    PROVE  \A j \in k..Top : slope[k] * plain[j] <= plain[k] * slope[j]
<1> DEFINE Bad == {j \in k..Top : ~ (slope[k] * plain[j] <= plain[k] * slope[j])}
<1>0. k \in Nat /\ Top \in Nat
  BY HatchAssumption
<1>k. PICK pk \in Nat \ {0}, sk \in Nat : pk = plain[k] /\ sk = slope[k] /\ sk <= pk * k
  BY SumsType
<1>1. ASSUME Bad # {} PROVE FALSE
  <2>1. PICK m \in Bad : \A j \in Bad : m <= j
    <3>1. Bad \in SUBSET Nat
      BY <1>0
    <3> HIDE DEF Bad
    <3> QED BY <1>1, <3>1, LeastElement
  <2>2. m \in Nat /\ m \in k..Top /\ ~ (sk * plain[m] <= pk * slope[m])
    BY <1>0, <1>k, <2>1
  <2>3. CASE m = k
    <3>1. sk * pk = pk * sk /\ sk * pk \in Int
      OBVIOUS
    <3> QED BY <1>k, <2>2, <2>3, <3>1
  <2>4. CASE m # k
    <3>1. m - 1 \in k..Top /\ m - 1 \notin Bad /\ m - 1 \in Rank /\ m \in Rank /\ m # 0
      BY <1>0, <2>1, <2>2, <2>4
    <3>2. PICK p \in Nat \ {0}, s \in Nat : p = plain[m - 1] /\ s = slope[m - 1]
      BY <3>1, SumsType
    <3>3. sk * p <= pk * s
      BY <1>k, <3>1, <3>2
    <3>4. PICK w \in Nat \ {0} : w = Weight[m]
      BY <3>1, HatchAssumption
    <3>5. plain[m] = w + p /\ slope[m] = w * m + s
      BY <3>1, <3>2, <3>4, PlainSums, SlopeSums
    <3>6. sk <= pk * m
      <4>1. k * pk <= m * pk
        BY <1>0, <2>2, TimesMonotone
      <4>2. k * pk = pk * k /\ m * pk = pk * m /\ pk * k \in Int /\ pk * m \in Int
        BY <1>0, <2>2
      <4> QED BY <1>k, <4>1, <4>2
    <3>7. sk * w <= (pk * m) * w
      <4>1. pk * m \in Int
        BY <2>2
      <4> QED BY <3>6, <4>1, TimesMonotone
    <3>8. sk * (w + p) = sk * w + sk * p /\ pk * (w * m + s) = (pk * m) * w + pk * s
      BY <2>2
    <3>9. sk * w \in Int /\ sk * p \in Int /\ (pk * m) * w \in Int /\ pk * s \in Int
      BY <2>2
    <3> QED BY <2>2, <3>3, <3>5, <3>7, <3>8, <3>9
  <2> QED BY <2>3, <2>4
<1> QED BY <1>1

-----------------------------------------------------------------------------
(***************************************************************************)
(* Tending.  More luck never makes a roll worse: it moves weight from the  *)
(* first tiers to the last, at every tier at once.                         *)
(***************************************************************************)

\* A common factor that is positive cancels.
LEMMA Cancel ==
    ASSUME NEW a \in Int, NEW b \in Int, NEW c \in Nat \ {0}, a * c < b * c
    PROVE  a < b
<1>1. CASE b <= a
  <2>1. b * c <= a * c
    BY <1>1, TimesMonotone
  <2>2. b * c \in Int /\ a * c \in Int
    OBVIOUS
  <2> QED BY <2>1, <2>2
<1> QED BY <1>1

LEMMA LiftedType ==
    ASSUME NEW k \in Rank, NEW l \in Nat
    PROVE  lifted(k, l) \in Nat \ {0}
<1>1. PICK p \in Nat \ {0}, s \in Nat : p = plain[k] /\ s = slope[k]
  BY SumsType
<1>2. PICK t \in Nat \ {0} : t = 1500 * Top
  BY HatchAssumption
<1>3. t * p \in Nat \ {0} /\ l * s \in Nat
  <2>1. 1 * p <= t * p
    BY TimesMonotone
  <2>2. t * p \in Int /\ l * s \in Nat
    OBVIOUS
  <2> QED BY <2>1, <2>2
<1> QED BY <1>1, <1>2, <1>3 DEF lifted

\* The share of the tiers up to k in all the weights falls as luck rises.
LEMMA ShareFalls ==
    ASSUME NEW k \in Rank, NEW l \in Nat, NEW m \in Nat, l <= m
    PROVE  lifted(k, m) * lifted(Top, l) <= lifted(k, l) * lifted(Top, m)
<1>0. Top \in Rank /\ Top \in k..Top
  BY HatchAssumption
<1>1. PICK p \in Nat, s \in Nat : p = plain[k] /\ s = slope[k]
  BY SumsType
<1>2. PICK P \in Nat, S \in Nat : P = plain[Top] /\ S = slope[Top]
  BY <1>0, SumsType
<1>3. PICK t \in Nat : t = 1500 * Top
  BY HatchAssumption
<1>4. s * P <= p * S
  BY <1>0, <1>1, <1>2, AverageGrows
<1>5. PICK d \in Nat : m = l + d
  <2>1. m - l \in Nat /\ m = l + (m - l)
    OBVIOUS
  <2> QED BY <2>1
<1>6. PICK A \in Int, B \in Int : A = t * p + l * s /\ B = t * P + l * S
  OBVIOUS
<1>7. t * p + m * s = A + d * s /\ t * P + m * S = B + d * S
  BY <1>5, <1>6
<1>8. (A + d * s) * B = A * B + (d * s) * B /\ A * (B + d * S) = A * B + A * (d * S)
  OBVIOUS
<1>9. (d * s) * B <= A * (d * S)
  <2>1. (d * s) * B = (s * P) * (d * t) + d * s * l * S
    BY <1>6
  <2>2. A * (d * S) = (p * S) * (d * t) + d * s * l * S
    BY <1>6
  <2>3. d * t \in Nat /\ s * P \in Int /\ p * S \in Int
    OBVIOUS
  <2>4. (s * P) * (d * t) <= (p * S) * (d * t)
    BY <1>4, <2>3, TimesMonotone
  <2>5. d * s * l * S \in Int /\ (s * P) * (d * t) \in Int /\ (p * S) * (d * t) \in Int
    OBVIOUS
  <2> QED BY <2>1, <2>2, <2>4, <2>5
<1>10. A * B \in Int /\ (d * s) * B \in Int /\ A * (d * S) \in Int
  OBVIOUS
<1>11. (A + d * s) * B <= A * (B + d * S)
  BY <1>8, <1>9, <1>10
<1> QED BY <1>1, <1>2, <1>3, <1>6, <1>7, <1>11 DEF lifted

\* A tier that uses up a draw with more luck uses it up with less.
LEMMA UsedUp ==
    ASSUME NEW k \in Rank, NEW l \in Nat, NEW m \in Nat, l <= m, NEW draw \in Nat,
           draw * lifted(Top, m) < Draws * lifted(k, m)
    PROVE  draw * lifted(Top, l) < Draws * lifted(k, l)
<1>0. Top \in Rank
  BY HatchAssumption
<1>1. PICK K \in Nat \ {0}, T \in Nat \ {0}, K2 \in Nat \ {0}, T2 \in Nat \ {0}, D \in Nat :
         /\ K = lifted(k, l) /\ T = lifted(Top, l)
         /\ K2 = lifted(k, m) /\ T2 = lifted(Top, m) /\ D = Draws
  BY <1>0, LiftedType, HatchAssumption
<1>2. K2 * T <= K * T2 /\ draw * T2 < D * K2
  BY <1>1, ShareFalls
<1>3. (draw * T2) * T < (D * K2) * T
  <2>1. (draw * T2 + 1) * T <= (D * K2) * T
    <3>1. draw * T2 + 1 \in Int /\ D * K2 \in Int /\ draw * T2 \in Int
      OBVIOUS
    <3> QED BY <1>2, <3>1, TimesMonotone
  <2>2. (draw * T2 + 1) * T = (draw * T2) * T + T
    OBVIOUS
  <2>3. (draw * T2) * T \in Int /\ (D * K2) * T \in Int
    OBVIOUS
  <2> QED BY <2>1, <2>2, <2>3
<1>4. (K2 * T) * D <= (K * T2) * D
  <2>1. K2 * T \in Int /\ K * T2 \in Int
    OBVIOUS
  <2> QED BY <1>2, <2>1, TimesMonotone
<1>5. /\ (draw * T2) * T = (draw * T) * T2
      /\ (D * K2) * T = (K2 * T) * D
      /\ (K * T2) * D = (D * K) * T2
  OBVIOUS
<1>6. (draw * T) * T2 < (D * K) * T2
  <2>1. (draw * T) * T2 \in Int /\ (D * K) * T2 \in Int /\ (K2 * T) * D \in Int
    OBVIOUS
  <2> QED BY <1>3, <1>4, <1>5, <2>1
<1>7. draw * T < D * K
  <2>1. draw * T \in Int /\ D * K \in Int
    OBVIOUS
  <2> QED BY <1>6, <2>1, Cancel
<1> QED BY <1>1, <1>7

LEMMA MoreLuck ==
    ASSUME NEW draw \in Nat, NEW l \in Nat, NEW m \in Nat, l <= m
    PROVE  rollRarity(draw, l) <= rollRarity(draw, m)
<1> DEFINE Used(n) == {k \in Rank : draw * lifted(Top, n) < Draws * lifted(k, n)}
           Least(S) == CHOOSE k \in S : \A j \in S : k <= j
<1>1. \A n : rollRarity(draw, n) = IF Used(n) = {} THEN Top ELSE Least(Used(n))
  BY DEF rollRarity
<1>2. Used(m) \subseteq Used(l) /\ Used(l) \subseteq Rank
  BY UsedUp
<1>3. ASSUME NEW S \in SUBSET Rank, S # {}
      PROVE  Least(S) \in S /\ \A j \in S : Least(S) <= j
  <2>1. S \in SUBSET Nat
    BY HatchAssumption
  <2>2. \E k \in S : \A j \in S : k <= j
    BY <1>3, <2>1, LeastElement
  <2> QED BY <2>2
<1> HIDE DEF Used, Least
<1>4. CASE Used(l) = {}
  <2>1. Used(m) = {}
    BY <1>2, <1>4
  <2> QED BY <1>1, <1>4, <2>1, HatchAssumption
<1>5. CASE Used(l) # {} /\ Used(m) = {}
  BY <1>1, <1>2, <1>3, <1>5, HatchAssumption
<1>6. CASE Used(l) # {} /\ Used(m) # {}
  <2>1. Least(Used(m)) \in Used(m)
    BY <1>2, <1>3, <1>6
  <2>2. \A j \in Used(l) : Least(Used(l)) <= j
    BY <1>2, <1>3, <1>6
  <2>3. Least(Used(l)) <= Least(Used(m))
    BY <1>2, <2>1, <2>2
  <2> QED BY <1>1, <1>6, <2>3
<1> QED BY <1>4, <1>5, <1>6

\* What a plant would hatch into is no worse when it was watered more often and
\* the garden is in better bloom.
LEMMA CarePays ==
    ASSUME NEW p \in Planting, NEW q \in Planting, NEW b \in Nat, NEW c \in Nat,
           q.draw = p.draw, q.bloom = p.bloom, p.watered <= q.watered, b <= c
    PROVE  Rolled(p, b) <= Rolled(q, c)
<1>1. /\ p.draw \in Nat /\ q.watered \in 0..3 /\ p.watered \in 0..3
      /\ p.bloom \in Nat
  BY HatchAssumption DEF Planting
<1>2. care(p, b) \in Nat /\ care(q, c) \in Nat /\ care(p, b) <= care(q, c)
  BY <1>1 DEF care, MinOf
<1>3. luck(p, b) \in Nat /\ luck(q, c) \in Nat /\ luck(p, b) <= luck(q, c)
  BY <1>1, <1>2 DEF luck
<1> QED BY <1>1, <1>3, MoreLuck DEF Rolled

\* The same plant, at most watered or older.
Later(q, p) ==
    /\ q.draw = p.draw /\ q.bloom = p.bloom
    /\ p.watered <= q.watered /\ q.left <= p.left

LEMMA ShavedLess ==
    ASSUME NEW n \in Nat
    PROVE  shaved(n) <= n
BY DEF shaved

\* While a plant grows, it is only watered and only grows older, and the bloom
\* of the garden does not fall.
LEMMA GrowingStep ==
    ASSUME TypeOK, TypeOK', Next, NEW i \in Plot, Grows(i)
    PROVE  Later(plots'[i], plots[i]) /\ bloom <= bloom'
<1>0. /\ plots[i] \in Planting /\ plots[i] # Nothing /\ plots'[i] # Nothing
      /\ bloom \in Nat /\ bloom <= FullBloom /\ FullBloom \in Nat
      /\ plots \in [Plot -> Planting \cup {Nothing}]
  BY HatchAssumption DEF TypeOK, Grows
<1>1. /\ plots[i].left \in Nat /\ plots[i].watered \in Nat
  BY <1>0 DEF Planting
<1>s. ASSUME plots'[i] = plots[i]
      PROVE  Later(plots'[i], plots[i])
  BY <1>1, <1>s DEF Later
<1>2. ASSUME NEW o \in Plot, Plant(o)
      PROVE  Later(plots'[i], plots[i]) /\ bloom <= bloom'
  <2>1. plots'[i] = plots[i] /\ bloom' = bloom
    BY <1>0, <1>2 DEF Plant
  <2> QED BY <1>0, <1>s, <2>1
<1>3. ASSUME NEW o \in Plot, Water(o)
      PROVE  Later(plots'[i], plots[i]) /\ bloom <= bloom'
  <2>1. /\ plots' = [plots EXCEPT ![o] =
                       [plots[o] EXCEPT !.watered = @ + 1, !.left = shaved(@)]]
        /\ bloom' = bloom
    BY <1>3 DEF Water
  <2>2. CASE o = i
    <3>1. plots'[i] = [plots[i] EXCEPT !.watered = @ + 1, !.left = shaved(@)]
      BY <1>0, <2>1, <2>2
    <3>2. PICK p \in Planting, w \in Nat, n \in Nat :
             p = plots[i] /\ w = p.watered + 1 /\ n = shaved(p.left)
      BY <1>0, <1>1 DEF shaved
    <3>3. PICK r : r = [p EXCEPT !.watered = w]
      OBVIOUS
    <3>4. r = [left |-> p.left, watered |-> w, draw |-> p.draw, bloom |-> p.bloom]
      BY <3>3 DEF Planting
    <3>5. plots'[i] = [r EXCEPT !.left = n]
      BY <3>1, <3>2, <3>3
    <3>6. /\ plots'[i].draw = p.draw /\ plots'[i].bloom = p.bloom
          /\ plots'[i].watered = w /\ plots'[i].left = n
      BY <3>4, <3>5
    <3>7. n <= p.left
      BY <1>1, <3>2, ShavedLess
    <3> QED BY <1>0, <1>1, <2>1, <3>2, <3>6, <3>7 DEF Later
  <2>3. CASE o # i
    <3>1. plots'[i] = plots[i]
      BY <1>0, <2>1, <2>3
    <3> QED BY <1>0, <1>s, <2>1, <3>1
  <2> QED BY <2>2, <2>3
<1>4. ASSUME NEW o \in Plot, Harvest(o)
      PROVE  Later(plots'[i], plots[i]) /\ bloom <= bloom'
  <2>1. plots' = [plots EXCEPT ![o] = Nothing] /\ bloom' = tended(bloom)
    BY <1>4 DEF Harvest
  <2>2. plots'[i] = plots[i]
    BY <1>0, <2>1
  <2>3. bloom <= bloom'
    BY <1>0, <2>1 DEF tended, MinOf
  <2> QED BY <1>s, <2>2, <2>3
<1>5. ASSUME Breed
      PROVE  Later(plots'[i], plots[i]) /\ bloom <= bloom'
  <2>1. plots' = plots /\ bloom' = bloom
    BY <1>5 DEF Breed
  <2> QED BY <1>0, <1>s, <2>1
<1>6. ASSUME Tick
      PROVE  Later(plots'[i], plots[i]) /\ bloom <= bloom'
  <2>1. /\ bloom' = bloom
        /\ plots'[i] = IF plots[i] # Nothing /\ plots[i].left > 0
                       THEN [plots[i] EXCEPT !.left = @ - 1] ELSE plots[i]
    BY <1>6 DEF Tick
  <2>2. PICK p \in Planting : p = plots[i]
    BY <1>0
  <2>3. CASE plots[i].left > 0
    <3>1. plots'[i] = [p EXCEPT !.left = p.left - 1]
      BY <1>0, <2>1, <2>2, <2>3
    <3>2. /\ plots'[i].draw = p.draw /\ plots'[i].bloom = p.bloom
          /\ plots'[i].watered = p.watered /\ plots'[i].left = p.left - 1
      BY <3>1 DEF Planting
    <3> QED BY <1>0, <1>1, <2>1, <2>2, <3>2 DEF Later
  <2>4. CASE ~ (plots[i].left > 0)
    BY <1>0, <1>s, <2>1, <2>4
  <2> QED BY <2>3, <2>4
<1> QED BY <1>2, <1>3, <1>4, <1>5, <1>6 DEF Next

\* Whatever the weights, the draws and the time a seed takes: what is planted
\* never gets worse while it grows, and nothing delays its harvest.
THEOREM TendingIsWorthIt == Spec => TendingPays
<1>1. ASSUME TypeOK, [Next]_vars
      PROVE  [\A i \in Plot : Grows(i) =>
                /\ Rolled(plots'[i], bloom') >= Rolled(plots[i], bloom)
                /\ plots'[i].left <= plots[i].left]_vars
  <2>1. CASE UNCHANGED vars
    BY <2>1
  <2>2. ASSUME Next, NEW i \in Plot, Grows(i)
        PROVE  /\ Rolled(plots'[i], bloom') >= Rolled(plots[i], bloom)
               /\ plots'[i].left <= plots[i].left
    <3>1. Later(plots'[i], plots[i]) /\ bloom <= bloom'
      BY <1>1, <2>2, TypeOKStep, GrowingStep
    <3>t. /\ plots[i] \in Planting /\ plots'[i] \in Planting
          /\ bloom \in Nat /\ bloom' \in Nat
      <4>1. TypeOK /\ TypeOK'
        BY <1>1, TypeOKStep
      <4> QED BY <2>2, <4>1, HatchAssumption DEF TypeOK, Grows
    <3>2. PICK p \in Planting, q \in Planting, b \in Nat, c \in Nat :
             p = plots[i] /\ q = plots'[i] /\ b = bloom /\ c = bloom'
      BY <3>t
    <3>3. Rolled(p, b) <= Rolled(q, c)
      BY <3>1, <3>2, CarePays DEF Later
    <3>4. Rolled(p, b) \in Int /\ Rolled(q, c) \in Int
      BY RolledType, HatchAssumption
    <3> QED BY <3>1, <3>2, <3>3, <3>4 DEF Later
  <2> QED BY <1>1, <2>1, <2>2
<1> QED BY <1>1, TypeOKInit, TypeOKStep, PTL DEF Spec, TendingPays

=============================================================================
