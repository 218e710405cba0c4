--------------------------- MODULE ProgressProofs ---------------------------
(***************************************************************************)
(* Theorems about Track and Keeper, the levels and what a player is paid,  *)
(* and about Calendar, the days, for every value of their constants.       *)
(***************************************************************************)
EXTENDS Keeper, Calendar, FiniteSums

USE TrackAssumption DEF pass, dex

\* What the history says of the lists of claims.
Booked ==
    /\ \A r \in Reward : paid[r] = IF r \in claimed THEN 1 ELSE 0
    /\ \A k \in Milestone : dexPaid[k] = IF k \in dexClaimed THEN 1 ELSE 0

TrackInv == TypeOK /\ Booked /\ UnlocksAgree

\* There is XP to earn before the second level.
LEMMA LevelsAreEarned ==
    ASSUME NEW n \in Nat \ {0, 1}
    PROVE  xpForLevel(n) \in Nat /\ xpForLevel(n) > 0
<1> DEFINE m == n - 1
<1>1. m \in Nat /\ m > 0
  OBVIOUS
<1>2. m * m \in Nat /\ m * m > 0
  BY <1>1
<1>3. xpForLevel(n) = 40 * (m * m) + 40 * m
  BY DEF xpForLevel
<1> QED BY <1>1, <1>2, <1>3

LEMMA TrackInit == Init => TrackInv
<1> SUFFICES ASSUME Init PROVE TrackInv
  OBVIOUS
<1>1. Booked
  BY DEF Init, Booked
<1>2. UnlocksAgree
  BY LevelsAreEarned DEF Init, UnlocksAgree, reaches
<1>3. TypeOK
  <2>1. owned \in [Species -> Nat]
    <3>1. PICK s, t \in Species :
             owned = [u \in Species |-> (IF u = s THEN 1 ELSE 0) + (IF u = t THEN 1 ELSE 0)]
      BY DEF Init
    <3> QED BY <3>1
  <2>2. paid \in [Reward -> Nat] /\ dexPaid \in [Milestone -> Nat]
    BY DEF Init
  <2> QED BY <2>1, <2>2 DEF Init, TypeOK
<1> QED BY <1>1, <1>2, <1>3 DEF TrackInv

\* A step from one XP to another crosses the levels between them.
LEMMA CrossedLevels ==
    ASSUME NEW x \in Nat, NEW gain \in Nat
    PROVE  {f \in Feature : reaches(x, LevelOf[f])} \cup crossed(x, gain)
             = {f \in Feature : reaches(x + gain, LevelOf[f])}
<1>1. ASSUME NEW f \in Feature, reaches(x, LevelOf[f]) PROVE reaches(x + gain, LevelOf[f])
  <2>1. LevelOf[f] \in Nat \ {0, 1}
    OBVIOUS
  <2>2. xpForLevel(LevelOf[f]) \in Nat
    BY <2>1, LevelsAreEarned
  <2> QED BY <1>1, <2>2 DEF reaches
<1> QED BY <1>1, Zenon DEF crossed

\* The gains of a hatch keep the features in step with the XP.
LEMMA ProgressKeeps ==
    ASSUME TrackInv, NEW gain \in Nat, NEW s \in Species, Gets(s), Progress(gain)
    PROVE  TrackInv'
<1> USE DEF TrackInv, Progress
<1>1. TypeOK'
  <2>1. xp' \in Nat /\ passXp' \in Nat
    BY DEF TypeOK
  <2>2. unlocks' \subseteq Feature
    BY DEF TypeOK, crossed
  <2>3. owned' \in [Species -> Nat]
    BY DEF TypeOK, Gets
  <2> QED BY <2>1, <2>2, <2>3 DEF TypeOK
<1>2. Booked'
  BY DEF Booked
<1>3. UnlocksAgree'
  <2>1. unlocks' = {f \in Feature : reaches(xp + gain, LevelOf[f])}
    <3>1. xp \in Nat /\ unlocks = {f \in Feature : reaches(xp, LevelOf[f])}
      BY DEF TypeOK, UnlocksAgree
    <3>2. {f \in Feature : reaches(xp, LevelOf[f])} \cup crossed(xp, gain)
            = {f \in Feature : reaches(xp + gain, LevelOf[f])}
      BY <3>1, CrossedLevels, Zenon
    <3> QED BY <3>1, <3>2
  <2>2. xp' = xp + gain
    OBVIOUS
  <2> QED BY <2>1, <2>2 DEF UnlocksAgree, reaches
<1> QED BY <1>1, <1>2, <1>3

LEMMA TrackStep == TrackInv /\ [Next]_vars => TrackInv'
<1> SUFFICES ASSUME TrackInv, [Next]_vars PROVE TrackInv'
  OBVIOUS
<1>1. CASE Harvest
  BY <1>1, ProgressKeeps DEF Harvest
<1>2. CASE Breed
  BY <1>2, ProgressKeeps DEF Breed
<1>3. CASE Trade
  <2>1. owned' \in [Species -> Nat]
    BY <1>3 DEF Trade, Gets, discovered, TrackInv, TypeOK
  <2> QED BY <1>3, <2>1 DEF Trade, TrackInv, TypeOK, Booked, UnlocksAgree
<1>4. ASSUME NEW tier \in 1..Tiers, NEW lane \in Lane, ClaimTier(tier, lane) PROVE TrackInv'
  <2> DEFINE r == <<tier, lane>>
  <2>1. r \in Reward /\ r \notin claimed
    BY <1>4 DEF ClaimTier, claimTier
  <2>2. claimed' = claimed \cup {r} /\ paid' = [paid EXCEPT ![r] = @ + 1]
    BY <1>4 DEF ClaimTier
  <2>3. UNCHANGED <<xp, unlocks, passXp, premium, owned, dexClaimed, dexPaid>>
    BY <1>4 DEF ClaimTier
  <2> HIDE DEF r
  <2>4. TypeOK'
    BY <2>1, <2>2, <2>3 DEF TrackInv, TypeOK
  <2>5. Booked'
    BY <2>1, <2>2, <2>3 DEF TrackInv, TypeOK, Booked
  <2> QED BY <2>3, <2>4, <2>5 DEF TrackInv, UnlocksAgree
<1>5. CASE Upgrade
  BY <1>5 DEF Upgrade, upgradedClaims, TrackInv, TypeOK, Booked, UnlocksAgree
<1>6. CASE ClaimDex
  <2>1. /\ dexClaimed' = dexClaimed \cup claimableMilestones
        /\ dexPaid' = [k \in Milestone |-> IF k \in claimableMilestones THEN dexPaid[k] + 1 ELSE dexPaid[k]]
        /\ UNCHANGED <<xp, unlocks, passXp, premium, claimed, paid, owned>>
    BY <1>6 DEF ClaimDex
  <2>2. claimableMilestones \subseteq Milestone \ dexClaimed
    BY DEF claimableMilestones, milestonesReached
  <2>3. TypeOK'
    BY <2>1, <2>2 DEF TrackInv, TypeOK
  <2>4. Booked'
    BY <2>1, <2>2 DEF TrackInv, TypeOK, Booked
  <2> QED BY <2>1, <2>3, <2>4 DEF TrackInv, UnlocksAgree
<1>7. CASE UNCHANGED vars
  BY <1>7 DEF vars, TrackInv, TypeOK, Booked, UnlocksAgree
<1> QED BY <1>1, <1>2, <1>3, <1>4, <1>5, <1>6, <1>7 DEF Next

\* The inductive invariant of Track: types, unlocks, and what is booked for a claim.
THEOREM TrackInvariant == Spec => []TrackInv
  BY TrackInit, TrackStep, PTL DEF Spec

\* Levels, claims and the collection keep their types.
THEOREM TrackTypeCorrect == Spec => []TypeOK
<1>1. TrackInv => TypeOK
  BY DEF TrackInv
<1> QED BY <1>1, TrackInvariant, PTL

\* player.unlocks, extended level by level, never differs from the level.
THEOREM UnlocksFollowLevels == Spec => []UnlocksAgree
<1>1. TrackInv => UnlocksAgree
  BY DEF TrackInv
<1> QED BY <1>1, TrackInvariant, PTL

\* A tier that is reached and owned was paid once or is listed.
LEMMA PaysOnce == TrackInv => PaidOrListed
<1> SUFFICES ASSUME TrackInv, NEW r \in Reward,
                    tierFromXp(passXp) >= r[1], r[2] = "premium" => premium
             PROVE  paid[r] + (IF r \in claimableTiers THEN 1 ELSE 0) = 1
  BY DEF PaidOrListed
<1>1. r[1] \in 1..Tiers /\ r[2] \in Lane
  OBVIOUS
<1>2. tierFromXp(passXp) \in Int
  BY DEF tierFromXp, MinOf, TrackInv, TypeOK
<1>3. r[1] <= tierFromXp(passXp)
  BY <1>1, <1>2
<1>4. r \in claimableTiers <=> r \notin claimed
  BY <1>1, <1>3 DEF claimableTiers, Lane
<1> QED BY <1>4 DEF TrackInv, Booked

\* claimableTiers goes through the lanes one by one, claimTier asks for one
\* tier of one lane: they agree.
LEMMA ListedIsClaimable ==
    ASSUME TrackInv
    PROVE  claimableTiers = {r \in Reward : claimTier(r[1], r[2])}
<1>1. ASSUME NEW r \in Reward
      PROVE  r \in claimableTiers <=> claimTier(r[1], r[2])
  <2>1. /\ r[1] \in 1..Tiers /\ r[2] \in {"free", "premium"}
        /\ r = <<r[1], r[2]>>
    BY DEF Lane
  <2>2. tierFromXp(passXp) \in Int
    BY DEF tierFromXp, MinOf, TrackInv, TypeOK
  <2>3. r[1] <= tierFromXp(passXp) <=> tierFromXp(passXp) >= r[1]
    BY <2>1, <2>2
  <2>4. claimTier(r[1], r[2]) <=>
          r[1] <= tierFromXp(passXp) /\ (r[2] = "premium" => premium) /\ r \notin claimed
    BY <2>1, <2>3 DEF claimTier
  <2> QED BY <2>1, <2>4 DEF claimableTiers
<1>2. claimableTiers \subseteq Reward
  BY DEF claimableTiers
<1> QED BY <1>1, <1>2

\* The tiers of the Bloom Pass never lapse and never pay twice, also when the
\* premium lane is bought after they were reached, and the list of them that
\* the player is shown is the one that can be claimed.
THEOREM PassPaysOnce == Spec => []ListIsHonest
<1>1. TrackInv => ListIsHonest
  BY PaysOnce, ListedIsClaimable DEF ListIsHonest
<1> QED BY <1>1, TrackInvariant, PTL

\* A milestone of the Bloomdex pays once.
THEOREM DexPaysOnce == Spec => []MilestonePaysOnce
<1>1. TrackInv => MilestonePaysOnce
  BY DEF TrackInv, Booked, MilestonePaysOnce
<1> QED BY <1>1, TrackInvariant, PTL

-----------------------------------------------------------------------------

\* The wallet adds conditions and no steps: with payments and prices, progress
\* goes on as Track says it may.
THEOREM KeeperImplementsTrack == KeeperSpec => Spec
<1>1. KeeperInit => Init
  BY DEF KeeperInit
<1>2. [KeeperNext]_keeperVars => [Next]_vars
  <2> SUFFICES ASSUME [KeeperNext]_keeperVars PROVE [Next]_vars
    OBVIOUS
  <2>1. CASE Harvests
    BY <2>1 DEF Harvests, Next
  <2>2. CASE Breeds
    BY <2>2 DEF Breeds, Next
  <2>3. CASE Trades
    BY <2>3 DEF Trades, Next
  <2>4. CASE Upgrades
    BY <2>4 DEF Upgrades, Next
  <2>5. CASE ClaimsDex
    BY <2>5 DEF ClaimsDex, Next
  <2>6. CASE Buys
    BY <2>6 DEF Buys
  <2>7. CASE Earns
    BY <2>7 DEF Earns
  <2>8. ASSUME NEW tier \in 1..Tiers, NEW lane \in Lane, ClaimsTier(tier, lane)
        PROVE  Next
    BY <2>8 DEF ClaimsTier, Next
  <2>9. CASE UNCHANGED keeperVars
    BY <2>9 DEF keeperVars
  <2> QED BY <2>1, <2>2, <2>3, <2>4, <2>5, <2>6, <2>7, <2>8, <2>9 DEF KeeperNext
<1> QED BY <1>1, <1>2, PTL DEF KeeperSpec, Spec

\* What is promised of progress holds of the player who pays and is paid.
THEOREM KeeperIsPaidOnce ==
    KeeperSpec => [](UnlocksAgree /\ ListIsHonest /\ MilestonePaysOnce)
  BY KeeperImplementsTrack, UnlocksFollowLevels, PassPaysOnce, DexPaysOnce, PTL

-----------------------------------------------------------------------------
(***************************************************************************)
(* Milestones pay rewards.                                                 *)
(***************************************************************************)

\* A sum of rewards is a reward.
LEMMA BothType ==
    ASSUME NEW K \in SUBSET Milestone
    PROVE  Both(K) \in S!Balance
<1>1. IsFiniteSet(K)
  <2>1. PICK n \in Int : n = 100
    OBVIOUS
  <2>2. IsFiniteSet(1..n)
    BY FS_Interval
  <2>3. K \in SUBSET (1..n)
    BY <2>1
  <2> QED BY <2>2, <2>3, FS_Subset
<1>2. ASSUME NEW c \in S!Currency
      PROVE  MapThenSumSet(LAMBDA k : dexReward[k][c], K) \in Nat
  <2> DEFINE f == [k \in K |-> dexReward[k][c]]
             Step(h) == [s \in SUBSET K |->
                           IF s = {} THEN 0
                           ELSE dexReward[CHOOSE x \in s : TRUE][c] + h[s \ {CHOOSE x \in s : TRUE}]]
             fold == CHOOSE h : h = Step(h)
  <2>1. MapThenSumSet(LAMBDA k : dexReward[k][c], K) = fold[K]
    BY DEF MapThenSumSet, MapThenFoldSet
  <2>2. ASSUME NEW h PROVE h = Step(h) <=> Solves(h, f, K)
    <3>1. \A s \in SUBSET K : s # {} => f[Pick(s)] = dexReward[CHOOSE x \in s : TRUE][c]
      <4>1. \A s \in SUBSET K : s # {} => Pick(s) \in K
        BY PickIsIn
      <4> QED BY <4>1 DEF Pick
    <3>2. Step(h) = [s \in SUBSET K |-> IF s = {} THEN 0 ELSE f[Pick(s)] + h[s \ {Pick(s)}]]
      <4> HIDE DEF f
      <4> QED BY <3>1 DEF Pick
    <3> QED BY <3>2 DEF Solves
  <2>3. Solves(fold, f, K)
    <3>1. \E h : h = Step(h)
      <4>1. PICK h : Solves(h, f, K)
        BY <1>1, Solvable
      <4> HIDE DEF Step
      <4> QED BY <2>2, <4>1
    <3> HIDE DEF Step
    <3>2. fold = Step(fold)
      BY <3>1
    <3> QED BY <2>2, <3>2
  <2>4. \A k \in K : f[k] \in Nat
    BY WalletAssumption DEF S!Balance
  <2> HIDE DEF f, Step, fold
  <2>5. SumOver(f, K) = fold[K]
    BY <1>1, <2>3, TotalSolves
  <2>6. SumOver(f, K) \in Nat
    BY <1>1, <2>4, TotalType
  <2> QED BY <2>1, <2>5, <2>6
<1> QED BY <1>2 DEF Both, S!Balance

-----------------------------------------------------------------------------

WalletInv == wallet \in S!Balance /\ sink \in S!Balance

\* A reward leaves a balance of natural numbers, and where it takes something
\* away, exactly the cap.
LEMMA GrantsKeep ==
    ASSUME WalletInv, NEW reward \in S!Balance, S!Grants(reward)
    PROVE  /\ WalletInv'
           /\ \A c \in S!Currency : wallet'[c] < wallet[c] => wallet'[c] = S!HardCap[c]
<1> DEFINE give(c) == IF reward[c] = 0 THEN 0 ELSE S!applied(wallet, c, reward[c])
<1>1. /\ wallet' = [c \in S!Currency |-> wallet[c] + give(c)]
      /\ sink' = sink
  BY DEF S!Grants, S!Credited, S!Plus, S!given
<1>2. ASSUME NEW c \in S!Currency
      PROVE  /\ wallet[c] + give(c) \in Nat
             /\ wallet[c] + give(c) < wallet[c] => wallet[c] + give(c) = S!HardCap[c]
  <2>1. wallet[c] \in Nat /\ reward[c] \in Nat /\ S!HardCap[c] \in Nat
    BY WalletAssumption DEF WalletInv, S!Balance, S!HardCap, S!CapAssumption
  <2> QED BY <2>1 DEF S!applied, S!Lesser
<1> HIDE DEF give
<1> QED BY <1>1, <1>2 DEF WalletInv, S!Balance

\* A purchase that charges nothing takes nothing.
LEMMA BuyKeeps ==
    ASSUME WalletInv, NEW i \in S!Item, S!Buy(i)
    PROVE  /\ WalletInv'
           /\ sink' = sink => wallet' = wallet
<1>1. /\ wallet' = [c \in S!Currency |-> wallet[c] + (- cost[i][c])]
      /\ sink' = [c \in S!Currency |-> sink[c] + cost[i][c]]
  BY DEF S!Buy, S!Plus, S!Minus, S!charged
<1>2. ASSUME NEW c \in S!Currency
      PROVE  /\ wallet[c] \in Nat /\ sink[c] \in Nat /\ cost[i][c] \in Nat
             /\ wallet[c] >= cost[i][c]
  BY WalletAssumption DEF WalletInv, S!Balance, S!Buy, S!canBuy
<1>3. WalletInv'
  BY <1>1, <1>2 DEF WalletInv, S!Balance
<1>4. ASSUME sink' = sink PROVE wallet' = wallet
  <2>1. \A c \in S!Currency : sink[c] + cost[i][c] = sink[c]
    BY <1>1, <1>4
  <2>2. \A c \in S!Currency : wallet[c] + (- cost[i][c]) = wallet[c]
    BY <1>2, <2>1
  <2> QED BY <1>1, <2>2 DEF WalletInv, S!Balance
<1> QED BY <1>3, <1>4

\* Petals received are added.
LEMMA ReceiveKeeps ==
    ASSUME WalletInv, NEW n \in Gifts, S!Receive(n)
    PROVE  /\ WalletInv'
           /\ \A c \in S!Currency : wallet'[c] >= wallet[c]
<1>1. /\ wallet' = [c \in S!Currency |-> wallet[c] + S!Petals(n)[c]]
      /\ sink' = sink
  BY DEF S!Receive, S!Credited, S!Plus
<1>2. n \in Nat
  BY KeeperAssumption
<1>3. ASSUME NEW c \in S!Currency PROVE S!Petals(n)[c] \in Nat /\ wallet[c] \in Nat
  BY <1>2 DEF S!Petals, WalletInv, S!Balance
<1> QED BY <1>1, <1>3 DEF WalletInv, S!Balance

\* What a step may do to the wallet.
Gives == \A c \in S!Currency :
            wallet'[c] < wallet[c] /\ sink' = sink => wallet'[c] = S!HardCap[c]

LEMMA WalletStep ==
    ASSUME WalletInv, [KeeperNext]_keeperVars
    PROVE  WalletInv' /\ Gives
<1>0. \A c \in S!Currency : wallet[c] \in Nat
  BY DEF WalletInv, S!Balance
<1>1. ASSUME UNCHANGED shop PROVE WalletInv' /\ Gives
  BY <1>0, <1>1 DEF shop, WalletInv, Gives
<1>2. ASSUME NEW reward \in S!Balance, S!Grants(reward) PROVE WalletInv' /\ Gives
  BY <1>2, GrantsKeep DEF Gives
<1>3. ASSUME NEW i \in S!Item, S!Buy(i) PROVE WalletInv' /\ Gives
  <2>1. WalletInv' /\ (sink' = sink => wallet' = wallet)
    BY <1>3, BuyKeeps
  <2> QED BY <1>0, <2>1 DEF Gives
<1>4. ASSUME NEW n \in Gifts, S!Receive(n) PROVE WalletInv' /\ Gives
  <2>1. WalletInv' /\ \A c \in S!Currency : wallet'[c] >= wallet[c]
    BY <1>4, ReceiveKeeps
  <2>2. \A c \in S!Currency : wallet'[c] \in Nat
    BY <2>1 DEF WalletInv, S!Balance
  <2> QED BY <1>0, <2>1, <2>2 DEF Gives
<1>5. CASE Harvests
  BY <1>1, <1>5 DEF Harvests
<1>6. CASE Breeds
  BY <1>3, <1>6 DEF Breeds, S!Item
<1>7. CASE Trades
  BY <1>1, <1>4, <1>7 DEF Trades
<1>8. CASE Upgrades
  BY <1>3, <1>8 DEF Upgrades, S!Item
<1>9. CASE ClaimsDex
  <2>1. Both(claimableMilestones) \in S!Balance
    BY BothType DEF claimableMilestones, milestonesReached
  <2> QED BY <1>2, <1>9, <2>1 DEF ClaimsDex
<1>10. CASE Buys
  BY <1>3, <1>10 DEF Buys, S!Item
<1>11. CASE Earns
  BY <1>2, <1>11, WalletAssumption DEF Earns
<1>12. ASSUME NEW tier \in 1..Tiers, NEW lane \in Lane, ClaimsTier(tier, lane)
       PROVE  WalletInv' /\ Gives
  <2>1. <<tier, lane>> \in Reward
    BY <1>12 DEF ClaimsTier, ClaimTier, claimTier
  <2>2. tierReward[<<tier, lane>>] \in S!Balance
    BY <2>1, WalletAssumption
  <2> QED BY <1>2, <1>12, <2>2 DEF ClaimsTier
<1>13. CASE UNCHANGED keeperVars
  BY <1>1, <1>13 DEF keeperVars
<1> QED
  BY <1>5, <1>6, <1>7, <1>8, <1>9, <1>10, <1>11, <1>12, <1>13 DEF KeeperNext

\* No reward, tier, milestone or gift takes away more than what exceeds a cap,
\* and only purchases charge.
THEOREM RewardsAreGiven == KeeperSpec => RewardsGive
<1>1. KeeperInit => WalletInv
  <2>1. S!NoEntries \in S!Balance
    BY DEF S!NoEntries, S!Balance
  <2> QED BY <2>1, WalletAssumption DEF KeeperInit, S!Init, WalletInv
<1>2. WalletInv /\ [KeeperNext]_keeperVars => WalletInv' /\ [Gives]_keeperVars
  BY WalletStep
<1> QED BY <1>1, <1>2, PTL DEF KeeperSpec, RewardsGive, Gives

-----------------------------------------------------------------------------
(***************************************************************************)
(* The report on sources and sinks.                                        *)
(***************************************************************************)
Entries(f, c) == [r \in S!Reason |-> f[r][c]]

LEMMA ReasonsAreFinite == IsFiniteSet(S!Reason)
<1>1. IsFiniteSet({"pass_premium"} \cup {"breed_ritual"} \cup {"reward"} \cup {"trade_petals_in"})
  BY FS_Singleton, FS_Union
<1>2. S!Reason = (Plant \cup Decor \cup Biome) \cup
                 ({"pass_premium"} \cup {"breed_ritual"} \cup {"reward"} \cup {"trade_petals_in"})
  BY DEF S!Reason, S!Item
<1> QED BY <1>1, <1>2, KeeperAssumption, FS_Union

\* The total of the report, a fold over the reasons, is a finite sum.
LEMMA ReportTotal ==
    ASSUME NEW f, NEW c \in S!Currency
    PROVE  S!SumOver(f, S!Reason, c) = SumOver(Entries(f, c), S!Reason)
<1> DEFINE R == S!Reason
           Step(h) == [s \in SUBSET R |->
                         IF s = {} THEN 0
                         ELSE f[CHOOSE x \in s : TRUE][c] + h[s \ {CHOOSE x \in s : TRUE}]]
           fold == CHOOSE h : h = Step(h)
<1>1. S!SumOver(f, R, c) = fold[R]
  BY DEF S!SumOver, S!FoldFunctionOnSet, S!MapThenFoldSet
<1>2. ASSUME NEW h PROVE h = Step(h) <=> Solves(h, Entries(f, c), R)
  <2>1. \A s \in SUBSET R : s # {} =>
           Entries(f, c)[Pick(s)] = f[CHOOSE x \in s : TRUE][c]
    <3>1. \A s \in SUBSET R : s # {} => Pick(s) \in S!Reason
      BY PickIsIn
    <3> QED BY <3>1 DEF Entries, Pick
  <2>2. Step(h) = [s \in SUBSET R |-> IF s = {} THEN 0
                                      ELSE Entries(f, c)[Pick(s)] + h[s \ {Pick(s)}]]
    <3> HIDE DEF R
    <3> QED BY <2>1 DEF Pick
  <2> QED BY <2>2 DEF Solves
<1>3. Solves(fold, Entries(f, c), R)
  <2>1. \E h : h = Step(h)
    <3>1. PICK h : Solves(h, Entries(f, c), R)
      BY ReasonsAreFinite, Solvable
    <3> HIDE DEF Step
    <3> QED BY <1>2, <3>1
  <2> HIDE DEF Step
  <2>2. fold = Step(fold)
    BY <2>1
  <2> QED BY <1>2, <2>2
<1> HIDE DEF Step, fold
<1>4. SumOver(Entries(f, c), R) = fold[R]
  BY <1>3, ReasonsAreFinite, TotalSolves
<1> QED BY <1>1, <1>4


\* An entry of the ledger changes the total as it says.
LEMMA EntryAdds ==
    ASSUME NEW f \in [S!Reason -> S!Sums], NEW r \in S!Reason, NEW delta \in S!Sums,
           NEW c \in S!Currency
    PROVE  S!SumOver([f EXCEPT ![r] = S!Plus(@, delta)], S!Reason, c)
             = S!SumOver(f, S!Reason, c) + delta[c]
<1> DEFINE g == [f EXCEPT ![r] = S!Plus(@, delta)]
<1>1. \A x \in S!Reason : f[x] \in S!Sums /\ f[x][c] \in Int
  BY DEF S!Sums
<1>2. delta[c] \in Int
  BY DEF S!Sums
<1>3. \A x \in S!Reason : g[x][c] = IF x = r THEN f[x][c] + delta[c] ELSE f[x][c]
  BY DEF S!Plus
<1> HIDE DEF g
<1>4. /\ \A x \in S!Reason : Entries(f, c)[x] = f[x][c]
      /\ \A x \in S!Reason : Entries(g, c)[x] = g[x][c]
  BY DEF Entries
<1>5. SumOver(Entries(g, c), S!Reason) = SumOver(Entries(f, c), S!Reason) + delta[c]
  <2>1. \A x \in S!Reason : Entries(f, c)[x] \in Int
    BY <1>1, <1>4
  <2>2. \A x \in S!Reason :
           Entries(g, c)[x] = IF x = r THEN Entries(f, c)[x] + delta[c] ELSE Entries(f, c)[x]
    BY <1>3, <1>4
  <2> QED BY <1>2, <2>1, <2>2, ReasonsAreFinite, TotalChange
<1> QED BY <1>5, ReportTotal DEF g

ReportType ==
    /\ source \in S!Sums
    /\ byReason \in [S!Reason -> S!Sums]
    /\ bought \in [S!Item -> Nat]

ReportInv == WalletInv /\ ReportType /\ ReportAddsUp

LEMMA ReportInit == KeeperInit => ReportInv
<1> SUFFICES ASSUME KeeperInit PROVE ReportInv
  OBVIOUS
<1>1. /\ wallet = Start /\ source = S!NoEntries /\ sink = S!NoEntries
      /\ byReason = [r \in S!Reason |-> S!NoEntries]
      /\ bought = [i \in S!Item |-> 0]
  BY DEF KeeperInit, S!Init
<1>2. S!NoEntries \in S!Sums /\ S!NoEntries \in S!Balance
      /\ \A c \in S!Currency : S!NoEntries[c] = 0
  BY DEF S!NoEntries, S!Sums, S!Balance
<1>3. WalletInv /\ ReportType
  BY <1>1, <1>2, WalletAssumption DEF WalletInv, ReportType
<1>4. ASSUME NEW c \in S!Currency
      PROVE  /\ wallet[c] = Start[c] + source[c] - sink[c] /\ wallet[c] >= 0
             /\ S!SumOver(byReason, S!Reason, c) = source[c] - sink[c]
             /\ \A i \in S!Item : byReason[i][c] = - bought[i] * cost[i][c]
  <2>1. Start[c] \in Nat /\ source[c] = 0 /\ sink[c] = 0
    BY <1>1, <1>2, WalletAssumption DEF S!Balance
  <2>2. \A r \in S!Reason : byReason[r][c] = 0
    BY <1>1, <1>2
  <2>3. SumOver(Entries(byReason, c), S!Reason) = 0
    <3>1. \A r \in S!Reason : Entries(byReason, c)[r] = 0
      BY <2>2 DEF Entries
    <3> QED BY <3>1, ReasonsAreFinite, TotalZero
  <2>4. ASSUME NEW i \in S!Item PROVE byReason[i][c] = - bought[i] * cost[i][c]
    <3>1. bought[i] = 0 /\ cost[i][c] \in Nat /\ i \in S!Reason
      BY <1>1, WalletAssumption DEF S!Balance, S!Reason
    <3> QED BY <2>2, <3>1
  <2> QED BY <1>1, <2>1, <2>3, <2>4, ReportTotal
<1> QED BY <1>3, <1>4 DEF ReportInv, ReportAddsUp, S!ReportAddsUp

\* What comes in adds to the wallet, to the sources and to its own reason.
LEMMA ComingIn ==
    ASSUME ReportInv, WalletInv', NEW r, r \in {"reward", "trade_petals_in"},
           NEW delta \in S!Sums, S!Credited(r, delta), source' = S!Plus(source, delta)
    PROVE  ReportInv'
<1>1. /\ wallet' = S!Plus(wallet, delta) /\ source' = S!Plus(source, delta)
      /\ byReason' = [byReason EXCEPT ![r] = S!Plus(@, delta)]
      /\ sink' = sink /\ bought' = bought
  BY DEF S!Credited
<1>2. r \in S!Reason /\ r \notin S!Item /\ delta \in S!Sums
  BY KeeperAssumption DEF S!Reason, S!Item
<1>3. /\ source \in S!Sums /\ byReason \in [S!Reason -> S!Sums] /\ bought \in [S!Item -> Nat]
      /\ wallet \in S!Balance /\ sink \in S!Balance
  BY DEF ReportInv, ReportType, WalletInv
<1>4. ReportType'
  <2>1. \A a \in S!Sums : S!Plus(a, delta) \in S!Sums
    BY DEF S!Sums, S!Plus
  <2> QED BY <1>1, <1>2, <1>3, <2>1 DEF ReportType
<1>5. ASSUME NEW c \in S!Currency
      PROVE  /\ wallet'[c] = Start[c] + source'[c] - sink'[c] /\ wallet'[c] >= 0
             /\ S!SumOver(byReason', S!Reason, c) = source'[c] - sink'[c]
             /\ \A i \in S!Item : byReason'[i][c] = - bought'[i] * cost[i][c]
  <2>1. /\ wallet[c] = Start[c] + source[c] - sink[c]
        /\ S!SumOver(byReason, S!Reason, c) = source[c] - sink[c]
        /\ \A i \in S!Item : byReason[i][c] = - bought[i] * cost[i][c]
    BY DEF ReportInv, ReportAddsUp, S!ReportAddsUp
  <2>2. wallet[c] \in Nat /\ Start[c] \in Nat /\ source[c] \in Int /\ sink[c] \in Nat
        /\ delta[c] \in Int
    BY <1>3, WalletAssumption DEF S!Balance, S!Sums
  <2>3. wallet'[c] = wallet[c] + delta[c] /\ source'[c] = source[c] + delta[c]
    BY <1>1 DEF S!Plus
  <2>4. wallet'[c] >= 0
    BY DEF WalletInv, S!Balance
  <2>5. S!SumOver(byReason', S!Reason, c) = S!SumOver(byReason, S!Reason, c) + delta[c]
    <3>1. PICK f \in [S!Reason -> S!Sums] : f = byReason
      BY <1>3
    <3>2. S!SumOver([f EXCEPT ![r] = S!Plus(@, delta)], S!Reason, c)
            = S!SumOver(f, S!Reason, c) + delta[c]
      BY <1>2, EntryAdds
    <3> QED BY <1>1, <3>1, <3>2
  <2>6. \A i \in S!Item : byReason'[i] = byReason[i]
    BY <1>1, <1>2, <1>3 DEF S!Reason
  <2> QED BY <1>1, <2>1, <2>2, <2>3, <2>4, <2>5, <2>6
<1> QED BY <1>4, <1>5 DEF ReportInv, ReportAddsUp, S!ReportAddsUp

\* A purchase takes from the wallet what it adds to the sinks and to its reason.
LEMMA GoingOut ==
    ASSUME ReportInv, WalletInv', NEW i \in S!Item, S!Buy(i)
    PROVE  ReportInv'
<1> DEFINE delta == S!Minus(cost[i])
<1>1. /\ wallet' = S!Plus(wallet, delta) /\ sink' = S!Plus(sink, cost[i])
      /\ byReason' = [byReason EXCEPT ![i] = S!Plus(@, delta)]
      /\ source' = source /\ bought' = [bought EXCEPT ![i] = @ + 1]
  BY DEF S!Buy, S!charged
<1>2. i \in S!Reason /\ cost[i] \in S!Balance /\ delta \in S!Sums
      /\ \A c \in S!Currency : delta[c] = - cost[i][c]
  BY WalletAssumption DEF S!Reason, S!Balance, S!Sums, S!Minus
<1> HIDE DEF delta
<1>3. /\ source \in S!Sums /\ byReason \in [S!Reason -> S!Sums] /\ bought \in [S!Item -> Nat]
      /\ wallet \in S!Balance /\ sink \in S!Balance
  BY DEF ReportInv, ReportType, WalletInv
<1>4. ReportType'
  <2>1. \A a \in S!Sums : S!Plus(a, delta) \in S!Sums
    BY <1>2 DEF S!Sums, S!Plus
  <2> QED BY <1>1, <1>2, <1>3, <2>1 DEF ReportType
<1>5. ASSUME NEW c \in S!Currency
      PROVE  /\ wallet'[c] = Start[c] + source'[c] - sink'[c] /\ wallet'[c] >= 0
             /\ S!SumOver(byReason', S!Reason, c) = source'[c] - sink'[c]
             /\ \A j \in S!Item : byReason'[j][c] = - bought'[j] * cost[j][c]
  <2>1. /\ wallet[c] = Start[c] + source[c] - sink[c]
        /\ S!SumOver(byReason, S!Reason, c) = source[c] - sink[c]
        /\ \A j \in S!Item : byReason[j][c] = - bought[j] * cost[j][c]
    BY DEF ReportInv, ReportAddsUp, S!ReportAddsUp
  <2>2. wallet[c] \in Nat /\ Start[c] \in Nat /\ source[c] \in Int /\ sink[c] \in Nat
        /\ cost[i][c] \in Nat /\ delta[c] = - cost[i][c]
    BY <1>2, <1>3, WalletAssumption DEF S!Balance, S!Sums
  <2>3. wallet'[c] = wallet[c] - cost[i][c] /\ sink'[c] = sink[c] + cost[i][c]
    BY <1>1, <2>2 DEF S!Plus
  <2>4. wallet'[c] >= 0
    BY DEF WalletInv, S!Balance
  <2>5. S!SumOver(byReason', S!Reason, c) = S!SumOver(byReason, S!Reason, c) + delta[c]
    BY <1>1, <1>2, <1>3, EntryAdds
  <2>6. ASSUME NEW j \in S!Item PROVE byReason'[j][c] = - bought'[j] * cost[j][c]
    <3>1. CASE j # i
      <4>1. byReason'[j] = byReason[j] /\ bought'[j] = bought[j]
        BY <1>1, <1>3, <3>1 DEF S!Reason
      <4> QED BY <2>1, <4>1
    <3>2. CASE j = i
      <4>1. PICK b \in Nat, k \in Nat : b = bought[i] /\ k = cost[i][c]
        BY <1>3, <2>2
      <4>2. byReason'[i][c] = byReason[i][c] - k /\ bought'[i] = b + 1
        <5>1. byReason'[i] = S!Plus(byReason[i], delta)
          BY <1>1, <1>2, <1>3
        <5>2. byReason'[i][c] = byReason[i][c] + delta[c]
          BY <5>1 DEF S!Plus
        <5>3. byReason[i][c] \in Int
          BY <1>2, <1>3 DEF S!Sums
        <5> QED BY <1>1, <1>3, <2>2, <4>1, <5>2, <5>3
      <4>3. byReason[i][c] = - b * k
        BY <2>1, <4>1
      <4>4. - b * k - k = - (b + 1) * k
        OBVIOUS
      <4> QED BY <3>2, <4>1, <4>2, <4>3, <4>4
    <3> QED BY <3>1, <3>2
  <2> QED BY <1>1, <2>1, <2>2, <2>3, <2>4, <2>5, <2>6
<1> QED BY <1>4, <1>5 DEF ReportInv, ReportAddsUp, S!ReportAddsUp

LEMMA ReportStep == ReportInv /\ [KeeperNext]_keeperVars => ReportInv'
<1> SUFFICES ASSUME ReportInv, [KeeperNext]_keeperVars PROVE ReportInv'
  OBVIOUS
<1>0. WalletInv'
  BY WalletStep DEF ReportInv
<1>1. ASSUME UNCHANGED shop PROVE ReportInv'
  BY <1>0, <1>1 DEF shop, ReportInv, ReportType, ReportAddsUp, S!ReportAddsUp
<1>2. ASSUME NEW reward \in S!Balance, S!Grants(reward) PROVE ReportInv'
  <2>1. S!given(reward) \in S!Sums
    <3>1. \A c \in S!Currency : wallet[c] \in Nat /\ reward[c] \in Nat /\ S!HardCap[c] \in Nat
      BY WalletAssumption DEF ReportInv, WalletInv, S!Balance, S!HardCap, S!CapAssumption
    <3>2. \A c \in S!Currency :
             (IF reward[c] = 0 THEN 0 ELSE S!applied(wallet, c, reward[c])) \in Int
      BY <3>1 DEF S!applied, S!Lesser
    <3> QED BY <3>2 DEF S!given, S!Sums
  <2>2. S!Credited("reward", S!given(reward)) /\ source' = S!Plus(source, S!given(reward))
    BY <1>2 DEF S!Grants, S!recorded
  <2> QED BY <1>0, <2>1, <2>2, ComingIn
<1>3. ASSUME NEW i \in S!Item, S!Buy(i) PROVE ReportInv'
  BY <1>0, <1>3, GoingOut
<1>4. ASSUME NEW n \in Gifts, S!Receive(n) PROVE ReportInv'
  <2>1. n \in Nat
    BY KeeperAssumption
  <2>2. S!Petals(n) \in S!Sums
    BY <2>1 DEF S!Petals, S!Sums
  <2>3. S!Credited("trade_petals_in", S!Petals(n)) /\ source' = S!Plus(source, S!Petals(n))
    BY <1>4 DEF S!Receive
  <2> QED BY <1>0, <2>2, <2>3, ComingIn
<1>5. CASE Harvests
  BY <1>1, <1>5 DEF Harvests
<1>6. CASE Breeds
  BY <1>3, <1>6 DEF Breeds, S!Item
<1>7. CASE Trades
  BY <1>1, <1>4, <1>7 DEF Trades
<1>8. CASE Upgrades
  BY <1>3, <1>8 DEF Upgrades, S!Item
<1>9. CASE ClaimsDex
  <2>1. Both(claimableMilestones) \in S!Balance
    BY BothType DEF claimableMilestones, milestonesReached
  <2> QED BY <1>2, <1>9, <2>1 DEF ClaimsDex
<1>10. CASE Buys
  BY <1>3, <1>10 DEF Buys, S!Item
<1>11. CASE Earns
  BY <1>2, <1>11, WalletAssumption DEF Earns
<1>12. ASSUME NEW tier \in 1..Tiers, NEW lane \in Lane, ClaimsTier(tier, lane)
       PROVE  ReportInv'
  <2>1. <<tier, lane>> \in Reward
    BY <1>12 DEF ClaimsTier, ClaimTier, claimTier
  <2>2. tierReward[<<tier, lane>>] \in S!Balance
    BY <2>1, WalletAssumption
  <2> QED BY <1>2, <1>12, <2>2 DEF ClaimsTier
<1>13. CASE UNCHANGED keeperVars
  BY <1>1, <1>13 DEF keeperVars
<1> QED
  BY <1>5, <1>6, <1>7, <1>8, <1>9, <1>10, <1>11, <1>12, <1>13 DEF KeeperNext

\* However many rewards, purchases and gifts there are, and whatever exceeds a
\* cap: the report accounts for the wallet, in all and reason by reason, and
\* every purchase was charged in full.
THEOREM ReportIsTrue == KeeperSpec => []ReportAddsUp
<1>1. ReportInv => ReportAddsUp
  BY DEF ReportInv
<1> QED BY ReportInit, ReportStep, <1>1, PTL DEF KeeperSpec

\* What the shop has sold: a garden has one biome at a time, decor is counted.
SoldType ==
    /\ biome \in Biome /\ decor \in [Decor -> Nat]
    /\ bought \in [S!Item -> 0..MaxBought]

LEMMA SoldStep == SoldType /\ [KeeperNext]_keeperVars => SoldType'
<1> SUFFICES ASSUME SoldType, [KeeperNext]_keeperVars PROVE SoldType'
  OBVIOUS
<1>1. ASSUME UNCHANGED <<biome, decor, bought>> PROVE SoldType'
  BY <1>1 DEF SoldType
<1>2. ASSUME NEW i \in S!Item, S!Buy(i) PROVE SoldType'
  <2>1. biome' \in Biome /\ decor' \in [Decor -> Nat]
    BY <1>2 DEF SoldType, S!Buy
  <2>2. bought'[i] \in 0..MaxBought /\ bought' = [bought EXCEPT ![i] = @ + 1]
    BY <1>2, KeeperAssumption DEF SoldType, S!Buy
  <2>3. bought' \in [S!Item -> 0..MaxBought]
    BY <2>2 DEF SoldType
  <2> QED BY <2>1, <2>3 DEF SoldType
<1>3. CASE UNCHANGED shop
  BY <1>1, <1>3 DEF shop
<1>4. ASSUME NEW reward, S!Grants(reward) PROVE SoldType'
  BY <1>1, <1>4 DEF S!Grants, S!Credited
<1>5. ASSUME NEW n \in Gifts, S!Receive(n) PROVE SoldType'
  BY <1>1, <1>5 DEF S!Receive, S!Credited
<1>6. CASE Harvests
  BY <1>3, <1>6 DEF Harvests
<1>7. CASE Breeds \/ Upgrades \/ Buys
  BY <1>2, <1>7 DEF Breeds, Upgrades, Buys, S!Item
<1>8. CASE Trades
  BY <1>3, <1>5, <1>8 DEF Trades
<1>9. CASE ClaimsDex \/ Earns
  BY <1>4, <1>9 DEF ClaimsDex, Earns
<1>10. ASSUME NEW tier \in 1..Tiers, NEW lane \in Lane, ClaimsTier(tier, lane)
       PROVE  SoldType'
  BY <1>4, <1>10 DEF ClaimsTier
<1>11. CASE UNCHANGED keeperVars
  BY <1>3, <1>11 DEF keeperVars
<1> QED BY <1>6, <1>7, <1>8, <1>9, <1>10, <1>11 DEF KeeperNext

\* Progress, wallet, report and garden keep their types: nobody is ever in
\* debt, and a garden always has one of the biomes.
THEOREM KeeperTypeCorrect == KeeperSpec => []KeeperTypeOK
<1>1. KeeperInit => SoldType
  BY KeeperAssumption DEF KeeperInit, S!Init, SoldType
<1>2. ReportInv /\ SoldType => S!TypeOK
  BY DEF ReportInv, WalletInv, ReportType, SoldType, S!TypeOK
<1> QED
  BY ReportInit, ReportStep, SoldStep, <1>1, <1>2, KeeperImplementsTrack, TrackTypeCorrect,
     PTL DEF KeeperSpec, KeeperTypeOK

-----------------------------------------------------------------------------

(***************************************************************************)
(* The days.  Later ticks are not on earlier days, and everything a day    *)
(* decides is decided once in it.                                          *)
(***************************************************************************)

USE CalendarAssumption DEF daily, golden

\* Later ticks are not on earlier days.
LEMMA DayGrows ==
    ASSUME NEW a \in Nat, NEW b \in Nat, a <= b
    PROVE  dayIndex(a) \in Nat /\ dayIndex(b) \in Nat /\ dayIndex(a) <= dayIndex(b)
BY DEF dayIndex

-----------------------------------------------------------------------------
(***************************************************************************)
(* Type correctness.  A streak begins with the first claim and is then     *)
(* never zero, and a claim is never in the future.                         *)
(***************************************************************************)
Begun ==
    /\ last <= Today /\ lastStipend <= Today
    /\ last = -1 => streak = 0 /\ claims = {}
    /\ last # -1 => streak > 0 /\ last \in claims
    /\ \A d \in claims : d <= last
    /\ \A d \in sunny : d <= Today

CalendarInv == CalendarTypeOK /\ Begun

LEMMA TodayIsADay == CalendarTypeOK => Today \in Day /\ Today \in Nat /\ Today >= 0
BY DayGrows DEF CalendarTypeOK, Today, Day

LEMMA CalendarInvInit == CalendarInit => CalendarInv
<1> SUFFICES ASSUME CalendarInit PROVE CalendarInv
  OBVIOUS
<1>1. CalendarTypeOK
  BY DEF CalendarInit, CalendarTypeOK
<1> QED BY <1>1, TodayIsADay DEF CalendarInit, CalendarInv, Begun

LEMMA CalendarInvStep == CalendarInv /\ [CalendarNext]_calendarVars => CalendarInv'
<1> SUFFICES ASSUME CalendarInv, [CalendarNext]_calendarVars PROVE CalendarInv'
  OBVIOUS
<1>0. CalendarTypeOK /\ Begun /\ Today \in Day /\ Today \in Nat
  BY TodayIsADay DEF CalendarInv
<1>1. ASSUME ClaimDaily PROVE CalendarInv'
  <2>1. /\ last' = Today /\ last < Today
        /\ claims' = claims \cup {Today}
        /\ UNCHANGED <<now, golden, enjoyed, sunny>>
    BY <1>0, <1>1 DEF ClaimDaily, Begun, CalendarTypeOK, Day
  <2>2. streak' \in Nat /\ streak' > 0
    BY <1>0, <1>1 DEF ClaimDaily, streakAfter, Begun, CalendarTypeOK, Day
  <2>3. keystones' \subseteq claims'
    BY <1>0, <1>1, <2>1 DEF ClaimDaily, CalendarTypeOK
  <2>4. CalendarTypeOK'
    BY <1>0, <2>1, <2>2, <2>3 DEF CalendarTypeOK
  <2>5. Begun'
    BY <1>0, <2>1, <2>2 DEF Begun, Today, CalendarTypeOK, Day
  <2> QED BY <2>4, <2>5 DEF CalendarInv
<1>2. ASSUME Extend PROVE CalendarInv'
  <2>1. renewed \in Nat
    BY <1>0 DEF renewed, LaterOf, CalendarTypeOK
  <2>2. CalendarTypeOK'
    BY <1>0, <1>2, <2>1 DEF Extend, CalendarTypeOK
  <2> QED BY <1>0, <1>2, <2>2 DEF Extend, CalendarInv, Begun, Today
<1>3. ASSUME ClaimStipend PROVE CalendarInv'
  <2>1. CalendarTypeOK'
    BY <1>0, <1>3 DEF ClaimStipend, CalendarTypeOK
  <2> QED BY <1>0, <1>3, <2>1 DEF ClaimStipend, CalendarInv, Begun, Today
<1>4. ASSUME Tick PROVE CalendarInv'
  <2>1. now' = now + 1 /\ now' \in 0..End /\ UNCHANGED <<daily, golden>>
    BY <1>0, <1>4 DEF Tick, CalendarTypeOK
  <2>2. Today' = dayIndex(now + 1) /\ Today' \in Day /\ Today <= Today'
    BY <1>0, <2>1, DayGrows DEF Today, Day, CalendarTypeOK
  <2>3. sunny' \subseteq sunny \cup {Today'}
    BY <1>4, <2>2 DEF Tick
  <2>4. enjoyed' \in Nat
    BY <1>0, <1>4 DEF Tick, CalendarTypeOK
  <2>5. CalendarTypeOK'
    BY <1>0, <2>1, <2>2, <2>3, <2>4 DEF CalendarTypeOK
  <2>6. Begun'
    BY <1>0, <2>1, <2>2, <2>3 DEF Begun, CalendarTypeOK, Day
  <2> QED BY <2>5, <2>6 DEF CalendarInv
<1>5. CASE UNCHANGED calendarVars
  BY <1>0, <1>5 DEF calendarVars, CalendarInv, CalendarTypeOK, Begun, Today
<1> QED BY <1>1, <1>2, <1>3, <1>4, <1>5 DEF CalendarNext

\* The player's calendar keeps its types.
THEOREM CalendarTypeCorrect == CalendarSpec => []CalendarTypeOK
<1>1. CalendarInv => CalendarTypeOK
  BY DEF CalendarInv
<1> QED BY CalendarInvInit, CalendarInvStep, <1>1, PTL DEF CalendarSpec

-----------------------------------------------------------------------------
(***************************************************************************)
(* Paid time.                                                              *)
(***************************************************************************)
PaidInv == CalendarInv /\ PaidTimeKept

LEMMA PaidStep == PaidInv /\ [CalendarNext]_calendarVars => PaidInv'
<1> SUFFICES ASSUME PaidInv, [CalendarNext]_calendarVars PROVE PaidInv'
  OBVIOUS
<1>0. CalendarInv' /\ CalendarTypeOK
  BY CalendarInvStep DEF PaidInv, CalendarInv
<1>1. PaidTimeKept'
  BY <1>0 DEF PaidInv, PaidTimeKept, CalendarTypeOK, LaterOf, CalendarNext, ClaimDaily, Extend, renewed,
              ClaimStipend, Tick, isActive, calendarVars
<1> QED BY <1>0, <1>1 DEF PaidInv

\* However purchases overlap, no paid time is lost and none is given away.
THEOREM NoPaidTimeLost == CalendarSpec => []PaidTimeKept
<1>1. CalendarInit => PaidInv
  BY CalendarInvInit DEF CalendarInit, PaidInv, PaidTimeKept, LaterOf
<1>2. PaidInv => PaidTimeKept
  BY DEF PaidInv
<1> QED BY <1>1, PaidStep, <1>2, PTL DEF CalendarSpec

-----------------------------------------------------------------------------
(***************************************************************************)
(* Stipends.  Each was paid on a day with benefits of its own, up to the   *)
(* day of the last one.                                                    *)
(***************************************************************************)
PaidOn == {d \in sunny : d <= lastStipend}

StipendInv ==
    /\ CalendarInv
    /\ isActive(now) => Today \in sunny
    /\ lastStipend \in sunny \cup {-1}
    /\ stipends <= Cardinality(PaidOn)

\* There are finitely many days.
LEMMA DaysAreFinite ==
    ASSUME NEW D \in SUBSET Day
    PROVE  IsFiniteSet(D)
<1>1. dayIndex(End) \in Nat
  BY DayGrows
<1>2. IsFiniteSet(Day)
  BY <1>1, FS_Interval DEF Day
<1> QED BY <1>2, FS_Subset

LEMMA StipendStep == StipendInv /\ [CalendarNext]_calendarVars => StipendInv'
<1> SUFFICES ASSUME StipendInv, [CalendarNext]_calendarVars PROVE StipendInv'
  OBVIOUS
<1>0. /\ CalendarInv /\ CalendarInv' /\ CalendarTypeOK /\ Begun /\ Today \in Nat
      /\ IsFiniteSet(PaidOn) /\ IsFiniteSet(PaidOn')
  <2>1. CalendarInv'
    BY CalendarInvStep DEF StipendInv
  <2>2. IsFiniteSet(PaidOn) /\ IsFiniteSet(PaidOn')
    <3>1. PaidOn \in SUBSET Day /\ PaidOn' \in SUBSET Day
      BY <2>1 DEF StipendInv, CalendarInv, CalendarTypeOK, PaidOn
    <3> QED BY <3>1, DaysAreFinite
  <2> QED BY <2>1, <2>2, TodayIsADay DEF StipendInv, CalendarInv
<1>1. ASSUME ClaimDaily PROVE StipendInv'
  BY <1>0, <1>1 DEF ClaimDaily, StipendInv, PaidOn, isActive, Today
<1>2. ASSUME Extend PROVE StipendInv'
  <2>1. sunny' = sunny \cup {Today} /\ UNCHANGED <<now, lastStipend, stipends>>
    BY <1>2 DEF Extend
  <2>2. PaidOn' = PaidOn
    BY <1>0, <2>1 DEF PaidOn, StipendInv, Begun, CalendarTypeOK, Day
  <2> QED BY <1>0, <2>1, <2>2 DEF StipendInv, Today
<1>3. ASSUME ClaimStipend PROVE StipendInv'
  <2>1. /\ lastStipend' = Today /\ Today \in sunny /\ lastStipend < Today
        /\ stipends' = stipends + 1
        /\ UNCHANGED <<now, expiresAt, sunny>>
    BY <1>0, <1>3 DEF ClaimStipend, stipendDue, StipendInv, Begun, CalendarTypeOK, Day
  <2>2. PaidOn \cup {Today} \subseteq PaidOn' /\ Today \notin PaidOn
    <3>1. PaidOn' = {d \in sunny : d <= Today}
      BY <2>1 DEF PaidOn
    <3>2. \A d \in PaidOn : d \in sunny /\ d <= lastStipend /\ d \in Int /\ lastStipend \in Int
      BY <1>0 DEF PaidOn, CalendarTypeOK, Day
    <3> QED BY <1>0, <2>1, <3>1, <3>2
  <2>3. Cardinality(PaidOn \cup {Today}) = Cardinality(PaidOn) + 1
    BY <1>0, <2>2, FS_AddElement
  <2>4. Cardinality(PaidOn \cup {Today}) <= Cardinality(PaidOn')
    BY <1>0, <2>2, FS_Subset
  <2>5. Cardinality(PaidOn) \in Nat /\ Cardinality(PaidOn') \in Nat
    BY <1>0, FS_CardinalityType
  <2>6. stipends' <= Cardinality(PaidOn')
    BY <1>0, <2>1, <2>3, <2>4, <2>5 DEF StipendInv, CalendarTypeOK
  <2> QED BY <1>0, <2>1, <2>6 DEF StipendInv, isActive, Today
<1>4. ASSUME Tick PROVE StipendInv'
  <2>1. /\ now' = now + 1 /\ Today' = dayIndex(now + 1)
        /\ UNCHANGED <<expiresAt, lastStipend, stipends>>
        /\ sunny' = IF isActive(now + 1) THEN sunny \cup {Today'} ELSE sunny
    BY <1>4 DEF Tick, Today
  <2>2. Today' \in Nat /\ Today <= Today'
    BY <1>0, <2>1, DayGrows DEF Today, CalendarTypeOK
  <2>3. PaidOn' = PaidOn
    BY <1>0, <2>1, <2>2 DEF PaidOn, StipendInv, Begun, CalendarTypeOK, Day
  <2> QED BY <1>0, <2>1, <2>3 DEF StipendInv, isActive
<1>5. CASE UNCHANGED calendarVars
  BY <1>0, <1>5 DEF calendarVars, StipendInv, PaidOn, isActive, Today
<1> QED BY <1>1, <1>2, <1>3, <1>4, <1>5 DEF CalendarNext

\* There is at most one stipend for each day with benefits, however purchases,
\* days and claims overlap.
THEOREM StipendsAreEarned == CalendarSpec => []StipendsEarned
<1>1. CalendarInit => StipendInv
  <2> SUFFICES ASSUME CalendarInit PROVE StipendInv
    OBVIOUS
  <2>1. CalendarInv /\ PaidOn = {}
    BY CalendarInvInit DEF CalendarInit, PaidOn
  <2>2. stipends <= Cardinality(PaidOn)
    BY <2>1, FS_EmptySet DEF CalendarInit
  <2> QED BY <2>1, <2>2 DEF CalendarInit, StipendInv, isActive
<1>2. StipendInv => StipendsEarned
  <2> SUFFICES ASSUME StipendInv PROVE StipendsEarned
    OBVIOUS
  <2>1. CalendarTypeOK /\ IsFiniteSet(sunny) /\ IsFiniteSet(PaidOn) /\ PaidOn \subseteq sunny
    BY DaysAreFinite DEF StipendInv, CalendarInv, CalendarTypeOK, PaidOn
  <2>2. Cardinality(PaidOn) <= Cardinality(sunny)
    BY <2>1, FS_Subset
  <2>3. Cardinality(PaidOn) \in Nat /\ Cardinality(sunny) \in Nat
    BY <2>1, FS_CardinalityType
  <2> QED BY <2>1, <2>2, <2>3 DEF StipendInv, StipendsEarned, CalendarTypeOK
<1> QED BY <1>1, <1>2, StipendStep, PTL DEF CalendarSpec

-----------------------------------------------------------------------------
(***************************************************************************)
(* The streak.  What the code keeps incrementally is compared with what    *)
(* the days of all claims say.                                             *)
(***************************************************************************)
RunOf(C, l) == {d \in C : \A e \in d..(l - 1) : e \in C \/ e + 1 \in C}

Pairs(R) == {d \in R : d + 1 \in R}

\* A claim on the next day makes one more pair.
LEMMA NextDay ==
    ASSUME NEW C \in SUBSET Nat, NEW l \in C, \A d \in C : d <= l
    PROVE  /\ Pairs(RunOf(C \cup {l + 1}, l + 1)) = Pairs(RunOf(C, l)) \cup {l}
           /\ l \notin Pairs(RunOf(C, l))
<1> DEFINE D == C \cup {l + 1}
<1>1. l \in RunOf(C, l)
  BY DEF RunOf
<1>2. RunOf(D, l + 1) = RunOf(C, l) \cup {l + 1}
  <2>1. ASSUME NEW d \in RunOf(D, l + 1), d # l + 1 PROVE d \in RunOf(C, l)
    BY <2>1 DEF RunOf
  <2>2. ASSUME NEW d \in RunOf(C, l) PROVE d \in RunOf(D, l + 1)
    <3>1. d \in C /\ d \in Nat /\ l \in Nat
      BY DEF RunOf
    <3>2. ASSUME NEW e \in d..l PROVE e \in D \/ e + 1 \in D
      <4>1. e = l \/ e \in d..(l - 1)
        BY <3>1
      <4> QED BY <4>1 DEF RunOf
    <3> QED BY <3>1, <3>2 DEF RunOf
  <2>3. l + 1 \in RunOf(D, l + 1)
    BY DEF RunOf
  <2> QED BY <2>1, <2>2, <2>3
<1> DEFINE R == RunOf(C, l)
<1>3. \A d \in R : d \in Nat /\ d <= l
  BY DEF RunOf
<1>4. l \in Nat /\ l + 1 \notin R /\ l \in R
  BY <1>1, <1>3
<1> HIDE DEF R
<1>5. Pairs(R \cup {l + 1}) = Pairs(R) \cup {l}
  <2>1. ASSUME NEW d \in Pairs(R \cup {l + 1}) PROVE d \in Pairs(R) \cup {l}
    BY <1>3, <1>4, <2>1 DEF Pairs
  <2>2. Pairs(R) \cup {l} \subseteq Pairs(R \cup {l + 1})
    BY <1>4 DEF Pairs
  <2> QED BY <2>1, <2>2
<1>6. l \notin Pairs(R)
  BY <1>4 DEF Pairs
<1> QED BY <1>2, <1>5, <1>6 DEF R

\* A claim after a day of grace makes none, and keeps the others.
LEMMA GraceDay ==
    ASSUME NEW C \in SUBSET Nat, NEW l \in C, \A d \in C : d <= l
    PROVE  Pairs(RunOf(C \cup {l + 2}, l + 2)) = Pairs(RunOf(C, l))
<1> DEFINE D == C \cup {l + 2}
<1>1. RunOf(D, l + 2) = RunOf(C, l) \cup {l + 2}
  <2>1. ASSUME NEW d \in RunOf(D, l + 2), d # l + 2 PROVE d \in RunOf(C, l)
    BY <2>1 DEF RunOf
  <2>2. ASSUME NEW d \in RunOf(C, l) PROVE d \in RunOf(D, l + 2)
    <3>1. d \in C /\ d \in Nat /\ l \in Nat
      BY DEF RunOf
    <3>2. ASSUME NEW e \in d..(l + 1) PROVE e \in D \/ e + 1 \in D
      <4>1. e = l \/ e + 1 = l + 2 \/ e \in d..(l - 1)
        BY <3>1
      <4> QED BY <4>1 DEF RunOf
    <3> QED BY <3>1, <3>2 DEF RunOf
  <2>3. l + 2 \in RunOf(D, l + 2)
    BY DEF RunOf
  <2> QED BY <2>1, <2>2, <2>3
<1> DEFINE R == RunOf(C, l)
<1>2. \A d \in R : d \in Nat /\ d <= l
  BY DEF RunOf
<1> HIDE DEF R
<1>3. Pairs(R \cup {l + 2}) = Pairs(R)
  <2>1. ASSUME NEW d \in Pairs(R \cup {l + 2}) PROVE d \in Pairs(R)
    BY <1>2, <2>1 DEF Pairs
  <2>2. Pairs(R) \subseteq Pairs(R \cup {l + 2})
    BY DEF Pairs
  <2> QED BY <2>1, <2>2
<1> QED BY <1>1, <1>3 DEF R

\* A claim after two missed days begins a run of its own.
LEMMA NewRun ==
    ASSUME NEW C \in SUBSET Nat, NEW l \in Int, NEW t \in Nat, \A d \in C : d <= l, l + 2 < t
    PROVE  Pairs(RunOf(C \cup {t}, t)) = {}
<1>1. ASSUME NEW d \in C PROVE d \notin RunOf(C \cup {t}, t)
  <2>1. l + 1 \in d..(t - 1) /\ l + 1 \notin C \cup {t} /\ l + 2 \notin C \cup {t}
    OBVIOUS
  <2> QED BY <2>1 DEF RunOf
<1>2. RunOf(C \cup {t}, t) \subseteq {t}
  BY <1>1 DEF RunOf
<1> QED BY <1>2 DEF Pairs

\* The first claim begins the first run.
LEMMA FirstRun ==
    ASSUME NEW t \in Nat
    PROVE  Pairs(RunOf({t}, t)) = {}
BY DEF Pairs, RunOf

StreakInv == CalendarInv /\ (claims # {} => streak = 1 + Cardinality(Pairs(RunOf(claims, last))))

LEMMA StreakStep == StreakInv /\ [CalendarNext]_calendarVars => StreakInv'
<1> SUFFICES ASSUME StreakInv, [CalendarNext]_calendarVars PROVE StreakInv'
  OBVIOUS
<1>0. CalendarInv /\ CalendarInv' /\ CalendarTypeOK /\ Begun /\ Today \in Nat /\ claims \in SUBSET Nat
  <2>1. dayIndex(End) \in Nat
    BY DayGrows
  <2> QED BY <2>1, CalendarInvStep, TodayIsADay DEF StreakInv, CalendarInv, CalendarTypeOK, Day
<1>1. ASSUME UNCHANGED daily PROVE StreakInv'
  BY <1>0, <1>1 DEF StreakInv
<1>2. ASSUME ClaimDaily PROVE StreakInv'
  <2> DEFINE pairs == Pairs(RunOf(claims, last))
  <2>1. /\ last' = Today /\ last < Today
        /\ claims' = claims \cup {Today}
        /\ streak' = streakAfter(Today)
    BY <1>0, <1>2 DEF ClaimDaily, Begun, CalendarTypeOK, Day
  <2>2. last # -1 => last \in claims /\ last \in Nat /\ streak = 1 + Cardinality(pairs)
    BY <1>0 DEF StreakInv, Begun
  <2>3. IsFiniteSet(pairs) /\ Cardinality(pairs) \in Nat
    <3>1. pairs \in SUBSET Day
      BY <1>0 DEF Pairs, RunOf, CalendarTypeOK
    <3> QED BY <3>1, DaysAreFinite, FS_CardinalityType
  <2>4. streak' = 1 + Cardinality(Pairs(RunOf(claims', last')))
    <3>1. CASE last = -1
      <4>1. claims = {} /\ streak' = 1
        BY <1>0, <2>1, <3>1 DEF Begun, streakAfter
      <4> QED BY <1>0, <2>1, <4>1, FirstRun, FS_EmptySet
    <3>2. CASE last # -1 /\ Today = last + 1
      <4>1. streak' = streak + 1
        BY <2>1, <2>2, <3>2 DEF streakAfter
      <4>2. Pairs(RunOf(claims', last')) = pairs \cup {last} /\ last \notin pairs
        BY <1>0, <2>1, <2>2, <3>2, NextDay DEF Begun
      <4>3. Cardinality(pairs \cup {last}) = Cardinality(pairs) + 1
        BY <2>3, <4>2, FS_AddElement
      <4> QED BY <2>2, <2>3, <3>2, <4>1, <4>2, <4>3
    <3>3. CASE last # -1 /\ Today = last + 2
      <4>1. streak' = streak
        BY <2>1, <2>2, <3>3 DEF streakAfter
      <4>2. Pairs(RunOf(claims', last')) = pairs
        BY <1>0, <2>1, <2>2, <3>3, GraceDay DEF Begun
      <4> QED BY <2>2, <3>3, <4>1, <4>2
    <3>4. CASE last # -1 /\ last + 2 < Today
      <4>1. streak' = 1
        BY <1>0, <2>1, <2>2, <3>4 DEF streakAfter
      <4>2. Pairs(RunOf(claims', last')) = {}
        <5>1. last \in Int /\ \A d \in claims : d <= last
          BY <1>0, <2>2, <3>4 DEF Begun
        <5>2. Pairs(RunOf(claims \cup {Today}, Today)) = {}
          BY <1>0, <3>4, <5>1, NewRun
        <5> QED BY <2>1, <5>2
      <4> QED BY <4>1, <4>2, FS_EmptySet
    <3> QED BY <1>0, <2>1, <2>2, <3>1, <3>2, <3>3, <3>4
  <2> QED BY <1>0, <2>4 DEF StreakInv
<1> QED BY <1>1, <1>2 DEF CalendarNext, Extend, ClaimStipend, Tick, calendarVars

\* Whatever days are claimed, skipped or claimed twice, the streak is what the
\* days of the claims say it is.
THEOREM StreakIsHonest == CalendarSpec => []StreakHonest
<1>1. CalendarInit => StreakInv
  BY CalendarInvInit DEF CalendarInit, StreakInv
<1>2. StreakInv => StreakHonest
  BY DEF StreakInv, StreakHonest, Run, RunOf, Pairs
<1> QED BY <1>1, <1>2, StreakStep, PTL DEF CalendarSpec

-----------------------------------------------------------------------------

\* A subscription gives all the time that was paid for, and one stipend at most
\* for each day of it.
THEOREM GoldenIsKept == CalendarSpec => []GoldenGives
<1>1. PaidTimeKept /\ StipendsEarned => GoldenGives
  BY DEF GoldenGives
<1> QED BY <1>1, NoPaidTimeLost, StipendsAreEarned, PTL

-----------------------------------------------------------------------------
(***************************************************************************)
(* The Lumen reward.  It is paid when the streak is a multiple of the      *)
(* ladder, and on days that follow each other the streak goes up by one:   *)
(* so the streak tells how many days ago the last reward was paid.         *)
(***************************************************************************)
Multiple(n) == \E m \in Nat : n = m * Ladder

\* The last day of the ladder comes with the multiples of its length only.
LEMMA LastDay ==
    ASSUME NEW n \in Nat, n > 0, ladderDay(n) = Ladder
    PROVE  Multiple(n)
<1>1. (n - 1) % Ladder = Ladder - 1
  BY DEF ladderDay
<1>2. PICK q \in Nat : q = (n - 1) \div Ladder
  OBVIOUS
<1>3. n - 1 = (q * Ladder) + ((n - 1) % Ladder)
  BY <1>2
<1>4. (q + 1) * Ladder = (q * Ladder) + Ladder /\ q * Ladder \in Int
  OBVIOUS
<1>5. q + 1 \in Nat /\ n = (q + 1) * Ladder
  BY <1>1, <1>3, <1>4
<1> QED BY <1>5 DEF Multiple

\* Multiples of the ladder that differ are a ladder apart at least.
LEMMA Apart ==
    ASSUME NEW n \in Nat, NEW d \in Nat, d > 0, d <= n, Multiple(n), Multiple(n - d)
    PROVE  d >= Ladder
<1>1. PICK a \in Nat : n = a * Ladder
  BY DEF Multiple
<1>2. PICK b \in Nat : n - d = b * Ladder
  BY DEF Multiple
<1>3. a > b
  <2>1. CASE a <= b
    <3>1. PICK c \in Nat : b = a + c
      <4>1. b - a \in Nat /\ b = a + (b - a)
        BY <2>1
      <4> QED BY <4>1
    <3>2. b * Ladder = a * Ladder + c * Ladder /\ c * Ladder >= 0
      BY <3>1
    <3> QED BY <1>1, <1>2, <3>2
  <2> QED BY <2>1
<1>4. PICK c \in Nat : a = b + 1 + c
  <2>1. a - b - 1 \in Nat /\ a = b + 1 + (a - b - 1)
    BY <1>3
  <2> QED BY <2>1
<1>5. a * Ladder = b * Ladder + Ladder + c * Ladder /\ c * Ladder >= 0
  BY <1>4
<1>6. c * Ladder \in Int /\ b * Ladder \in Int /\ a * Ladder \in Int
  OBVIOUS
<1> QED BY <1>1, <1>2, <1>5, <1>6

\* A day of a Lumen reward that no missed day separates from the last claim:
\* without the days since then, the streak was a multiple of the ladder.
Paced ==
    \A k \in keystones : k..last \subseteq claims =>
        streak - (last - k) >= 0 /\ Multiple(streak - (last - k))

PaceInv == CalendarInv /\ Paced /\ KeystoneWeekly

LEMMA PaceStep == PaceInv /\ [CalendarNext]_calendarVars => PaceInv'
<1> SUFFICES ASSUME PaceInv, [CalendarNext]_calendarVars PROVE PaceInv'
  OBVIOUS
<1>0. CalendarInv /\ CalendarInv' /\ CalendarTypeOK /\ Begun /\ Today \in Nat /\ claims \in SUBSET Nat
  <2>1. dayIndex(End) \in Nat
    BY DayGrows
  <2> QED BY <2>1, CalendarInvStep, TodayIsADay DEF PaceInv, CalendarInv, CalendarTypeOK, Day
<1>1. ASSUME UNCHANGED daily PROVE PaceInv'
  BY <1>0, <1>1 DEF PaceInv, Paced, KeystoneWeekly
<1>2. ASSUME ClaimDaily PROVE PaceInv'
  <2>1. /\ last' = Today /\ last < Today
        /\ claims' = claims \cup {Today}
        /\ streak' = streakAfter(Today)
        /\ streak' \in Nat /\ streak' > 0 /\ streak \in Nat /\ last \in Int
        /\ keystones \subseteq claims
        /\ keystones' \subseteq keystones \cup {Today}
        /\ Today \in keystones' => ladderDay(streak') = Ladder
    <3>1. last < Today /\ last' = Today
      BY <1>0, <1>2 DEF ClaimDaily, Begun, CalendarTypeOK, Day
    <3>2. Today \notin keystones /\ streak' \in Nat /\ streak' > 0
      BY <1>0, <3>1 DEF CalendarInv, CalendarTypeOK, Begun, Day
    <3> QED BY <1>0, <1>2, <3>1, <3>2 DEF ClaimDaily, CalendarTypeOK, Day
  <2>2. \A d \in claims : d \in Nat /\ d <= last
    BY <1>0 DEF Begun
  <2>3. ASSUME NEW k \in keystones, k..Today \subseteq claims'
        PROVE  /\ last = Today - 1 /\ k..last \subseteq claims /\ streak' = streak + 1
    <3>1. k \in Nat /\ k <= last /\ last # -1
      BY <2>1, <2>2
    <3>2. Today - 1 \in k..Today
      BY <1>0, <2>1, <3>1
    <3>3. Today - 1 \in claims
      BY <1>0, <2>1, <2>3, <3>2
    <3>4. last = Today - 1
      BY <1>0, <2>1, <2>2, <3>3
    <3>5. \A d \in k..last : d \in k..Today /\ d # Today
      BY <1>0, <3>1, <3>4
    <3> QED BY <2>1, <2>3, <3>1, <3>4, <3>5 DEF streakAfter
  <2>4. ASSUME NEW k \in keystones, k..Today \subseteq claims'
        PROVE  streak' - (Today - k) >= 0 /\ Multiple(streak' - (Today - k))
    <3>1. k \in Nat /\ k \in keystones
      BY <2>1, <2>2
    <3>2. last = Today - 1 /\ k..last \subseteq claims /\ streak' = streak + 1
      BY <2>3, <2>4
    <3>3. streak' - (Today - k) = streak - (last - k)
      BY <1>0, <2>1, <3>1, <3>2
    <3> QED BY <3>2, <3>3 DEF PaceInv, Paced
  <2>5. ASSUME Today \in keystones'
        PROVE  Multiple(streak')
    BY <2>1, <2>5, LastDay
  <2>6. Paced'
    <3> SUFFICES ASSUME NEW k \in keystones', k..Today \subseteq claims'
                 PROVE  streak' - (Today - k) >= 0 /\ Multiple(streak' - (Today - k))
      BY <2>1 DEF Paced, Multiple
    <3>1. CASE k = Today
      <4>1. streak' - (Today - k) = streak'
        BY <1>0, <2>1, <3>1
      <4> QED BY <2>1, <2>5, <3>1, <4>1
    <3>2. CASE k \in keystones
      BY <2>4, <3>2
    <3> QED BY <2>1, <3>1, <3>2
  <2>7. KeystoneWeekly'
    <3> SUFFICES ASSUME NEW a \in keystones', NEW b \in keystones', a < b, a..b \subseteq claims'
                 PROVE  b - a >= Ladder
      BY DEF KeystoneWeekly
    <3>1. a \in Nat /\ b \in Nat /\ a <= Today /\ b <= Today
      BY <1>0, <2>1, <2>2
    <3>2. CASE b = Today
      <4>1. a \in keystones
        BY <2>1, <3>1, <3>2
      <4>2. streak' - (Today - a) >= 0 /\ Multiple(streak' - (Today - a))
        BY <2>4, <3>2, <4>1
      <4>3. Multiple(streak')
        BY <2>5, <3>2
      <4>4. PICK n \in Nat : n = streak'
        BY <2>1
      <4>5. PICK d \in Nat : d = Today - a /\ d > 0
        BY <1>0, <3>1, <3>2
      <4>6. d <= n /\ Multiple(n) /\ Multiple(n - d)
        BY <4>2, <4>3, <4>4, <4>5
      <4> QED BY <3>2, <4>5, <4>6, Apart
    <3>3. CASE b # Today
      <4>1. a \in keystones /\ b \in keystones
        BY <2>1, <3>1, <3>3
      <4>2. a..b \subseteq claims
        BY <1>0, <2>1, <3>1, <3>3
      <4> QED BY <4>1, <4>2 DEF PaceInv, KeystoneWeekly
    <3> QED BY <3>2, <3>3
  <2> QED BY <1>0, <2>6, <2>7 DEF PaceInv
<1> QED BY <1>1, <1>2 DEF CalendarNext, Extend, ClaimStipend, Tick, calendarVars

\* Whatever days are skipped, and however long the ladder is, the Lumen reward
\* is paid a whole ladder after the last one, or after a missed day.
THEOREM KeystonesAreWeekly == CalendarSpec => []KeystoneWeekly
<1>1. CalendarInit => PaceInv
  BY CalendarInvInit DEF CalendarInit, PaceInv, Paced, KeystoneWeekly
<1>2. PaceInv => KeystoneWeekly
  BY DEF PaceInv
<1> QED BY <1>1, <1>2, PaceStep, PTL DEF CalendarSpec

=============================================================================
