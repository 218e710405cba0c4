\* Levels up to five, three tiers, collections that shrink and grow, and a
\* wallet that reaches its caps.
SPECIFICATION KeeperSpec
CONSTANTS
    HatchXp = {90}
    BreedXp = 120
    Feature = {"visiting", "breeding"}
    LevelOf <- Levels
    Tiers = 3
    XpPerTier = 210
    Reward <- Pass
    Species = {"a", "b"}
    Total = 2
    Milestone = {50, 75}
    MaxXp = 660
    MaxOwned = 2
    PetalsCap = 10
    LumenCap = 6
    Plant = {}
    Decor = {"gilded_arch"}
    Biome = {"meadow", "tide_pools"}
    Starter = "meadow"
    cost <- Prices
    Gifts = {5}
    Start <- NewWallet
    MaxBought = 1
    MaxGiven = 5
    Other <- Daily
    tierReward <- PassRewards
    dexReward <- DexRewards
INVARIANT UnlocksAgree
INVARIANT ListIsHonest
INVARIANT MilestonePaysOnce
INVARIANT ReportAddsUp
PROPERTY RewardsGive
