\* Four tiers, two plots, one Bloom Ritual.  The player stops at MaxOwned Lumi:
\* no deadlock check.
SPECIFICATION Spec
CONSTANTS
    Top = 3
    Rare = 2
    Epic = 3
    Weight <- FourTiers
    Draws = 4
    Plot = {o1, o2}
    Species <- Slow
    WorldBloom = {20}
    FullBloom = 2
    Starters = {0}
    Rituals = 1
    MaxOwned = 5
    RareEvery = 2
    EpicEvery = 3
    Nothing = Nothing
INVARIANT HarvestsRescued
PROPERTY TendingPays
CHECK_DEADLOCK FALSE
SYMMETRY Plots
