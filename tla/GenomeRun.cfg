\* Four Lumi, hatched or bred in any way.  Then nothing happens: no deadlock check.
SPECIFICATION Spec
CONSTANTS
    Top = 1
    Glow <- Glows
    sprout = sprout
    wyrm = wyrm
    Form = {sprout, wyrm}
    Mutation = {"halo", "aurora"}
    minRarity <- Gates
    Aurora = "aurora"
    Redrawn = {"halo"}
    Base = 2
    Seeds = 100
    seedOf <- SeedsDrawn
    Births = 4
SYMMETRY Symmetry
INVARIANT CodesKeepSeeds
INVARIANT TrophiesHaveOrigin
INVARIANT LooksFollow
CHECK_DEADLOCK FALSE
