\* The behaviours stop when the Budget of requests is used up: no deadlock check.
\* No player has two requests in flight.
SPECIFICATION Spec
CONSTANTS
    NoPlanting = NoPlanting
    NoPlayer = NoPlayer
    NoLumi = NoLumi
    NoTrade = NoTrade
    NoTx = NoTx
    NoRow = NoRow
    p1 = p1
    p2 = p2
    l1 = l1
    l2 = l2
    s1 = s1
    Player = {p1, p2}
    Lumi = {l1, l2, l3, l4}
    Planting = {s1, s2}
    Req = {r1, r2}
    Trade = {t1}
    Tx = {x1}
    PetalsCap = 100
    LumenCap = 100
    TaxBase = 4
    TaxPerLumi = 1
    VisitReward = 1
    VisitCap = 1
    SeedCost = 2
    RitualCost = 1
    PackLumen = 3
    Workload = "perActor"
    Pooled = TRUE
    Budget = 2
    Ops = {"visit", "plant"}
    Opening <- MCOpening
    Owner0 <- OneEach
    Plot0 <- EmptyPlots
    Offers <- AllOffers
INVARIANT WalletsMatchJournal
CHECK_DEADLOCK FALSE
