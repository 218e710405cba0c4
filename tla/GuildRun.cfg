\* Any requests at the same time.
\* The behaviours stop when the Budget of requests is used up: no deadlock check.
SPECIFICATION Spec
CONSTANTS
    Player = {p1, p2, p3}
    c1 = c1
    c2 = c2
    c3 = c3
    Con = {c1, c2, c3}
    nameOf <- Names
    Req = {r1, r2, r3}
    Full = 2
    Amount = 1
    Budget = 5
    NoPlayer = NoPlayer
    NoCon = NoCon
SYMMETRY Symmetric
INVARIANT NeverOverfull
INVARIANT NamesUnique
INVARIANT NeverOvercounted
INVARIANT MembershipAgrees
INVARIANT ScoreAddsUp
PROPERTY MembersStay
CHECK_DEADLOCK FALSE
