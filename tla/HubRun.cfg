\* Anything may overlap, hang up or fail.
\* Requests run out and sockets do not come back: no deadlock check.
SPECIFICATION RealtimeSpec
CONSTANTS
    ann = ann
    bob = bob
    s1 = s1
    s2 = s2
    Player = {ann, bob}
    Con = {c1, c2}
    nameOf <- Names
    Req = {r1, r2}
    Full = 2
    Amount = 0
    Budget = 3
    NoPlayer = NoPlayer
    NoCon = NoCon
    Sock = {s1, s2}
    Owner <- Owners
SYMMETRY Symmetric
INVARIANT NobodyTwice
INVARIANT PresenceTrue
INVARIANT NobodyMissing
INVARIANT NobodyElse
CHECK_DEADLOCK FALSE
