\* Two tabs of a browser and other clients, three requests, failures and
\* restarts.
SPECIFICATION AllSpec
CONSTANTS
    r1 = r1
    r2 = r2
    r3 = r3
    p1 = p1
    p2 = p2
    p3 = p3
    d1 = d1
    d2 = d2
    d3 = d3
    t1 = t1
    t2 = t2
    NoPlayer = NoPlayer
    NoDevice = NoDevice
    NoHandle = NoHandle
    NoReq = NoReq
    Req = {r1, r2, r3}
    Player = {p1, p2, p3}
    Device = {d1, d2, d3}
    Chosen = {d1}
    Handle = {"fern"}
    Tab = {t1, t2}
SYMMETRY Symmetry
INVARIANT AccountsAgree
INVARIANT WorldCounted
PROPERTY AccountKept
