\* Two plots, and two calls in flight at once.
SPECIFICATION FairPageSpec
CONSTANTS
    Plot = {0, 1}
    s1 = s1
    s2 = s2
    Slot = {s1, s2}
    Grow = 1
    Waterings = 1
    Seeds = 2
    Bare = Bare
    NoCall = NoCall
INVARIANT ViewSettles
PROPERTY CountdownEnds
