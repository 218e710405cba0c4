----------------------------- MODULE RateLimit ------------------------------
(***************************************************************************)
(* The rate limiter: fixed windows, one bucket for each client, and a      *)
(* second, stricter set of buckets for sensitive routes.  A window starts  *)
(* with the first request after the last one ended.                        *)
(*                                                                         *)
(* Time is counted in ticks; several requests may fall into one.           *)
(***************************************************************************)
EXTENDS Naturals, FiniteSets, Functions

CONSTANTS
    Ip,                       \* clients, as clientIp tells them apart
    windowMs,                 \* the length of a window, in ticks
    max, sensitiveMax,        \* requests a window admits
    SweepAbove,               \* buckets that may pile up before a sweep
    MaxTime, MaxPerTick       \* bounds: ticks, and requests of a client in one

Limiter == {"all", "sensitive"}

ASSUME RateLimitAssumption ==
    /\ windowMs \in Nat \ {0} /\ max \in Nat \ {0} /\ sensitiveMax \in Nat \ {0}
    /\ SweepAbove \in Nat /\ MaxTime \in Nat /\ MaxPerTick \in Nat

VARIABLES
    now,
    count, reset,      \* the buckets of both limiters; no bucket has reset 0
    asked, served      \* history: requests per client, limiter and tick

limiterVars == <<now, count, reset, asked, served>>

Tick == 0..MaxTime

LimiterTypeOK ==
    /\ now \in Tick
    /\ count \in [Limiter -> [Ip -> Nat]] /\ reset \in [Limiter -> [Ip -> 0..(MaxTime + windowMs)]]
    /\ asked \in [Limiter -> [Ip -> [Tick -> 0..MaxPerTick]]]
    /\ served \in [Limiter -> [Ip -> [Tick -> 0..MaxPerTick]]]

LimiterInit ==
    /\ now = 0
    /\ count = [l \in Limiter |-> [i \in Ip |-> 0]] /\ reset = [l \in Limiter |-> [i \in Ip |-> 0]]
    /\ asked = [l \in Limiter |-> [i \in Ip |-> [t \in Tick |-> 0]]]
    /\ served = asked

limit(l) == IF l = "all" THEN max ELSE sensitiveMax

\* Mutant of the next: a window outlives its last tick.
overLate(l, i) == reset[l][i] = 0 \/ now > reset[l][i]

\* A bucket that is missing or whose window has ended.
over(l, i) == now >= reset[l][i]

counted(l, i) == IF over(l, i) THEN 1 ELSE count[l][i] + 1

resetAfter(l, i) == IF over(l, i) THEN now + windowMs ELSE reset[l][i]

allowed(l, i) == counted(l, i) <= limit(l)

\* Mutant of the next: the sweep takes every bucket but the client's.
sweptAll(l, i) == Ip \ {i}

\* The buckets a hit sweeps away.
swept(l, i) ==
    IF Cardinality({j \in Ip : reset[l][j] # 0} \cup {i}) > SweepAbove
    THEN {j \in Ip \ {i} : now >= reset[l][j]} ELSE {}

\* hit, in every limiter of L.
Hit(L, i) ==
    /\ count' = [l \in Limiter |-> IF l \notin L THEN count[l] ELSE
                    [j \in Ip |-> IF j = i THEN counted(l, i) ELSE IF j \in swept(l, i) THEN 0 ELSE count[l][j]]]
    /\ reset' = [l \in Limiter |-> IF l \notin L THEN reset[l] ELSE
                    [j \in Ip |-> IF j = i THEN resetAfter(l, i) ELSE IF j \in swept(l, i) THEN 0 ELSE reset[l][j]]]

OneMore(h, L, i) == [l \in Limiter |-> IF l \in L THEN [h[l] EXCEPT ![i][now] = @ + 1] ELSE h[l]]

\* A request: it hits both limiters when its route is sensitive, and is served
\* when both allow it.
Request(L, i) ==
    /\ asked["all"][i][now] < MaxPerTick
    /\ Hit(L, i)
    /\ asked' = OneMore(asked, L, i)
    /\ served' = IF \A l \in L : allowed(l, i) THEN OneMore(served, L, i) ELSE served
    /\ UNCHANGED now

Elapse == now < MaxTime /\ now' = now + 1 /\ UNCHANGED <<count, reset, asked, served>>

LimiterNext ==
    \/ \E i \in Ip : Request({"all"}, i) \/ Request(Limiter, i)
    \/ Elapse

LimiterSpec == LimiterInit /\ [][LimiterNext]_limiterVars

-----------------------------------------------------------------------------
(***************************************************************************)
(* Properties.                                                             *)
(***************************************************************************)

\* The requests of a window's length that ends now.
Recent(h) == FoldFunctionOnSet(+, 0, h, {t \in Tick : now < t + windowMs /\ t <= now})

\* In any span of a window, wherever it starts, a client is served twice the
\* limit at most.
AtMostTwice == \A l \in Limiter, i \in Ip : Recent(served[l][i]) <= 2 * limit(l)

\* A client is turned away for what it asked within the last window, and never
\* for what others asked or for what is older.
DenialsDeserved ==
    [][\A i \in Ip, L \in {{"all"}, Limiter} :
          Request(L, i) /\ served' = served => \E l \in L : Recent(asked[l][i]) >= limit(l)]_limiterVars

=============================================================================
