------------------------------ MODULE Calendar ------------------------------
(***************************************************************************)
(* What one player may claim as days go by: the daily reward with its      *)
(* streak, and the Golden Garden subscription with its daily stipend.      *)
(*                                                                         *)
(* Time is counted in ticks, PerDay of them in a UTC day.  There is one    *)
(* subscription product, so a subscription without a tier is one that      *)
(* expired at the beginning of time.  Of the reward ladder only the last   *)
(* day, which pays Lumen, is told apart.                                   *)
(***************************************************************************)
EXTENDS Integers, FiniteSets

CONSTANTS
    PerDay,    \* ticks of a day
    Renewal,   \* ticks that a purchase of the subscription pays for
    Ladder,    \* days of the reward ladder
    End,       \* bound: the last tick
    MaxPaid    \* bound: purchases

ASSUME CalendarAssumption ==
    /\ PerDay \in Nat \ {0} /\ Renewal \in Nat \ {0} /\ Ladder \in Nat \ {0}
    /\ End \in Nat /\ MaxPaid \in Nat

VARIABLES
    now,
    last, streak,            \* player.streak; last = -1 before the first claim
    expiresAt, lastStipend,  \* player.subscription; lastStipend = -1 at first
    claims, keystones,       \* history: days of a claim, and of a Lumen reward
    paidFor, enjoyed,        \* history: ticks paid for, and ticks of benefits
    stipends, sunny          \* history: stipends, and days with benefits

daily == <<last, streak, claims, keystones>>
golden == <<expiresAt, lastStipend, paidFor, stipends>>
calendarVars == <<now, daily, golden, enjoyed, sunny>>

dayIndex(t) == t \div PerDay
Today == dayIndex(now)
Day == 0..dayIndex(End)

CalendarTypeOK ==
    /\ now \in 0..End
    /\ last \in {-1} \cup Day /\ lastStipend \in {-1} \cup Day
    /\ streak \in Nat /\ expiresAt \in Nat
    /\ claims \subseteq Day /\ keystones \subseteq claims /\ sunny \subseteq Day
    /\ paidFor \in Nat /\ enjoyed \in Nat /\ stipends \in Nat

CalendarInit ==
    /\ now = 0
    /\ last = -1 /\ streak = 0 /\ claims = {} /\ keystones = {}
    /\ expiresAt = 0 /\ lastStipend = -1
    /\ paidFor = 0 /\ enjoyed = 0 /\ stipends = 0 /\ sunny = {}

-----------------------------------------------------------------------------
(***************************************************************************)
(* The daily reward.                                                       *)
(***************************************************************************)

\* Mutant of the next: the day of grace counts.
streakAfterGenerous(today) == IF last = -1 \/ last >= today - 2 THEN streak + 1 ELSE 1

\* The streak a claim leads to: one missed day neither counts nor breaks it.
streakAfter(today) ==
    IF last = -1 \/ last = today - 1 THEN streak + 1
    ELSE IF last = today - 2 THEN streak
    ELSE 1

\* Mutant of the next: the ladder is not started anew.
ladderDayStuck(n) == IF n >= Ladder THEN Ladder ELSE n

ladderDay(n) == ((n - 1) % Ladder) + 1

\* POST daily.  A second claim of the day changes nothing.
ClaimDaily ==
    /\ last # Today
    /\ streak' = streakAfter(Today)
    /\ last' = Today
    /\ claims' = claims \cup {Today}
    /\ keystones' = IF ladderDay(streak') = Ladder THEN keystones \cup {Today} ELSE keystones
    /\ UNCHANGED <<now, golden, enjoyed, sunny>>

-----------------------------------------------------------------------------
(***************************************************************************)
(* The subscription.                                                       *)
(***************************************************************************)

isActive(t) == expiresAt > t

LaterOf(a, b) == IF a >= b THEN a ELSE b

\* Mutant of the next: a renewal runs from now.
renewedEarly == now + Renewal

\* Renewals stack on what is left.
renewed == LaterOf(now, expiresAt) + Renewal

\* grantProduct, of a redeemed purchase.
Extend ==
    /\ paidFor < MaxPaid * Renewal
    /\ expiresAt' = renewed
    /\ paidFor' = paidFor + Renewal
    /\ sunny' = sunny \cup {Today}
    /\ UNCHANGED <<now, daily, lastStipend, stipends, enjoyed>>

\* Mutant of the next: a stipend whenever one is asked for.
stipendDueTwice == isActive(now)

stipendDue == isActive(now) /\ lastStipend # Today

\* POST subscription/stipend.
ClaimStipend ==
    /\ stipendDue
    /\ lastStipend' = Today
    /\ stipends' = stipends + 1
    /\ UNCHANGED <<now, daily, expiresAt, paidFor, enjoyed, sunny>>

Tick ==
    /\ now < End
    /\ now' = now + 1
    /\ enjoyed' = IF isActive(now) THEN enjoyed + 1 ELSE enjoyed
    /\ sunny' = IF isActive(now + 1) THEN sunny \cup {dayIndex(now + 1)} ELSE sunny
    /\ UNCHANGED <<daily, golden>>

CalendarNext == ClaimDaily \/ Extend \/ ClaimStipend \/ Tick

CalendarSpec == CalendarInit /\ [][CalendarNext]_calendarVars

-----------------------------------------------------------------------------
(***************************************************************************)
(* Properties.                                                             *)
(***************************************************************************)

\* The claims since two days in a row were missed.
Run == {d \in claims : \A e \in d..(last - 1) : e \in claims \/ e + 1 \in claims}

\* The streak counts the days of the current run that followed a claim on the
\* day before, and its first.
StreakHonest == claims # {} => streak = 1 + Cardinality({d \in Run : d + 1 \in Run})

\* Between two Lumen rewards lies a whole ladder of days, or a day without a
\* claim: the grace of a missed day keeps the day of the ladder as well.
KeystoneWeekly ==
    \A a, b \in keystones : a < b => b - a >= Ladder \/ ~(a..b \subseteq claims)

\* No paid time is lost: what was enjoyed and what is left add up to what was paid for.
PaidTimeKept == enjoyed + LaterOf(0, expiresAt - now) = paidFor

\* There is at most one stipend for each day with benefits.
StipendsEarned == stipends <= Cardinality(sunny)

\* Golden Garden gives what was paid for, no less and no more.
GoldenGives == PaidTimeKept /\ StipendsEarned

=============================================================================
