\* Days of two ticks, purchases of three: benefits begin and end within a day.
\* The calendar ends: no deadlock check.
SPECIFICATION CalendarSpec
CONSTANTS
    PerDay = 2
    Renewal = 3
    Ladder = 3
    End = 15
    MaxPaid = 3
INVARIANT StreakHonest
INVARIANT KeystoneWeekly
INVARIANT GoldenGives
CHECK_DEADLOCK FALSE
