------------------------------ MODULE RelativeTime -----------------------------
(***************************************************************************)
(* "Last seen" and "uptime" on the Console: lib/format.ts over the clock   *)
(* of the browser, which need not agree with the Core's, and the hook that *)
(* renders it anew with every tick.                                        *)
(***************************************************************************)
EXTENDS Integers

CONSTANTS
    Moments,        \* of the browser's clock, in milliseconds
    SeenAt,         \* moments, by the Core's clock, at which the server was seen
    Uptimes         \* in seconds

ASSUME MomentsAssumption ==
    Moments \subseteq Int /\ SeenAt \subseteq Int /\ Uptimes \subseteq Nat

VARIABLES
    clock,          \* the browser's clock
    now,            \* what useRelativeTime read of it last
    seen,           \* last_seen_at of the server shown
    uptime          \* uptime_seconds of the server shown

timeVars == <<clock, now, seen, uptime>>

\* diffSeconds: a moment that lies ahead counts as now.
Elapsed(at, seenAt) ==
    IF at < seenAt THEN 0 ELSE (at - seenAt) \div 1000

SecondsOf == [seconds |-> 1, minutes |-> 60, hours |-> 3600, days |-> 86400]

\* Whole minutes, hours and days, each from the one before.
Minutes(s) == s \div 60
Hours(s) == Minutes(s) \div 60
Days(s) == Hours(s) \div 24

\* Variant: a whole hour is still minutes.
Label_WholeHour(s) ==
    IF s < 5 THEN [unit |-> "now", n |-> 0]
    ELSE IF s < 60 THEN [unit |-> "seconds", n |-> s]
    ELSE IF Minutes(s) <= 60 THEN [unit |-> "minutes", n |-> Minutes(s)]
    ELSE IF Hours(s) < 24 THEN [unit |-> "hours", n |-> Hours(s)]
    ELSE [unit |-> "days", n |-> Days(s)]

\* formatRelativeTime.
Label(s) ==
    IF s < 5 THEN [unit |-> "now", n |-> 0]
    ELSE IF s < 60 THEN [unit |-> "seconds", n |-> s]
    ELSE IF Minutes(s) < 60 THEN [unit |-> "minutes", n |-> Minutes(s)]
    ELSE IF Hours(s) < 24 THEN [unit |-> "hours", n |-> Hours(s)]
    ELSE [unit |-> "days", n |-> Days(s)]

\* formatUptime: minutes are told on the first day only.
UptimeLabel(u) ==
    IF u \div 86400 = 0
    THEN [days |-> 0, hours |-> (u % 86400) \div 3600, minutes |-> (u % 3600) \div 60]
    ELSE [days |-> u \div 86400, hours |-> (u % 86400) \div 3600, minutes |-> 0]

TimeInit ==
    /\ clock \in Moments
    /\ now = clock
    /\ seen \in SeenAt
    /\ uptime \in Uptimes

\* Time passes; the browser may be asleep for any of it.  It is not set back.
Passes ==
    /\ \E t \in Moments : t > clock /\ clock' = t
    /\ UNCHANGED <<now, seen, uptime>>

\* The interval of the hook.
Tick ==
    /\ now' = clock
    /\ UNCHANGED <<clock, seen, uptime>>

\* The server's detail is polled, or another server is selected.
Answered ==
    /\ seen' \in SeenAt
    /\ uptime' \in Uptimes
    /\ UNCHANGED <<clock, now>>

TimeNext == Passes \/ Tick \/ Answered

TimeSpec == TimeInit /\ [][TimeNext]_timeVars

ShownAge == Label(Elapsed(now, seen))

\* The least age a label stands for, in seconds.
LeastAge(label) == IF label.unit = "now" THEN 0 ELSE label.n * SecondsOf[label.unit]

-----------------------------------------------------------------------------
(* Properties.                                                             *)

TimeTypeOK ==
    /\ clock \in Moments /\ now \in Moments
    /\ now <= clock
    /\ seen \in SeenAt
    /\ uptime \in Uptimes

\* A label stands for the ages from n units to the next one, and for no unit it says
\* as many as make the next greater one, at any moment and whatever the two clocks
\* differ by.
AgeExact ==
    LET age == Elapsed(now, seen)
    IN  /\ ShownAge.unit = "now" => age < 5
        /\ ShownAge.unit # "now" =>
            /\ LeastAge(ShownAge) <= age
            /\ age < LeastAge(ShownAge) + SecondsOf[ShownAge.unit]
        /\ ShownAge.unit = "seconds" => ShownAge.n < 60
        /\ ShownAge.unit = "minutes" => ShownAge.n \in 1 .. 59
        /\ ShownAge.unit = "hours" => ShownAge.n \in 1 .. 23
        /\ ShownAge.unit = "days" => ShownAge.n >= 1

\* The days, hours and minutes of an uptime add up to it, but for what is less than
\* the smallest unit told.
UptimeExact ==
    LET label == UptimeLabel(uptime)
        told == 86400 * label.days + 3600 * label.hours + 60 * label.minutes
    IN  /\ label.hours \in 0 .. 23 /\ label.minutes \in 0 .. 59
        /\ told <= uptime
        /\ uptime < told + (IF label.days = 0 THEN 60 ELSE 3600)

\* What the two labels of a server say is true of its age and its uptime.
LabelsExact == AgeExact /\ UptimeExact

\* While no answer arrives the age shown never gets less, across all changes of unit.
AgeNeverShrinks ==
    [][seen' = seen => LeastAge(ShownAge) <= LeastAge(ShownAge')]_timeVars
=============================================================================
