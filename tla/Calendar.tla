------------------------------ MODULE Calendar ------------------------------
(***************************************************************************)
(* The local calendar of reporting.py and scheduler.py: which hour and     *)
(* which day are reported at a moment, and how long it is to the next      *)
(* hour.  Moments are ticks of UTC; the code computes with wall clock      *)
(* times of a ZoneInfo, whose arithmetic looks at the clock face only.     *)
(*                                                                         *)
(* A zone changes its offset at most once: it is before until the moment   *)
(* at, and after from then on.                                             *)
(***************************************************************************)
EXTENDS Integers

CONSTANTS
    HourTicks,  \* ticks in an hour
    DayHours    \* hours in a day

ASSUME CalendarAssumption == HourTicks \in Nat \ {0} /\ DayHours \in Nat \ {0}

Zone == [before : Int, after : Int, at : Int]

\* now.astimezone(zone): the wall clock, and whether it shows this time again.
Wall(z, t) == t + (IF t < z.at THEN z.before ELSE z.after)
Fold(z, t) == t >= z.at /\ Wall(z, t) < z.at + z.before

\* The moment of a wall clock time.  The offset changes when the wall clock
\* reaches the change; between its two readings there, fold decides.
Instant(z, wall, fold) ==
    LET early == IF z.before < z.after THEN z.before ELSE z.after
        late  == IF z.before < z.after THEN z.after ELSE z.before
        old   == wall < z.at + (IF fold THEN early ELSE late)
    IN  wall - (IF old THEN z.before ELSE z.after)

HourOfDay(z, t) == (Wall(z, t) % (HourTicks * DayHours)) \div HourTicks

Unit == [hourly |-> HourTicks, daily |-> HourTicks * DayHours]

\* completed_calendar_hour and completed_calendar_day.  Going back by an hour
\* or a day forgets the fold.
Completed(z, kind, t) ==
    LET top == Wall(z, t) - (Wall(z, t) % Unit[kind])
    IN  [kind  |-> kind,
         start |-> Instant(z, top - Unit[kind], FALSE),
         end   |-> Instant(z, top, Fold(z, t))]

\* To the next hour on the clock face.
Delay(z, t) == HourTicks - (Wall(z, t) % HourTicks)

\* Slip: a sweep at the end of a window is in it, and in the next one.
HoldsClosed(window, t) == window.start <= t /\ t <= window.end

\* iter_sweeps: started_at >= start and started_at < end.
Holds(window, t) == window.start <= t /\ t < window.end
=============================================================================
