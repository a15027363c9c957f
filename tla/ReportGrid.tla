------------------------------ MODULE ReportGrid ------------------------------
(***************************************************************************)
(* The canonical time grid that both pictures of a report are drawn on     *)
(* (reporting.py), over the sweeps that the acquisition's loop makes       *)
(* (acquisition.py), in any number of lives of the process.                *)
(*                                                                         *)
(* A window is cut into slots of whole minutes, as many as a usual sweep   *)
(* of the window takes, and a slot has room for one sweep.  Two sweeps in  *)
(* one slot are an error, and no report is made of the window.             *)
(*                                                                         *)
(* A sweep has two readings of the clock.  The loop takes its turn at one  *)
(* of them and keeps the budget from it; the row begins at the other, when *)
(* the observer has saved the health state and rtl_power is started.  The  *)
(* two clocks of the code, monotonic and wall, run alike here: a wall      *)
(* clock that is set while the station runs is left out.                   *)
(***************************************************************************)
EXTENDS Naturals, FiniteSets

CONSTANTS
    Minute,    \* the length of a minute
    Budget,    \* cadence_budget_seconds
    Recovery,  \* recovery_seconds
    Tolerance, \* _ROW_QUANTUM_BOUNDARY_TOLERANCE_SECONDS
    Window,    \* the length of a report's window
    MaxTime,   \* bound: the last reading of the clock
    MaxLives   \* bound: how often the process is started

VARIABLES
    now,      \* the clock
    lives,    \* how often the process was started
    state,    \* the acquisition is "down", "waiting", "begun" or "sweeping"
    due,      \* when the next turn may be taken
    turn,     \* when the current or the last one was: started in the loop
    started,  \* when its row began: started_at of the sweep
    rows      \* the sweeps in the database, each with the turn it was made in

vars == <<now, lives, state, due, turn, started, rows>>

Init ==
    /\ now = 0 /\ lives = 0 /\ state = "down"
    /\ due = 0 /\ turn = 0 /\ started = 0 /\ rows = {}

-----------------------------------------------------------------------------
(* The acquisition.                                                        *)

Tick ==
    /\ now < MaxTime
    /\ now' = now + 1
    /\ UNCHANGED <<lives, state, due, turn, started, rows>>

\* The loop sweeps at once: nothing is known of the sweeps of the life before.
Start ==
    /\ state = "down" /\ lives < MaxLives
    /\ lives' = lives + 1 /\ state' = "waiting" /\ due' = now
    /\ UNCHANGED <<now, turn, started, rows>>

\* cycle takes its reading, and tells the observer, which may wait for a lock.
TurnBegins ==
    /\ state = "waiting" /\ now >= due
    /\ state' = "begun" /\ turn' = now
    /\ UNCHANGED <<now, lives, due, started, rows>>

\* _scan takes another one, which becomes the start of the row.
SweepStarts ==
    /\ state = "begun"
    /\ state' = "sweeping" /\ started' = now
    /\ UNCHANGED <<now, lives, due, turn, rows>>

Store(start, measured) ==
    rows' = rows \union {[start |-> start, finish |-> now, turn |-> turn, measured |-> measured]}

\* wait_after_success: what is left of the budget.
SweepSucceeds ==
    /\ state = "sweeping" /\ now > started
    /\ Store(started, TRUE)
    /\ due' = IF turn + Budget > now THEN turn + Budget ELSE now
    /\ state' = "waiting"
    /\ UNCHANGED <<now, lives, turn, started>>

\* A failed sweep is stored without a spectrum, under the time of its turn, and
\* the recovery is waited for.
SweepFails ==
    /\ state \in {"begun", "sweeping"}
    /\ Store(turn, FALSE)
    /\ due' = now + Recovery
    /\ state' = "waiting"
    /\ UNCHANGED <<now, lives, turn, started>>

\* A stop, a failure or a crash.
ProcessEnds ==
    /\ state # "down"
    /\ state' = "down"
    /\ UNCHANGED <<now, lives, due, turn, started, rows>>

Next == \/ Tick \/ Start \/ TurnBegins \/ SweepStarts
        \/ SweepSucceeds \/ SweepFails \/ ProcessEnds

Spec == Init /\ [][Next]_vars

-----------------------------------------------------------------------------
(* The grid of the window [from, from + Window) with data sweeps.          *)

\* The measured sweeps of the window: the others have no powers to draw.
DataRows(from) == {r \in rows : r.measured /\ from <= r.start /\ r.start < from + Window}

Duration(r) == r.finish - r.start

\* The k-th shortest duration.
Shortest(data, k) ==
    CHOOSE d \in {Duration(r) : r \in data} :
        /\ Cardinality({r \in data : Duration(r) < d}) < k
        /\ Cardinality({r \in data : Duration(r) <= d}) >= k

\* Twice the median.
TwiceUsual(data) ==
    Shortest(data, (Cardinality(data) + 1) \div 2) + Shortest(data, Cardinality(data) \div 2 + 1)

\* _row_quantum_seconds: the median less the tolerance, in whole minutes, rounded
\* up, and one at least.
Quantum(data) ==
    LET usual   == TwiceUsual(data)
        over    == IF usual > 2 * Tolerance THEN usual - 2 * Tolerance ELSE 0
        minutes == (over + 2 * Minute - 1) \div (2 * Minute)
    IN  Minute * (IF minutes > 1 THEN minutes ELSE 1)

InSlot(r, from, index, quantum) ==
    from + index * quantum <= r.start /\ r.start < from + (index + 1) * quantum

\* _canonical_time_grid assigns each sweep, and raises for a second one in a slot.
OneToOne(data, from) ==
    \A index \in 0 .. Window : \A r, s \in data :
        InSlot(r, from, index, Quantum(data)) /\ InSlot(s, from, index, Quantum(data)) => r = s

-----------------------------------------------------------------------------
\* Every window that is over can be drawn: its slots are assigned to the observed
\* sweeps one to one (_canonical_time_grid).
ReportDrawn ==
    \A from \in 0 .. MaxTime :
        (from % Window = 0 /\ from + Window <= now) => OneToOne(DataRows(from), from)
=============================================================================
