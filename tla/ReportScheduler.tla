-------------------------- MODULE ReportScheduler --------------------------
(***************************************************************************)
(* ScheduledReportRunner and run_report_scheduler of scheduler.py, over    *)
(* lives of the process: at each hour the completed hour is reported, and  *)
(* after midnight the completed day as well.  A window is remembered, in   *)
(* memory and in a file, when its package was delivered, or generated when *)
(* there is nobody to deliver it to.                                       *)
(*                                                                         *)
(* Time passes while a report is built, rendered and sent, and while the   *)
(* thread waits.  One sweep of the acquisition, whichever it is, stands    *)
(* for all: reports read it from the database once the sink stored it.     *)
(***************************************************************************)
EXTENDS Calendar, FiniteSets

CONSTANTS
    Zones,      \* what TIMEZONE, and the time of the year, may be
    Attempts,   \* delivery_attempts
    MaxTurn,    \* how many ticks a turn of the scheduler takes at most
    MaxTime,    \* bound: the last tick
    MaxStarts   \* bound: how often the process is started

(* A turn takes less than an hour, and a zone changes its clock by whole   *)
(* hours at a full hour on its face; its offsets may be half hours.        *)
ASSUME SchedulerAssumption ==
    /\ Zones \subseteq Zone
    /\ Attempts \in Nat \ {0} /\ MaxTurn \in Nat /\ MaxTime \in Nat /\ MaxStarts \in Nat
    /\ MaxTurn < HourTicks
    /\ \A z \in Zones :
          (z.at + z.before) % HourTicks = 0 /\ (z.after - z.before) % HourTicks = 0

VARIABLES
    zone,        \* the timezone
    now,         \* the clock
    starts,      \* how often the process was started
    since,       \* when it was started last
    notifier,    \* there is one to deliver to
    pc,          \* where the scheduler thread is
    from,        \* its local variable now, taken when the turn began
    kind,        \* which of the two windows is due
    attempt,     \* how often its package was sent
    alarm,       \* when the wait for the next hour ends
    delivered,   \* _delivered
    file,        \* delivery-state.json
    failing,     \* _report_failures > 0
    app,         \* application_status: "failed" also for recovering
    sweep,       \* when the sweep started, and whether it is stored
    looked,      \* history: the windows looked at since the start
    done,        \* history: the windows delivered, or generated
    again,       \* history: those that were so once more, though on record
    forgiven,    \* history: those whose record does not exist, or was lost
    holding      \* history: the reports generated with the sweep in them

clockVars   == <<zone, now>>
lifeVars    == <<starts, since, notifier>>
turnVars    == <<pc, from, kind, attempt, alarm>>
recordVars  == <<delivered, file>>
healthVars  == <<failing, app>>
historyVars == <<looked, done, again, forgiven, holding>>
vars == <<clockVars, lifeVars, turnVars, recordVars, healthVars, sweep, historyVars>>

None == -1

Init ==
    /\ zone \in Zones /\ now = 0
    /\ starts = 0 /\ since = 0 /\ notifier = FALSE
    /\ pc = "down" /\ from = 0 /\ kind = "hourly" /\ attempt = 0 /\ alarm = 0
    /\ delivered = {} /\ file = {}
    /\ failing = FALSE /\ app = "fine"
    /\ sweep = [at |-> None, stored |-> FALSE]
    /\ looked = {} /\ done = {} /\ again = {} /\ forgiven = {} /\ holding = {}

Due == Completed(zone, kind, from)

-----------------------------------------------------------------------------
(* Around the scheduler: the clock, the process, the other threads.        *)

\* A turn ends in time, and the wait ends when it is over.
Tick ==
    /\ now < MaxTime
    /\ \/ pc = "down"
       \/ pc = "wait" /\ now < alarm
       \/ pc \in {"due", "ready", "persist", "success"} /\ now < from + MaxTurn
    /\ now' = now + 1
    /\ UNCHANGED <<zone, lifeVars, turnVars, recordVars, healthVars, sweep, historyVars>>

\* A file that is missing or cannot be read counts as empty.
Start ==
    /\ pc = "down" /\ starts < MaxStarts
    /\ starts' = starts + 1 /\ since' = now
    /\ notifier' \in BOOLEAN
    /\ pc' = "top"
    /\ \/ delivered' = file /\ UNCHANGED forgiven
       \/ delivered' = {} /\ forgiven' = forgiven \union file
    /\ UNCHANGED <<clockVars, from, kind, attempt, alarm, file, healthVars, sweep, looked,
                   done, again, holding>>

\* A stop, seen at the top or in the wait, or a crash, or the end of a process
\* whose deadline the thread has missed.  The next one makes a new health state.
ProcessEnds ==
    /\ pc # "down"
    /\ pc' = "down" /\ from' = 0 /\ kind' = "hourly" /\ attempt' = 0 /\ alarm' = 0
    /\ notifier' = FALSE /\ since' = 0 /\ looked' = {}
    /\ failing' = FALSE /\ app' = "fine"
    /\ delivered' = {}
    /\ forgiven' = IF pc = "persist" THEN forgiven \union {Due} ELSE forgiven
    /\ UNCHANGED <<clockVars, starts, file, sweep, done, again, holding>>

\* The acquisition and the supervisor set the status too.
OthersSetStatus ==
    /\ pc # "down"
    /\ app' \in {"fine", "failed"}
    /\ UNCHANGED <<clockVars, lifeVars, turnVars, recordVars, failing, sweep, historyVars>>

SweepBegins ==
    /\ sweep.at = None
    /\ sweep' = [at |-> now, stored |-> FALSE]
    /\ UNCHANGED <<clockVars, lifeVars, turnVars, recordVars, healthVars, historyVars>>

\* The scan took its time, and the sweep its way through the queue.
SweepStored ==
    /\ sweep.at # None
    /\ sweep' = [sweep EXCEPT !.stored = TRUE]
    /\ UNCHANGED <<clockVars, lifeVars, turnVars, recordVars, healthVars, historyVars>>

-----------------------------------------------------------------------------
(* A turn: run_pending.                                                    *)

TurnBegins ==
    /\ pc = "top"
    /\ pc' = "due" /\ from' = now /\ kind' = "hourly"
    /\ looked' = looked \union {Completed(zone, k, now) :
                    k \in {"hourly"} \union
                          (IF HourOfDay(zone, now) = 0 THEN {"daily"} ELSE {})}
    /\ UNCHANGED <<clockVars, lifeVars, attempt, alarm, recordVars, healthVars, sweep,
                   done, again, forgiven, holding>>

\* Slip: the delay is taken from the clock and not from the turn's beginning.
AfterDueFreshly ==
    /\ attempt' = 0
    /\ IF kind = "hourly" /\ HourOfDay(zone, from) = 0
       THEN pc' = "due" /\ kind' = "daily" /\ UNCHANGED <<from, alarm>>
       ELSE /\ pc' = "wait" /\ kind' = "hourly" /\ from' = 0
            /\ alarm' = now + Delay(zone, now)

\* The daily window after the hourly one, or the wait.  Its delay counts from
\* the beginning of the turn, so a turn that took long is made up for.
AfterDue ==
    /\ attempt' = 0
    /\ IF kind = "hourly" /\ HourOfDay(zone, from) = 0
       THEN pc' = "due" /\ kind' = "daily" /\ UNCHANGED <<from, alarm>>
       ELSE /\ pc' = "wait" /\ kind' = "hourly" /\ from' = 0
            /\ alarm' = now + Delay(zone, from)

TurnFrame == UNCHANGED <<clockVars, lifeVars, sweep, looked>>

Failure ==
    /\ failing' = TRUE
    /\ app' = IF app = "failed" THEN app ELSE "degraded"

AlreadyDelivered ==
    /\ pc = "due" /\ Due \in delivered
    /\ AfterDue
    /\ UNCHANGED <<recordVars, healthVars, done, again, forgiven, holding>> /\ TurnFrame

\* Slip: the window is recorded as soon as its report exists.
BuildAndRecord ==
    /\ pc = "due" /\ Due \notin delivered
    /\ pc' = "ready"
    /\ delivered' = delivered \union {Due}
    /\ holding' = IF sweep.stored /\ Holds(Due, sweep.at)
                  THEN holding \union {Due} ELSE holding
    /\ UNCHANGED <<from, kind, attempt, alarm, file, healthVars, done, again, forgiven>>
    /\ TurnFrame

\* The database is read in one transaction.
Build ==
    /\ pc = "due" /\ Due \notin delivered
    /\ pc' = "ready"
    /\ holding' = IF sweep.stored /\ Holds(Due, sweep.at)
                  THEN holding \union {Due} ELSE holding
    /\ UNCHANGED <<from, kind, attempt, alarm, recordVars, healthVars, done, again, forgiven>>
    /\ TurnFrame

BuildFails ==
    /\ pc = "due" /\ Due \notin delivered
    /\ Failure /\ AfterDue
    /\ UNCHANGED <<recordVars, done, again, forgiven, holding>> /\ TurnFrame

Finished ==
    /\ pc' = "persist"
    /\ done' = done \union {Due}
    /\ again' = IF Due \in done \ forgiven THEN again \union {Due} ELSE again
    /\ UNCHANGED <<from, kind, attempt, alarm, recordVars, healthVars, forgiven, holding>>
    /\ TurnFrame

NobodyToSendTo == pc = "ready" /\ ~notifier /\ Finished

Sent == pc = "ready" /\ notifier /\ Finished

\* Slip: one attempt more than there should be.
SendAgainOnceMore ==
    /\ pc = "ready" /\ notifier /\ attempt < Attempts
    /\ attempt' = attempt + 1
    /\ UNCHANGED <<pc, from, kind, alarm, recordVars, healthVars, done, again, forgiven, holding>>
    /\ TurnFrame

\* Not all parts of the package arrived: at once again, with all parts.
SendAgain ==
    /\ pc = "ready" /\ notifier /\ attempt + 1 < Attempts
    /\ attempt' = attempt + 1
    /\ UNCHANGED <<pc, from, kind, alarm, recordVars, healthVars, done, again, forgiven, holding>>
    /\ TurnFrame

\* The last attempt fails, or any raises.
SendFails ==
    /\ pc = "ready" /\ notifier
    /\ Failure /\ AfterDue
    /\ UNCHANGED <<recordVars, done, again, forgiven, holding>> /\ TurnFrame

\* Slip: only this window is written.
PersistAlone ==
    /\ pc = "persist"
    /\ pc' = "success"
    /\ delivered' = delivered \union {Due} /\ file' = {Due}
    /\ forgiven' = forgiven \ file'
    /\ UNCHANGED <<from, kind, attempt, alarm, healthVars, done, again, holding>>
    /\ TurnFrame

\* The file is replaced as a whole.
Persist ==
    /\ pc = "persist"
    /\ pc' = "success"
    /\ delivered' = delivered \union {Due} /\ file' = delivered'
    /\ forgiven' = forgiven \ file'
    /\ UNCHANGED <<from, kind, attempt, alarm, healthVars, done, again, holding>>
    /\ TurnFrame

\* The window stays in memory, so it is not reported again in this life.
PersistFails ==
    /\ pc = "persist"
    /\ delivered' = delivered \union {Due}
    /\ forgiven' = forgiven \union {Due}
    /\ Failure /\ AfterDue
    /\ UNCHANGED <<file, done, again, holding>> /\ TurnFrame

\* Slip: the failures are forgotten before they are looked at.
SuccessForgets ==
    /\ pc = "success"
    /\ failing' = FALSE /\ UNCHANGED app
    /\ AfterDue
    /\ UNCHANGED <<recordVars, done, again, forgiven, holding>> /\ TurnFrame

Success ==
    /\ pc = "success"
    /\ failing' = FALSE
    /\ app' = IF failing /\ app = "degraded" THEN "fine" ELSE app
    /\ AfterDue
    /\ UNCHANGED <<recordVars, done, again, forgiven, holding>> /\ TurnFrame

Wake ==
    /\ pc = "wait" /\ now >= alarm
    /\ pc' = "top" /\ alarm' = 0
    /\ UNCHANGED <<from, kind, attempt, recordVars, healthVars, done, again, forgiven, holding>>
    /\ TurnFrame

-----------------------------------------------------------------------------
TurnStep ==
    \/ TurnBegins \/ AlreadyDelivered \/ Build \/ BuildFails
    \/ NobodyToSendTo \/ Sent \/ SendAgain \/ SendFails
    \/ Persist \/ PersistFails \/ Success \/ Wake

Next ==
    \/ Tick \/ Start \/ ProcessEnds
    \/ OthersSetStatus \/ SweepBegins \/ SweepStored
    \/ TurnStep

Spec == Init /\ [][Next]_vars

-----------------------------------------------------------------------------
(* Properties.                                                             *)

Window == [kind : {"hourly", "daily"}, start : Int, end : Int]

TypeOK ==
    /\ zone \in Zones /\ now \in 0 .. MaxTime
    /\ starts \in 0 .. MaxStarts /\ since \in 0 .. now /\ notifier \in BOOLEAN
    /\ pc \in {"down", "top", "due", "ready", "persist", "success", "wait"}
    /\ from \in 0 .. now /\ kind \in {"hourly", "daily"}
    /\ attempt \in 0 .. Attempts - 1 /\ alarm \in Int
    /\ delivered \subseteq Window /\ file \subseteq Window
    /\ failing \in BOOLEAN /\ app \in {"fine", "degraded", "failed"}
    /\ sweep \in [at : {None} \union 0 .. MaxTime, stored : BOOLEAN]
    /\ \A windows \in {looked, done, again, forgiven, holding} : windows \subseteq Window

(* "A window is recorded ... after complete delivery when a notifier is    *)
(* configured": what memory or the file remember was really finished, in   *)
(* this life or an earlier one, whatever failed in between.                *)
RecordedIsDone == delivered \union file \subseteq done

(* "This makes normal polling and clean restarts idempotent": no window is *)
(* finished twice, but one whose record a crash, a failed write or an      *)
(* unreadable file has lost.                                               *)
FinishedOnce == again = {}

(* While no turn takes an hour, none is skipped: an hour that was over     *)
(* after the start is looked at before the next is over, a day with its    *)
(* last hour.                                                              *)
NoneSkipped ==
    pc # "down" =>
        \A t \in since + 1 .. now - HourTicks :
            /\ Wall(zone, t) % HourTicks = 0 => Completed(zone, "hourly", t) \in looked
            /\ Wall(zone, t) % Unit["daily"] = 0 => Completed(zone, "daily", t) \in looked

(* The station is not called degraded after the reports have recovered.    *)
DegradedIsFailing == app = "degraded" => failing

(* Windows are half open: no sweep is in two hourly reports, as long as    *)
(* the clock is not put back.                                              *)
InOneHourly ==
    zone.before <= zone.after =>
        Cardinality({w \in holding : w.kind = "hourly"}) <= 1

(* "Return the most recently completed local calendar hour": what is       *)
(* reported as an hour is one.                                             *)
HourIsCompleted ==
    \A w \in looked : w.kind = "hourly" => w.end - w.start = HourTicks
=============================================================================
