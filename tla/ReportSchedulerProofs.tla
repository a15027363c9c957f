----------------------- MODULE ReportSchedulerProofs -----------------------
(***************************************************************************)
(* Proofs about the report scheduler, for any zones, any lengths of the    *)
(* hour and the day, and any number of attempts and starts: what is on     *)
(* record was finished, and once; no hour is skipped; and no sweep is in   *)
(* two hourly reports.                                                     *)
(*                                                                         *)
(* The argument for the hours: the clock is changed by whole hours at a    *)
(* full hour, so all moments of an hour on its face look at the same       *)
(* window; and as a wait is counted from when the turn began, each turn    *)
(* begins in the hour after the one before.                                *)
(***************************************************************************)
EXTENDS ReportScheduler, FiniteSetTheorems, TLAPS

\* A day has a whole number of hours, so one can divide by its ticks.
LEMMA UnitsPositive ==
    /\ Unit["hourly"] \in Nat \ {0}
    /\ Unit["daily"] \in Nat \ {0}
<1>1. ASSUME NEW h \in Nat \ {0}, NEW d \in Nat \ {0} PROVE h * d \in Nat \ {0}
  OBVIOUS
<1>2. HourTicks * DayHours \in Nat \ {0}
  BY <1>1, CalendarAssumption
<1> QED  BY <1>2, CalendarAssumption DEF Unit

(* The moment of a wall clock time is a number.                            *)
LEMMA InstantIsInt ==
    ASSUME NEW z \in Zone, NEW wall \in Int, NEW fold \in BOOLEAN
    PROVE  Instant(z, wall, fold) \in Int
  BY DEF Instant, Zone

\* Whatever is due is a window: its bounds are moments.
LEMMA CompletedIsWindow ==
    ASSUME NEW z \in Zone, NEW k \in {"hourly", "daily"}, NEW t \in Int
    PROVE  Completed(z, k, t) \in Window
<1> DEFINE top == Wall(z, t) - (Wall(z, t) % Unit[k])
<1>1. Wall(z, t) \in Int
  BY DEF Wall, Zone
<1>2. Unit[k] \in Nat \ {0}
  BY UnitsPositive
<1>3. Wall(z, t) % Unit[k] \in Int
  BY <1>1, <1>2
<1>4. top \in Int /\ top - Unit[k] \in Int
  BY <1>1, <1>2, <1>3
<1>5. Fold(z, t) \in BOOLEAN
  BY DEF Fold
<1>6. Instant(z, top, Fold(z, t)) \in Int /\ Instant(z, top - Unit[k], FALSE) \in Int
  <2> HIDE DEF top
  <2> QED  BY <1>4, <1>5, InstantIsInt
<1> QED  BY <1>6 DEF Completed, Window

-----------------------------------------------------------------------------
(* Type correctness.                                                       *)

(* What is due is a window.                                                *)
LEMMA DueIsWindow == TypeOK => Due \in Window
<1> SUFFICES ASSUME TypeOK PROVE Due \in Window
  OBVIOUS
<1>1. zone \in Zone /\ kind \in {"hourly", "daily"} /\ from \in Int
  BY SchedulerAssumption DEF TypeOK
<1> QED  BY <1>1, CompletedIsWindow DEF Due

(* The wait to the next hour is a number.                                  *)
LEMMA DelayIsInt ==
    ASSUME NEW z \in Zone, NEW t \in Int PROVE Delay(z, t) \in Int
<1>1. Wall(z, t) \in Int
  BY DEF Wall, Zone
<1> QED  BY <1>1, CalendarAssumption DEF Delay

(* The types: the beginning.                                               *)
LEMMA TypeInit == Init => TypeOK
<1> SUFFICES ASSUME Init PROVE TypeOK
  OBVIOUS
<1> USE SchedulerAssumption DEF Init
<1>1. zone \in Zones /\ now \in 0 .. MaxTime /\ starts \in 0 .. MaxStarts
  OBVIOUS
<1>2. since = 0 /\ now = 0 /\ notifier = FALSE
  OBVIOUS
<1>3. pc = "down" /\ kind = "hourly" /\ app = "fine" /\ failing = FALSE
  OBVIOUS
<1>4. from \in 0 .. now /\ attempt \in 0 .. Attempts - 1 /\ alarm \in Int
  OBVIOUS
<1>5. sweep \in [at : {None} \union 0 .. MaxTime, stored : BOOLEAN]
  BY DEF None
<1>6. delivered \subseteq Window /\ file \subseteq Window
      /\ \A windows \in {looked, done, again, forgiven, holding} : windows \subseteq Window
  OBVIOUS
<1> QED  BY <1>1, <1>2, <1>3, <1>4, <1>5, <1>6 DEF TypeOK

\* What the steps of a turn have in common.
LEMMA TypeAfterDue ==
    ASSUME TypeOK, AfterDue
    PROVE  /\ pc' \in {"due", "wait"} /\ kind' \in {"hourly", "daily"}
           /\ from' \in {0, from} /\ attempt' = 0 /\ alarm' \in Int
<1>1. zone \in Zone /\ from \in Int /\ now \in Int
  BY SchedulerAssumption DEF TypeOK
<1>2. now + Delay(zone, from) \in Int
  BY <1>1, DelayIsInt
<1> QED  BY <1>2 DEF AfterDue, TypeOK

(* The types: the steps of a turn.                                         *)
LEMMA TypeTurn == ASSUME TypeOK, TurnStep PROVE TypeOK'
<1> USE SchedulerAssumption
<1>0. Due \in Window
  BY DueIsWindow
<1>1. CASE TurnBegins
  <2>1. zone \in Zone /\ now \in Int
    BY DEF TypeOK
  <2>2. \A k \in {"hourly", "daily"} : Completed(zone, k, now) \in Window
    BY <2>1, CompletedIsWindow
  <2>3. {"hourly"} \union (IF HourOfDay(zone, now) = 0 THEN {"daily"} ELSE {})
            \subseteq {"hourly", "daily"}
    OBVIOUS
  <2>4. looked' \subseteq Window
    BY <1>1, <2>2, <2>3 DEF TurnBegins, TypeOK
  <2> QED  BY <1>1, <2>4 DEF TurnBegins, TypeOK, clockVars, lifeVars, recordVars, healthVars
<1>2. CASE AlreadyDelivered
  BY <1>2, TypeAfterDue DEF AlreadyDelivered, TurnFrame, TypeOK, clockVars, lifeVars, recordVars, healthVars
<1>3. CASE Build
  BY <1>0, <1>3 DEF Build, TurnFrame, TypeOK, clockVars, lifeVars, recordVars, healthVars
<1>4. CASE BuildFails
  BY <1>4, TypeAfterDue DEF BuildFails, Failure, TurnFrame, TypeOK, clockVars, lifeVars, recordVars, healthVars
<1>5. CASE NobodyToSendTo \/ Sent
  BY <1>0, <1>5 DEF NobodyToSendTo, Sent, Finished, TurnFrame, TypeOK, clockVars, lifeVars, recordVars, healthVars
<1>6. CASE SendAgain
  BY <1>6 DEF SendAgain, TurnFrame, TypeOK, clockVars, lifeVars, recordVars, healthVars
<1>7. CASE SendFails
  BY <1>7, TypeAfterDue DEF SendFails, Failure, TurnFrame, TypeOK, clockVars, lifeVars, recordVars, healthVars
<1>8. CASE Persist
  BY <1>0, <1>8 DEF Persist, TurnFrame, TypeOK, clockVars, lifeVars, recordVars, healthVars
<1>9. CASE PersistFails
  BY <1>0, <1>9, TypeAfterDue DEF PersistFails, Failure, TurnFrame, TypeOK, clockVars, lifeVars, recordVars, healthVars
<1>10. CASE Success
  <2>1. failing' \in BOOLEAN /\ app' \in {"fine", "degraded", "failed"}
    BY <1>10 DEF Success, TypeOK
  <2>2. UNCHANGED <<zone, now, starts, since, notifier, delivered, file, sweep>>
    BY <1>10 DEF Success, TurnFrame, clockVars, lifeVars, recordVars
  <2>3. UNCHANGED <<looked, done, again, forgiven, holding>>
    BY <1>10 DEF Success, TurnFrame
  <2> QED  BY <1>10, <2>1, <2>2, <2>3, TypeAfterDue DEF Success, TypeOK
<1>11. CASE Wake
  BY <1>11 DEF Wake, TurnFrame, TypeOK, clockVars, lifeVars, recordVars, healthVars
<1> QED
  BY <1>1, <1>2, <1>3, <1>4, <1>5, <1>6, <1>7, <1>8, <1>9, <1>10, <1>11 DEF TurnStep

(* The types: every step.                                                  *)
LEMMA TypeStep == ASSUME TypeOK, [Next]_vars PROVE TypeOK'
<1> USE SchedulerAssumption
<1>0. Due \in Window
  BY DueIsWindow
<1>1. CASE Tick
  BY <1>1 DEF Tick, TypeOK, clockVars, lifeVars, turnVars, recordVars, healthVars, historyVars
<1>2. CASE Start
  BY <1>2 DEF Start, TypeOK, clockVars, lifeVars, turnVars, recordVars, healthVars, historyVars
<1>3. CASE ProcessEnds
  <2>1. forgiven' \subseteq Window /\ looked' \subseteq Window /\ delivered' \subseteq Window
    BY <1>0, <1>3 DEF ProcessEnds, TypeOK
  <2>2. since' \in 0 .. now' /\ from' \in 0 .. now' /\ attempt' \in 0 .. Attempts - 1 /\ alarm' \in Int
    BY <1>3 DEF ProcessEnds, TypeOK, clockVars
  <2>3. UNCHANGED <<zone, now, starts, file, sweep, done, again, holding>>
    BY <1>3 DEF ProcessEnds, clockVars
  <2>4. pc' = "down" /\ kind' = "hourly" /\ app' = "fine" /\ failing' = FALSE /\ notifier' = FALSE
    BY <1>3 DEF ProcessEnds
  <2> QED  BY <2>1, <2>2, <2>3, <2>4 DEF TypeOK
<1>4. CASE OthersSetStatus
  BY <1>4 DEF OthersSetStatus, TypeOK, clockVars, lifeVars, turnVars, recordVars, healthVars, historyVars
<1>5. CASE SweepBegins \/ SweepStored
  <2>1. sweep' \in [at : {None} \union 0 .. MaxTime, stored : BOOLEAN]
    <3>1. CASE SweepBegins
      BY <3>1 DEF SweepBegins, TypeOK
    <3>2. CASE SweepStored
      BY <3>2 DEF SweepStored, TypeOK
    <3> QED  BY <1>5, <3>1, <3>2
  <2> QED
    BY <1>5, <2>1 DEF SweepBegins, SweepStored, TypeOK, clockVars, lifeVars, turnVars,
                      recordVars, healthVars, historyVars
<1>6. CASE TurnStep
  BY <1>6, TypeTurn
<1>7. CASE UNCHANGED vars
  BY <1>7 DEF vars, TypeOK, clockVars, lifeVars, turnVars, recordVars, healthVars, historyVars
<1> QED  BY <1>1, <1>2, <1>3, <1>4, <1>5, <1>6, <1>7 DEF Next

(* Every variable keeps its type, whatever the zones and the bounds are.   *)
THEOREM SchedulerTypeCorrect == Spec => []TypeOK
<1>1. Init => TypeOK
  BY TypeInit
<1>2. TypeOK /\ [Next]_vars => TypeOK'
  BY TypeStep
<1> QED  BY <1>1, <1>2, PTL DEF Spec

-----------------------------------------------------------------------------
(* The record of what was delivered: the invariant.                        *)

\* What is on record was finished, and so is what is about to be recorded.
Recorded ==
    /\ delivered \union file \subseteq done
    /\ pc = "persist" => Due \in done

\* What was finished is remembered, in memory while a process lives and in the
\* file otherwise, unless its record is known to be lost.
Remembered ==
    IF pc = "down"
    THEN done \subseteq file \union forgiven
    ELSE done \subseteq delivered \union forgiven
                        \union (IF pc = "persist" THEN {Due} ELSE {})

\* Memory is never ahead of the file, but for what could not be written.
Kept == delivered \subseteq file \union forgiven

\* A package exists only of a window that was not on record.
Undelivered == pc = "ready" => Due \notin delivered

\* Everything the invariant says that is not a type.
RecordHolds ==
    Recorded /\ Remembered /\ Kept /\ Undelivered /\ FinishedOnce /\ DegradedIsFailing

(* The record: the beginning.                                              *)
LEMMA RecordInit == Init => RecordHolds
  BY DEF Init, RecordHolds, Recorded, Remembered, Kept, Undelivered, FinishedOnce,
         DegradedIsFailing

\* Steps that end a window without a new record: nothing was finished.
LEMMA GoingOn ==
    ASSUME RecordHolds, pc # "down", pc # "persist", AfterDue,
           UNCHANGED <<delivered, file, done, again, forgiven>>,
           DegradedIsFailing'
    PROVE  RecordHolds'
<1>1. pc' \in {"due", "wait"}
  BY DEF AfterDue
<1> QED  BY <1>1 DEF RecordHolds, Recorded, Remembered, Kept, Undelivered, FinishedOnce

(* A failure sets the count and the status together.                       *)
LEMMA FailureDegrades ==
    ASSUME DegradedIsFailing, Failure PROVE DegradedIsFailing'
  BY DEF Failure, DegradedIsFailing

(* The record: the steps of a turn.                                        *)
LEMMA RecordTurn == ASSUME RecordHolds, TurnStep PROVE RecordHolds'
<1>1. CASE TurnBegins
  BY <1>1 DEF TurnBegins, RecordHolds, Recorded, Remembered, Kept, Undelivered, FinishedOnce,
              DegradedIsFailing, recordVars, healthVars
<1>2. CASE AlreadyDelivered
  <2>1. DegradedIsFailing'
    BY <1>2 DEF AlreadyDelivered, RecordHolds, DegradedIsFailing, healthVars
  <2> QED  BY <1>2, <2>1, GoingOn DEF AlreadyDelivered, recordVars
<1>3. CASE Build
  <2>1. Due' = Due /\ Due \notin delivered
    BY <1>3 DEF Build, TurnFrame, clockVars, Due
  <2> QED
    BY <1>3, <2>1 DEF Build, RecordHolds, Recorded, Remembered, Kept, Undelivered,
                      FinishedOnce, DegradedIsFailing, recordVars, healthVars
<1>4. CASE BuildFails
  <2>1. DegradedIsFailing'
    BY <1>4, FailureDegrades DEF BuildFails, RecordHolds
  <2> QED  BY <1>4, <2>1, GoingOn DEF BuildFails, recordVars
<1>5. CASE NobodyToSendTo \/ Sent
  <2>1. pc = "ready" /\ Finished
    BY <1>5 DEF NobodyToSendTo, Sent
  <2>2. Due' = Due
    BY <2>1 DEF Finished, TurnFrame, clockVars, Due
  <2>3. Due \notin delivered
    BY <2>1 DEF RecordHolds, Undelivered
  <2>4. Due \notin done \ forgiven
    BY <2>1, <2>3 DEF RecordHolds, Remembered
  <2>5. pc' = "persist" /\ done' = done \union {Due} /\ again' = again
    BY <2>1, <2>4 DEF Finished
  <2>6. UNCHANGED <<delivered, file, forgiven, failing, app>>
    BY <2>1 DEF Finished, recordVars, healthVars
  <2> QED
    BY <2>1, <2>2, <2>5, <2>6 DEF RecordHolds, Recorded, Remembered, Kept, Undelivered,
                                  FinishedOnce, DegradedIsFailing
<1>6. CASE SendAgain
  <2>1. Due' = Due
    BY <1>6 DEF SendAgain, TurnFrame, clockVars, Due
  <2> QED
    BY <1>6, <2>1 DEF SendAgain, RecordHolds, Recorded, Remembered, Kept, Undelivered,
                      FinishedOnce, DegradedIsFailing, recordVars, healthVars
<1>7. CASE SendFails
  <2>1. DegradedIsFailing'
    BY <1>7, FailureDegrades DEF SendFails, RecordHolds
  <2> QED  BY <1>7, <2>1, GoingOn DEF SendFails, recordVars
<1>8. CASE Persist
  <2>1. /\ pc = "persist" /\ pc' = "success" /\ delivered' = delivered \union {Due}
        /\ file' = delivered' /\ forgiven' = forgiven \ file'
        /\ UNCHANGED <<done, again, failing, app>>
    BY <1>8 DEF Persist, healthVars
  <2> QED
    BY <2>1 DEF RecordHolds, Recorded, Remembered, Kept, Undelivered, FinishedOnce,
                DegradedIsFailing
<1>9. CASE PersistFails
  <2>1. /\ pc = "persist" /\ delivered' = delivered \union {Due}
        /\ forgiven' = forgiven \union {Due}
        /\ UNCHANGED <<file, done, again>>
    BY <1>9 DEF PersistFails
  <2>2. pc' \in {"due", "wait"}
    BY <1>9 DEF PersistFails, AfterDue
  <2>3. DegradedIsFailing'
    BY <1>9, FailureDegrades DEF PersistFails, RecordHolds
  <2> QED
    BY <2>1, <2>2, <2>3 DEF RecordHolds, Recorded, Remembered, Kept, Undelivered, FinishedOnce
<1>10. CASE Success
  <2>1. DegradedIsFailing'
    BY <1>10 DEF Success, RecordHolds, DegradedIsFailing
  <2> QED  BY <1>10, <2>1, GoingOn DEF Success, recordVars
<1>11. CASE Wake
  BY <1>11 DEF Wake, RecordHolds, Recorded, Remembered, Kept, Undelivered, FinishedOnce,
               DegradedIsFailing, recordVars, healthVars
<1> QED
  BY <1>1, <1>2, <1>3, <1>4, <1>5, <1>6, <1>7, <1>8, <1>9, <1>10, <1>11 DEF TurnStep

(* The record: every step.                                                 *)
LEMMA RecordStep == ASSUME RecordHolds, [Next]_vars PROVE RecordHolds'
<1>1. CASE Tick \/ SweepBegins \/ SweepStored \/ UNCHANGED vars
  <2>1. UNCHANGED <<zone, pc, from, kind, delivered, file, failing, app, done, again, forgiven>>
    BY <1>1 DEF Tick, SweepBegins, SweepStored, vars, clockVars, turnVars, recordVars,
                healthVars, historyVars
  <2>2. Due' = Due
    BY <2>1 DEF Due
  <2> QED
    BY <2>1, <2>2 DEF RecordHolds, Recorded, Remembered, Kept, Undelivered, FinishedOnce,
                      DegradedIsFailing
<1>2. CASE Start
  <2>1. pc = "down" /\ pc' = "top" /\ UNCHANGED <<file, done, again, failing, app>>
    BY <1>2 DEF Start, healthVars
  <2>2. \/ delivered' = file /\ forgiven' = forgiven
        \/ delivered' = {} /\ forgiven' = forgiven \union file
    BY <1>2 DEF Start
  <2> QED
    BY <2>1, <2>2 DEF RecordHolds, Recorded, Remembered, Kept, Undelivered, FinishedOnce,
                      DegradedIsFailing
<1>3. CASE ProcessEnds
  <2>1. /\ pc # "down" /\ pc' = "down" /\ delivered' = {} /\ app' = "fine"
        /\ forgiven' = IF pc = "persist" THEN forgiven \union {Due} ELSE forgiven
        /\ UNCHANGED <<file, done, again>>
    BY <1>3 DEF ProcessEnds
  <2> QED
    BY <2>1 DEF RecordHolds, Recorded, Remembered, Kept, Undelivered, FinishedOnce,
                DegradedIsFailing
<1>4. CASE OthersSetStatus
  <2>1. /\ UNCHANGED <<zone, pc, from, kind, delivered, file, done, again, forgiven>>
        /\ app' \in {"fine", "failed"}
    BY <1>4 DEF OthersSetStatus, clockVars, turnVars, recordVars, historyVars
  <2>2. Due' = Due
    BY <2>1 DEF Due
  <2> QED
    BY <2>1, <2>2 DEF RecordHolds, Recorded, Remembered, Kept, Undelivered, FinishedOnce,
                      DegradedIsFailing
<1>5. CASE TurnStep
  BY <1>5, RecordTurn
<1> QED  BY <1>1, <1>2, <1>3, <1>4, <1>5 DEF Next

(* The record: every reachable state.                                      *)
LEMMA RecordAlwaysHolds == Spec => []RecordHolds
<1>1. Init => RecordHolds
  BY RecordInit
<1>2. RecordHolds /\ [Next]_vars => RecordHolds'
  BY RecordStep
<1> QED  BY <1>1, <1>2, PTL DEF Spec

(* Nothing is on record, in memory or on disk, that was not finished, in   *)
(* whatever order windows fail, processes end and files are lost.          *)
THEOREM RecordsTellTheTruth == Spec => []RecordedIsDone
<1>1. RecordHolds => RecordedIsDone
  BY DEF RecordHolds, Recorded, RecordedIsDone
<1> QED  BY <1>1, RecordAlwaysHolds, PTL

(* No window is finished twice, over any number of lives of the process,   *)
(* but one whose record does not exist or was lost.                        *)
THEOREM WindowsFinishOnce == Spec => []FinishedOnce
<1>1. RecordHolds => FinishedOnce
  BY DEF RecordHolds
<1> QED  BY <1>1, RecordAlwaysHolds, PTL

(* The status says degraded only while reports are failing.                *)
THEOREM DegradedMeansFailing == Spec => []DegradedIsFailing
<1>1. RecordHolds => DegradedIsFailing
  BY DEF RecordHolds
<1> QED  BY <1>1, RecordAlwaysHolds, PTL

-----------------------------------------------------------------------------
(* Arithmetic of hours and days, whatever number of ticks they have.       *)

\* Quotient and remainder.
LEMMA Quotient ==
    ASSUME NEW n \in Nat \ {0}, NEW m \in Int
    PROVE  /\ m % n \in 0 .. n - 1 /\ m \div n \in Int
           /\ m = n * (m \div n) + (m % n)
  OBVIOUS

\* Between -n and n there is one multiple of n.
LEMMA SmallMultiple ==
    ASSUME NEW n \in Nat \ {0}, NEW q \in Int, n * q < n, -n < n * q
    PROVE  q = 0
<1>1. CASE q >= 1
  <2>1. n * (q - 1) >= 0
    BY <1>1
  <2>2. n * q = n * (q - 1) + n
    OBVIOUS
  <2> QED  BY <2>1, <2>2
<1>2. CASE q <= -1
  <2>1. n * (-1 - q) >= 0
    BY <1>2
  <2>2. n * q = -n - n * (-1 - q)
    OBVIOUS
  <2> QED  BY <2>1, <2>2
<1> QED  BY <1>1, <1>2

\* A number is split into a multiple and a remainder in one way only.
LEMMA Remainder ==
    ASSUME NEW n \in Nat \ {0}, NEW q \in Int, NEW r \in 0 .. n - 1
    PROVE  (n * q + r) % n = r
<1> DEFINE m == n * q + r
           p == m \div n
           s == m % n
<1>1. m \in Int /\ n * q \in Int
  OBVIOUS
<1>2. s \in 0 .. n - 1 /\ p \in Int /\ m = n * p + s
  <2> HIDE DEF m
  <2> QED  BY <1>1, Quotient
<1>3. n * (q - p) = n * q - n * p /\ n * p \in Int
  BY <1>2
<1>4. n * q + r = n * p + s
  BY <1>2
<1> HIDE DEF p, s, m
<1>5. n * (q - p) = s - r
  BY <1>1, <1>2, <1>3, <1>4
<1>6. q - p = 0
  <2>1. q - p \in Int /\ n * (q - p) < n /\ -n < n * (q - p)
    BY <1>2, <1>5
  <2> QED  BY <2>1, SmallMultiple
<1>7. s = r
  <2>1. n * 0 = 0
    OBVIOUS
  <2> QED  BY <1>2, <1>5, <1>6, <2>1
<1> QED  BY <1>7 DEF s, m

\* A whole number of hours does not change how much of the hour is over.
LEMMA Shift ==
    ASSUME NEW n \in Nat \ {0}, NEW a \in Int, a % n = 0, NEW t \in Int
    PROVE  (t + a) % n = t % n
<1> DEFINE qa == a \div n
           qt == t \div n
           r  == t % n
<1>1. /\ qa \in Int /\ qt \in Int /\ r \in 0 .. n - 1
      /\ a = n * qa + 0 /\ t = n * qt + r
  BY Quotient
<1> HIDE DEF qa, qt, r
<1>2. n * (qt + qa) = n * qt + n * qa /\ n * qt \in Int /\ n * qa \in Int
  BY <1>1
<1>3. t + a = n * (qt + qa) + r
  BY <1>1, <1>2
<1>4. qt + qa \in Int
  BY <1>1
<1>5. (n * (qt + qa) + r) % n = r
  BY <1>1, <1>4, Remainder
<1> QED  BY <1>3, <1>5 DEF r

\* The last full hour.
LEMMA Floor ==
    ASSUME NEW n \in Nat \ {0}, NEW t \in Int
    PROVE  /\ t % n \in 0 .. n - 1
           /\ t - (t % n) \in Int /\ (t - (t % n)) % n = 0
<1> DEFINE q == t \div n
           r == t % n
<1>1. q \in Int /\ r \in 0 .. n - 1 /\ t = n * q + r
  BY Quotient
<1> HIDE DEF q, r
<1>2. t - r = n * q + 0 /\ n * q \in Int /\ 0 \in 0 .. n - 1
  BY <1>1
<1>3. (n * q + 0) % n = 0
  BY <1>1, <1>2, Remainder
<1> QED  BY <1>1, <1>2, <1>3 DEF r

\* Full hours are an hour apart at least.
LEMMA Apart ==
    ASSUME NEW n \in Nat \ {0}, NEW a \in Int, NEW b \in Int, a % n = 0, b % n = 0, a < b
    PROVE  a + n <= b
<1> DEFINE qa == a \div n
           qb == b \div n
<1>1. qa \in Int /\ qb \in Int /\ a = n * qa + 0 /\ b = n * qb + 0
  BY Quotient
<1> HIDE DEF qa, qb
<1>2. n * (qb - qa) = n * qb - n * qa /\ n * qb \in Int /\ n * qa \in Int
  BY <1>1
<1>3. n * (qb - qa) = b - a /\ qb - qa \in Int
  BY <1>1, <1>2
<1> SUFFICES ASSUME b - a < n PROVE FALSE
  OBVIOUS
<1>4. qb - qa = 0
  BY <1>3, SmallMultiple
<1>5. n * 0 = 0
  OBVIOUS
<1> QED  BY <1>3, <1>4, <1>5

\* A full day is a full hour.
LEMMA DayIsHour ==
    ASSUME NEW n \in Nat \ {0}, NEW d \in Nat \ {0}, NEW w \in Int, w % (n * d) = 0
    PROVE  w % n = 0
<1>1. n * d \in Nat \ {0}
  OBVIOUS
<1> DEFINE q == w \div (n * d)
<1>2. q \in Int /\ w = (n * d) * q + 0
  <2> DEFINE m == n * d
  <2>1. m \in Nat \ {0} /\ w % m = 0
    BY <1>1
  <2> HIDE DEF m
  <2>2. w \div m \in Int /\ w = m * (w \div m) + (w % m)
    BY <2>1, Quotient
  <2> QED  BY <2>1, <2>2 DEF m
<1> HIDE DEF q
<1>3. (n * d) * q = n * (d * q) /\ d * q \in Int
  BY <1>2
<1>4. w = n * (d * q) + 0 /\ 0 \in 0 .. n - 1
  BY <1>2, <1>3
<1>5. (n * (d * q) + 0) % n = 0
  BY <1>3, <1>4, Remainder
<1> QED  BY <1>4, <1>5

\* The first hour of a day.
LEMMA FirstHour ==
    ASSUME NEW n \in Nat \ {0}, NEW d \in Nat \ {0}, NEW w \in Int, w % (n * d) = 0,
           NEW r \in 0 .. n - 1
    PROVE  (w + r) % (n * d) = r /\ r \div n = 0
<1>1. n * d \in Nat \ {0} /\ n <= n * d
  <2>1. n * (d - 1) >= 0 /\ n * d = n * (d - 1) + n
    OBVIOUS
  <2> QED  BY <2>1
<1>2. (w + r) % (n * d) = r
  <2> DEFINE m == n * d
  <2>1. m \in Nat \ {0} /\ r \in 0 .. m - 1 /\ w % m = 0 /\ r \in Int
    BY <1>1
  <2> HIDE DEF m
  <2>2. (r + w) % m = r % m
    BY <2>1, Shift
  <2>3. r = m * 0 + r /\ (m * 0 + r) % m = r
    BY <2>1, Remainder
  <2>4. r + w = w + r
    BY <2>1
  <2> QED  BY <2>2, <2>3, <2>4 DEF m
<1>3. r \div n = 0
  <2>1. r \div n \in Int /\ r = n * (r \div n) + (r % n) /\ r % n \in 0 .. n - 1
    BY Quotient
  <2>2. n * (r \div n) < n /\ -n < n * (r \div n)
    BY <2>1
  <2> QED  BY <2>1, <2>2, SmallMultiple
<1> QED  BY <1>2, <1>3

-----------------------------------------------------------------------------
(* The calendar, of a zone whose clock is changed by whole hours, and at a *)
(* full hour: its offsets need not be whole hours.                         *)

Aligned(z) ==
    (z.at + z.before) % HourTicks = 0 /\ (z.after - z.before) % HourTicks = 0

\* When the hour on the clock face began, and the moments at which one does.
HourOf(z, t) == t - (Wall(z, t) % HourTicks)
OnHour(z, t) == (t + z.before) % HourTicks = 0

\* Two of these are an hour apart at least.
LEMMA HoursApart ==
    ASSUME NEW z \in Zone, NEW a \in Int, NEW b \in Int, OnHour(z, a), OnHour(z, b), a < b
    PROVE  a + HourTicks <= b
<1> USE CalendarAssumption
<1>1. z.before \in Int /\ a + z.before \in Int /\ b + z.before \in Int
  BY DEF Zone
<1>2. a + z.before < b + z.before
  BY <1>1
<1>3. a + z.before + HourTicks <= b + z.before
  BY <1>1, <1>2, Apart DEF OnHour
<1> QED  BY <1>1, <1>3

\* The clock is put forward or back between hours.
LEMMA WallOfHour ==
    ASSUME NEW z \in Zone, Aligned(z), NEW t \in Int
    PROVE  /\ HourOf(z, t) \in Int /\ OnHour(z, HourOf(z, t))
           /\ HourOf(z, t) <= t /\ t < HourOf(z, t) + HourTicks
           /\ t < z.at <=> HourOf(z, t) < z.at
           /\ Wall(z, t) \in Int /\ Wall(z, t) % HourTicks = (t + z.before) % HourTicks
           /\ Wall(z, t) % HourTicks \in 0 .. HourTicks - 1
           /\ Wall(z, HourOf(z, t)) = Wall(z, t) - (Wall(z, t) % HourTicks)
           /\ Wall(z, HourOf(z, t)) % HourTicks = 0
           /\ Fold(z, t) <=> Fold(z, HourOf(z, t))
<1> USE CalendarAssumption
<1> DEFINE f == HourOf(z, t)
           n == HourTicks
           w == Wall(z, t)
           r == w % n
<1>0. z.before \in Int /\ z.after \in Int /\ z.at \in Int /\ w \in Int
  BY DEF Zone, Wall
<1>1. r \in 0 .. n - 1 /\ w - r \in Int /\ (w - r) % n = 0
  BY <1>0, Floor
<1>2. r = (t + z.before) % n
  <2>1. CASE t < z.at
    BY <2>1 DEF Wall
  <2>2. CASE t >= z.at
    <3>1. w = (t + z.before) + (z.after - z.before) /\ t + z.before \in Int /\ z.after - z.before \in Int
      BY <1>0, <2>2 DEF Wall
    <3>2. ((t + z.before) + (z.after - z.before)) % n = (t + z.before) % n
      BY <3>1, Shift DEF Aligned
    <3> HIDE DEF w
    <3> QED  BY <3>1, <3>2
  <2> QED  BY <1>0, <2>1, <2>2
<1>3. f = t - r
  BY DEF HourOf
<1> HIDE DEF f, w, r
<1>4. f \in Int /\ f <= t /\ t < f + n
  BY <1>1, <1>3
<1>5. OnHour(z, f)
  <2> DEFINE m == t + z.before
  <2>1. m \in Int
    BY <1>0
  <2>2. f + z.before = m - (m % n)
    BY <1>0, <1>1, <1>2, <1>3
  <2> HIDE DEF m
  <2>3. (m - (m % n)) % n = 0
    BY <2>1, Floor
  <2> QED  BY <2>2, <2>3 DEF OnHour
<1>6. t < z.at <=> f < z.at
  <2>1. OnHour(z, z.at)
    BY DEF OnHour, Aligned
  <2>2. f < z.at => f + n <= z.at
    BY <1>0, <1>4, <1>5, <2>1, HoursApart
  <2> QED  BY <1>0, <1>4, <2>2
<1>7. PICK a \in {z.before, z.after} : w = t + a /\ Wall(z, f) = f + a
  BY <1>6 DEF Wall, w
<1>8. Wall(z, f) = w - r /\ Wall(z, f) \in Int /\ Wall(z, f) % n = 0
  BY <1>0, <1>1, <1>3, <1>4, <1>7
<1>9. w < z.at + z.before <=> Wall(z, f) < z.at + z.before
  <2>1. z.at + z.before \in Int /\ (z.at + z.before) % n = 0
    BY <1>0 DEF Aligned
  <2>2. Wall(z, f) < z.at + z.before => Wall(z, f) + n <= z.at + z.before
    BY <1>8, <2>1, Apart
  <2> QED  BY <1>0, <1>1, <1>8, <2>1, <2>2
<1>10. Fold(z, t) <=> Fold(z, f)
  BY <1>0, <1>4, <1>6, <1>9 DEF Fold, w
<1> QED  BY <1>0, <1>1, <1>2, <1>4, <1>5, <1>6, <1>8, <1>10 DEF f, w, r

\* Throughout an hour the same hour counts as completed.
LEMMA SameHour ==
    ASSUME NEW z \in Zone, Aligned(z), NEW t \in Int
    PROVE  Completed(z, "hourly", t) = Completed(z, "hourly", HourOf(z, t))
<1> DEFINE f == HourOf(z, t)
<1>1. Unit["hourly"] = HourTicks
  BY DEF Unit
<1>2. /\ Wall(z, t) - (Wall(z, t) % HourTicks) = Wall(z, f)
      /\ Wall(z, f) - (Wall(z, f) % HourTicks) = Wall(z, f)
      /\ Fold(z, t) = Fold(z, f)
  <2>1. /\ Wall(z, t) \in Int /\ Wall(z, t) % HourTicks \in 0 .. HourTicks - 1
        /\ Wall(z, f) = Wall(z, t) - (Wall(z, t) % HourTicks) /\ Wall(z, f) % HourTicks = 0
        /\ Fold(z, t) <=> Fold(z, f)
    BY WallOfHour
  <2>2. Fold(z, t) \in BOOLEAN /\ Fold(z, f) \in BOOLEAN
    BY DEF Fold
  <2> HIDE DEF f
  <2> QED  BY <2>1, <2>2
<1> HIDE DEF f
<1> QED  BY <1>1, <1>2 DEF Completed, f

\* In the first hour of a day it is that day's hour, and the day before is completed.
LEMMA SameDay ==
    ASSUME NEW z \in Zone, Aligned(z), NEW t \in Int,
           Wall(z, HourOf(z, t)) % Unit["daily"] = 0
    PROVE  /\ HourOfDay(z, t) = 0
           /\ Completed(z, "daily", t) = Completed(z, "daily", HourOf(z, t))
<1> DEFINE f == HourOf(z, t)
           r == Wall(z, t) % HourTicks
<1>1. Unit["daily"] = HourTicks * DayHours
  BY DEF Unit
<1>2. /\ Wall(z, t) \in Int /\ Wall(z, f) = Wall(z, t) - r /\ r \in 0 .. HourTicks - 1
      /\ Wall(z, f) \in Int /\ Fold(z, t) = Fold(z, f)
  <2>1. /\ Wall(z, t) \in Int /\ Wall(z, f) = Wall(z, t) - r
        /\ Fold(z, t) <=> Fold(z, f)
    BY WallOfHour
  <2>2. r \in 0 .. HourTicks - 1
    BY WallOfHour
  <2>3. Fold(z, t) \in BOOLEAN /\ Fold(z, f) \in BOOLEAN
    BY DEF Fold
  <2> HIDE DEF f, r
  <2> QED  BY CalendarAssumption, <2>1, <2>2, <2>3
<1> HIDE DEF f, r
<1>3. Wall(z, t) = Wall(z, f) + r
  BY CalendarAssumption, <1>2
<1>4. Wall(z, f) % (HourTicks * DayHours) = 0
  BY <1>1 DEF f
<1>5. Wall(z, t) % (HourTicks * DayHours) = r /\ r \div HourTicks = 0
  BY <1>2, <1>3, <1>4, FirstHour, CalendarAssumption
<1>6. HourOfDay(z, t) = 0
  BY <1>5 DEF HourOfDay
<1>7. Wall(z, t) - (Wall(z, t) % Unit["daily"]) = Wall(z, f)
  BY <1>1, <1>2, <1>5
<1>8. Wall(z, f) - (Wall(z, f) % Unit["daily"]) = Wall(z, f)
  BY <1>1, <1>2, <1>4
<1>9. Completed(z, "daily", t) = Completed(z, "daily", f)
  BY <1>2, <1>7, <1>8 DEF Completed
<1> QED  BY <1>6, <1>9 DEF f

-----------------------------------------------------------------------------
(* No hour is skipped.                                                     *)

\* Of the hours that were over since the start and up to a moment, each was looked
\* at, and of the days as well.
Seen(last) ==
    \A t \in since + 1 .. last :
        /\ Wall(zone, t) % HourTicks = 0 => Completed(zone, "hourly", t) \in looked
        /\ Wall(zone, t) % Unit["daily"] = 0 => Completed(zone, "daily", t) \in looked

\* Each turn begins in the hour after that of the turn before, as the wait is shorter
\* than an hour by what the turn's beginning was late.
TurnsInTime ==
    /\ pc = "top" => Seen(now - HourTicks)
    /\ pc \in {"due", "ready", "persist", "success"} => Seen(from) /\ now <= from + MaxTurn
    /\ pc = "wait" => Seen(alarm - HourTicks) /\ now <= alarm

\* The moments at which an hour or a day is over are full hours.
LEMMA FullHour ==
    ASSUME NEW z \in Zone, Aligned(z), NEW t \in Int,
           Wall(z, t) % HourTicks = 0 \/ Wall(z, t) % Unit["daily"] = 0
    PROVE  OnHour(z, t)
<1>1. Wall(z, t) \in Int /\ Wall(z, t) % HourTicks = (t + z.before) % HourTicks
  BY WallOfHour
<1>2. Wall(z, t) % Unit["daily"] = 0 => Wall(z, t) % HourTicks = 0
  BY <1>1, CalendarAssumption, DayIsHour DEF Unit
<1> QED  BY <1>1, <1>2 DEF OnHour

\* The zone of a run has its clock changed so.
LEMMA ZoneAligned == TypeOK => zone \in Zone /\ Aligned(zone)
  BY SchedulerAssumption DEF TypeOK, Aligned

\* What was seen up to the last full hour was seen up to any moment before the next.
LEMMA SeenThrough ==
    ASSUME TypeOK, NEW last \in Int, NEW more \in Int, Seen(last),
           more < HourOf(zone, last) + HourTicks
    PROVE  Seen(more)
<1> USE CalendarAssumption
<1>1. /\ zone \in Zone /\ Aligned(zone) /\ since \in Int
      /\ HourOf(zone, last) \in Int /\ HourOf(zone, last) <= last /\ OnHour(zone, HourOf(zone, last))
  BY ZoneAligned, WallOfHour DEF TypeOK
<1> SUFFICES ASSUME NEW t \in since + 1 .. more,
                    Wall(zone, t) % HourTicks = 0 \/ Wall(zone, t) % Unit["daily"] = 0
             PROVE  t \in since + 1 .. last
  BY DEF Seen
<1>2. t \in Int
  BY <1>1
<1>3. OnHour(zone, t)
  BY <1>1, <1>2, FullHour
<1>4. HourOf(zone, last) < t => HourOf(zone, last) + HourTicks <= t
  BY <1>1, <1>2, <1>3, HoursApart
<1> QED  BY <1>1, <1>2, <1>4

\* A turn that begins within an hour of what was seen sees what is over by then.
LEMMA TurnSees ==
    ASSUME TypeOK, Seen(now - HourTicks), TurnBegins
    PROVE  Seen(now)'
<1> USE CalendarAssumption
<1>1. /\ zone \in Zone /\ Aligned(zone) /\ since \in Int /\ now \in Int
      /\ HourOf(zone, now) \in Int /\ HourOf(zone, now) <= now /\ OnHour(zone, HourOf(zone, now))
      /\ now < HourOf(zone, now) + HourTicks
  BY ZoneAligned, WallOfHour DEF TypeOK
<1>2. UNCHANGED <<zone, now, since>>
  BY DEF TurnBegins, clockVars, lifeVars
<1>3. /\ looked \subseteq looked' /\ Completed(zone, "hourly", now) \in looked'
      /\ HourOfDay(zone, now) = 0 => Completed(zone, "daily", now) \in looked'
  BY DEF TurnBegins
<1> SUFFICES ASSUME NEW t \in since + 1 .. now
             PROVE  /\ Wall(zone, t) % HourTicks = 0 => Completed(zone, "hourly", t) \in looked'
                    /\ Wall(zone, t) % Unit["daily"] = 0 => Completed(zone, "daily", t) \in looked'
  BY <1>2 DEF Seen
<1>4. t \in Int
  BY <1>1
<1>5. CASE t <= now - HourTicks
  BY <1>1, <1>3, <1>4, <1>5 DEF Seen
<1>6. CASE t > now - HourTicks
  <2>1. ASSUME OnHour(zone, t) PROVE t = HourOf(zone, now)
    <3>1. HourOf(zone, now) < t => HourOf(zone, now) + HourTicks <= t
      BY <1>1, <1>4, <2>1, HoursApart
    <3>2. t < HourOf(zone, now) => t + HourTicks <= HourOf(zone, now)
      BY <1>1, <1>4, <2>1, HoursApart
    <3> QED  BY <1>1, <1>4, <1>6, <3>1, <3>2
  <2>2. ASSUME Wall(zone, t) % HourTicks = 0 PROVE Completed(zone, "hourly", t) \in looked'
    <3>1. t = HourOf(zone, now)
      BY <1>1, <1>4, <2>1, <2>2, FullHour
    <3> QED  BY <1>1, <1>3, <3>1, SameHour
  <2>3. ASSUME Wall(zone, t) % Unit["daily"] = 0 PROVE Completed(zone, "daily", t) \in looked'
    <3>1. t = HourOf(zone, now)
      BY <1>1, <1>4, <2>1, <2>3, FullHour
    <3>2. Wall(zone, HourOf(zone, now)) % Unit["daily"] = 0
      BY <2>3, <3>1
    <3> QED  BY <1>1, <1>3, <3>1, <3>2, SameDay
  <2> QED  BY <2>2, <2>3
<1> QED  BY <1>1, <1>4, <1>5, <1>6

\* When a turn waits, it waits for a moment of the next hour.
LEMMA WaitInTime ==
    ASSUME TypeOK, TurnsInTime, pc \in {"due", "ready", "persist", "success"},
           AfterDue, TurnFrame
    PROVE  TurnsInTime'
<1> USE CalendarAssumption
<1>1. UNCHANGED <<zone, now, since, looked>>
  BY DEF TurnFrame, clockVars, lifeVars
<1>2. Seen(from) /\ now <= from + MaxTurn /\ from \in Int /\ now \in Int /\ from <= now
  BY DEF TurnsInTime, TypeOK
<1>3. CASE kind = "hourly" /\ HourOfDay(zone, from) = 0
  <2>1. pc' = "due" /\ from' = from
    BY <1>3 DEF AfterDue
  <2> QED  BY <1>1, <1>2, <2>1 DEF TurnsInTime, Seen
<1>4. CASE ~(kind = "hourly" /\ HourOfDay(zone, from) = 0)
  <2>1. pc' = "wait" /\ alarm' = now + Delay(zone, from)
    BY <1>4 DEF AfterDue
  <2> DEFINE late == Wall(zone, from) % HourTicks
  <2>2. /\ late \in 0 .. HourTicks - 1
        /\ HourOf(zone, from) = from - late /\ HourOf(zone, from) \in Int
    BY <1>2, ZoneAligned, WallOfHour DEF HourOf
  <2>3. Delay(zone, from) = HourTicks - late
    BY DEF Delay
  <2>4. late \in Int /\ 0 <= late /\ late < HourTicks /\ HourOf(zone, from) = from - late
    BY <2>2
  <2>5. alarm' = now + (HourTicks - late)
    BY <2>1, <2>3
  <2> HIDE DEF late
  <2>6. now <= alarm' /\ alarm' - HourTicks = now - late /\ now - late \in Int
    BY <1>2, <2>4, <2>5
  <2>7. now - late < HourOf(zone, from) + HourTicks
    BY <1>2, <2>4, SchedulerAssumption
  <2>8. Seen(now - late)
    BY <1>2, <2>6, <2>7, SeenThrough
  <2>9. Seen(alarm' - HourTicks)
    BY <2>6, <2>8
  <2> QED  BY <1>1, <2>1, <2>6, <2>9 DEF TurnsInTime, Seen
<1> QED  BY <1>3, <1>4

\* Every step keeps the turns in time.
LEMMA InTimeStep == ASSUME TypeOK, TurnsInTime, [Next]_vars PROVE TurnsInTime'
<1> USE CalendarAssumption
<1>0. /\ now \in Int /\ since \in Int /\ from \in Int /\ alarm \in Int /\ now >= 0
  BY DEF TypeOK
<1>1. CASE Tick
  <2>1. now' = now + 1 /\ UNCHANGED <<zone, since, pc, from, alarm, looked>>
    BY <1>1 DEF Tick, lifeVars, turnVars, historyVars
  <2>2. pc # "top"
    BY <1>1 DEF Tick
  <2>3. /\ pc = "wait" => now < alarm
        /\ pc \in {"due", "ready", "persist", "success"} => now < from + MaxTurn
    BY <1>1 DEF Tick
  <2> QED
    BY <1>0, <2>1, <2>2, <2>3, SchedulerAssumption DEF TurnsInTime, Seen
<1>2. CASE Start
  <2>1. pc' = "top" /\ since' = now /\ now' = now
    BY <1>2 DEF Start, clockVars
  <2>2. since' + 1 .. now' - HourTicks = {}
    BY <1>0, <2>1
  <2> QED  BY <2>1, <2>2 DEF TurnsInTime, Seen
<1>3. CASE ProcessEnds
  BY <1>3 DEF ProcessEnds, TurnsInTime
<1>4. CASE OthersSetStatus \/ SweepBegins \/ SweepStored \/ UNCHANGED vars
  BY <1>4 DEF OthersSetStatus, SweepBegins, SweepStored, vars, clockVars, lifeVars, turnVars,
              historyVars, TurnsInTime, Seen
<1>5. CASE TurnBegins
  <2>1. pc = "top" /\ pc' = "due" /\ from' = now /\ now' = now
    BY <1>5 DEF TurnBegins, clockVars
  <2>2. Seen(now)'
    BY <1>5, <2>1, TurnSees DEF TurnsInTime
  <2>3. Seen(from)'
    BY <2>1, <2>2 DEF Seen
  <2>4. now' <= from' + MaxTurn
    BY <1>0, <2>1, SchedulerAssumption
  <2> QED  BY <2>1, <2>3, <2>4 DEF TurnsInTime
<1>6. CASE AlreadyDelivered \/ BuildFails \/ SendFails \/ PersistFails \/ Success
  BY <1>6, WaitInTime DEF AlreadyDelivered, BuildFails, SendFails, PersistFails, Success
<1>7. CASE Build \/ NobodyToSendTo \/ Sent \/ SendAgain \/ Persist
  <2>1. /\ pc \in {"due", "ready", "persist"} /\ pc' \in {"ready", "persist", "success"}
        /\ UNCHANGED <<from, alarm>> /\ TurnFrame
    BY <1>7 DEF Build, NobodyToSendTo, Sent, SendAgain, Persist, Finished
  <2>2. UNCHANGED <<zone, now, since, looked, from, alarm>>
    BY <2>1 DEF TurnFrame, clockVars, lifeVars
  <2> QED  BY <2>1, <2>2 DEF TurnsInTime, Seen
<1>8. CASE Wake
  <2>1. pc = "wait" /\ pc' = "top" /\ now >= alarm
    BY <1>8 DEF Wake
  <2>2. UNCHANGED <<zone, now, since, looked>>
    BY <1>8 DEF Wake, TurnFrame, clockVars, lifeVars
  <2>3. now = alarm
    BY <1>0, <2>1 DEF TurnsInTime
  <2> QED  BY <2>1, <2>2, <2>3 DEF TurnsInTime, Seen
<1> QED
  BY <1>1, <1>2, <1>3, <1>4, <1>5, <1>6, <1>7, <1>8 DEF Next, TurnStep

\* Turns in time see every hour.
LEMMA InTimeSuffices == TypeOK /\ TurnsInTime => NoneSkipped
<1> SUFFICES ASSUME TypeOK, TurnsInTime, pc # "down" PROVE Seen(now - HourTicks)
  BY DEF NoneSkipped, Seen
<1>0. now \in Int /\ since \in Int /\ from \in Int /\ alarm \in Int /\ HourTicks \in Nat
  BY CalendarAssumption DEF TypeOK
<1>1. CASE pc = "top"
  BY <1>1 DEF TurnsInTime
<1>2. CASE pc \in {"due", "ready", "persist", "success"}
  <2>1. Seen(from) /\ now - HourTicks <= from
    BY <1>0, <1>2, SchedulerAssumption DEF TurnsInTime
  <2> QED  BY <1>0, <2>1 DEF Seen
<1>3. CASE pc = "wait"
  <2>1. Seen(alarm - HourTicks) /\ now <= alarm
    BY <1>3 DEF TurnsInTime
  <2> QED  BY <1>0, <2>1 DEF Seen
<1> QED  BY <1>1, <1>2, <1>3 DEF TypeOK

(* No hour and no day is skipped while the process runs, however late in   *)
(* the hour it was started and in whatever zone whose clock is changed by  *)
(* whole hours, as long as a turn takes less than an hour                  *)
(* (seconds_until_next_hour counts from the beginning of the turn).        *)
THEOREM NoHourIsSkipped == Spec => []NoneSkipped
<1>1. Init => TurnsInTime
  BY DEF Init, TurnsInTime
<1>2. TypeOK /\ TurnsInTime /\ [Next]_vars => TurnsInTime'
  BY InTimeStep
<1> QED  BY <1>1, <1>2, InTimeSuffices, SchedulerTypeCorrect, PTL DEF Spec

-----------------------------------------------------------------------------
(* A sweep is in one hourly report.                                        *)

\* Where the clock is not put back, an hourly window that holds anything is the hour
\* before the one it was completed in: at a change by whole hours it holds nothing.
LEMMA HourlyWindow ==
    ASSUME NEW z \in Zone, Aligned(z), z.before <= z.after, NEW t \in Int, NEW s \in Int,
           Holds(Completed(z, "hourly", t), s)
    PROVE  HourOf(z, t) - HourTicks <= s /\ s < HourOf(z, t)
<1> USE CalendarAssumption
<1> DEFINE f == HourOf(z, t)
           w == Completed(z, "hourly", f)
<1>1. f \in Int /\ Wall(z, f) \in Int /\ Wall(z, f) % HourTicks = 0
  <2>1. f \in Int /\ Wall(z, f) % HourTicks = 0
    BY WallOfHour
  <2> HIDE DEF f
  <2> QED  BY <2>1, WallOfHour
<1>2. Holds(w, s)
  BY SameHour
<1> HIDE DEF f
<1>3. z.before \in Int /\ z.after \in Int /\ z.at \in Int
  BY DEF Zone
<1>4. ~Fold(z, f)
  BY <1>1, <1>3 DEF Fold, Wall
<1>5. Fold(z, f) = FALSE
  BY <1>4 DEF Fold
<1>6. Wall(z, f) - (Wall(z, f) % Unit["hourly"]) = Wall(z, f) /\ Unit["hourly"] = HourTicks
  BY <1>1 DEF Unit
<1>7. w = [kind |-> "hourly", start |-> Instant(z, Wall(z, f) - HourTicks, FALSE),
           end |-> Instant(z, Wall(z, f), FALSE)]
  BY <1>5, <1>6 DEF Completed
<1>8. \A wall \in Int :
         Instant(z, wall, FALSE) = IF wall < z.at + z.after THEN wall - z.before
                                                            ELSE wall - z.after
  BY <1>3 DEF Instant
<1> HIDE DEF w
<1>9. /\ w.start = Instant(z, Wall(z, f) - HourTicks, FALSE)
      /\ w.end = Instant(z, Wall(z, f), FALSE)
  BY <1>7
<1>10. PICK wall \in Int : /\ wall = Wall(z, f)
                           /\ f < z.at => wall = f + z.before
                           /\ f >= z.at => wall = f + z.after
  BY <1>1, <1>3 DEF Wall
<1>11. wall - HourTicks \in Int
  OBVIOUS
<1>12. /\ w.start = IF wall - HourTicks < z.at + z.after THEN wall - HourTicks - z.before
                                                         ELSE wall - HourTicks - z.after
       /\ w.end = IF wall < z.at + z.after THEN wall - z.before ELSE wall - z.after
  BY <1>8, <1>9, <1>10, <1>11
<1>13. w.start \in Int /\ w.start <= s /\ s < w.end
  BY <1>2, <1>3, <1>12 DEF Holds
<1> SUFFICES f - HourTicks <= s /\ s < f
  BY DEF f
<1>14. CASE f < z.at
  BY <1>1, <1>3, <1>10, <1>12, <1>13, <1>14
<1>15. CASE f >= z.at /\ z.before = z.after
  BY <1>1, <1>3, <1>10, <1>12, <1>13, <1>15
<1>16. CASE f >= z.at /\ z.before # z.after
  <2>1. z.before + HourTicks <= z.after
    <3>1. 0 % HourTicks = 0 /\ z.after - z.before \in Int /\ 0 < z.after - z.before
      BY <1>3, <1>16
    <3>2. 0 + HourTicks <= z.after - z.before
      BY <3>1, Apart DEF Aligned
    <3> QED  BY <1>3, <3>2
  <2> QED  BY <1>1, <1>3, <1>10, <1>12, <1>13, <1>16, <2>1
<1> QED  BY <1>1, <1>3, <1>14, <1>15, <1>16

\* No two of these hours have a moment in common.
LEMMA OneHour ==
    ASSUME NEW z \in Zone, Aligned(z), z.before <= z.after, NEW s \in Int,
           NEW t \in Int, NEW u \in Int,
           Holds(Completed(z, "hourly", t), s), Holds(Completed(z, "hourly", u), s)
    PROVE  Completed(z, "hourly", t) = Completed(z, "hourly", u)
<1> USE CalendarAssumption
<1>1. HourOf(z, t) - HourTicks <= s /\ s < HourOf(z, t) /\ HourOf(z, u) - HourTicks <= s /\ s < HourOf(z, u)
  BY HourlyWindow
<1>2. /\ HourOf(z, t) \in Int /\ OnHour(z, HourOf(z, t))
      /\ HourOf(z, u) \in Int /\ OnHour(z, HourOf(z, u))
  BY WallOfHour
<1>3. HourOf(z, t) < HourOf(z, u) => HourOf(z, t) + HourTicks <= HourOf(z, u)
  BY <1>2, HoursApart
<1>4. HourOf(z, u) < HourOf(z, t) => HourOf(z, u) + HourTicks <= HourOf(z, t)
  BY <1>2, HoursApart
<1>5. HourOf(z, t) = HourOf(z, u)
  BY <1>1, <1>2, <1>3, <1>4
<1> QED  BY <1>5, SameHour

\* The reports with the sweep in them are of windows that hold it.
HeldByWindow ==
    /\ sweep.stored => sweep.at # None
    /\ sweep.at = None => holding = {}
    /\ \A w \in holding : w.kind = "hourly" =>
          Holds(w, sweep.at) /\ \E t \in Int : w = Completed(zone, "hourly", t)

\* Every step keeps it: a report is built of the sweeps that are stored by then.
LEMMA HeldStep == ASSUME TypeOK, HeldByWindow, [Next]_vars PROVE HeldByWindow'
<1>1. ASSUME UNCHANGED <<zone, sweep, holding>> PROVE HeldByWindow'
  BY <1>1 DEF HeldByWindow
<1>2. CASE Tick \/ Start \/ ProcessEnds \/ OthersSetStatus \/ UNCHANGED vars
  BY <1>1, <1>2 DEF Tick, Start, ProcessEnds, OthersSetStatus, vars, clockVars, historyVars
<1>3. CASE SweepBegins
  <2>1. /\ sweep.at = None /\ sweep'.at = now /\ ~sweep'.stored /\ holding' = holding
    BY <1>3 DEF SweepBegins, historyVars
  <2>2. holding' = {} /\ now # None
    BY <2>1 DEF HeldByWindow, TypeOK, None
  <2> QED  BY <2>1, <2>2 DEF HeldByWindow
<1>4. CASE SweepStored
  <2>1. sweep.at # None /\ sweep'.at = sweep.at /\ UNCHANGED <<zone, holding>>
    BY <1>4 DEF SweepStored, clockVars, historyVars, TypeOK
  <2> QED  BY <2>1 DEF HeldByWindow
<1>5. CASE Build
  <2>1. UNCHANGED <<zone, sweep>>
    BY <1>5 DEF Build, TurnFrame, clockVars
  <2>2. CASE ~(sweep.stored /\ Holds(Due, sweep.at))
    BY <1>1, <1>5, <2>1, <2>2 DEF Build
  <2>3. CASE sweep.stored /\ Holds(Due, sweep.at)
    <3>1. holding' = holding \union {Due}
      BY <1>5, <2>3 DEF Build
    <3>2. Due.kind = kind /\ from \in Int
      BY DEF Due, Completed, TypeOK
    <3>3. Due.kind = "hourly" => Due = Completed(zone, "hourly", from)
      BY <3>2 DEF Due
    <3>4. sweep.at # None
      BY <2>3 DEF HeldByWindow
    <3> QED  BY <2>1, <2>3, <3>1, <3>2, <3>3, <3>4 DEF HeldByWindow
  <2> QED  BY <2>2, <2>3
<1>6. CASE TurnBegins
  BY <1>1, <1>6 DEF TurnBegins, clockVars
<1>7. CASE \/ AlreadyDelivered \/ BuildFails \/ NobodyToSendTo \/ Sent \/ SendAgain \/ SendFails
           \/ Persist \/ PersistFails \/ Success \/ Wake
  BY <1>1, <1>7 DEF AlreadyDelivered, BuildFails, NobodyToSendTo, Sent, Finished, SendAgain,
                    SendFails, Persist, PersistFails, Success, Wake, TurnFrame, clockVars
<1> QED  BY <1>2, <1>3, <1>4, <1>5, <1>6, <1>7 DEF Next, TurnStep

\* The hourly ones among them are the same window.
LEMMA HeldSuffices == TypeOK /\ HeldByWindow => InOneHourly
<1> SUFFICES ASSUME TypeOK, HeldByWindow, zone.before <= zone.after
             PROVE  Cardinality({w \in holding : w.kind = "hourly"}) <= 1
  BY DEF InOneHourly
<1> DEFINE hourly == {w \in holding : w.kind = "hourly"}
<1>1. zone \in Zone /\ Aligned(zone)
  BY ZoneAligned
<1>2. ASSUME NEW v \in hourly, NEW w \in hourly PROVE v = w
  <2>1. sweep.at \in Int
    BY DEF TypeOK, None
  <2>2. PICK t \in Int : v = Completed(zone, "hourly", t)
    BY DEF HeldByWindow
  <2>3. PICK u \in Int : w = Completed(zone, "hourly", u)
    BY DEF HeldByWindow
  <2>4. Holds(v, sweep.at) /\ Holds(w, sweep.at)
    BY DEF HeldByWindow
  <2> QED  BY <1>1, <2>1, <2>2, <2>3, <2>4, OneHour
<1> HIDE DEF hourly
<1> SUFFICES Cardinality(hourly) <= 1
  BY DEF hourly
<1>3. CASE hourly = {}
  <2>1. Cardinality({}) = 0
    BY FS_EmptySet
  <2> QED  BY <1>3, <2>1
<1>4. CASE hourly # {}
  <2>1. PICK w \in hourly : TRUE
    BY <1>4
  <2>2. hourly = {w}
    BY <1>2, <2>1
  <2>3. Cardinality({w}) = 1
    BY FS_Singleton
  <2> QED  BY <2>2, <2>3
<1> QED  BY <1>3, <1>4

(* No sweep is in two hourly reports, of whatever lives of the process,    *)
(* where the clock is not put back: the windows are half open, and what    *)
(* is due in an hour is the hour before (completed_calendar_hour).         *)
THEOREM OneHourlyReport == Spec => []InOneHourly
<1>1. Init => HeldByWindow
  BY DEF Init, HeldByWindow
<1>2. TypeOK /\ HeldByWindow /\ [Next]_vars => HeldByWindow'
  BY HeldStep
<1> QED  BY <1>1, <1>2, HeldSuffices, SchedulerTypeCorrect, PTL DEF Spec
=============================================================================
