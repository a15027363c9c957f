------------------------------ MODULE Station ------------------------------
(***************************************************************************)
(* One run of the station process of application.py: run_station and       *)
(* _run_station_lifecycle, with the threads they own.  The acquisition     *)
(* thread drives the scanner (module Scanner), every thread that changes   *)
(* the health state does it under the health owner's lock, and the         *)
(* supervisor stops everything within one deadline, tells the outcome in   *)
(* the health file, the run summary and the exit code, and keeps the       *)
(* station lock while anything it owns survives.                           *)
(*                                                                         *)
(* The deadline is the flag expired: a join ends when its thread has       *)
(* ended, or once the deadline has passed.  Two waits of the main thread   *)
(* have no deadline: the one for the health lock, and the one for the      *)
(* database connection of the reports.  Who holds the health lock may have *)
(* an incident to record, and waits for the connection it shares with the  *)
(* sink's writer, which the writer owns while it inserts.                  *)
(*                                                                         *)
(* Of the sink (module MeasurementSink) only its queue, its thread, its    *)
(* failure and its close are seen here; a report run and the Telegram      *)
(* polling are one step each.                                              *)
(***************************************************************************)
EXTENDS Scanner, Sequences

CONSTANT QueueBound   \* how many sweeps the sink's queue has room for

ASSUME QueueAssumption == QueueBound \in Nat \ {0}

VARIABLES
    acq,        \* where the acquisition thread is
    acqNext,    \* where it goes on after saving the health state
    acqFailed,  \* an exception is on its way out of worker.run
    failing,    \* consecutive_sweep_failures > 0
    queued,     \* how many sweeps it handed over that the writer has not taken
    thread,     \* the other threads
    sink,       \* the measurement sink
    holder,     \* who holds health_owner.lock
    app,        \* state.application_status: "failed", or "fine" for all others
    shut,       \* state.shutdown_status: "incomplete" also for unknown
    file,       \* the health file says complete, and not failed
    sup,        \* where the supervisor, the main thread, is
    attempt,    \* which publication of the final health it is at
    asked,      \* resource_sampler._stop
    expired,    \* the shutdown deadline has passed
    broken,     \* component_failures has an entry of a running component
    unstopped,  \* its entries of category shutdown, by component
    survivors,  \* critical_survivors
    raising,    \* an exception is on its way out of the lifecycle
    snap,       \* final_sink_snapshot
    published,  \* history: the last publication of the final health worked
    exitCode,   \* 0, 1, and 2 before it is known
    summary,    \* the run summary file
    lock        \* station.lock

acqVars    == <<acq, acqNext, acqFailed, failing, queued>>
healthVars == <<holder, app, shut, file>>
failVars   == <<broken, unstopped, survivors>>
endVars    == <<attempt, asked, expired, raising, snap, published, exitCode,
                summary, lock>>
vars == <<scannerVars, acqVars, thread, sink, healthVars, sup, failVars, endVars>>

Runtimes == {"report", "telegram", "sampler"}
Closes   == {"sink_close", "report_close"}
Threads  == Runtimes \union Closes \union {"writer"}

Init ==
    /\ ScannerInit
    /\ acq = "none" /\ acqNext = "top" /\ acqFailed = FALSE
    /\ failing = FALSE /\ queued = 0
    /\ thread = [t \in Threads |-> "none"]
    /\ sink = "unstarted"
    /\ holder = "none" /\ app = "fine" /\ shut = "incomplete" /\ file = FALSE
    /\ sup = "construct" /\ attempt = "first" /\ asked = FALSE /\ expired = FALSE
    /\ broken = FALSE /\ unstopped = {} /\ survivors = {}
    /\ raising = FALSE /\ snap = "none" /\ published = FALSE
    /\ exitCode = 2 /\ summary = "marker" /\ lock = "held"

Up(state) == state \notin {"none", "ended"}

Alive(c) == CASE c = "scanner"     -> active # 0
              [] c = "acquisition" -> Up(acq)
              [] OTHER             -> Up(thread[c])

Move(t, state) == thread' = [thread EXCEPT ![t] = state]
AnyFailure     == broken \/ unstopped # {}

\* Take the health lock, or save under it and let it go.
Take(who) == holder = "none" /\ holder' = who
SaveOK    == holder' = "none" /\ file' = (app = "fine" /\ shut = "complete")
SaveFails == holder' = "none" /\ UNCHANGED file

\* record_component_failure: the station stops, whoever failed.
Record ==
    /\ broken' = TRUE
    /\ app' = "failed"
    /\ stop' = TRUE

-----------------------------------------------------------------------------
(* The acquisition thread: run_component around SpectrumAcquisitionWorker. *)

AcqFrame == UNCHANGED <<thread, sink, sup, unstopped, survivors, endVars>>

\* An observer's call: set the status under the lock, record an incident if
\* there is one to tell, then save.
Tell(status, first, next) ==
    /\ Take("acquisition")
    /\ app' = status
    /\ acq' = first /\ acqNext' = next
    /\ UNCHANGED <<shut, file, broken>>
    /\ AcqFrame

Observe(status, next) ==
    Tell(status, "save", next) /\ UNCHANGED <<failing, queued>>

\* observer.failure has an incident, observer.completed has one after failures.
ObserveFailure(next) == failing' = TRUE /\ Tell("fine", "incident", next)

ObserveSweep(next) ==
    /\ failing' = FALSE
    /\ Tell("fine", IF failing THEN "incident" ELSE "save", next)

\* record_incident on the sink's connection, which the writer's INSERT keeps.
\* What it raises is swallowed.
AcqRecords ==
    /\ acq = "incident" /\ thread["writer"] # "store"
    /\ acq' = "save"
    /\ UNCHANGED <<scannerVars, acqNext, acqFailed, failing, queued, healthVars, broken>>
    /\ AcqFrame

AcqBegin == acq = "begin" /\ Observe(app, "top")
            /\ UNCHANGED <<scannerVars, acqFailed>>

AcqSave ==
    /\ acq = "save"
    /\ \/ SaveOK /\ acq' = acqNext /\ UNCHANGED acqFailed
       \/ /\ SaveFails
          /\ acqFailed' = TRUE
          /\ acq' = IF acqNext = "record" THEN "record" ELSE "down"
    /\ acqNext' = "top"
    /\ UNCHANGED <<scannerVars, failing, queued, app, shut, broken>>
    /\ AcqFrame

\* The cadence or recovery wait that may lie before ends early on stop.
AcqTop ==
    /\ acq = "top" /\ ~stop /\ spawned < MaxScans
    /\ Observe("fine", "acquire")
    /\ UNCHANGED <<scannerVars, acqFailed>>

AcqStops ==
    /\ acq = "top" /\ stop
    /\ acq' = "down"
    /\ UNCHANGED <<scannerVars, acqNext, acqFailed, failing, queued, healthVars, broken>>
    /\ AcqFrame

AcqScan ==
    /\ acq = "acquire"
    /\ acq' = "scan"
    /\ Acquire
    /\ UNCHANGED <<acqNext, acqFailed, failing, queued, healthVars, broken>>
    /\ AcqFrame

\* store_sweep took the sweep, or the failed sweep: the observer is told.  A
\* call that was waiting for room may be taken by a sink that fails or closes;
\* a writer that has failed settles what it takes without storing it.
AcqStored ==
    /\ acq = "scan" /\ Taken
    /\ Up(thread["writer"]) /\ queued < QueueBound
    /\ queued' = IF sink = "failed" THEN queued ELSE queued + 1
    /\ \/ result = "sweep" /\ ObserveSweep("top")
       \/ result = "failed" /\ ObserveFailure("top")
    /\ UNCHANGED acqFailed

\* store_sweep refused it.  A sweep is lost without a word to the observer.
AcqRefused ==
    /\ acq = "scan" /\ Taken
    /\ \/ /\ result = "sweep"
          /\ acq' = "down"
          /\ UNCHANGED <<acqNext, failing, healthVars, broken>> /\ AcqFrame
       \/ result = "failed" /\ ObserveFailure("down")
    /\ acqFailed' = TRUE
    /\ UNCHANGED queued

AcqInterrupted ==
    /\ acq = "scan" /\ result = "stopped" /\ Taken
    /\ acq' = "down"
    /\ UNCHANGED <<acqNext, acqFailed, failing, queued, healthVars, broken>>
    /\ AcqFrame

AcqDown ==
    /\ acq = "down"
    /\ Observe(IF acqFailed THEN "failed" ELSE "fine", "record")
    /\ UNCHANGED <<scannerVars, acqFailed>>

\* What escaped worker.run is a component failure, also after stop.
AcqEnds ==
    /\ acq = "record"
    /\ acq' = "ended"
    /\ IF acqFailed \/ ~stop
       THEN Record
       ELSE UNCHANGED <<broken, app, stop>>
    /\ UNCHANGED <<childVars, scanVars, reapVars, acqNext, acqFailed, failing, queued,
                   holder, shut, file>>
    /\ AcqFrame

AcqStep == \/ AcqBegin \/ AcqRecords \/ AcqSave \/ AcqTop \/ AcqStops \/ AcqScan
           \/ AcqStored \/ AcqRefused \/ AcqInterrupted \/ AcqDown \/ AcqEnds

\* The threads end with the process, a child does not.
ChildStep ==
    /\ (sup # "exited" /\ ScanStep) \/ ChildEnds
    /\ UNCHANGED <<acqVars, thread, sink, healthVars, sup, failVars, endVars>>

\* The supervisor's stop_active_process, or the guardian's.
ReapStep ==
    /\ sup # "exited"
    /\ StopStep(expired \/ sup = "exiting")
    /\ UNCHANGED <<acqVars, thread, sink, healthVars, sup, failVars, endVars>>

-----------------------------------------------------------------------------
(* The report scheduler, Telegram polling, the resource sampler and the    *)
(* writer of the sink.                                                     *)

ThreadFrame == UNCHANGED <<acqVars, sup, unstopped, survivors, endVars>>

Asked(t) == IF t = "sampler" THEN asked ELSE stop

\* A window or a sample is in the works (it was begun before the thread was
\* asked to stop), and its outcome goes into the health state.  The status
\* stays what it is: failed, or one of the others.  A report that failed, or the
\* first one after failures, is an incident too.
TurnEnds(t) ==
    /\ t # "telegram" /\ thread[t] = "run"
    /\ Take(t)
    /\ Move(t, "save") \/ (t = "report" /\ Move(t, "incident"))
    /\ UNCHANGED <<scannerVars, sink, app, shut, file, broken>> /\ ThreadFrame

\* record_incident on the connection of the reports, under the health lock.
ReportRecords ==
    /\ thread["report"] = "incident"
    /\ Move("report", "save")
    /\ UNCHANGED <<scannerVars, sink, healthVars, broken>> /\ ThreadFrame

\* Both swallow what the save raises, and look whether to stop.
HelperSaves(t) ==
    /\ t # "telegram" /\ thread[t] = "save"
    /\ SaveOK \/ SaveFails
    /\ Move(t, IF Asked(t) THEN "ended" ELSE "run")
    /\ UNCHANGED <<scannerVars, sink, app, shut, broken>> /\ ThreadFrame

RuntimeEnds(t) ==
    /\ thread[t] = "run"
    /\ Asked(t)
    /\ Move(t, "ended")
    /\ UNCHANGED <<scannerVars, sink, healthVars, broken>> /\ ThreadFrame

RuntimeCrashes(t) ==
    /\ t # "sampler" /\ thread[t] = "run"
    /\ Move(t, "ended")
    /\ Record
    /\ UNCHANGED <<childVars, scanVars, reapVars, sink, holder, shut, file>>
    /\ ThreadFrame

WriterFrame == UNCHANGED <<acq, acqNext, acqFailed, failing, sup, unstopped,
                           survivors, endVars>>

\* The writer takes a sweep, and owns the sink's connection while it inserts it.
WriterStores ==
    /\ thread["writer"] = "run" /\ sink \in {"open", "closing"} /\ queued > 0
    /\ queued' = queued - 1
    /\ Move("writer", "store")
    /\ UNCHANGED <<scannerVars, sink, healthVars, broken>> /\ WriterFrame

WriterStored ==
    /\ thread["writer"] = "store"
    /\ Move("writer", "run")
    /\ UNCHANGED <<scannerVars, sink, healthVars, broken>> /\ ThreadFrame


\* The store raises, and what is queued is settled without it;
\* writer_terminal_failure counts only before stop.
WriterFails ==
    /\ thread["writer"] = "store"
    /\ Move("writer", "run")
    /\ sink' = "failed" /\ queued' = 0
    /\ IF stop THEN UNCHANGED <<broken, app, stop>> ELSE Record
    /\ UNCHANGED <<childVars, scanVars, reapVars, holder, shut, file>>
    /\ WriterFrame

WriterEnds ==
    /\ thread["writer"] = "run" /\ sink \in {"failed", "closing"} /\ queued = 0
    /\ Move("writer", "ended")
    /\ UNCHANGED <<scannerVars, sink, healthVars, broken>> /\ ThreadFrame

\* The close of a database, in a thread of its own.
CloseEnds(t) ==
    /\ t \in Closes /\ thread[t] = "run"
    /\ Move(t, "ended")
    /\ UNCHANGED <<scannerVars, sink, healthVars, broken>> /\ ThreadFrame

HelperStep ==
    \/ \E t \in Runtimes : \/ TurnEnds(t) \/ HelperSaves(t)
                           \/ RuntimeEnds(t) \/ RuntimeCrashes(t)
    \/ \E t \in Closes : CloseEnds(t)
    \/ ReportRecords
    \/ WriterStores \/ WriterStored \/ WriterFails \/ WriterEnds

-----------------------------------------------------------------------------
(* The supervisor starts the station and watches it.                       *)

\* One step of the supervisor; what it changes besides is said by each.
Go(from, to) == sup = from /\ sup' = to

Construct ==
    /\ Go("construct", "start")
    /\ UNCHANGED <<scannerVars, acqVars, thread, sink, healthVars, failVars, endVars>>

\* Construction raises; what it opened is closed within 30 seconds.
ConstructFails ==
    /\ Go("construct", "return")
    /\ \E left \in SUBSET Closes :
          /\ thread' = [t \in Threads |-> IF t \in left THEN "run" ELSE "none"]
          /\ survivors' = left
    /\ stop' = TRUE /\ raising' = TRUE
    /\ UNCHANGED <<childVars, scanVars, reapVars, acqVars, sink, healthVars,
                   broken, unstopped, attempt, asked, expired, snap, published,
                   exitCode, summary, lock>>

StartOrder == <<"writer", "acquisition", "report", "sampler", "telegram">>

\* The health state is saved and the first n threads are started; when that
\* is not all of them, something raised.
Start(n) ==
    LET started == {StartOrder[i] : i \in 1 .. n}
        all     == n = Len(StartOrder)
    IN  /\ Go("start", IF all THEN "main" ELSE "lookup")
        /\ thread' = [t \in Threads |-> IF t \in started THEN "run" ELSE "none"]
        /\ acq' = IF "acquisition" \in started THEN "begin" ELSE "none"
        /\ sink' = IF n > 0 THEN "open" ELSE sink
        /\ raising' = ~all
        /\ stop' = IF all THEN stop ELSE TRUE
        /\ UNCHANGED <<childVars, scanVars, reapVars, acqNext, acqFailed, failing,
                       queued, healthVars, failVars, attempt, asked, expired, snap,
                       published, exitCode, summary, lock>>

\* SIGINT or SIGTERM, or both runtimes are gone.
StopRequested ==
    /\ sup = "main" /\ ~stop
    /\ SetStop
    /\ UNCHANGED <<acqVars, thread, sink, healthVars, sup, failVars, endVars>>

\* Slip: both runtimes are gone, and nobody sets stop.
MainLeaves ==
    /\ Go("main", "lookup")
    /\ UNCHANGED <<scannerVars, acqVars, thread, sink, healthVars, failVars, endVars>>

MainEnds ==
    /\ stop /\ Go("main", "lookup")
    /\ UNCHANGED <<scannerVars, acqVars, thread, sink, healthVars, failVars, endVars>>

-----------------------------------------------------------------------------
(* The shutdown: the finally block of _run_station_lifecycle.              *)

Quiet == UNCHANGED <<acqVars, sink, healthVars, broken, attempt, raising, snap,
                     published, exitCode, summary, lock>>

\* shutdown_failure writes the status without the health lock.  The entries
\* of both storages are "storage", and those nobody asks for are "other".
Unstopped(who) ==
    /\ unstopped' = unstopped \union who
    /\ IF who = {} THEN UNCHANGED <<app, shut>>
       ELSE app' = "failed" /\ shut' = "incomplete"

QuietBut == UNCHANGED <<acqVars, sink, holder, file, broken, attempt, raising,
                        snap, published, exitCode, summary, lock>>

\* The deadline of 30 seconds, at any moment.
Expire ==
    /\ ~expired /\ sup \notin {"construct", "start", "main", "return", "exiting", "exited"}
    /\ expired' = TRUE
    /\ UNCHANGED <<scannerVars, acqVars, thread, sink, healthVars, sup, failVars,
                   attempt, asked, raising, snap, published, exitCode, summary, lock>>

\* The first lookup, and the late one after the join of the acquisition.
StopScanner ==
    /\ Go("lookup", "stopping") \/ (active # 0 /\ Go("late", "latestopping"))
    /\ StopLookup
    /\ UNCHANGED <<thread, survivors, unstopped, asked, expired>> /\ Quiet

\* Slip: that the stop raised is not recorded.
ScannerStoppedQuietly ==
    /\ reaper \in {"done", "raised"}
    /\ Go("stopping", "sampler") \/ Go("latestopping", "joinreport")
    /\ survivors' = survivors
    /\ Unstopped({})
    /\ UNCHANGED <<scannerVars, thread, asked, expired>> /\ QuietBut

\* stop_active_process is over; is_alive tells whether the child is too.
ScannerStopped ==
    /\ reaper \in {"done", "raised"}
    /\ Go("stopping", "sampler") \/ Go("latestopping", "joinreport")
    /\ LET raised == reaper = "raised"
       IN  /\ survivors' = survivors \union
                 (IF active # 0 \/ (raised /\ sup = "latestopping")
                  THEN {"scanner"} ELSE {})
           /\ Unstopped((IF raised \/ active # 0 THEN {"rtl_power"} ELSE {})
                        \ unstopped)
    /\ UNCHANGED <<scannerVars, thread, asked, expired>> /\ QuietBut

NoLateScanner ==
    /\ active = 0 /\ Go("late", "joinreport")
    /\ UNCHANGED <<scannerVars, thread, failVars, asked, expired>>
    /\ UNCHANGED <<acqVars, sink, healthVars, attempt, raising, snap,
                   published, exitCode, summary, lock>>

AskSampler ==
    /\ Go("sampler", "joinsampler")
    /\ asked' = TRUE
    /\ UNCHANGED <<scannerVars, thread, unstopped, survivors, expired>> /\ Quiet


\* join(remaining) and is_alive.  Joining a thread that was never started
\* raises, which counts as a failure and leaves no survivor.
Join(c) ==
    LET unstarted == c \in {"acquisition", "report"}
                     /\ (IF c = "acquisition" THEN acq ELSE thread[c]) = "none"
    IN  /\ ~Alive(c) \/ expired
        /\ Unstopped(IF ~Alive(c) /\ ~unstarted THEN {}
                     ELSE IF c = "acquisition" THEN {c} ELSE {"other"})
        /\ survivors' = IF Alive(c) THEN survivors \union {c} ELSE survivors
        /\ UNCHANGED <<scannerVars, thread, asked, expired>>
        /\ QuietBut

JoinSampler     == Go("joinsampler", "joinacquisition") /\ Join("sampler")
JoinAcquisition == Go("joinacquisition", "late") /\ Join("acquisition")
JoinReport      == Go("joinreport", "jointelegram") /\ Join("report")
JoinTelegram    == Go("jointelegram", "sinkclose") /\ Join("telegram")
\* AsyncMeasurementSink.close: no sweep is taken from here on ...
CloseSink ==
    /\ Go("sinkclose", "sinkwait")
    /\ sink' = IF sink = "failed" THEN sink ELSE "closing"
    /\ UNCHANGED <<scannerVars, acqVars, thread, healthVars, failVars, endVars>>

\* ... the writer is joined, and the database closed in a thread of its own ...
SinkWriterJoined ==
    /\ ~Up(thread["writer"]) /\ Go("sinkwait", "sinkjoin")
    /\ Move("sink_close", "run")
    /\ UNCHANGED <<scannerVars, survivors, unstopped, asked, expired>> /\ Quiet

\* ... and close raises what went wrong, or that the deadline has passed.
SinkCloses ==
    /\ \/ /\ Go("sinkjoin", "query") /\ ~Up(thread["sink_close"])
          /\ \E good \in BOOLEAN :
                /\ sink' = IF good /\ sink = "closing" THEN "closed" ELSE "failed"
                /\ Unstopped(IF sink' = "closed" THEN {} ELSE {"storage"})
       \/ /\ expired /\ (Go("sinkwait", "query") \/ Go("sinkjoin", "query"))
          /\ Up(thread[IF sup = "sinkwait" THEN "writer" ELSE "sink_close"])
          /\ Unstopped({"storage"}) /\ UNCHANGED sink
    /\ UNCHANGED <<scannerVars, acqVars, thread, holder, file, broken, survivors,
                   endVars>>

\* query_incidents for the summary, on the connection of the reports: the main
\* thread waits, without a deadline, for an incident that is being recorded there.
\* What it gives or raises is only told in the summary.
QueryIncidents ==
    /\ Go("query", "reportclose")
    /\ thread["report"] # "incident"
    /\ UNCHANGED <<scannerVars, thread, survivors, unstopped, asked, expired>> /\ Quiet

CloseReports ==
    /\ Go("reportclose", "reportjoin")
    /\ Move("report_close", "run")
    /\ UNCHANGED <<scannerVars, survivors, unstopped, asked, expired>> /\ Quiet

\* Slip: a close that did not end in time is not remembered as a survivor.
ReportsForgotten ==
    LET alive == Up(thread["report_close"])
    IN  /\ Go("reportjoin", "capture") /\ (~alive \/ expired)
        /\ \E good \in BOOLEAN :
              Unstopped(IF good /\ ~alive THEN {} ELSE {"storage"})
        /\ survivors' = survivors
        /\ UNCHANGED <<scannerVars, thread, asked, expired>> /\ QuietBut

\* _bounded_close: complete, failed, or late.
ReportsClosed ==
    LET alive == Up(thread["report_close"])
    IN  /\ Go("reportjoin", "capture") /\ (~alive \/ expired)
        /\ \E good \in BOOLEAN :
              Unstopped(IF good /\ ~alive THEN {} ELSE {"storage"})
        /\ survivors' = survivors \union (IF alive THEN {"report_close"} ELSE {})
        /\ UNCHANGED <<scannerVars, thread, asked, expired>> /\ QuietBut

-----------------------------------------------------------------------------
(* The outcome: one snapshot of the sink, the health file, the summary.    *)

OutcomeFrame == UNCHANGED <<scannerVars, acqVars, thread, sink, asked, expired,
                            raising, lock>>

\* The snapshot is dirty also when an incident could not be stored.
Capture ==
    LET lost == "storage" \in unstopped
    IN  /\ Go("capture", "decide")
        /\ \/ /\ snap' \in {"dirty"} \union (IF lost THEN {} ELSE {"clean"})
              /\ app' = (IF AnyFailure THEN "failed" ELSE "fine")
              /\ shut' = (IF AnyFailure THEN "incomplete" ELSE "complete")
              /\ UNCHANGED unstopped
           \/ snap' = "none" /\ Unstopped({"storage"})
        /\ survivors' = survivors \union
                          {t \in {"writer", "sink_close"} : Up(thread[t])}
        /\ UNCHANGED <<holder, file, broken, attempt, published, exitCode, summary>>
        /\ OutcomeFrame

NonClean == AnyFailure \/ snap = "dirty"

Decide ==
    /\ Go("decide", "publish")
    /\ app' = (IF NonClean THEN "failed" ELSE "fine")
    /\ shut' = (IF NonClean THEN "incomplete" ELSE "complete")
    /\ UNCHANGED <<holder, file, failVars, attempt, published, exitCode, summary, snap>>
    /\ OutcomeFrame

\* Slip: the sink's view of the shutdown is published as the station's.
PublishSinkOnly ==
    /\ Go("publish", "publishing") /\ Take("supervisor")
    /\ shut' = IF snap = "clean" THEN "complete" ELSE "incomplete"
    /\ app' = IF snap = "clean" THEN "fine" ELSE app
    /\ UNCHANGED <<file, failVars, attempt, published, exitCode, summary, snap>>
    /\ OutcomeFrame

\* publish_final_sink_snapshot, or save when there is no snapshot.
Publish ==
    /\ Go("publish", "publishing") /\ Take("supervisor")
    /\ shut' = IF snap = "none" THEN shut
               ELSE IF app = "fine" /\ snap = "clean" THEN "complete"
               ELSE "incomplete"
    /\ UNCHANGED <<app, file, failVars, attempt, published, exitCode, summary, snap>>
    /\ OutcomeFrame

AfterPublish == IF attempt = "correct" THEN "return" ELSE "summarise"

Published ==
    /\ Go("publishing", AfterPublish)
    /\ SaveOK /\ published' = TRUE
    /\ UNCHANGED <<app, shut, failVars, attempt, exitCode, summary, snap>>
    /\ OutcomeFrame

\* The first failure to publish is a failure of the station, and published.
PublishFails ==
    LET retry == attempt = "first" /\ snap # "none"
    IN  /\ Go("publishing", IF retry THEN "publish" ELSE AfterPublish)
        /\ SaveFails /\ published' = FALSE
        /\ Unstopped(IF attempt = "first" THEN {"other"} ELSE {})
        /\ attempt' = IF retry THEN "second" ELSE attempt
        /\ UNCHANGED <<broken, survivors, exitCode, summary, snap>>
        /\ OutcomeFrame

Summarise ==
    /\ Go("summarise", "return")
    /\ exitCode' = IF NonClean THEN 1 ELSE 0
    /\ summary' = IF NonClean THEN "failed" ELSE "clean"
    /\ UNCHANGED <<healthVars, failVars, attempt, published, snap>>
    /\ OutcomeFrame

\* Slip: the exit code was taken before the summary failed.
SummaryFailsUnseen ==
    /\ Go("summarise", "publish")
    /\ exitCode' = IF NonClean THEN 1 ELSE 0
    /\ app' = "failed" /\ attempt' = "correct"
    /\ UNCHANGED <<holder, shut, file, failVars, published, summary, snap>>
    /\ OutcomeFrame

\* The health that was published is corrected.
SummaryFails ==
    /\ Go("summarise", "publish")
    /\ exitCode' = 1
    /\ app' = "failed" /\ attempt' = "correct"
    /\ UNCHANGED <<holder, shut, file, failVars, published, summary, snap>>
    /\ OutcomeFrame

-----------------------------------------------------------------------------
(* run_station keeps the lock while anything survives, main returns, and   *)
(* the process ends: every thread is a daemon, and a child is not a thread. *)

Return ==
    /\ Go("return", "exiting")
    /\ lock' = IF survivors = {} THEN "free" ELSE "retained"
    /\ exitCode' = IF raising THEN 1 ELSE exitCode
    /\ UNCHANGED <<scannerVars, acqVars, thread, sink, healthVars, failVars, attempt,
                   asked, expired, raising, snap, published, summary>>

GuardianFrame == UNCHANGED <<acqVars, thread, sink, healthVars, sup, failVars,
                             attempt, asked, expired, raising, snap, published,
                             exitCode, summary>>

\* scanner.join, called again and again by the guardian.
GuardianJoins ==
    /\ sup = "exiting" /\ lock = "retained" /\ "scanner" \in survivors /\ active # 0
    /\ StopLookup
    /\ UNCHANGED lock /\ GuardianFrame

GuardianReleases ==
    /\ sup = "exiting" /\ lock = "retained" /\ \A c \in survivors : ~Alive(c)
    /\ lock' = "free"
    /\ UNCHANGED scannerVars /\ GuardianFrame

ProcessExits ==
    /\ Go("exiting", "exited")
    /\ lock' = "free"
    /\ thread' = [t \in Threads |-> "ended"] /\ acq' = "ended" /\ holder' = "none"
    /\ UNCHANGED <<scannerVars, acqNext, acqFailed, failing, queued, sink,
                   app, shut, file, failVars, attempt, asked, expired, raising,
                   snap, published, exitCode, summary>>

-----------------------------------------------------------------------------
StartStep    == Construct \/ ConstructFails \/ \E n \in 0 .. 5 : Start(n)
ShutdownStep == \/ MainEnds \/ StopScanner \/ ScannerStopped \/ NoLateScanner
                \/ AskSampler \/ JoinSampler \/ JoinAcquisition \/ JoinReport
                \/ JoinTelegram \/ CloseSink \/ SinkWriterJoined \/ SinkCloses
                \/ QueryIncidents \/ CloseReports \/ ReportsClosed
OutcomeStep  == \/ Capture \/ Decide \/ Publish \/ Published \/ PublishFails
                \/ Summarise \/ SummaryFails \/ Return
GuardianStep == GuardianJoins \/ GuardianReleases

Next ==
    \/ AcqStep \/ ChildStep \/ ReapStep \/ HelperStep
    \/ StartStep \/ StopRequested \/ ShutdownStep \/ Expire
    \/ OutcomeStep \/ GuardianStep \/ ProcessExits

Spec == Init /\ [][Next]_vars

\* What the main thread gets: its steps, the deadline, the end of what it does
\* to the child, and of the saves of others, which write the health file under
\* its lock.  No call into the database is among these.
StationFairness ==
    /\ WF_vars(sup # "query" /\ ShutdownStep)
    /\ WF_vars(OutcomeStep) /\ WF_vars(ProcessExits)
    /\ WF_vars(Expire)
    /\ WF_vars(ReapStep)
    /\ WF_vars(AcqSave) /\ WF_vars(\E t \in Runtimes : HelperSaves(t))

BoundedSpec == Spec /\ StationFairness

-----------------------------------------------------------------------------
(* Properties.                                                             *)

AcqStates    == {"none", "begin", "top", "acquire", "scan", "incident",
                 "save", "down", "record", "ended"}
ThreadStates == {"none", "run", "store", "incident", "save", "ended"}
SupStates    == {"construct", "start", "main", "lookup", "stopping", "sampler",
                 "joinsampler", "joinacquisition", "late", "latestopping",
                 "joinreport", "jointelegram", "sinkclose", "sinkwait", "sinkjoin",
                 "query", "reportclose", "reportjoin", "capture", "decide", "publish",
                 "publishing", "summarise", "return", "exiting", "exited"}
Owned        == Threads \union {"scanner", "acquisition"}

OwnTypeOK ==
    /\ acq \in AcqStates /\ acqNext \in AcqStates /\ acqFailed \in BOOLEAN
    /\ failing \in BOOLEAN /\ queued \in 0 .. QueueBound
    /\ thread \in [Threads -> ThreadStates]
    /\ sink \in {"unstarted", "open", "failed", "closing", "closed"}
    /\ holder \in {"none", "acquisition", "report", "sampler", "supervisor"}
    /\ app \in {"fine", "failed"} /\ shut \in {"incomplete", "complete"}
    /\ file \in BOOLEAN
    /\ sup \in SupStates /\ attempt \in {"first", "second", "correct"}
    /\ asked \in BOOLEAN /\ expired \in BOOLEAN /\ raising \in BOOLEAN
    /\ broken \in BOOLEAN
    /\ unstopped \subseteq {"rtl_power", "acquisition", "storage", "other"}
    /\ survivors \subseteq Owned
    /\ snap \in {"none", "clean", "dirty"} /\ published \in BOOLEAN
    /\ exitCode \in 0 .. 2 /\ summary \in {"marker", "clean", "failed"}
    /\ lock \in {"held", "retained", "free"}

TypeOK == ScannerTypeOK /\ OwnTypeOK

(* "Clean coordinated stop" is the exit code 0: nothing failed while the   *)
(* station ran, every thread it owned has ended, the sink is closed, and   *)
(* no child is left but one that outlived its kill in an earlier scan.     *)
CleanExit ==
    exitCode = 0 =>
        /\ ~AnyFailure /\ sink = "closed"
        /\ \A c \in Owned : ~Alive(c)
        /\ running \subseteq Stubborn

(* While the process lives, the station lock is free only when nothing the *)
(* station owned is alive, so a second instance overlaps with nothing.     *)
LockCoversOwned ==
    lock = "free" /\ sup # "exited" =>
        (\A c \in Owned : ~Alive(c)) /\ running \subseteq Stubborn

\* The outcome is out; an exception of the startup itself is not looked at.
Told == sup \in {"return", "exiting", "exited"} /\ ~raising

(* The health file that is left says clean exactly when the exit code is   *)
(* 0, provided it could be written and the acquisition thread, which       *)
(* writes it too, had stopped.                                             *)
HealthAgrees ==
    Told /\ published /\ "acquisition" \notin unstopped => (file <=> exitCode = 0)

(* The run summary says clean exactly when the exit code is 0.             *)
SummaryAgrees ==
    Told => (summary = "clean" <=> exitCode = 0)

\* Incidents are recorded and read, unless the writer's INSERT has the connection.
IncidentsAnswer ==
    /\ WF_vars(AcqRecords) /\ WF_vars(ReportRecords) /\ WF_vars(QueryIncidents)

\* The last wait of the main thread, for the health lock, while the acquisition
\* thread has it and waits for the writer's INSERT.
HeldUp ==
    sup = "publish" /\ holder = "acquisition" /\ acq = "incident" /\ thread["writer"] = "store"



(* "station lock is not released until the unresolved survivor has         *)
(* actually ended": also when the child is one the scanner lost sight of.  *)
LockCoversChildren == lock = "free" /\ sup = "exiting" => running = {}
=============================================================================
