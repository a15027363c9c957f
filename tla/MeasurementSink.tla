-------------------------- MODULE MeasurementSink --------------------------
(***************************************************************************)
(* AsyncMeasurementSink of acquisition.py: the bounded queue between the   *)
(* acquisition thread and the one thread that writes to SQLite.            *)
(*                                                                         *)
(* Every thread holds self._condition for one critical section at a time,  *)
(* so an action below is one critical section, or one step outside the     *)
(* lock.  Time is abstract: a wait that has a deadline may end at any      *)
(* moment.  The two waits that have no deadline (the writer's, and         *)
(* flush(None)'s) are modelled with their wake-ups, because a notify_all   *)
(* that is missing would leave them asleep for ever.                       *)
(*                                                                         *)
(* A member of Sweeps stands for one store_sweep call and for its receipt. *)
(***************************************************************************)
EXTENDS Naturals, FiniteSets, Sequences

CONSTANTS
    Sweeps,     \* the completed sweeps handed to the sink
    Closers,    \* the threads that call close
    Flushers,   \* the threads that call flush(None)
    MaxQueue,   \* max_queue
    CloseMode   \* "owned": close_downstream and the downstream has a close;
                \* "absent": close_downstream, and it has none;
                \* "not_owned": close_downstream is False

ASSUME SinkAssumption ==
    /\ IsFiniteSet(Sweeps)
    /\ MaxQueue \in Nat \ {0}
    /\ CloseMode \in {"owned", "absent", "not_owned"}

VARIABLES
    queue,          \* _queue: the admitted sweeps nobody has taken yet
    queued,         \* _queued
    inFlight,       \* _in_flight
    pending,        \* _pending
    activeEnqueues, \* _active_enqueues
    call,           \* where each store_sweep call is
    receipt,        \* the status of each sweep's receipt
    count,          \* accepted_count, persisted_count, rejected_count, failed_count
    writer,         \* where the writer thread is
    current,        \* the sweep the writer took last
    outcome,        \* what persisting it gave
    failure,        \* _failure is not None
    resultFailure,  \* _result_failure is not None
    told,           \* how often on_terminal_failure was called
    closing,        \* _closing
    closed,         \* _closed
    closeFailure,   \* _close_failure is not None
    closer,         \* where each close call is
    error,          \* whether each close call holds an error
    dsThread,       \* the thread of the downstream close
    dsStatus,       \* _downstream_close_status
    flusher,        \* where each flush call is
    owed,           \* history: the sweeps admitted when each flush was called
    admitted        \* history: the sweeps ever appended to the queue

queueVars  == <<queue, queued, inFlight, pending, activeEnqueues>>
callVars   == <<call, receipt, count, admitted>>
writerVars == <<current, outcome, failure, resultFailure, told>>
closeVars  == <<closing, closed, closeFailure, closer, error, dsThread, dsStatus>>
vars == <<queueVars, callVars, writer, writerVars, closeVars, flusher, owed>>

CallStates   == {"idle", "waiting", "done"}
Statuses     == {"none", "accepted", "persisted", "rejected", "failed"}
Settled      == {"persisted", "rejected", "failed"}
WriterStates == {"unstarted", "loop", "asleep", "persist", "settle",
                 "tell", "tell_last", "dead"}
Outcomes     == {"persisted", "rejected", "failed", "exception"}
CloserStates == {"idle", "flush", "join", "drain", "dsclose", "dsjoin",
                 "finish", "returned", "raised"}
FlushStates  == {"idle", "check", "asleep", "returned", "raised"}
DsStatuses   == {"not_owned", "not_started", "incomplete", "complete", "failed"}
Counters     == {"accepted", "persisted", "rejected", "failed"}

Init ==
    /\ queue = <<>> /\ queued = 0 /\ inFlight = 0 /\ pending = 0
    /\ activeEnqueues = 0
    /\ call = [s \in Sweeps |-> "idle"]
    /\ receipt = [s \in Sweeps |-> "none"]
    /\ count = [c \in Counters |-> 0]
    /\ writer = "unstarted"
    /\ current \in Sweeps /\ outcome = "persisted"
    /\ failure = FALSE /\ resultFailure = FALSE /\ told = 0
    /\ closing = FALSE /\ closed = FALSE /\ closeFailure = FALSE
    /\ closer = [c \in Closers |-> "idle"]
    /\ error = [c \in Closers |-> FALSE]
    /\ dsThread = "none"
    /\ dsStatus = IF CloseMode = "not_owned" THEN "not_owned" ELSE "not_started"
    /\ flusher = [f \in Flushers |-> "idle"]
    /\ owed = [f \in Flushers |-> {}]
    /\ admitted = {}

WriterStarted == writer # "unstarted"
WriterAlive   == writer \notin {"unstarted", "dead"}
Bump(c)       == count' = [count EXCEPT ![c] = @ + 1]

\* Slip: only the writer is woken.
NotifyWriter(w) ==
    writer' = (IF w = "asleep" THEN "loop" ELSE w) /\ UNCHANGED flusher

\* condition.notify_all, by a thread that leaves the writer at w.
NotifyAll(w) ==
    /\ writer' = IF w = "asleep" THEN "loop" ELSE w
    /\ flusher' = [f \in Flushers |->
                     IF flusher[f] = "asleep" THEN "check" ELSE flusher[f]]

-----------------------------------------------------------------------------
(* start() and store_sweep().                                              *)

Start ==
    /\ ~WriterStarted /\ ~closing /\ ~closed
    /\ writer' = "loop"
    /\ UNCHANGED <<queueVars, callVars, writerVars, closeVars, flusher, owed>>

Return(s, status) ==
    /\ call' = [call EXCEPT ![s] = "done"]
    /\ receipt' = [receipt EXCEPT ![s] = status]

\* The call finds the sink not started or closing.
StoreRefused(s) ==
    /\ call[s] = "idle"
    /\ ~WriterStarted \/ closing \/ closed
    /\ Return(s, "rejected")
    /\ Bump("rejected")
    /\ UNCHANGED <<queueVars, admitted, writer, writerVars, closeVars, flusher, owed>>

Open(s) == call[s] = "idle" /\ WriterStarted /\ ~closing /\ ~closed

\* The call finds that persistence has failed for good.
StoreFailed(s) ==
    /\ Open(s) /\ failure
    /\ Return(s, "failed")
    /\ Bump("failed")
    /\ UNCHANGED <<queueVars, admitted, writer, writerVars, closeVars, flusher, owed>>

\* Slip: the call waits without counting itself as active.
StoreWaitUncounted(s) ==
    /\ Open(s) /\ ~failure /\ queued >= MaxQueue
    /\ call' = [call EXCEPT ![s] = "waiting"]
    /\ UNCHANGED <<queueVars, receipt, count, admitted, writer, writerVars,
                   closeVars, flusher, owed>>

\* The queue is full: wait on the condition, which gives up the lock.
StoreWait(s) ==
    /\ Open(s) /\ ~failure /\ queued >= MaxQueue
    /\ call' = [call EXCEPT ![s] = "waiting"]
    /\ activeEnqueues' = activeEnqueues + 1
    /\ UNCHANGED <<queue, queued, inFlight, pending, receipt, count, admitted,
                   writer, writerVars, closeVars, flusher, owed>>

\* Slip: the condition is not notified of the new item.
EnqueueSilently(s) ==
    /\ queued < MaxQueue
    /\ queue' = Append(queue, s) /\ queued' = queued + 1 /\ pending' = pending + 1
    /\ admitted' = admitted \union {s}
    /\ Return(s, "accepted") /\ Bump("accepted")
    /\ UNCHANGED <<inFlight, writer, flusher, writerVars, closeVars, owed>>

Enqueue(s) ==
    /\ queued < MaxQueue
    /\ queue' = Append(queue, s)
    /\ queued' = queued + 1
    /\ pending' = pending + 1
    /\ admitted' = admitted \union {s}
    /\ Return(s, "accepted")
    /\ Bump("accepted")
    /\ NotifyAll(writer)
    /\ UNCHANGED <<inFlight, writerVars, closeVars, owed>>

StoreAdmit(s) ==
    /\ Open(s) /\ ~failure
    /\ Enqueue(s)
    /\ UNCHANGED activeEnqueues

\* A waiting call has the lock again.  It looks at the length of the queue
\* only: neither at _closing nor at _failure, which may be set by now.
WaitAdmit(s) ==
    /\ call[s] = "waiting"
    /\ Enqueue(s)
    /\ activeEnqueues' = activeEnqueues - 1

\* Slip: the call that gives up stays counted as active.
WaitGiveUpCounted(s) ==
    /\ call[s] = "waiting" /\ queued >= MaxQueue
    /\ Return(s, "rejected") /\ Bump("rejected")
    /\ NotifyAll(writer)
    /\ UNCHANGED <<queueVars, admitted, writerVars, closeVars, owed>>

WaitGiveUp(s) ==
    /\ call[s] = "waiting" /\ queued >= MaxQueue
    /\ Return(s, "rejected")
    /\ Bump("rejected")
    /\ activeEnqueues' = activeEnqueues - 1
    /\ NotifyAll(writer)
    /\ UNCHANGED <<queue, queued, inFlight, pending, admitted, writerVars,
                   closeVars, owed>>

-----------------------------------------------------------------------------
(* _write_loop().                                                          *)

\* Slip: the calls that wait for room are forgotten.
MayExitEarly(fail, pend) == (closing \/ fail) /\ pend = 0

\* What lets the writer stop, at both places that ask.
MayExit(fail, pend) ==
    (closing \/ fail) /\ pend = 0 /\ activeEnqueues = 0

WriterTake ==
    /\ writer = "loop" /\ queue # <<>>
    /\ queue' = Tail(queue)
    /\ queued' = queued - 1
    /\ inFlight' = inFlight + 1
    /\ current' = Head(queue)
    /\ NotifyAll("persist")
    /\ UNCHANGED <<pending, activeEnqueues, callVars, outcome, failure,
                   resultFailure, told, closeVars, owed>>

WriterIdle ==
    /\ writer = "loop" /\ queue = <<>>
    /\ writer' = IF MayExit(failure, pending) THEN "dead" ELSE "asleep"
    /\ UNCHANGED <<queueVars, callVars, writerVars, closeVars, flusher, owed>>

\* Slip: the items behind a failed one are still given to the store.
WriterPersistAnyway ==
    /\ writer = "persist"
    /\ writer' = "settle"
    /\ outcome' \in Outcomes
    /\ UNCHANGED <<queueVars, callVars, current, failure, resultFailure, told,
                   closeVars, flusher, owed>>

\* Outside the lock.  The downstream may take the sweep, answer with a
\* rejected or a failed receipt, or raise.
WriterPersist ==
    /\ writer = "persist"
    /\ writer' = "settle"
    /\ outcome' \in IF failure THEN {"failed"} ELSE Outcomes
    /\ UNCHANGED <<queueVars, callVars, current, failure, resultFailure, told,
                   closeVars, flusher, owed>>

WriterSettle ==
    LET broke  == outcome = "exception"
        status == IF broke THEN "failed" ELSE outcome
        first  == broke /\ ~failure
        stop   == MayExit(failure', pending')
    IN  /\ writer = "settle"
        /\ failure' = (failure \/ broke)
        /\ receipt' = [receipt EXCEPT ![current] = status]
        /\ Bump(IF status = "persisted" THEN "persisted" ELSE "failed")
        /\ resultFailure' = (\/ resultFailure
                             \/ status = "rejected"
                             \/ status = "failed" /\ ~failure')
        /\ inFlight' = inFlight - 1
        /\ pending' = pending - 1
        /\ NotifyAll(IF first THEN IF stop THEN "tell_last" ELSE "tell"
                     ELSE IF stop THEN "dead" ELSE "loop")
        /\ UNCHANGED <<queue, queued, activeEnqueues, call, admitted, current,
                       outcome, told, closeVars, owed>>

\* Slip: a writer that is to stop skips the callback.
WriterTellUnlessLast ==
    /\ writer \in {"tell", "tell_last"}
    /\ told' = IF writer = "tell" THEN told + 1 ELSE told
    /\ writer' = IF writer = "tell" THEN "loop" ELSE "dead"
    /\ UNCHANGED <<queueVars, callVars, current, outcome, failure, resultFailure,
                   closeVars, flusher, owed>>

\* on_terminal_failure, outside the lock; what it raises is swallowed.
WriterTell ==
    /\ writer \in {"tell", "tell_last"}
    /\ told' = told + 1
    /\ writer' = IF writer = "tell" THEN "loop" ELSE "dead"
    /\ UNCHANGED <<queueVars, callVars, current, outcome, failure, resultFailure,
                   closeVars, flusher, owed>>

-----------------------------------------------------------------------------
(* flush(None).                                                            *)

Flush(f) ==
    /\ flusher[f] = "idle"
    /\ flusher' = [flusher EXCEPT ![f] = "check"]
    /\ owed' = [owed EXCEPT ![f] = admitted]
    /\ UNCHANGED <<queueVars, callVars, writer, writerVars, closeVars>>

\* Slip: the item the writer holds is not waited for.
OutstandingInQueue == queued > 0 \/ activeEnqueues > 0

Outstanding == pending > 0 \/ activeEnqueues > 0

FlushCheck(f) ==
    /\ flusher[f] = "check"
    /\ flusher' = [flusher EXCEPT ![f] =
                     IF Outstanding THEN "asleep"
                     ELSE IF failure \/ resultFailure THEN "raised" ELSE "returned"]
    /\ UNCHANGED <<queueVars, callVars, writer, writerVars, closeVars, owed>>

-----------------------------------------------------------------------------
(* close(deadline) and the thread it starts for the downstream's close.    *)

GoTo(c, state) == closer' = [closer EXCEPT ![c] = state]

\* Slip: the sleeping writer is not told that the sink closes.
CloseCallSilently(c) ==
    /\ closer[c] \in {"idle", "raised"} /\ ~closed
    /\ closing' = TRUE /\ closeFailure' = FALSE
    /\ error' = [error EXCEPT ![c] = FALSE]
    /\ GoTo(c, "flush")
    /\ UNCHANGED <<queueVars, callVars, writer, flusher, writerVars, closed,
                   dsThread, dsStatus, owed>>

CloseCall(c) ==
    /\ closer[c] \in {"idle", "raised"}
    /\ ~closed
    /\ closing' = TRUE
    /\ closeFailure' = FALSE
    /\ error' = [error EXCEPT ![c] = FALSE]
    /\ GoTo(c, "flush")
    /\ NotifyAll(writer)
    /\ UNCHANGED <<queueVars, callVars, writerVars, closed, dsThread, dsStatus, owed>>

CloseAgain(c) ==
    /\ closer[c] \in {"idle", "raised"}
    /\ closed
    /\ GoTo(c, "returned")
    /\ UNCHANGED <<queueVars, callVars, writer, writerVars, closing, closed,
                   closeFailure, error, dsThread, dsStatus, flusher, owed>>

\* Slip: an outcome the store reported, and did not raise, is overlooked.
CloseFlushRaisedOnly(c) ==
    /\ closer[c] = "flush"
    /\ error' = [error EXCEPT ![c] = Outstanding \/ failure]
    /\ GoTo(c, "join")
    /\ UNCHANGED <<queueVars, callVars, writer, writerVars, closing, closed,
                   closeFailure, dsThread, dsStatus, flusher, owed>>

\* _flush_until(close_deadline): everything is settled, or the deadline passes.
CloseFlush(c) ==
    /\ closer[c] = "flush"
    /\ error' = [error EXCEPT ![c] = Outstanding \/ failure \/ resultFailure]
    /\ GoTo(c, "join")
    /\ UNCHANGED <<queueVars, callVars, writer, writerVars, closing, closed,
                   closeFailure, dsThread, dsStatus, flusher, owed>>

\* writer.join(remaining) found the writer stopped, or never started.
CloseJoined(c) ==
    /\ closer[c] = "join" /\ ~WriterAlive
    /\ GoTo(c, "drain")
    /\ UNCHANGED <<queueVars, callVars, writer, writerVars, closing, closed,
                   closeFailure, error, dsThread, dsStatus, flusher, owed>>

Raise(c) ==
    /\ closeFailure' = TRUE
    /\ GoTo(c, "raised")
    /\ UNCHANGED <<queueVars, callVars, writer, writerVars, closing, closed,
                   error, dsThread, dsStatus, flusher, owed>>

\* Slip: join without a timeout.
CloseWriterForever(c) == closer[c] = "join" /\ WriterAlive /\ FALSE /\ Raise(c)

\* The writer was still alive at the deadline: the sink stays open to a retry.
CloseWriterTimeout(c) == closer[c] = "join" /\ WriterAlive /\ Raise(c)

CloseDrain(c) ==
    LET left == {queue[i] : i \in 1 .. Len(queue)}
    IN  /\ closer[c] = "drain"
        /\ queue' = <<>>
        /\ queued' = queued - Len(queue)
        /\ pending' = pending - Len(queue)
        /\ receipt' = [s \in Sweeps |-> IF s \in left THEN "rejected" ELSE receipt[s]]
        /\ count' = [count EXCEPT !["rejected"] = @ + Len(queue)]
        /\ closeFailure' = (closeFailure \/ error[c])
        /\ GoTo(c, IF CloseMode = "owned" THEN "dsclose" ELSE "finish")
        /\ UNCHANGED <<inFlight, activeEnqueues, call, admitted, writer, writerVars,
                       closing, closed, error, dsThread, dsStatus, flusher, owed>>

\* _start_downstream_close: one thread, whoever closes and however often.
CloseDownstream(c) ==
    /\ closer[c] = "dsclose"
    /\ IF dsThread = "none"
       THEN dsThread' = "running" /\ dsStatus' = "incomplete"
       ELSE UNCHANGED <<dsThread, dsStatus>>
    /\ GoTo(c, "dsjoin")
    /\ UNCHANGED <<queueVars, callVars, writer, writerVars, closing, closed,
                   closeFailure, error, flusher, owed>>

\* _run_downstream_close, in the thread.
DownstreamCloseEnds ==
    /\ dsThread = "running"
    /\ dsThread' = "ended"
    /\ dsStatus' \in {"complete", "failed"}
    /\ NotifyAll(writer)
    /\ UNCHANGED <<queueVars, callVars, writerVars, closing, closed,
                   closeFailure, closer, error, owed>>

CloseDownstreamJoined(c) ==
    /\ closer[c] = "dsjoin" /\ dsThread = "ended"
    /\ error' = [error EXCEPT ![c] = @ \/ dsStatus = "failed"]
    /\ GoTo(c, "finish")
    /\ UNCHANGED <<queueVars, callVars, writer, writerVars, closing, closed,
                   closeFailure, dsThread, dsStatus, flusher, owed>>

\* The thread is alive at the deadline, or ended after it.
CloseDownstreamTimeout(c) == closer[c] = "dsjoin" /\ Raise(c)

CloseFinish(c) ==
    /\ closer[c] = "finish"
    /\ closed' = TRUE
    /\ closeFailure' = error[c]
    /\ dsStatus' = IF CloseMode = "absent" THEN "complete" ELSE dsStatus
    /\ GoTo(c, IF error[c] THEN "raised" ELSE "returned")
    /\ UNCHANGED <<queueVars, callVars, writer, writerVars, closing, error,
                   dsThread, flusher, owed>>

-----------------------------------------------------------------------------
StoreStep(s) == StoreRefused(s) \/ StoreFailed(s) \/ StoreWait(s) \/ StoreAdmit(s)
WaitStep(s)  == WaitAdmit(s) \/ WaitGiveUp(s)
WriterStep   == WriterTake \/ WriterIdle \/ WriterPersist \/ WriterSettle \/ WriterTell
CloseStep(c) == \/ CloseFlush(c) \/ CloseJoined(c) \/ CloseWriterTimeout(c)
                \/ CloseDrain(c) \/ CloseDownstream(c) \/ CloseDownstreamJoined(c)
                \/ CloseDownstreamTimeout(c) \/ CloseFinish(c)

Next ==
    \/ Start
    \/ \E s \in Sweeps : StoreStep(s) \/ WaitStep(s)
    \/ WriterStep
    \/ \E f \in Flushers : Flush(f) \/ FlushCheck(f)
    \/ \E c \in Closers : CloseCall(c) \/ CloseAgain(c) \/ CloseStep(c)
    \/ DownstreamCloseEnds

Spec == Init /\ [][Next]_vars

\* What every thread of the process gets: a deadline that passes is acted on,
\* and a thread that can take the lock does.  Nothing is said of how long the
\* downstream takes (WriterPersist, DownstreamCloseEnds).
ThreadFairness ==
    /\ \A s \in Sweeps : WF_vars(WaitStep(s))
    /\ \A f \in Flushers : WF_vars(FlushCheck(f))
    /\ \A c \in Closers : WF_vars(CloseStep(c))
    /\ WF_vars(WriterTake \/ WriterIdle \/ WriterSettle \/ WriterTell)

BoundedSpec == Spec /\ ThreadFairness
-----------------------------------------------------------------------------
(* Properties.                                                             *)

QueueType ==
    /\ queue \in Seq(Sweeps)
    /\ queued \in Nat /\ inFlight \in 0 .. 1 /\ pending \in Nat
    /\ activeEnqueues \in Nat

CallType ==
    /\ call \in [Sweeps -> CallStates]
    /\ receipt \in [Sweeps -> Statuses]
    /\ count \in [Counters -> Nat]
    /\ admitted \in SUBSET Sweeps

WriterType ==
    /\ writer \in WriterStates /\ current \in Sweeps /\ outcome \in Outcomes
    /\ failure \in BOOLEAN /\ resultFailure \in BOOLEAN /\ told \in Nat

CloseType ==
    /\ closing \in BOOLEAN /\ closed \in BOOLEAN /\ closeFailure \in BOOLEAN
    /\ closer \in [Closers -> CloserStates]
    /\ error \in [Closers -> BOOLEAN]
    /\ dsThread \in {"none", "running", "ended"}
    /\ dsStatus \in DsStatuses

FlushType ==
    /\ flusher \in [Flushers -> FlushStates]
    /\ owed \in [Flushers -> SUBSET Sweeps]

TypeOK == QueueType /\ CallType /\ WriterType /\ CloseType /\ FlushType

With(status) == {s \in Sweeps : receipt[s] = status}
Waiting      == {s \in Sweeps : call[s] = "waiting"}

(* "Counters, outstanding work, and the receipt cannot describe different  *)
(* completion states" (the class comment): whenever the lock is free, the  *)
(* queue is within its bound, the depth counters say what is queued, held  *)
(* by the writer and waiting to be queued, and the four totals say what    *)
(* the receipts say.                                                       *)
AccountingAgrees ==
    /\ queued = Len(queue) /\ queued <= MaxQueue
    /\ inFlight = (IF writer \in {"persist", "settle"} THEN 1 ELSE 0)
    /\ pending = queued + inFlight
    /\ pending = Cardinality(With("accepted"))
    /\ activeEnqueues = Cardinality(Waiting)
    /\ count["accepted"] = Cardinality(admitted)
    /\ count["persisted"] = Cardinality(With("persisted"))
    /\ count["rejected"] + count["failed"] =
          Cardinality(With("rejected")) + Cardinality(With("failed"))

(* The writer thread stops only when nothing is left for it: no sweep that *)
(* was accepted is still unsettled, and no store_sweep call is waiting for *)
(* a place it could never get settled from.                                *)
NoneAbandoned ==
    writer = "dead" => With("accepted") = {} /\ Waiting = {}

\* shutdown_complete of telemetry_snapshot.
ShutdownComplete ==
    /\ closed /\ ~failure /\ ~closeFailure /\ ~WriterAlive
    /\ dsStatus \in {"complete", "not_owned"}

(* A shutdown the telemetry calls complete lost nothing: every sweep the   *)
(* sink ever accepted is persisted, whatever close calls raced or were     *)
(* repeated before.                                                        *)
CleanShutdownDurable == ShutdownComplete => admitted \subseteq With("persisted")

(* flush "raises if any item was not persisted": when it returns, every    *)
(* sweep accepted before the call is persisted.                            *)
FlushCovers ==
    \A f \in Flushers : flusher[f] = "returned" => owed[f] \subseteq With("persisted")

(* The sink gives its callers what SinkContract promises.                  *)
Contract == INSTANCE SinkContract WITH status <- receipt, broken <- failure
ImplementsContract == Contract!Spec

(* close returns or raises, even when the store or its close never answer: *)
(* only the deadlines are needed.                                          *)
CloseBounded ==
    \A c \in Closers : closer[c] = "flush" ~> closer[c] \in {"returned", "raised"}

StoreAnswers == WF_vars(WriterPersist)

(* When the store answers each call, every accepted sweep gets settled,    *)
(* the writer stops after close, and a flush without a deadline ends: no   *)
(* wake-up is lost.                                                        *)
AcceptedSettles ==
    StoreAnswers => \A s \in Sweeps : receipt[s] = "accepted" ~> receipt[s] \in Settled
WriterStops == StoreAnswers => (closing ~> ~WriterAlive)
FlushReturns ==
    StoreAnswers =>
        \A f \in Flushers : flusher[f] = "check" ~> flusher[f] \in {"returned", "raised"}

(* The supervisor hears of a terminal persistence failure.                 *)
SupervisorTold == failure ~> told = 1
=============================================================================
