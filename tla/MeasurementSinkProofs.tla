----------------------- MODULE MeasurementSinkProofs -----------------------
(***************************************************************************)
(* Proofs about MeasurementSink, for every set of sweeps, close callers    *)
(* and flush callers and every queue bound.                                *)
(***************************************************************************)
EXTENDS MeasurementSink, FiniteSetTheorems, TLAPS

(***************************************************************************)
(* The inductive invariant.  CountersHold is what keeps the depth counters *)
(* from running away from the queue; ItemsHeld says where an unsettled     *)
(* sweep is; LossesShow that a lost one left a mark; WriterGone and        *)
(* ClosersKnow what a writer that stopped, and a close call that got past  *)
(* its flush, may rely on.                                                 *)
(***************************************************************************)
Held == writer \in {"persist", "settle"}

InQueue == {queue[i] : i \in 1 .. Len(queue)}

CountersHold ==
    /\ queued = Len(queue) /\ queued <= MaxQueue
    /\ inFlight = (IF Held THEN 1 ELSE 0)
    /\ pending = queued + inFlight

CallsCounted == activeEnqueues = Cardinality(Waiting)

ItemsHeld ==
    /\ \A s \in Sweeps : call[s] = "done" <=> receipt[s] # "none"
    /\ \A s \in Sweeps : receipt[s] = "accepted" <=>
                            (s \in InQueue \/ (Held /\ s = current))
    /\ \A i, j \in 1 .. Len(queue) : queue[i] = queue[j] => i = j
    /\ Held => current \notin InQueue

NoFailure == ~failure /\ ~resultFailure

LossesShow ==
    NoFailure => \A s \in admitted : receipt[s] \in {"accepted", "persisted"}

Quiet == pending = 0 /\ activeEnqueues = 0

WriterGone ==
    /\ writer = "unstarted" => Quiet /\ NoFailure /\ admitted = {}
    /\ writer \in {"tell_last", "dead"} => Quiet /\ (closing \/ failure)

PastJoin == {"drain", "dsclose", "dsjoin", "finish"}

ClosersKnow ==
    /\ \A c \in Closers :
         /\ closer[c] \in {"flush", "join"} \union PastJoin => closing
         /\ closer[c] \in PastJoin => ~WriterAlive
         /\ closer[c] \in {"join"} \union PastJoin /\ ~error[c] => Quiet /\ NoFailure
    /\ closed => closing /\ ~WriterAlive
    /\ closed /\ ~closeFailure => NoFailure

OutcomeFresh == writer = "settle" /\ failure => outcome = "failed"

FlushesOwe == \A f \in Flushers : owed[f] \subseteq admitted

IInv ==
    TypeOK /\ CountersHold /\ CallsCounted /\ ItemsHeld /\ LossesShow
    /\ WriterGone /\ ClosersKnow /\ OutcomeFresh /\ FlushesOwe

-----------------------------------------------------------------------------
(* Initially.                                                              *)

LEMMA InitHolds == Init => IInv
<1> SUFFICES ASSUME Init PROVE IInv
  OBVIOUS
<1>1. TypeOK
  <2>1. QueueType BY DEF Init, QueueType
  <2>2. CallType BY DEF Init, CallType, CallStates, Statuses
  <2>3. WriterType BY DEF Init, WriterType, WriterStates, Outcomes
  <2>4. CloseType
    <3>1. error \in [Closers -> BOOLEAN] BY DEF Init
    <3>2. closing \in BOOLEAN /\ closed \in BOOLEAN /\ closeFailure \in BOOLEAN
      BY DEF Init
    <3>3. closer \in [Closers -> CloserStates] BY DEF Init, CloserStates
    <3>4. dsThread \in {"none", "running", "ended"} BY DEF Init
    <3>5. dsStatus \in DsStatuses BY DEF Init, DsStatuses
    <3> QED BY <3>1, <3>2, <3>3, <3>4, <3>5 DEF CloseType
  <2>5. FlushType BY DEF Init, FlushType, FlushStates
  <2> QED BY <2>1, <2>2, <2>3, <2>4, <2>5 DEF TypeOK
<1>2. CountersHold
  BY SinkAssumption DEF Init, CountersHold, Held
<1>3. CallsCounted
  <2>1. Waiting = {} BY DEF Init, Waiting
  <2> QED BY <2>1, FS_EmptySet DEF Init, CallsCounted
<1>4. ItemsHeld
  BY DEF Init, ItemsHeld, InQueue, Held
<1>5. LossesShow /\ WriterGone /\ ClosersKnow
  BY DEF Init, LossesShow, WriterGone, ClosersKnow, Quiet, NoFailure, PastJoin, WriterAlive
<1>6. OutcomeFresh /\ FlushesOwe
  BY DEF Init, OutcomeFresh, FlushesOwe
<1> QED BY <1>1, <1>2, <1>3, <1>4, <1>5, <1>6 DEF IInv

-----------------------------------------------------------------------------
(* What a step does to the queue and to the depth counters.                *)

LEMMA QueueAppended ==
    ASSUME NEW s \in Sweeps, queue \in Seq(Sweeps), queue' = Append(queue, s)
    PROVE  /\ queue' \in Seq(Sweeps)
           /\ Len(queue') = Len(queue) + 1
           /\ InQueue' = InQueue \union {s}
           /\ \A i \in 1 .. Len(queue) : queue'[i] = queue[i]
           /\ queue'[Len(queue')] = s
<1>1. Len(queue) \in Nat /\ Len(queue') = Len(queue) + 1
  OBVIOUS
<1>2. \A i \in 1 .. Len(queue) : queue'[i] = queue[i]
  OBVIOUS
<1>3. queue'[Len(queue')] = s
  OBVIOUS
<1>4. InQueue' = InQueue \union {s}
  <2>1. 1 .. Len(queue') = (1 .. Len(queue)) \union {Len(queue')}
    BY <1>1
  <2> QED BY <1>2, <1>3, <2>1 DEF InQueue
<1> QED BY <1>1, <1>2, <1>3, <1>4

LEMMA QueueShortened ==
    ASSUME queue \in Seq(Sweeps), queue # <<>>, queue' = Tail(queue),
           \A i, j \in 1 .. Len(queue) : queue[i] = queue[j] => i = j
    PROVE  /\ queue' \in Seq(Sweeps)
           /\ Len(queue') = Len(queue) - 1
           /\ Head(queue) \in Sweeps
           /\ InQueue' = InQueue \ {Head(queue)}
           /\ Head(queue) \in InQueue
           /\ \A i, j \in 1 .. Len(queue') : queue'[i] = queue'[j] => i = j
<1>1. /\ Len(queue) \in Nat /\ Len(queue) > 0
      /\ queue' \in Seq(Sweeps) /\ Len(queue') = Len(queue) - 1
  OBVIOUS
<1>2. Head(queue) = queue[1] /\ queue[1] \in Sweeps
  BY <1>1
<1>3. \A i \in 1 .. Len(queue') : queue'[i] = queue[i + 1] /\ i + 1 \in 1 .. Len(queue)
  BY <1>1
<1>4. \A i \in 1 .. Len(queue) : i # 1 => i - 1 \in 1 .. Len(queue') /\ queue'[i - 1] = queue[i]
  BY <1>1
<1>5. Head(queue) \in InQueue
  BY <1>1, <1>2 DEF InQueue
<1>6. InQueue' \subseteq InQueue \ {Head(queue)}
  BY <1>1, <1>2, <1>3 DEF InQueue
<1>7. InQueue \ {Head(queue)} \subseteq InQueue'
  BY <1>1, <1>2, <1>4 DEF InQueue
<1>8. \A i, j \in 1 .. Len(queue') : queue'[i] = queue'[j] => i = j
  BY <1>1, <1>3
<1> QED BY <1>1, <1>2, <1>5, <1>6, <1>7, <1>8

LEMMA QueueEmpty ==
    ASSUME queue \in Seq(Sweeps), Len(queue) = 0
    PROVE  InQueue = {}
BY DEF InQueue

LEMMA WaitingFinite ==
    ASSUME TypeOK
    PROVE  /\ IsFiniteSet(Waiting) /\ Cardinality(Waiting) \in Nat
           /\ Cardinality(Waiting) = 0 <=> Waiting = {}
BY SinkAssumption, FS_Subset, FS_CardinalityType, FS_EmptySet DEF Waiting

-----------------------------------------------------------------------------
(* The steps, by what they leave alone.                                    *)

(* Only the store_sweep calls, the flushes, the close calls and the        *)
(* thread's callback move; the depths and the queue stay.                  *)
CloseOnly(c) ==
    \/ CloseAgain(c) \/ CloseFlush(c) \/ CloseJoined(c) \/ CloseWriterTimeout(c)
    \/ CloseDownstream(c) \/ CloseDownstreamJoined(c) \/ CloseDownstreamTimeout(c)
    \/ CloseFinish(c)

(* Next, one disjunct per case of the proofs below.                        *)
LEMMA StepCases ==
    ASSUME [Next]_vars
    PROVE  \/ Start
           \/ \E s \in Sweeps : \/ StoreRefused(s) \/ StoreFailed(s) \/ StoreWait(s)
                               \/ StoreAdmit(s) \/ WaitAdmit(s) \/ WaitGiveUp(s)
           \/ WriterTake \/ WriterIdle \/ WriterPersist \/ WriterSettle \/ WriterTell
           \/ \E f \in Flushers : Flush(f) \/ FlushCheck(f)
           \/ \E c \in Closers : CloseCall(c) \/ CloseDrain(c) \/ CloseOnly(c)
           \/ DownstreamCloseEnds
           \/ UNCHANGED vars
BY DEF Next, StoreStep, WaitStep, WriterStep, CloseStep, CloseOnly

LEMMA CountersStep == IInv /\ [Next]_vars => CountersHold'
<1> SUFFICES ASSUME IInv, [Next]_vars PROVE CountersHold'
  OBVIOUS
<1> USE SinkAssumption DEF CountersHold, Held
<1>0. /\ CountersHold /\ TypeOK /\ queue \in Seq(Sweeps) /\ Len(queue) \in Nat
      /\ queued \in Nat /\ pending \in Nat
  BY DEF IInv, TypeOK, QueueType
<1>1. CASE Start \/ WriterIdle \/ WriterPersist \/ WriterTell
  BY <1>0, <1>1 DEF Start, WriterStarted, WriterIdle, WriterPersist, WriterTell,
     queueVars
<1>2. ASSUME NEW s \in Sweeps, StoreRefused(s) \/ StoreFailed(s) \/ StoreWait(s)
      PROVE  CountersHold'
  BY <1>0, <1>2 DEF StoreRefused, StoreFailed, StoreWait, queueVars
<1>3. ASSUME NEW s \in Sweeps, StoreAdmit(s) \/ WaitAdmit(s)
      PROVE  CountersHold'
  <2>1. Enqueue(s) BY <1>3 DEF StoreAdmit, WaitAdmit
  <2>2. Len(queue') = Len(queue) + 1
    BY <2>1, <1>0, QueueAppended DEF Enqueue
  <2> QED BY <1>0, <2>1, <2>2 DEF Enqueue, NotifyAll
<1>4. ASSUME NEW s \in Sweeps, WaitGiveUp(s) PROVE CountersHold'
  BY <1>0, <1>4 DEF WaitGiveUp, NotifyAll
<1>5. CASE WriterTake
  <2>1. Len(queue') = Len(queue) - 1
    BY <1>5, <1>0, QueueShortened DEF WriterTake, IInv, ItemsHeld
  <2> QED BY <1>0, <1>5, <2>1 DEF WriterTake, NotifyAll
<1>6. CASE WriterSettle
  BY <1>0, <1>6 DEF WriterSettle, NotifyAll
<1>7. ASSUME NEW f \in Flushers, Flush(f) \/ FlushCheck(f) PROVE CountersHold'
  BY <1>0, <1>7 DEF Flush, FlushCheck, queueVars
<1>8. ASSUME NEW c \in Closers, CloseCall(c) \/ CloseOnly(c) PROVE CountersHold'
  BY <1>0, <1>8 DEF CloseCall, CloseOnly, CloseAgain, CloseFlush, CloseJoined,
     CloseWriterTimeout, CloseDownstream, CloseDownstreamJoined,
     CloseDownstreamTimeout, CloseFinish, Raise, NotifyAll, queueVars
<1>9. ASSUME NEW c \in Closers, CloseDrain(c) PROVE CountersHold'
  <2>1. Len(queue') = 0 BY <1>9 DEF CloseDrain
  <2> QED BY <1>0, <1>9, <2>1 DEF CloseDrain
<1>10. CASE DownstreamCloseEnds
  BY <1>0, <1>10 DEF DownstreamCloseEnds, NotifyAll, queueVars
<1>11. CASE UNCHANGED vars
  BY <1>0, <1>11 DEF vars, queueVars
<1> QED BY <1>1, <1>2, <1>3, <1>4, <1>5, <1>6, <1>7, <1>8, <1>9, <1>10, <1>11, StepCases

LEMMA CallsStep == IInv /\ [Next]_vars => CallsCounted'
<1> SUFFICES ASSUME IInv, [Next]_vars PROVE CallsCounted'
  OBVIOUS
<1> USE DEF CallsCounted
<1>0. /\ activeEnqueues = Cardinality(Waiting) /\ TypeOK
      /\ call \in [Sweeps -> CallStates]
      /\ IsFiniteSet(Waiting) /\ Cardinality(Waiting) \in Nat
  BY WaitingFinite DEF IInv, TypeOK, CallType
<1>1. ASSUME UNCHANGED <<call, activeEnqueues>> PROVE CallsCounted'
  BY <1>0, <1>1 DEF Waiting
<1>2. ASSUME NEW s \in Sweeps,
             StoreRefused(s) \/ StoreFailed(s) \/ StoreAdmit(s)
      PROVE  CallsCounted'
  <2>1. Waiting' = Waiting /\ activeEnqueues' = activeEnqueues
    BY <1>0, <1>2 DEF StoreRefused, StoreFailed, StoreAdmit, Open, Enqueue, Return,
       Waiting, queueVars, CallStates
  <2> QED BY <1>0, <2>1
<1>3. ASSUME NEW s \in Sweeps, StoreWait(s) PROVE CallsCounted'
  <2>1. Waiting' = Waiting \union {s} /\ s \notin Waiting
    BY <1>0, <1>3 DEF StoreWait, Open, Waiting, CallStates
  <2>2. Cardinality(Waiting') = Cardinality(Waiting) + 1
    BY <1>0, <2>1, FS_AddElement
  <2> QED BY <1>0, <1>3, <2>2 DEF StoreWait
<1>4. ASSUME NEW s \in Sweeps, WaitAdmit(s) \/ WaitGiveUp(s) PROVE CallsCounted'
  <2>1. Waiting' = Waiting \ {s} /\ s \in Waiting
    BY <1>0, <1>4 DEF WaitAdmit, WaitGiveUp, Enqueue, Return, Waiting, CallStates
  <2>2. Cardinality(Waiting') = Cardinality(Waiting) - 1
    BY <1>0, <2>1, FS_RemoveElement
  <2> QED BY <1>0, <1>4, <2>2 DEF WaitAdmit, WaitGiveUp
<1>5. CASE Start \/ WriterTake \/ WriterIdle \/ WriterPersist \/ WriterSettle \/ WriterTell
  BY <1>1, <1>5 DEF Start, WriterTake, WriterIdle, WriterPersist, WriterSettle,
     WriterTell, queueVars, callVars
<1>6. ASSUME NEW f \in Flushers, Flush(f) \/ FlushCheck(f) PROVE CallsCounted'
  BY <1>1, <1>6 DEF Flush, FlushCheck, queueVars, callVars
<1>7. ASSUME NEW c \in Closers, CloseCall(c) \/ CloseDrain(c) \/ CloseOnly(c)
      PROVE  CallsCounted'
  BY <1>1, <1>7 DEF CloseCall, CloseDrain, CloseOnly, CloseAgain, CloseFlush, CloseJoined,
     CloseWriterTimeout, CloseDownstream, CloseDownstreamJoined,
     CloseDownstreamTimeout, CloseFinish, Raise, queueVars, callVars
<1>8. CASE DownstreamCloseEnds \/ UNCHANGED vars
  BY <1>1, <1>8 DEF DownstreamCloseEnds, vars, queueVars, callVars
<1> QED BY <1>2, <1>3, <1>4, <1>5, <1>6, <1>7, <1>8, StepCases

(* An admission is of a sweep that has no receipt yet.                     *)
LEMMA EnqueueNew ==
    ASSUME IInv, NEW s \in Sweeps, StoreAdmit(s) \/ WaitAdmit(s)
    PROVE  /\ Enqueue(s) /\ receipt[s] = "none"
           /\ s \notin InQueue /\ ~(Held /\ s = current)
BY DEF IInv, ItemsHeld, StoreAdmit, WaitAdmit, Open

LEMMA ItemsStep == IInv /\ [Next]_vars => ItemsHeld'
<1> SUFFICES ASSUME IInv, [Next]_vars PROVE ItemsHeld'
  OBVIOUS
<1>0. /\ ItemsHeld /\ TypeOK /\ queue \in Seq(Sweeps)
      /\ call \in [Sweeps -> CallStates] /\ receipt \in [Sweeps -> Statuses]
      /\ current \in Sweeps
  BY DEF IInv, TypeOK, CallType, QueueType, WriterType
<1>1. ASSUME UNCHANGED <<queue, call, receipt, current>>, Held' <=> Held
      PROVE  ItemsHeld'
  BY <1>0, <1>1 DEF ItemsHeld, InQueue
<1>2. CASE Start \/ WriterIdle \/ WriterPersist \/ WriterTell
  BY <1>1, <1>2 DEF Start, WriterStarted, WriterIdle, WriterPersist, WriterTell,
     queueVars, callVars, writerVars, Held
<1>3. ASSUME NEW s \in Sweeps, StoreRefused(s) \/ StoreFailed(s) \/ StoreWait(s)
                               \/ WaitGiveUp(s)
      PROVE  ItemsHeld'
  <2>1. UNCHANGED <<queue, current>> /\ (Held' <=> Held)
    BY <1>3 DEF StoreRefused, StoreFailed, StoreWait, WaitGiveUp, queueVars,
       writerVars, NotifyAll, Held
  <2>2. call[s] # "done" /\ receipt[s] = "none"
    BY <1>0, <1>3 DEF StoreRefused, StoreFailed, StoreWait, WaitGiveUp, Open, ItemsHeld
  <2>3. \/ call' = [call EXCEPT ![s] = "waiting"] /\ receipt' = receipt
        \/ /\ call' = [call EXCEPT ![s] = "done"]
           /\ receipt' = [receipt EXCEPT ![s] = "rejected"]
              \/ receipt' = [receipt EXCEPT ![s] = "failed"]
    BY <1>3 DEF StoreRefused, StoreFailed, StoreWait, WaitGiveUp, Return
  <2> QED BY <1>0, <2>1, <2>2, <2>3 DEF ItemsHeld, InQueue
<1>4. ASSUME NEW s \in Sweeps, StoreAdmit(s) \/ WaitAdmit(s)
      PROVE  ItemsHeld'
  <2>1. /\ Enqueue(s) /\ receipt[s] = "none" /\ s \notin InQueue
        /\ ~(Held /\ s = current)
    BY <1>4, EnqueueNew
  <2>2. /\ Len(queue) \in Nat /\ Len(queue') = Len(queue) + 1
        /\ InQueue' = InQueue \union {s}
        /\ \A i \in 1 .. Len(queue) : queue'[i] = queue[i]
        /\ queue'[Len(queue')] = s
    BY <1>0, <2>1, QueueAppended DEF Enqueue
  <2>3. /\ call' = [call EXCEPT ![s] = "done"]
        /\ receipt' = [receipt EXCEPT ![s] = "accepted"]
        /\ current' = current /\ (Held' <=> Held)
    BY <2>1 DEF Enqueue, Return, writerVars, NotifyAll, Held
  <2>4. \A x \in Sweeps : call'[x] = "done" <=> receipt'[x] # "none"
    BY <1>0, <2>3 DEF ItemsHeld
  <2>5. \A x \in Sweeps : receipt'[x] = "accepted" <=>
                             (x \in InQueue' \/ (Held' /\ x = current'))
    BY <1>0, <2>2, <2>3 DEF ItemsHeld
  <2>6. \A i \in 1 .. Len(queue) : queue'[i] # s
    BY <2>1, <2>2 DEF InQueue
  <2>7. \A i, j \in 1 .. Len(queue') : queue'[i] = queue'[j] => i = j
    <3>1. \A i \in 1 .. Len(queue') : i \in 1 .. Len(queue) \/ i = Len(queue')
      BY <2>2
    <3> QED BY <1>0, <2>2, <2>6, <3>1 DEF ItemsHeld
  <2>8. Held' => current' \notin InQueue'
    BY <1>0, <2>1, <2>2, <2>3 DEF ItemsHeld
  <2> QED BY <2>4, <2>5, <2>7, <2>8 DEF ItemsHeld
<1>5. CASE WriterTake
  <2>1. /\ InQueue' = InQueue \ {Head(queue)} /\ Head(queue) \in InQueue
        /\ \A i, j \in 1 .. Len(queue') : queue'[i] = queue'[j] => i = j
    BY <1>0, <1>5, QueueShortened DEF WriterTake, ItemsHeld
  <2>2. /\ UNCHANGED <<call, receipt>> /\ current' = Head(queue)
        /\ ~Held /\ Held'
    BY <1>5 DEF WriterTake, NotifyAll, Held, callVars
  <2> QED BY <1>0, <2>1, <2>2 DEF ItemsHeld
<1>6. CASE WriterSettle
  <2>1. /\ UNCHANGED <<queue, call, current>> /\ Held /\ ~Held'
    BY <1>6 DEF WriterSettle, NotifyAll, Held
  <2>2. PICK status \in Statuses \ {"none", "accepted"} :
              receipt' = [receipt EXCEPT ![current] = status]
    BY <1>0, <1>6 DEF WriterSettle, TypeOK, WriterType, Outcomes, Statuses
  <2> QED BY <1>0, <2>1, <2>2 DEF ItemsHeld, InQueue
<1>7. ASSUME NEW f \in Flushers, Flush(f) \/ FlushCheck(f) PROVE ItemsHeld'
  BY <1>1, <1>7 DEF Flush, FlushCheck, queueVars, callVars, writerVars, Held
<1>8. ASSUME NEW c \in Closers, CloseCall(c) \/ CloseOnly(c) PROVE ItemsHeld'
  BY <1>1, <1>8 DEF CloseCall, CloseOnly, CloseAgain, CloseFlush, CloseJoined,
     CloseWriterTimeout, CloseDownstream, CloseDownstreamJoined,
     CloseDownstreamTimeout, CloseFinish, Raise, NotifyAll, queueVars, callVars,
     writerVars, Held
<1>9. ASSUME NEW c \in Closers, CloseDrain(c) PROVE ItemsHeld'
  <2>1. /\ queue' = <<>> /\ UNCHANGED <<call, current>> /\ (Held' <=> Held)
        /\ receipt' = [s \in Sweeps |-> IF s \in InQueue THEN "rejected" ELSE receipt[s]]
    BY <1>9 DEF CloseDrain, writerVars, Held, InQueue
  <2>2. InQueue' = {} /\ Len(queue') = 0
    BY <2>1 DEF InQueue
  <2> QED BY <1>0, <2>1, <2>2 DEF ItemsHeld
<1>10. CASE DownstreamCloseEnds \/ UNCHANGED vars
  BY <1>1, <1>10 DEF DownstreamCloseEnds, NotifyAll, vars, queueVars, callVars,
     writerVars, Held
<1> QED BY <1>2, <1>3, <1>4, <1>5, <1>6, <1>7, <1>8, <1>9, <1>10, StepCases

(* What a quiet sink is: nothing queued, nothing held, nobody waiting.     *)
LEMMA QuietMeans ==
    ASSUME IInv, Quiet
    PROVE  /\ queue = <<>> /\ queued = 0 /\ ~Held /\ Waiting = {}
           /\ \A s \in Sweeps : receipt[s] # "accepted"
<1>0. /\ TypeOK /\ CountersHold /\ CallsCounted /\ ItemsHeld
      /\ queue \in Seq(Sweeps) /\ queued \in Nat /\ inFlight \in Nat
  BY DEF IInv, TypeOK, QueueType
<1>1. queued = 0 /\ inFlight = 0
  BY <1>0 DEF CountersHold, Quiet
<1>2. queue = <<>> /\ ~Held
  <2>1. Len(queue) = 0 /\ ~Held BY <1>0, <1>1 DEF CountersHold
  <2>2. queue = <<>> BY <1>0, <2>1
  <2> QED BY <2>1, <2>2
<1>3. Waiting = {}
  BY <1>0, WaitingFinite DEF CallsCounted, Quiet
<1>4. InQueue = {}
  BY <1>2 DEF InQueue
<1> QED BY <1>0, <1>1, <1>2, <1>3, <1>4 DEF ItemsHeld

(* At the drain the writer has stopped or never ran, so nothing is left.   *)
LEMMA DrainFindsNothing ==
    ASSUME IInv, NEW c \in Closers, CloseDrain(c)
    PROVE  Quiet /\ closing /\ ~WriterAlive
BY DEF IInv, ClosersKnow, WriterGone, CloseDrain, PastJoin, WriterAlive

LEMMA DrainChangesNothing ==
    ASSUME IInv, NEW c \in Closers, CloseDrain(c)
    PROVE  UNCHANGED <<queueVars, receipt, call, admitted, writer, writerVars, closing, closed>>
<1>1. queue = <<>> /\ queued = 0 /\ pending = 0
  BY DrainFindsNothing, QuietMeans DEF Quiet
<1>2. receipt \in [Sweeps -> Statuses]
  BY DEF IInv, TypeOK, CallType
<1>3. UNCHANGED <<queue, queued, pending, receipt>>
  <2>1. Len(queue) = 0 BY <1>1
  <2>2. {queue[i] : i \in 1 .. Len(queue)} = {} BY <2>1
  <2>3. receipt' = [s \in Sweeps |-> receipt[s]] BY <2>2 DEF CloseDrain
  <2>4. receipt' = receipt BY <1>2, <2>3
  <2>5. queue' = <<>> /\ queued' = queued - Len(queue) /\ pending' = pending - Len(queue)
    BY DEF CloseDrain
  <2>6. queue' = queue BY <1>1, <2>5
  <2>7. queued' = queued /\ pending' = pending BY <1>1, <2>1, <2>5
  <2> QED BY <2>4, <2>6, <2>7
<1> QED BY <1>3 DEF CloseDrain, queueVars, writerVars

LEMMA LossesStep == IInv /\ [Next]_vars => LossesShow'
<1> SUFFICES ASSUME IInv, [Next]_vars, NoFailure' PROVE
        \A s \in admitted' : receipt'[s] \in {"accepted", "persisted"}
  BY DEF LossesShow
<1>0. /\ receipt \in [Sweeps -> Statuses] /\ admitted \subseteq Sweeps /\ current \in Sweeps
      /\ ItemsHeld /\ TypeOK
  BY DEF IInv, TypeOK, CallType, WriterType
<1>a. NoFailure
  <2>1. CASE WriterSettle
    BY <2>1 DEF WriterSettle, NoFailure
  <2>2. CASE ~WriterSettle
    <3>1. UNCHANGED <<failure, resultFailure>>
      BY <2>2, StepCases, DrainChangesNothing DEF Start, StoreRefused, StoreFailed,
         StoreWait, StoreAdmit, WaitAdmit, WaitGiveUp, Enqueue, WriterTake, WriterIdle,
         WriterPersist, WriterTell, Flush, FlushCheck, CloseCall, CloseOnly, CloseAgain,
         CloseFlush, CloseJoined, CloseWriterTimeout, CloseDownstream,
         CloseDownstreamJoined, CloseDownstreamTimeout, CloseFinish, Raise,
         DownstreamCloseEnds, vars, writerVars
    <3> QED BY <3>1 DEF NoFailure
  <2> QED BY <2>1, <2>2
<1>b. \A s \in admitted : receipt[s] \in {"accepted", "persisted"}
  BY <1>a DEF IInv, LossesShow
<1>1. ASSUME UNCHANGED <<admitted, receipt>>
      PROVE  \A s \in admitted' : receipt'[s] \in {"accepted", "persisted"}
  BY <1>b, <1>1
<1>2. ASSUME NEW s \in Sweeps, StoreRefused(s) \/ StoreFailed(s) \/ StoreWait(s)
                               \/ WaitGiveUp(s)
      PROVE  \A x \in admitted' : receipt'[x] \in {"accepted", "persisted"}
  <2>1. admitted' = admitted /\ s \notin admitted
    BY <1>0, <1>b, <1>2 DEF StoreRefused, StoreFailed, StoreWait, WaitGiveUp, Open, ItemsHeld
  <2>2. \A x \in Sweeps : x # s => receipt'[x] = receipt[x]
    BY <1>0, <1>2 DEF StoreRefused, StoreFailed, StoreWait, WaitGiveUp, Return
  <2> QED BY <1>0, <1>b, <2>1, <2>2
<1>3. ASSUME NEW s \in Sweeps, StoreAdmit(s) \/ WaitAdmit(s)
      PROVE  \A x \in admitted' : receipt'[x] \in {"accepted", "persisted"}
  BY <1>0, <1>b, <1>3, EnqueueNew DEF Enqueue, Return
<1>4. CASE WriterSettle
  <2>1. outcome \in Outcomes BY <1>0 DEF TypeOK, WriterType
  <2>3. outcome # "exception" /\ outcome # "rejected" /\ outcome # "failed"
    BY <1>4 DEF WriterSettle, NoFailure
  <2>2. receipt' = [receipt EXCEPT ![current] = "persisted"] /\ admitted' = admitted
    BY <1>4, <2>1, <2>3 DEF WriterSettle, Outcomes
  <2> QED BY <1>0, <1>b, <2>2
<1>5. CASE Start \/ WriterTake \/ WriterIdle \/ WriterPersist \/ WriterTell
  BY <1>1, <1>5 DEF Start, WriterTake, WriterIdle, WriterPersist, WriterTell, callVars
<1>6. ASSUME NEW f \in Flushers, Flush(f) \/ FlushCheck(f)
      PROVE  \A s \in admitted' : receipt'[s] \in {"accepted", "persisted"}
  BY <1>1, <1>6 DEF Flush, FlushCheck, callVars
<1>7. ASSUME NEW c \in Closers, CloseCall(c) \/ CloseDrain(c) \/ CloseOnly(c)
      PROVE  \A s \in admitted' : receipt'[s] \in {"accepted", "persisted"}
  BY <1>1, <1>7, DrainChangesNothing DEF CloseCall, CloseOnly, CloseAgain, CloseFlush,
     CloseJoined, CloseWriterTimeout, CloseDownstream, CloseDownstreamJoined,
     CloseDownstreamTimeout, CloseFinish, Raise, callVars
<1>8. CASE DownstreamCloseEnds \/ UNCHANGED vars
  BY <1>1, <1>8 DEF DownstreamCloseEnds, vars, callVars
<1> QED BY <1>2, <1>3, <1>4, <1>5, <1>6, <1>7, <1>8, StepCases

(* A store_sweep call that is waiting shows that the sink is not quiet.    *)
LEMMA WaitNotQuiet ==
    ASSUME IInv, NEW s \in Sweeps, call[s] = "waiting"
    PROVE  ~Quiet
BY QuietMeans DEF Waiting

LEMMA WriterGoneStep == IInv /\ [Next]_vars => WriterGone'
<1> SUFFICES ASSUME IInv, [Next]_vars PROVE WriterGone'
  OBVIOUS
<1>0. /\ WriterGone /\ CountersHold /\ TypeOK
      /\ writer \in WriterStates /\ queued \in Nat /\ pending \in Nat /\ inFlight \in Nat
  BY DEF IInv, TypeOK, WriterType, QueueType
<1>1. ASSUME UNCHANGED <<queueVars, writer, failure, resultFailure, admitted>>,
             closing => closing'
      PROVE  WriterGone'
  BY <1>0, <1>1 DEF WriterGone, Quiet, NoFailure, queueVars
<1>2. CASE Start \/ WriterTake
  BY <1>0, <1>2 DEF Start, WriterTake, NotifyAll, WriterGone
<1>3. CASE WriterIdle
  <2>1. queued = 0 /\ inFlight = 0
    BY <1>0, <1>3 DEF WriterIdle, CountersHold, Held
  <2> QED BY <1>0, <1>3, <2>1 DEF WriterIdle, MayExit, WriterGone, Quiet, queueVars,
       writerVars, closeVars
<1>4. CASE WriterPersist
  BY <1>0, <1>4 DEF WriterPersist, WriterGone
<1>5. CASE WriterSettle
  <2>1. writer' \in {"tell_last", "dead"} => MayExit(failure', pending')
    BY <1>5 DEF WriterSettle, NotifyAll
  <2>2. writer' # "unstarted" /\ closing' = closing /\ activeEnqueues' = activeEnqueues
    BY <1>5 DEF WriterSettle, NotifyAll, closeVars
  <2> QED BY <2>1, <2>2 DEF MayExit, WriterGone, Quiet
<1>6. CASE WriterTell
  BY <1>0, <1>6 DEF WriterTell, WriterGone, Quiet, queueVars, closeVars
<1>7. ASSUME NEW s \in Sweeps, StoreRefused(s) \/ StoreFailed(s) PROVE WriterGone'
  BY <1>1, <1>7 DEF StoreRefused, StoreFailed, writerVars, closeVars
<1>8. ASSUME NEW s \in Sweeps, StoreWait(s) \/ StoreAdmit(s) PROVE WriterGone'
  <2>1. writer \notin {"unstarted", "tell_last", "dead"}
    BY <1>0, <1>8 DEF StoreWait, StoreAdmit, Open, WriterStarted, WriterGone
  <2>2. writer' \notin {"unstarted", "tell_last", "dead"}
    BY <1>8, <2>1 DEF StoreWait, StoreAdmit, Enqueue, NotifyAll
  <2> QED BY <2>2 DEF WriterGone
<1>9. ASSUME NEW s \in Sweeps, WaitAdmit(s) \/ WaitGiveUp(s) PROVE WriterGone'
  <2>1. writer \notin {"unstarted", "tell_last", "dead"}
    BY <1>0, <1>9, WaitNotQuiet DEF WaitAdmit, WaitGiveUp, WriterGone
  <2>2. writer' \notin {"unstarted", "tell_last", "dead"}
    BY <1>9, <2>1 DEF WaitAdmit, WaitGiveUp, Enqueue, NotifyAll
  <2> QED BY <2>2 DEF WriterGone
<1>10. ASSUME NEW f \in Flushers, Flush(f) \/ FlushCheck(f) PROVE WriterGone'
  BY <1>1, <1>10 DEF Flush, FlushCheck, callVars, writerVars, closeVars
<1>11. ASSUME NEW c \in Closers, CloseOnly(c) PROVE WriterGone'
  BY <1>1, <1>11 DEF CloseOnly, CloseAgain, CloseFlush,
     CloseJoined, CloseWriterTimeout, CloseDownstream, CloseDownstreamJoined,
     CloseDownstreamTimeout, CloseFinish, Raise, callVars, writerVars
<1>12. ASSUME NEW c \in Closers, CloseDrain(c) PROVE WriterGone'
  BY <1>1, <1>12, DrainChangesNothing DEF writerVars
<1>13. ASSUME NEW c \in Closers, CloseCall(c) PROVE WriterGone'
  BY <1>0, <1>13 DEF CloseCall, NotifyAll, WriterGone, Quiet, NoFailure, queueVars,
     callVars, writerVars
<1>14. CASE DownstreamCloseEnds \/ UNCHANGED vars
  BY <1>0, <1>14 DEF DownstreamCloseEnds, NotifyAll, WriterGone, Quiet, NoFailure, vars,
     queueVars, callVars, writerVars, closeVars
<1> QED BY <1>2, <1>3, <1>4, <1>5, <1>6, <1>7, <1>8, <1>9, <1>10, <1>11, <1>12, <1>13,
     <1>14, StepCases

(* What a step that is no close call's owes to the close calls.            *)
LEMMA ClosersUndisturbed ==
    ASSUME IInv, UNCHANGED <<closing, closed, closeFailure, closer, error>>,
           closing /\ ~WriterAlive => ~WriterAlive' /\ (NoFailure => NoFailure'),
           closing /\ Quiet /\ NoFailure => Quiet' /\ NoFailure'
    PROVE  ClosersKnow'
BY DEF IInv, ClosersKnow

LEMMA ClosersStep == IInv /\ [Next]_vars => ClosersKnow'
<1> SUFFICES ASSUME IInv, [Next]_vars PROVE ClosersKnow'
  OBVIOUS
<1>0. /\ ClosersKnow /\ WriterGone /\ CountersHold /\ TypeOK
      /\ closer \in [Closers -> CloserStates] /\ error \in [Closers -> BOOLEAN]
      /\ pending \in Nat /\ activeEnqueues \in Nat /\ queued \in Nat /\ inFlight \in Nat
  BY DEF IInv, TypeOK, CloseType, QueueType
<1>1. CASE Start \/ WriterIdle \/ WriterPersist \/ WriterTell
  BY <1>1, ClosersUndisturbed DEF Start, WriterStarted, WriterIdle, WriterPersist,
     WriterTell, WriterAlive, Quiet, NoFailure, queueVars, writerVars, closeVars
<1>2. CASE WriterTake \/ WriterSettle
  <2>1. writer \in {"loop", "settle"} /\ UNCHANGED closeVars
    BY <1>2 DEF WriterTake, WriterSettle
  <2>2. WriterAlive BY <2>1 DEF WriterAlive
  <2>3. ~Quiet BY <1>2, QuietMeans DEF WriterTake, WriterSettle, Held
  <2> QED BY <2>1, <2>2, <2>3, ClosersUndisturbed DEF closeVars
<1>3. ASSUME NEW s \in Sweeps, StoreRefused(s) \/ StoreFailed(s) PROVE ClosersKnow'
  BY <1>3, ClosersUndisturbed DEF StoreRefused, StoreFailed, WriterAlive, Quiet,
     NoFailure, queueVars, writerVars, closeVars
<1>4. ASSUME NEW s \in Sweeps, StoreWait(s) \/ StoreAdmit(s) PROVE ClosersKnow'
  BY <1>4, ClosersUndisturbed DEF StoreWait, StoreAdmit, Open, Enqueue, closeVars
<1>5. ASSUME NEW s \in Sweeps, WaitAdmit(s) \/ WaitGiveUp(s) PROVE ClosersKnow'
  <2>1. ~Quiet BY <1>5, WaitNotQuiet DEF WaitAdmit, WaitGiveUp
  <2>2. WriterAlive' = WriterAlive /\ NoFailure' = NoFailure /\ UNCHANGED closeVars
    BY <1>5 DEF WaitAdmit, WaitGiveUp, Enqueue, NotifyAll, WriterAlive, NoFailure,
       writerVars
  <2> QED BY <2>1, <2>2, ClosersUndisturbed DEF closeVars
<1>6. ASSUME NEW f \in Flushers, Flush(f) \/ FlushCheck(f) PROVE ClosersKnow'
  BY <1>6, ClosersUndisturbed DEF Flush, FlushCheck, WriterAlive, Quiet, NoFailure,
     queueVars, writerVars, closeVars
<1>7. CASE DownstreamCloseEnds \/ UNCHANGED vars
  BY <1>7, ClosersUndisturbed DEF DownstreamCloseEnds, vars, NotifyAll, WriterAlive,
     Quiet, NoFailure, queueVars, writerVars, closeVars
<1>8. ASSUME NEW c \in Closers, CloseCall(c) PROVE ClosersKnow'
  <2>1. WriterAlive' = WriterAlive /\ UNCHANGED <<queueVars, writerVars, closed>> /\ ~closed
    BY <1>8 DEF CloseCall, NotifyAll, WriterAlive
  <2>2. \A d \in Closers : d # c => closer'[d] = closer[d] /\ error'[d] = error[d]
    BY <1>0, <1>8 DEF CloseCall, GoTo
  <2>3. closer'[c] = "flush" /\ closing'
    BY <1>0, <1>8 DEF CloseCall, GoTo
  <2> QED BY <1>0, <2>1, <2>2, <2>3 DEF ClosersKnow, PastJoin, Quiet, NoFailure,
       queueVars, writerVars
<1>9. ASSUME NEW c \in Closers, CloseDrain(c) PROVE ClosersKnow'
  <2>1. /\ UNCHANGED <<queueVars, writer, writerVars, closing, closed, error>>
        /\ closer[c] = "drain" /\ closeFailure' = (closeFailure \/ error[c])
    BY <1>9, DrainChangesNothing DEF CloseDrain
  <2>2. \A d \in Closers : d # c => closer'[d] = closer[d]
    BY <1>0, <1>9 DEF CloseDrain, GoTo
  <2>3. closer'[c] \in {"dsclose", "finish"}
    BY <1>0, <1>9 DEF CloseDrain, GoTo
  <2>4. Quiet' = Quiet /\ NoFailure' = NoFailure /\ WriterAlive' = WriterAlive
    BY <2>1 DEF Quiet, NoFailure, WriterAlive, queueVars, writerVars
  <2> QED BY <1>0, <2>1, <2>2, <2>3, <2>4 DEF ClosersKnow, PastJoin
<1>10. ASSUME NEW c \in Closers, CloseOnly(c) PROVE ClosersKnow'
  <2>1. /\ UNCHANGED <<queueVars, writer, writerVars, closing>>
        /\ \A d \in Closers : d # c => closer'[d] = closer[d] /\ error'[d] = error[d]
    BY <1>0, <1>10 DEF CloseOnly, CloseAgain, CloseFlush, CloseJoined, CloseWriterTimeout,
       CloseDownstream, CloseDownstreamJoined, CloseDownstreamTimeout, CloseFinish,
       Raise, GoTo
  <2>2. Quiet' = Quiet /\ NoFailure' = NoFailure /\ WriterAlive' = WriterAlive
    BY <2>1 DEF Quiet, NoFailure, WriterAlive, queueVars, writerVars
  <2>3. CASE CloseAgain(c) \/ CloseWriterTimeout(c) \/ CloseDownstreamTimeout(c)
    <3>1. closer'[c] \in {"returned", "raised"} /\ closed' = closed
      BY <1>0, <2>3 DEF CloseAgain, CloseWriterTimeout, CloseDownstreamTimeout, Raise, GoTo
    <3>2. ~closeFailure' => ~closeFailure
      BY <2>3 DEF CloseAgain, CloseWriterTimeout, CloseDownstreamTimeout, Raise
    <3> QED BY <1>0, <2>1, <2>2, <3>1, <3>2 DEF ClosersKnow, PastJoin
  <2>4. CASE CloseFlush(c)
    <3>1. closer[c] = "flush" /\ closer'[c] = "join" /\ UNCHANGED <<closed, closeFailure>>
      BY <1>0, <2>4 DEF CloseFlush, GoTo
    <3>2. ~error'[c] => ~Outstanding /\ NoFailure
      BY <1>0, <2>4 DEF CloseFlush, NoFailure
    <3>3. ~Outstanding => Quiet
      BY <1>0 DEF Outstanding, Quiet
    <3> QED BY <1>0, <2>1, <2>2, <3>1, <3>2, <3>3 DEF ClosersKnow, PastJoin
  <2>5. CASE CloseJoined(c) \/ CloseDownstream(c)
    <3>1. /\ closer[c] \in {"join", "dsclose"} /\ closer'[c] \in {"drain", "dsjoin"}
          /\ UNCHANGED <<closed, closeFailure, error>>
      BY <1>0, <2>5 DEF CloseJoined, CloseDownstream, GoTo
    <3>2. ~WriterAlive
      BY <1>0, <2>5 DEF CloseJoined, CloseDownstream, ClosersKnow, PastJoin
    <3> QED BY <1>0, <2>1, <2>2, <3>1, <3>2 DEF ClosersKnow, PastJoin
  <2>6. CASE CloseDownstreamJoined(c)
    <3>1. /\ closer[c] = "dsjoin" /\ closer'[c] = "finish"
          /\ UNCHANGED <<closed, closeFailure>> /\ (~error'[c] => ~error[c])
      BY <1>0, <2>6 DEF CloseDownstreamJoined, GoTo
    <3> QED BY <1>0, <2>1, <2>2, <3>1 DEF ClosersKnow, PastJoin
  <2>7. CASE CloseFinish(c)
    <3>1. /\ closer[c] = "finish" /\ closer'[c] \in {"raised", "returned"}
          /\ closed' /\ closeFailure' = error[c] /\ error' = error
      BY <1>0, <2>7 DEF CloseFinish, GoTo
    <3> QED BY <1>0, <2>1, <2>2, <3>1 DEF ClosersKnow, PastJoin
  <2> QED BY <1>10, <2>3, <2>4, <2>5, <2>6, <2>7 DEF CloseOnly
<1> QED BY <1>1, <1>2, <1>3, <1>4, <1>5, <1>6, <1>7, <1>8, <1>9, <1>10, StepCases

LEMMA OutcomeStep == IInv /\ [Next]_vars => OutcomeFresh'
<1> SUFFICES ASSUME IInv, [Next]_vars PROVE OutcomeFresh'
  OBVIOUS
<1> USE DEF OutcomeFresh
<1>0. OutcomeFresh
  BY DEF IInv
<1>1. ASSUME writer' = writer \/ writer' # "settle", UNCHANGED <<outcome, failure>>
      PROVE  OutcomeFresh'
  BY <1>0, <1>1
<1>2. CASE Start \/ WriterTake \/ WriterIdle \/ WriterTell
  BY <1>1, <1>2 DEF Start, WriterTake, WriterIdle, WriterTell, NotifyAll, writerVars
<1>3. CASE WriterPersist
  BY <1>3 DEF WriterPersist
<1>4. CASE WriterSettle
  BY <1>4 DEF WriterSettle, NotifyAll
<1>5. ASSUME NEW s \in Sweeps, \/ StoreRefused(s) \/ StoreFailed(s) \/ StoreWait(s)
                               \/ StoreAdmit(s) \/ WaitAdmit(s) \/ WaitGiveUp(s)
      PROVE  OutcomeFresh'
  BY <1>1, <1>5 DEF StoreRefused, StoreFailed, StoreWait, StoreAdmit, WaitAdmit,
     WaitGiveUp, Enqueue, NotifyAll, writerVars
<1>6. ASSUME NEW f \in Flushers, Flush(f) \/ FlushCheck(f) PROVE OutcomeFresh'
  BY <1>1, <1>6 DEF Flush, FlushCheck, writerVars
<1>7. ASSUME NEW c \in Closers, CloseCall(c) \/ CloseDrain(c) \/ CloseOnly(c)
      PROVE  OutcomeFresh'
  BY <1>1, <1>7 DEF CloseCall, CloseDrain, CloseOnly, CloseAgain, CloseFlush, CloseJoined, CloseWriterTimeout,
     CloseDownstream, CloseDownstreamJoined, CloseDownstreamTimeout, CloseFinish, Raise, NotifyAll, writerVars
<1>8. CASE DownstreamCloseEnds \/ UNCHANGED vars
  BY <1>1, <1>8 DEF DownstreamCloseEnds, vars, NotifyAll, writerVars
<1> QED BY <1>2, <1>3, <1>4, <1>5, <1>6, <1>7, <1>8, StepCases

(* A receipt that is settled stays as it is; admitted only grows.          *)
LEMMA SettledStays ==
    ASSUME IInv, [Next]_vars
    PROVE  /\ \A s \in Sweeps : receipt[s] \in Settled => receipt'[s] = receipt[s]
           /\ admitted \subseteq admitted'
<1>0. /\ ItemsHeld /\ receipt \in [Sweeps -> Statuses] /\ call \in [Sweeps -> CallStates]
      /\ current \in Sweeps
  BY DEF IInv, TypeOK, CallType, WriterType
<1> DEFINE Stays == /\ \A s \in Sweeps : receipt[s] \in Settled => receipt'[s] = receipt[s]
                    /\ admitted \subseteq admitted'
<1> SUFFICES Stays
  OBVIOUS
<1>1. CASE WriterSettle
  <2>1. receipt[current] = "accepted"
    BY <1>0, <1>1 DEF WriterSettle, ItemsHeld, Held
  <2>2. \A s \in Sweeps : s # current => receipt'[s] = receipt[s]
    BY <1>0, <1>1 DEF WriterSettle
  <2>3. admitted' = admitted BY <1>1 DEF WriterSettle
  <2> QED BY <2>1, <2>2, <2>3 DEF Settled
<1>2. CASE Start \/ WriterTake \/ WriterIdle \/ WriterPersist \/ WriterTell
  BY <1>2 DEF Start, WriterTake, WriterIdle, WriterPersist, WriterTell, callVars
<1>3. ASSUME NEW s \in Sweeps, \/ StoreRefused(s) \/ StoreFailed(s) \/ StoreWait(s)
                               \/ StoreAdmit(s) \/ WaitAdmit(s) \/ WaitGiveUp(s)
      PROVE  Stays
  <2>1. receipt[s] = "none"
    BY <1>0, <1>3 DEF StoreRefused, StoreFailed, StoreWait, StoreAdmit, WaitAdmit,
       WaitGiveUp, Open, ItemsHeld
  <2>2. \A x \in Sweeps : x # s => receipt'[x] = receipt[x]
    BY <1>0, <1>3 DEF StoreRefused, StoreFailed, StoreWait, StoreAdmit, WaitAdmit,
       WaitGiveUp, Enqueue, Return
  <2>3. admitted \subseteq admitted'
    BY <1>3 DEF StoreRefused, StoreFailed, StoreWait, StoreAdmit, WaitAdmit,
       WaitGiveUp, Enqueue
  <2> QED BY <2>1, <2>2, <2>3 DEF Settled
<1>4. ASSUME NEW f \in Flushers, Flush(f) \/ FlushCheck(f) PROVE Stays
  BY <1>4 DEF Flush, FlushCheck, callVars
<1>5. ASSUME NEW c \in Closers, CloseCall(c) \/ CloseDrain(c) \/ CloseOnly(c) PROVE Stays
  BY <1>5, DrainChangesNothing DEF CloseCall, CloseOnly, CloseAgain, CloseFlush, CloseJoined, CloseWriterTimeout,
     CloseDownstream, CloseDownstreamJoined, CloseDownstreamTimeout, CloseFinish, Raise, callVars
<1>6. CASE DownstreamCloseEnds \/ UNCHANGED vars
  BY <1>6 DEF DownstreamCloseEnds, vars, callVars
<1> QED BY <1>1, <1>2, <1>3, <1>4, <1>5, <1>6, StepCases

LEMMA FlushesStep == IInv /\ [Next]_vars => FlushesOwe'
<1> SUFFICES ASSUME IInv, [Next]_vars, NEW f \in Flushers PROVE owed'[f] \subseteq admitted'
  BY DEF FlushesOwe
<1>1. owed[f] \subseteq admitted /\ admitted \subseteq admitted'
  BY SettledStays DEF IInv, FlushesOwe
<1>2. owed \in [Flushers -> SUBSET Sweeps]
  BY DEF IInv, TypeOK, FlushType
<1>3. CASE \E g \in Flushers : Flush(g)
  BY <1>1, <1>2, <1>3 DEF Flush
<1>4. CASE ~\E g \in Flushers : Flush(g)
  <2>1. owed' = owed
    BY <1>4, StepCases DEF Start, StoreRefused, StoreFailed, StoreWait, StoreAdmit,
     WaitAdmit, WaitGiveUp, Enqueue, WriterTake, WriterIdle, WriterPersist, WriterSettle,
     WriterTell, FlushCheck, CloseCall, CloseDrain, CloseOnly, CloseAgain, CloseFlush, CloseJoined, CloseWriterTimeout,
     CloseDownstream, CloseDownstreamJoined, CloseDownstreamTimeout, CloseFinish, Raise,
     DownstreamCloseEnds, vars
  <2> QED BY <1>1, <2>1
<1> QED BY <1>3, <1>4

-----------------------------------------------------------------------------
(* Type correctness of a step, by groups of variables.                     *)

LEMMA QueueTypeStep == IInv /\ [Next]_vars => QueueType'
<1> SUFFICES ASSUME IInv, [Next]_vars PROVE QueueType'
  OBVIOUS
<1>1. CountersHold' /\ CallsCounted' /\ ItemsHeld'
  BY CountersStep, CallsStep, ItemsStep
<1>2. /\ QueueType /\ CallType /\ TypeOK /\ call \in [Sweeps -> CallStates]
      /\ queue \in Seq(Sweeps)
  BY DEF IInv, TypeOK, QueueType, CallType
<1>3. queue' \in Seq(Sweeps)
  <2>1. CASE WriterTake
    BY <1>2, <2>1, QueueShortened DEF WriterTake, IInv, ItemsHeld
  <2>2. ASSUME NEW s \in Sweeps, StoreAdmit(s) \/ WaitAdmit(s) PROVE queue' \in Seq(Sweeps)
    BY <1>2, <2>2, QueueAppended DEF StoreAdmit, WaitAdmit, Enqueue
  <2>3. ASSUME NEW c \in Closers, CloseDrain(c) PROVE queue' \in Seq(Sweeps)
    BY <1>2, <2>3, DrainChangesNothing DEF queueVars
  <2>4. CASE queue' = queue
    BY <1>2, <2>4
  <2>5. \/ WriterTake \/ queue' = queue
        \/ \E s \in Sweeps : StoreAdmit(s) \/ WaitAdmit(s)
        \/ \E c \in Closers : CloseDrain(c)
    BY StepCases DEF Start, StoreRefused, StoreFailed, StoreWait,
     WaitGiveUp, WriterIdle, WriterPersist, WriterSettle, WriterTell,
     Flush, FlushCheck, CloseCall, CloseOnly, CloseAgain, CloseFlush, CloseJoined, CloseWriterTimeout,
     CloseDownstream, CloseDownstreamJoined, CloseDownstreamTimeout, CloseFinish, Raise,
     DownstreamCloseEnds, vars, queueVars
  <2> QED BY <2>1, <2>2, <2>3, <2>4, <2>5
<1>4. Len(queue') \in Nat
  BY <1>3
<1>5. queued' \in Nat /\ inFlight' \in 0 .. 1 /\ pending' \in Nat
  BY <1>1, <1>4 DEF CountersHold
<1>6. Cardinality(Waiting') \in Nat
  BY SinkAssumption, FS_Subset, FS_CardinalityType DEF Waiting
<1> QED BY <1>1, <1>3, <1>5, <1>6 DEF QueueType, CallsCounted

LEMMA CallTypeStep == IInv /\ [Next]_vars => CallType'
<1> SUFFICES ASSUME IInv, [Next]_vars PROVE CallType'
  OBVIOUS
<1>0. CallType /\ WriterType /\ queue \in Seq(Sweeps) /\ Len(queue) \in Nat
  BY DEF IInv, TypeOK, QueueType
<1>1. ASSUME UNCHANGED callVars PROVE CallType'
  BY <1>0, <1>1 DEF CallType, callVars
<1>2. ASSUME NEW s \in Sweeps, StoreRefused(s) \/ StoreFailed(s) \/ WaitGiveUp(s)
      PROVE  CallType'
  BY <1>0, <1>2 DEF StoreRefused, StoreFailed, WaitGiveUp, Return, Bump, CallType,
     CallStates, Statuses, Counters
<1>3. ASSUME NEW s \in Sweeps, StoreAdmit(s) \/ WaitAdmit(s) PROVE CallType'
  <2>1. Enqueue(s) BY <1>3 DEF StoreAdmit, WaitAdmit
  <2>2. admitted' \in SUBSET Sweeps BY <1>0, <2>1 DEF Enqueue, CallType
  <2>3. /\ call' \in [Sweeps -> CallStates] /\ receipt' \in [Sweeps -> Statuses]
        /\ count' \in [Counters -> Nat]
    BY <1>0, <2>1 DEF Enqueue, Return, Bump, CallType, CallStates, Statuses, Counters
  <2> QED BY <2>2, <2>3 DEF CallType
<1>4. ASSUME NEW s \in Sweeps, StoreWait(s) PROVE CallType'
  BY <1>0, <1>4 DEF StoreWait, CallType, CallStates
<1>5. CASE WriterSettle
  BY <1>0, <1>5 DEF WriterSettle, Bump, CallType, WriterType, Statuses, Outcomes, Counters
<1>6. ASSUME NEW c \in Closers, CloseDrain(c) PROVE CallType'
  <2>1. UNCHANGED <<call, receipt, admitted>>
    BY <1>6, DrainChangesNothing
  <2>2. count' \in [Counters -> Nat]
    BY <1>0, <1>6 DEF CloseDrain, CallType, Counters
  <2> QED BY <1>0, <2>1, <2>2 DEF CallType
<1>7. ASSUME NEW c \in Closers, CloseCall(c) \/ CloseOnly(c) PROVE CallType'
  BY <1>1, <1>7 DEF CloseCall, CloseOnly, CloseAgain, CloseFlush, CloseJoined, CloseWriterTimeout,
     CloseDownstream, CloseDownstreamJoined, CloseDownstreamTimeout, CloseFinish, Raise
<1>8. CASE \/ Start \/ WriterTake \/ WriterIdle \/ WriterPersist \/ WriterTell
           \/ DownstreamCloseEnds \/ UNCHANGED vars
           \/ \E f \in Flushers : Flush(f) \/ FlushCheck(f)
  BY <1>1, <1>8 DEF Start, WriterTake, WriterIdle, WriterPersist, WriterTell,
     DownstreamCloseEnds, vars, Flush, FlushCheck
<1> QED BY <1>2, <1>3, <1>4, <1>5, <1>6, <1>7, <1>8, StepCases

LEMMA NotifyType ==
    ASSUME TypeOK, NEW w \in WriterStates, NotifyAll(w)
    PROVE  writer' \in WriterStates /\ flusher' \in [Flushers -> FlushStates]
BY DEF TypeOK, FlushType, NotifyAll, WriterStates, FlushStates

LEMMA WriterTypeStep == IInv /\ [Next]_vars => WriterType'
<1> SUFFICES ASSUME IInv, [Next]_vars PROVE WriterType'
  OBVIOUS
<1>0. WriterType /\ TypeOK /\ queue \in Seq(Sweeps) /\ writer \in WriterStates
  BY DEF IInv, TypeOK, QueueType, WriterType
<1>1. ASSUME UNCHANGED writerVars, writer' \in WriterStates PROVE WriterType'
  BY <1>0, <1>1 DEF WriterType, writerVars
<1>2. CASE Start \/ WriterIdle
  BY <1>1, <1>2 DEF Start, WriterIdle, WriterStates
<1>3. CASE WriterTake
  <2>1. current' \in Sweeps /\ writer' = "persist"
    BY <1>0, <1>3 DEF WriterTake, NotifyAll
  <2> QED BY <1>0, <1>3, <2>1 DEF WriterTake, WriterType, WriterStates
<1>4. CASE WriterPersist
  <2>1. outcome' \in Outcomes /\ writer' = "settle"
    BY <1>0, <1>4 DEF WriterPersist, WriterType, Outcomes
  <2> QED BY <1>0, <1>4, <2>1 DEF WriterPersist, WriterType, WriterStates
<1>5. CASE WriterSettle
  <2>1. failure' \in BOOLEAN /\ resultFailure' \in BOOLEAN
    BY <1>5 DEF WriterSettle
  <2>2. writer' \in WriterStates
    BY <1>5 DEF WriterSettle, NotifyAll, WriterStates
  <2> QED BY <1>0, <1>5, <2>1, <2>2 DEF WriterSettle, WriterType
<1>6. CASE WriterTell
  BY <1>0, <1>6 DEF WriterTell, WriterType, WriterStates
<1>7. ASSUME NEW s \in Sweeps, \/ StoreRefused(s) \/ StoreFailed(s) \/ StoreWait(s)
                               \/ StoreAdmit(s) \/ WaitAdmit(s) \/ WaitGiveUp(s)
      PROVE  WriterType'
  BY <1>0, <1>1, <1>7, NotifyType DEF StoreRefused, StoreFailed, StoreWait, StoreAdmit,
     WaitAdmit, WaitGiveUp, Enqueue
<1>8. ASSUME NEW c \in Closers, CloseCall(c) \/ CloseDrain(c) \/ CloseOnly(c) PROVE WriterType'
  BY <1>0, <1>1, <1>8, NotifyType DEF CloseCall, CloseDrain, CloseOnly, CloseAgain, CloseFlush, CloseJoined, CloseWriterTimeout,
     CloseDownstream, CloseDownstreamJoined, CloseDownstreamTimeout, CloseFinish, Raise
<1>9. CASE \/ DownstreamCloseEnds \/ UNCHANGED vars
           \/ \E f \in Flushers : Flush(f) \/ FlushCheck(f)
  BY <1>0, <1>1, <1>9, NotifyType DEF DownstreamCloseEnds, vars, Flush, FlushCheck
<1> QED BY <1>2, <1>3, <1>4, <1>5, <1>6, <1>7, <1>8, <1>9, StepCases

LEMMA CloseTypeStep == IInv /\ [Next]_vars => CloseType'
<1> SUFFICES ASSUME IInv, [Next]_vars PROVE CloseType'
  OBVIOUS
<1>0. /\ CloseType /\ error \in [Closers -> BOOLEAN] /\ failure \in BOOLEAN
      /\ closer \in [Closers -> CloserStates]
  BY DEF IInv, TypeOK, CloseType, WriterType
<1>1. ASSUME UNCHANGED closeVars PROVE CloseType'
  BY <1>0, <1>1 DEF CloseType, closeVars
<1>2. ASSUME NEW c \in Closers, CloseCall(c) \/ CloseDrain(c) \/ CloseOnly(c)
      PROVE  CloseType'
  <2>1. closer' \in [Closers -> CloserStates]
    BY <1>0, <1>2 DEF CloseCall, CloseDrain, CloseOnly, CloseAgain, CloseFlush, CloseJoined, CloseWriterTimeout,
     CloseDownstream, CloseDownstreamJoined, CloseDownstreamTimeout, CloseFinish, Raise, GoTo, CloserStates
  <2>2. error' \in [Closers -> BOOLEAN]
    BY <1>0, <1>2 DEF CloseCall, CloseDrain, CloseOnly, CloseAgain, CloseFlush, CloseJoined, CloseWriterTimeout,
     CloseDownstream, CloseDownstreamJoined, CloseDownstreamTimeout, CloseFinish, Raise
  <2>3. closing' \in BOOLEAN /\ closed' \in BOOLEAN
    BY <1>0, <1>2 DEF CloseCall, CloseDrain, CloseOnly, CloseAgain, CloseFlush, CloseJoined, CloseWriterTimeout,
     CloseDownstream, CloseDownstreamJoined, CloseDownstreamTimeout, CloseFinish, Raise, CloseType
  <2>4. closeFailure' \in BOOLEAN
    BY <1>0, <1>2 DEF CloseCall, CloseDrain, CloseOnly, CloseAgain, CloseFlush, CloseJoined, CloseWriterTimeout,
     CloseDownstream, CloseDownstreamJoined, CloseDownstreamTimeout, CloseFinish, Raise, CloseType
  <2>5. dsThread' \in {"none", "running", "ended"} /\ dsStatus' \in DsStatuses
    BY <1>0, <1>2 DEF CloseCall, CloseDrain, CloseOnly, CloseAgain, CloseFlush, CloseJoined, CloseWriterTimeout,
     CloseDownstream, CloseDownstreamJoined, CloseDownstreamTimeout, CloseFinish, Raise, CloseType, DsStatuses
  <2> QED BY <2>1, <2>2, <2>3, <2>4, <2>5 DEF CloseType
<1>3. CASE DownstreamCloseEnds
  BY <1>0, <1>3 DEF DownstreamCloseEnds, CloseType, DsStatuses
<1>4. ASSUME NEW s \in Sweeps, \/ StoreRefused(s) \/ StoreFailed(s) \/ StoreWait(s)
                               \/ StoreAdmit(s) \/ WaitAdmit(s) \/ WaitGiveUp(s)
      PROVE  CloseType'
  BY <1>1, <1>4 DEF StoreRefused, StoreFailed, StoreWait, StoreAdmit, WaitAdmit,
     WaitGiveUp, Enqueue
<1>5. CASE \/ Start \/ WriterTake \/ WriterIdle \/ WriterPersist \/ WriterSettle
           \/ WriterTell \/ UNCHANGED vars
           \/ \E f \in Flushers : Flush(f) \/ FlushCheck(f)
  BY <1>1, <1>5 DEF Start, WriterTake, WriterIdle, WriterPersist, WriterSettle,
     WriterTell, vars, Flush, FlushCheck
<1> QED BY <1>2, <1>3, <1>4, <1>5, StepCases

LEMMA FlushTypeStep == IInv /\ [Next]_vars => FlushType'
<1> SUFFICES ASSUME IInv, [Next]_vars PROVE FlushType'
  OBVIOUS
<1>0. /\ FlushType /\ TypeOK /\ admitted \in SUBSET Sweeps /\ writer \in WriterStates
      /\ owed \in [Flushers -> SUBSET Sweeps] /\ flusher \in [Flushers -> FlushStates]
  BY DEF IInv, TypeOK, CallType, WriterType, FlushType
<1>1. ASSUME UNCHANGED owed,
             flusher' \in [Flushers -> FlushStates]
      PROVE  FlushType'
  BY <1>0, <1>1 DEF FlushType
<1>2. ASSUME NEW f \in Flushers, Flush(f) \/ FlushCheck(f) PROVE FlushType'
  BY <1>0, <1>2 DEF Flush, FlushCheck, FlushType, FlushStates
<1>3. CASE WriterTake \/ WriterSettle
  <2>1. \E w \in WriterStates : NotifyAll(w)
    BY <1>3 DEF WriterTake, WriterSettle, WriterStates
  <2> QED BY <1>0, <1>1, <1>3, <2>1, NotifyType DEF WriterTake, WriterSettle
<1>4. ASSUME NEW s \in Sweeps, \/ StoreRefused(s) \/ StoreFailed(s) \/ StoreWait(s)
                               \/ StoreAdmit(s) \/ WaitAdmit(s) \/ WaitGiveUp(s)
      PROVE  FlushType'
  BY <1>0, <1>1, <1>4, NotifyType DEF StoreRefused, StoreFailed, StoreWait, StoreAdmit,
     WaitAdmit, WaitGiveUp, Enqueue
<1>5. ASSUME NEW c \in Closers, CloseCall(c) \/ CloseDrain(c) \/ CloseOnly(c)
      PROVE  FlushType'
  BY <1>0, <1>1, <1>5, NotifyType DEF CloseCall, CloseDrain, CloseOnly, CloseAgain, CloseFlush, CloseJoined, CloseWriterTimeout,
     CloseDownstream, CloseDownstreamJoined, CloseDownstreamTimeout, CloseFinish, Raise
<1>6. CASE \/ Start \/ WriterIdle \/ WriterPersist \/ WriterTell \/ DownstreamCloseEnds
           \/ UNCHANGED vars
  BY <1>0, <1>1, <1>6, NotifyType DEF Start, WriterIdle, WriterPersist, WriterTell,
     DownstreamCloseEnds, vars
<1> QED BY <1>2, <1>3, <1>4, <1>5, <1>6, StepCases

-----------------------------------------------------------------------------
(* The theorems.                                                           *)

(* The invariant is inductive, whatever the constants.                     *)
THEOREM Inductive == Spec => []IInv
<1>1. IInv /\ [Next]_vars => IInv'
  BY CountersStep, CallsStep, ItemsStep, LossesStep, WriterGoneStep, ClosersStep,
     OutcomeStep, FlushesStep, QueueTypeStep, CallTypeStep, WriterTypeStep,
     CloseTypeStep, FlushTypeStep DEF IInv, TypeOK
<1> QED BY InitHolds, <1>1, PTL DEF Spec

(* Every variable keeps its type; no depth counter goes below zero.        *)
THEOREM TypeCorrect == Spec => []TypeOK
<1>1. IInv => TypeOK BY DEF IInv
<1> QED BY Inductive, <1>1, PTL

(* A writer that stopped left no accepted sweep and no waiting call.       *)
THEOREM WriterAbandonsNothing == Spec => []NoneAbandoned
<1>1. IInv => NoneAbandoned
  <2> SUFFICES ASSUME IInv, writer = "dead" PROVE With("accepted") = {} /\ Waiting = {}
    BY DEF NoneAbandoned
  <2>1. Quiet BY DEF IInv, WriterGone
  <2> QED BY <2>1, QuietMeans DEF With
<1> QED BY Inductive, <1>1, PTL

(* A shutdown reported complete has persisted every accepted sweep.        *)
THEOREM CleanShutdownLosesNothing == Spec => []CleanShutdownDurable
<1>1. IInv => CleanShutdownDurable
  <2> SUFFICES ASSUME IInv, ShutdownComplete PROVE admitted \subseteq With("persisted")
    BY DEF CleanShutdownDurable
  <2>1. NoFailure /\ ~WriterAlive /\ closed
    BY DEF IInv, ClosersKnow, ShutdownComplete
  <2>2. Quiet
    BY <2>1 DEF IInv, WriterGone, WriterAlive
  <2>3. \A s \in admitted : s \in Sweeps /\ receipt[s] \in {"accepted", "persisted"}
    BY <2>1 DEF IInv, LossesShow, TypeOK, CallType
  <2> QED BY <2>2, <2>3, QuietMeans DEF With
<1> QED BY Inductive, <1>1, PTL

(* flush returns only when all that was accepted before it is persisted.   *)
THEOREM FlushReturnsCovered == Spec => []FlushCovers
<1>1. Init => FlushCovers
  BY DEF Init, FlushCovers
<1>2. IInv /\ FlushCovers /\ [Next]_vars => FlushCovers'
  <2> SUFFICES ASSUME IInv, FlushCovers, [Next]_vars,
                      NEW f \in Flushers, flusher'[f] = "returned"
               PROVE  owed'[f] \subseteq With("persisted")'
    BY DEF FlushCovers
  <2>0. /\ flusher \in [Flushers -> FlushStates] /\ owed[f] \subseteq admitted
        /\ admitted \subseteq Sweeps /\ owed \in [Flushers -> SUBSET Sweeps]
    BY DEF IInv, TypeOK, FlushType, FlushesOwe, CallType
  <2>1. With("persisted") \subseteq With("persisted")'
    BY SettledStays DEF With, Settled
  <2>2. CASE flusher[f] = "returned" /\ owed'[f] = owed[f]
    BY <2>1, <2>2 DEF FlushCovers
  <2>3. CASE FlushCheck(f)
    <3>1. ~Outstanding /\ NoFailure /\ owed' = owed
      BY <2>0, <2>3 DEF FlushCheck, NoFailure
    <3>2. Quiet
      BY <3>1 DEF Outstanding, Quiet, IInv, TypeOK, QueueType
    <3>3. \A s \in admitted : receipt[s] = "persisted"
      BY <3>1, <3>2, <2>0, QuietMeans DEF IInv, LossesShow
    <3> QED BY <2>0, <2>1, <3>1, <3>3 DEF With
  <2>4. \/ FlushCheck(f) \/ (flusher[f] = "returned" /\ owed'[f] = owed[f])
    BY <2>0, StepCases DEF Start, StoreRefused, StoreFailed, StoreWait, StoreAdmit,
     WaitAdmit, WaitGiveUp, Enqueue, WriterTake, WriterIdle, WriterPersist, WriterSettle,
     WriterTell, Flush, FlushCheck, CloseCall, CloseDrain, CloseOnly, CloseAgain, CloseFlush, CloseJoined, CloseWriterTimeout,
     CloseDownstream, CloseDownstreamJoined, CloseDownstreamTimeout, CloseFinish, Raise,
     DownstreamCloseEnds, vars, NotifyAll
  <2> QED BY <2>2, <2>3, <2>4
<1> QED BY Inductive, <1>1, <1>2, PTL DEF Spec

(* The sink implements SinkContract: one settlement per receipt, and none  *)
(* to persisted after the store broke.                                     *)
THEOREM Refinement == Spec => ImplementsContract
<1>1. Init => Contract!Init
  BY DEF Init, Contract!Init
<1>2. IInv /\ [Next]_vars => [Contract!Next]_(Contract!vars)
  <2> SUFFICES ASSUME IInv, [Next]_vars PROVE [Contract!Next]_(Contract!vars)
    OBVIOUS
  <2> USE DEF Contract!Next, Contract!vars, Contract!Become
  <2>0. /\ ItemsHeld /\ OutcomeFresh /\ TypeOK /\ current \in Sweeps
        /\ failure \in BOOLEAN /\ outcome \in Outcomes
    BY DEF IInv, TypeOK, WriterType
  <2>1. ASSUME UNCHANGED <<receipt, failure>> PROVE [Contract!Next]_(Contract!vars)
    BY <2>1
  <2>2. ASSUME NEW s \in Sweeps, StoreRefused(s) \/ StoreFailed(s) \/ WaitGiveUp(s)
        PROVE  Contract!Next
    <3>1. receipt[s] = "none"
      BY <2>0, <2>2 DEF StoreRefused, StoreFailed, WaitGiveUp, Open, ItemsHeld
    <3>2. Contract!Refuse(s)
      BY <2>2, <3>1 DEF StoreRefused, StoreFailed, WaitGiveUp, Return, writerVars,
         Contract!Refuse
    <3> QED BY <3>2
  <2>3. ASSUME NEW s \in Sweeps, StoreAdmit(s) \/ WaitAdmit(s) PROVE Contract!Next
    <3>1. Enqueue(s) /\ receipt[s] = "none" BY <2>3, EnqueueNew
    <3>2. Contract!Accept(s) BY <3>1 DEF Enqueue, Return, writerVars, Contract!Accept
    <3> QED BY <3>2
  <2>4. CASE WriterSettle
    <3>1. receipt[current] = "accepted"
      BY <2>0, <2>4 DEF WriterSettle, ItemsHeld, Held
    <3>2. CASE outcome = "persisted"
      <4>1. ~failure /\ ~failure' /\ receipt' = [receipt EXCEPT ![current] = "persisted"]
        BY <2>0, <2>4, <3>2 DEF WriterSettle, OutcomeFresh
      <4>2. failure' \in BOOLEAN BY <2>4 DEF WriterSettle
      <4>3. failure' = failure BY <2>0, <4>1, <4>2
      <4>4. Contract!Persist(current) BY <2>0, <3>1, <4>1, <4>3 DEF Contract!Persist
      <4> QED BY <2>0, <4>4
    <3>3. CASE outcome # "persisted"
      <4>1. \/ receipt' = [receipt EXCEPT ![current] = "rejected"]
            \/ receipt' = [receipt EXCEPT ![current] = "failed"]
        BY <2>0, <2>4, <3>3 DEF WriterSettle, Outcomes
      <4>2. failure' \in {failure, TRUE}
        BY <2>0, <2>4 DEF WriterSettle
      <4>3. Contract!Lose(current) BY <3>1, <4>1, <4>2 DEF Contract!Lose
      <4> QED BY <2>0, <4>3
    <3> QED BY <3>2, <3>3
  <2>5. \/ UNCHANGED <<receipt, failure>> \/ WriterSettle
        \/ \E s \in Sweeps : \/ StoreRefused(s) \/ StoreFailed(s) \/ WaitGiveUp(s)
                            \/ StoreAdmit(s) \/ WaitAdmit(s)
    BY StepCases, DrainChangesNothing DEF Start, StoreWait, WriterTake, WriterIdle,
     WriterPersist, WriterTell, Flush, FlushCheck, CloseCall, CloseOnly, CloseAgain, CloseFlush, CloseJoined, CloseWriterTimeout,
     CloseDownstream, CloseDownstreamJoined, CloseDownstreamTimeout, CloseFinish, Raise,
     DownstreamCloseEnds, vars, callVars, writerVars
  <2> QED BY <2>1, <2>2, <2>3, <2>4, <2>5
<1> QED BY Inductive, <1>1, <1>2, PTL DEF Spec, ImplementsContract, Contract!Spec

-----------------------------------------------------------------------------
(* The totals.  A receipt leaves one status for another and the counters   *)
(* follow it, but for the sweeps a store rejected, which count as failed.  *)

Size(status) == Cardinality(With(status))

TotalsHold ==
    /\ pending = Size("accepted")
    /\ count["accepted"] = Cardinality(admitted)
    /\ count["persisted"] = Size("persisted")
    /\ count["rejected"] + count["failed"] = Size("rejected") + Size("failed")

AdmittedTold == \A s \in admitted : receipt[s] # "none"

\* The receipts of a status, and the admitted sweeps, can be counted.
LEMMA SizeNat ==
    ASSUME TypeOK
    PROVE  /\ \A status : IsFiniteSet(With(status)) /\ Size(status) \in Nat
           /\ IsFiniteSet(admitted) /\ Cardinality(admitted) \in Nat
<1>1. ASSUME NEW status PROVE IsFiniteSet(With(status)) /\ Size(status) \in Nat
  BY SinkAssumption, FS_Subset, FS_CardinalityType DEF With, Size
<1>2. admitted \in SUBSET Sweeps
  BY DEF TypeOK, CallType
<1> QED BY <1>1, <1>2, SinkAssumption, FS_Subset, FS_CardinalityType

\* One receipt that changes moves one sweep from one status to the other.
LEMMA ReceiptMoves ==
    ASSUME TypeOK, NEW s \in Sweeps, NEW old \in Statuses, NEW new \in Statuses \ {old},
           receipt[s] = old, receipt' = [receipt EXCEPT ![s] = new]
    PROVE  /\ Size(new)' = Size(new) + 1
           /\ Size(old)' = Size(old) - 1
           /\ \A status \in Statuses \ {old, new} : Size(status)' = Size(status)
<1>1. receipt \in [Sweeps -> Statuses]
  BY DEF TypeOK, CallType
<1>2. With(new)' = With(new) \union {s} /\ s \notin With(new)
  BY <1>1 DEF With
<1>3. With(old)' = With(old) \ {s} /\ s \in With(old)
  BY <1>1 DEF With
<1>4. ASSUME NEW status \in Statuses \ {old, new} PROVE With(status)' = With(status)
  BY <1>1 DEF With
<1>5. Cardinality(With(new)') = Cardinality(With(new)) + 1
  BY <1>2, SizeNat, FS_AddElement
<1>6. Cardinality(With(old)') = Cardinality(With(old)) - 1
  BY <1>3, SizeNat, FS_RemoveElement
<1> QED BY <1>4, <1>5, <1>6 DEF Size

\* A sweep that was ever admitted has a receipt, so an admission is of a new one.
LEMMA AdmittedToldStep == IInv /\ AdmittedTold /\ [Next]_vars => AdmittedTold'
<1> SUFFICES ASSUME IInv, AdmittedTold, [Next]_vars PROVE AdmittedTold'
  OBVIOUS
<1> USE DEF AdmittedTold
<1>0. /\ receipt \in [Sweeps -> Statuses] /\ admitted \subseteq Sweeps
      /\ current \in Sweeps
  BY DEF IInv, TypeOK, CallType, WriterType
<1>1. ASSUME UNCHANGED <<receipt, admitted>> PROVE AdmittedTold'
  BY <1>1
<1>2. ASSUME NEW s \in Sweeps, StoreRefused(s) \/ StoreFailed(s) \/ WaitGiveUp(s)
      PROVE  AdmittedTold'
  BY <1>0, <1>2 DEF StoreRefused, StoreFailed, WaitGiveUp, Return
<1>3. ASSUME NEW s \in Sweeps, StoreAdmit(s) \/ WaitAdmit(s) PROVE AdmittedTold'
  BY <1>0, <1>3 DEF StoreAdmit, WaitAdmit, Enqueue, Return
<1>4. CASE WriterSettle
  <2>1. outcome \in Outcomes
    BY DEF IInv, TypeOK, WriterType
  <2>2. PICK new \in {"persisted", "rejected", "failed"} :
           receipt' = [receipt EXCEPT ![current] = new]
    BY <1>4, <2>1 DEF WriterSettle, Outcomes
  <2>3. admitted' = admitted
    BY <1>4 DEF WriterSettle
  <2> QED BY <1>0, <2>2, <2>3
<1>5. \/ UNCHANGED <<receipt, admitted>> \/ WriterSettle
      \/ \E s \in Sweeps : \/ StoreRefused(s) \/ StoreFailed(s) \/ WaitGiveUp(s)
                          \/ StoreAdmit(s) \/ WaitAdmit(s)
  BY StepCases, DrainChangesNothing DEF Start, StoreWait, WriterTake, WriterIdle,
     WriterPersist, WriterTell, Flush, FlushCheck, CloseCall, CloseOnly, CloseAgain,
     CloseFlush, CloseJoined, CloseWriterTimeout, CloseDownstream, CloseDownstreamJoined,
     CloseDownstreamTimeout, CloseFinish, Raise, DownstreamCloseEnds, vars, callVars
<1> QED BY <1>1, <1>2, <1>3, <1>4, <1>5

\* Every step moves the counters with the receipts.
LEMMA TotalsStep == IInv /\ AdmittedTold /\ TotalsHold /\ [Next]_vars => TotalsHold'
<1> SUFFICES ASSUME IInv, AdmittedTold, TotalsHold, [Next]_vars PROVE TotalsHold'
  OBVIOUS
<1> USE DEF TotalsHold
<1>0. /\ TypeOK /\ ItemsHeld /\ receipt \in [Sweeps -> Statuses] /\ admitted \subseteq Sweeps
      /\ current \in Sweeps /\ count \in [Counters -> Nat] /\ pending \in Nat
  BY DEF IInv, TypeOK, CallType, QueueType, WriterType
<1>1. ASSUME UNCHANGED <<receipt, admitted, count, pending>> PROVE TotalsHold'
  BY <1>1 DEF Size, With
<1>2. ASSUME NEW s \in Sweeps, StoreRefused(s) \/ StoreFailed(s) \/ WaitGiveUp(s)
      PROVE  TotalsHold'
  <2>1. receipt[s] = "none"
    BY <1>0, <1>2 DEF StoreRefused, StoreFailed, WaitGiveUp, Open, ItemsHeld
  <2>2. PICK new \in {"rejected", "failed"} :
           /\ receipt' = [receipt EXCEPT ![s] = new]
           /\ count' = [count EXCEPT ![new] = @ + 1]
    BY <1>2 DEF StoreRefused, StoreFailed, WaitGiveUp, Return, Bump
  <2>3. /\ Size(new)' = Size(new) + 1
        /\ \A status \in Statuses \ {"none", new} : Size(status)' = Size(status)
    BY <1>0, <2>1, <2>2, ReceiptMoves DEF Statuses
  <2>4. UNCHANGED <<admitted, pending>>
    BY <1>2 DEF StoreRefused, StoreFailed, WaitGiveUp, queueVars
  <2>5. Size("rejected") \in Nat /\ Size("failed") \in Nat
    BY <1>0, SizeNat
  <2>6. /\ count'["accepted"] = count["accepted"] /\ count'["persisted"] = count["persisted"]
        /\ count'["rejected"] + count'["failed"] = count["rejected"] + count["failed"] + 1
    BY <1>0, <2>2 DEF Counters
  <2>7. /\ Size("accepted")' = Size("accepted") /\ Size("persisted")' = Size("persisted")
        /\ Size("rejected")' + Size("failed")' = Size("rejected") + Size("failed") + 1
    BY <2>2, <2>3, <2>5 DEF Statuses
  <2> QED BY <2>4, <2>6, <2>7
<1>3. ASSUME NEW s \in Sweeps, StoreAdmit(s) \/ WaitAdmit(s) PROVE TotalsHold'
  <2>1. Enqueue(s) /\ receipt[s] = "none"
    BY <1>3, EnqueueNew
  <2>2. /\ Size("accepted")' = Size("accepted") + 1
        /\ \A status \in Statuses \ {"none", "accepted"} : Size(status)' = Size(status)
    <3>1. PICK new \in {"accepted"} : receipt' = [receipt EXCEPT ![s] = new]
      BY <2>1 DEF Enqueue, Return
    <3> QED BY <1>0, <2>1, <3>1, ReceiptMoves DEF Statuses
  <2>3. admitted' = admitted \union {s} /\ s \notin admitted
    BY <2>1 DEF Enqueue, AdmittedTold
  <2>4. Cardinality(admitted') = Cardinality(admitted) + 1
    BY <1>0, <2>3, SizeNat, FS_AddElement
  <2>5. pending' = pending + 1 /\ count' = [count EXCEPT !["accepted"] = @ + 1]
    BY <2>1 DEF Enqueue, Bump
  <2>6. /\ count'["accepted"] = count["accepted"] + 1
        /\ \A c \in {"persisted", "rejected", "failed"} : count'[c] = count[c]
    BY <1>0, <2>5 DEF Counters
  <2>7. \A status \in {"persisted", "rejected", "failed"} : Size(status)' = Size(status)
    BY <2>2 DEF Statuses
  <2> QED BY <2>2, <2>4, <2>5, <2>6, <2>7
<1>4. CASE WriterSettle
  <2>1. outcome \in Outcomes /\ receipt[current] = "accepted"
    BY <1>0, <1>4 DEF IInv, TypeOK, WriterType, WriterSettle, ItemsHeld, Held
  <2>2. PICK new \in {"persisted", "rejected", "failed"} :
           /\ receipt' = [receipt EXCEPT ![current] = new]
           /\ count' = [count EXCEPT ![IF new = "persisted" THEN new ELSE "failed"] = @ + 1]
    <3>1. CASE outcome = "exception"
      BY <1>4, <3>1 DEF WriterSettle, Bump
    <3>2. CASE outcome # "exception"
      BY <1>4, <2>1, <3>2 DEF WriterSettle, Bump, Outcomes
    <3> QED BY <3>1, <3>2
  <2>3. /\ Size(new)' = Size(new) + 1
        /\ Size("accepted")' = Size("accepted") - 1
        /\ \A status \in Statuses \ {"accepted", new} : Size(status)' = Size(status)
    BY <1>0, <2>1, <2>2, ReceiptMoves DEF Statuses
  <2>4. pending' = pending - 1 /\ UNCHANGED admitted
    BY <1>4 DEF WriterSettle
  <2>5. Size("rejected") \in Nat /\ Size("failed") \in Nat /\ Size("persisted") \in Nat
    BY <1>0, SizeNat
  <2>6. count'["accepted"] = count["accepted"]
    BY <1>0, <2>2 DEF Counters
  <2>7. CASE new = "persisted"
    <3>1. /\ count'["persisted"] = count["persisted"] + 1
          /\ count'["rejected"] = count["rejected"] /\ count'["failed"] = count["failed"]
      BY <1>0, <2>2, <2>7 DEF Counters
    <3>2. Size("rejected")' = Size("rejected") /\ Size("failed")' = Size("failed")
      BY <2>3, <2>7 DEF Statuses
    <3> QED BY <2>3, <2>4, <2>6, <2>7, <3>1, <3>2
  <2>8. CASE new # "persisted"
    <3>1. /\ count'["persisted"] = count["persisted"]
          /\ count'["rejected"] + count'["failed"] = count["rejected"] + count["failed"] + 1
      BY <1>0, <2>2, <2>8 DEF Counters
    <3>2. /\ Size("persisted")' = Size("persisted")
          /\ Size("rejected")' + Size("failed")' = Size("rejected") + Size("failed") + 1
      BY <2>2, <2>3, <2>5, <2>8 DEF Statuses
    <3> QED BY <2>3, <2>4, <2>6, <3>1, <3>2
  <2> QED BY <2>7, <2>8
<1>5. ASSUME NEW c \in Closers, CloseDrain(c) PROVE TotalsHold'
  <2>1. UNCHANGED <<queueVars, receipt, admitted>> /\ queue = <<>>
    BY <1>5, DrainChangesNothing, DrainFindsNothing, QuietMeans DEF IInv, CountersHold, Quiet
  <2>2. count' = [count EXCEPT !["rejected"] = @ + Len(queue)] /\ Len(queue) = 0
    BY <1>5, <2>1 DEF CloseDrain
  <2>3. count' = count
    BY <1>0, <2>2 DEF Counters
  <2> QED BY <1>1, <2>1, <2>3 DEF queueVars
<1>6. \/ UNCHANGED <<receipt, admitted, count, pending>> \/ WriterSettle
      \/ \E c \in Closers : CloseDrain(c)
      \/ \E s \in Sweeps : \/ StoreRefused(s) \/ StoreFailed(s) \/ WaitGiveUp(s)
                          \/ StoreAdmit(s) \/ WaitAdmit(s)
  BY StepCases DEF Start, StoreWait, WriterTake, WriterIdle,
     WriterPersist, WriterTell, Flush, FlushCheck, CloseCall, CloseOnly, CloseAgain,
     CloseFlush, CloseJoined, CloseWriterTimeout, CloseDownstream, CloseDownstreamJoined,
     CloseDownstreamTimeout, CloseFinish, Raise, DownstreamCloseEnds, vars, callVars, queueVars
<1> QED BY <1>1, <1>2, <1>3, <1>4, <1>5, <1>6

(* Whenever the lock is free, the depth counters say what is queued, held  *)
(* and waiting, and the totals say what the receipts say.                  *)
THEOREM AccountingHolds == Spec => []AccountingAgrees
<1>1. Init => TotalsHold /\ AdmittedTold
  <2> SUFFICES ASSUME Init PROVE TotalsHold /\ AdmittedTold
    OBVIOUS
  <2>1. \A status \in {"accepted", "persisted", "rejected", "failed"} : With(status) = {}
    BY DEF Init, With
  <2>2. Cardinality({}) = 0
    BY FS_EmptySet
  <2> QED BY <2>1, <2>2 DEF Init, TotalsHold, AdmittedTold, Size, Counters
<1>2. IInv /\ AdmittedTold /\ TotalsHold /\ [Next]_vars => (AdmittedTold /\ TotalsHold)'
  BY AdmittedToldStep, TotalsStep
<1>3. IInv /\ TotalsHold => AccountingAgrees
  BY DEF IInv, TotalsHold, CountersHold, CallsCounted, Held, Size, AccountingAgrees
<1> QED BY Inductive, <1>1, <1>2, <1>3, PTL DEF Spec
=============================================================================
