------------------------ MODULE TelegramPollingProofs ------------------------
(***************************************************************************)
(* The polling runtime keeps its types, the Bot API forgets no update that *)
(* was not handled, and no update is handled twice in a life: for any      *)
(* numbers of updates, lives and attempts and any limit of a batch.        *)
(*                                                                         *)
(* The argument: what lies below the offset was handled, and the batch has *)
(* no hole above what is confirmed, so the lowest update of the batch that *)
(* is not below the offset is the lowest that was not handled.             *)
(***************************************************************************)
EXTENDS TelegramPolling, TLAPS

USE PollingAssumption DEF PollingAssumption

-----------------------------------------------------------------------------
(* Types.                                                                  *)

\* The parts of TypeOK that Handled changes.
LEMMA HandledType ==
    ASSUME TypeOK, NEW u \in Ids, NEW status \in {"ignored", "delivered", "partial", "failed"},
           NEW got \in SUBSET Parts, Handled(u, status, got)
    PROVE  /\ offset' \in 0 .. MaxUpdates + 1
           /\ answer' \in [status : {"ignored", "delivered", "partial", "failed"},
                           landed : SUBSET Parts]
           /\ handled' \subseteq Ids /\ inLife' \subseteq Ids /\ twice' \subseteq Ids
           /\ late' \in Nat
BY DEF TypeOK, Handled, Ids

\* The type invariant holds at first.
LEMMA InitType == Init => TypeOK
<1> SUFFICES ASSUME Init PROVE TypeOK
  OBVIOUS
<1>1. stop \in BOOLEAN
  BY DEF Init
<1>2. answer \in [status : {"ignored", "delivered", "partial", "failed"}, landed : SUBSET Parts]
  BY DEF Init, NoAnswer
<1> QED BY <1>1, <1>2 DEF Init, TypeOK, Parts, Ids

\* What the environment and the process do keeps the types.
LEMMA EnvironmentType ==
    ASSUME TypeOK, UpdateArrives \/ Start \/ SetStop \/ ProcessEnds
    PROVE  TypeOK'
<1>1. CASE UpdateArrives
  BY <1>1 DEF UpdateArrives, TypeOK, lifeVars, packageVars, historyVars, Ids
<1>2. CASE Start
  <2>1. stop' \in BOOLEAN
    BY <1>2 DEF Start
  <2>2. lives' \in 0 .. MaxLives
    BY <1>2 DEF Start, TypeOK
  <2> QED BY <1>2, <2>1, <2>2 DEF Start, TypeOK, serverVars, packageVars, historyVars
<1>3. CASE SetStop
  BY <1>3 DEF SetStop, TypeOK, serverVars, packageVars, historyVars, Ids
<1>4. CASE ProcessEnds
  BY <1>4 DEF ProcessEnds, TypeOK, serverVars, lifeVars, Ids, Parts
<1> QED BY <1>1, <1>2, <1>3, <1>4

\* The loop up to the answer keeps the types.
LEMMA PollType ==
    ASSUME TypeOK, Run \/ Ask \/ Answered \/ RequestFails \/ BatchEnds
    PROVE  TypeOK'
<1>1. CASE Run
  BY <1>1 DEF Run, TypeOK, serverVars, lifeVars, packageVars, historyVars, Ids
<1>2. CASE Ask
  BY <1>2 DEF Ask, TypeOK, serverVars, lifeVars, packageVars, historyVars, Ids
<1>3. CASE Answered
  BY <1>3 DEF Answered, TypeOK, Confirms, Offered, lifeVars, packageVars, historyVars, Ids
<1>4. CASE RequestFails
  BY <1>4 DEF RequestFails, Retry, TypeOK, Confirms, lifeVars, packageVars, historyVars, Ids
<1>5. CASE BatchEnds
  BY <1>5 DEF BatchEnds, TypeOK, serverVars, lifeVars, packageVars, historyVars, Ids
<1> QED BY <1>1, <1>2, <1>3, <1>4, <1>5

\* The batch keeps the types.
LEMMA BatchType ==
    ASSUME TypeOK,
           SendPart \/ \E u \in Ids : Pass(u) \/ Build(u) \/ BuildFails(u) \/ PackageEnds(u)
    PROVE  TypeOK'
<1>1. CASE SendPart
  <2>1. part' \in 1 .. 4
    BY <1>1 DEF SendPart, Parts
  <2>2. failures' \subseteq Parts /\ landed' \subseteq Parts
    BY <1>1 DEF SendPart, TypeOK
  <2> QED BY <1>1, <2>1, <2>2 DEF SendPart, TypeOK, serverVars, lifeVars, historyVars
<1>2. ASSUME NEW u \in Ids, Pass(u) PROVE TypeOK'
  <2>1. Handled(u, "ignored", {})
    BY <1>2 DEF Pass
  <2> QED BY <1>2, <2>1, HandledType DEF Pass, TypeOK, serverVars, lifeVars, packageVars
<1>3. ASSUME NEW u \in Ids, Build(u) PROVE TypeOK'
  BY <1>3 DEF Build, TypeOK, serverVars, lifeVars, historyVars, Ids, Parts
<1>4. ASSUME NEW u \in Ids, BuildFails(u) PROVE TypeOK'
  <2>1. Handled(u, "failed", {})
    BY <1>4 DEF BuildFails
  <2> QED BY <1>4, <2>1, HandledType DEF BuildFails, TypeOK, serverVars, lifeVars, packageVars
<1>5. ASSUME NEW u \in Ids, PackageEnds(u) PROVE TypeOK'
  <2>1. Handled(u, Status, landed)
    BY <1>5 DEF PackageEnds
  <2>2. Status \in {"ignored", "delivered", "partial", "failed"} /\ landed \in SUBSET Parts
    BY DEF Status, TypeOK
  <2> QED BY <1>5, <2>1, <2>2, HandledType DEF PackageEnds, TypeOK, serverVars, lifeVars, Parts
<1> QED BY <1>1, <1>2, <1>3, <1>4, <1>5

\* Every variable of the polling runtime and of the Bot API keeps its type, for
\* any updates, limits, attempts and lives (telegram.py as a whole).
THEOREM PollingTypeCorrect == Spec => []TypeOK
<1>1. TypeOK /\ [Next]_vars => TypeOK'
  <2> SUFFICES ASSUME TypeOK, [Next]_vars PROVE TypeOK'
    OBVIOUS
  <2>1. CASE UNCHANGED vars
    BY <2>1 DEF TypeOK, vars, serverVars, lifeVars, packageVars, historyVars
  <2>2. CASE Next
    BY <2>2, EnvironmentType, PollType, BatchType DEF Next, RuntimeStep
  <2> QED BY <2>1, <2>2
<1> QED BY InitType, <1>1, PTL DEF Spec

-----------------------------------------------------------------------------
(* Nothing is forgotten, nothing is handled twice.                         *)

\* What lies below what is confirmed, or below the offset, was handled.
BelowHandled == \A u \in Ids : u < confirmed \/ u < offset => u \in handled

\* The batch has no hole above what is confirmed.
NoHole ==
    pc \in {"batch", "sending"} =>
        \A u \in batch : \A v \in Ids : confirmed <= v /\ v < u => v \in batch

\* What was handled in this life lies below the offset, which starts anew with it.
LifeBelow ==
    /\ \A u \in inLife : u < offset
    /\ pc = "down" => offset = 0 /\ inLife = {}

IInv == TypeOK /\ BelowHandled /\ NoHole /\ LifeBelow /\ OnceInALife

\* The update that is next is handled: all below it were, and it was not.
LEMMA HandledKeeps ==
    ASSUME IInv, NEW u \in Ids, NEW status, NEW got, IsNext(u), Handled(u, status, got),
           pc \in {"batch", "sending"}, confirmed' = confirmed
    PROVE  BelowHandled' /\ (\A v \in inLife' : v < offset') /\ OnceInALife'
<1>1. u \in batch /\ u >= offset /\ \A v \in batch : v >= offset => u <= v
  BY DEF IsNext, Ahead
<1>2. ASSUME NEW v \in Ids, v < confirmed' \/ v < offset' PROVE v \in handled'
  <2>1. v < confirmed \/ v < offset \/ v = u \/ (confirmed <= v /\ offset <= v /\ v < u)
    BY <1>2 DEF Handled, IInv, TypeOK, Ids
  <2>2. CASE v < confirmed \/ v < offset
    BY <2>2 DEF Handled, IInv, BelowHandled
  <2>3. CASE v = u
    BY <2>3 DEF Handled
  <2>4. CASE confirmed <= v /\ offset <= v /\ v < u
    <3>1. v \in batch
      BY <1>1, <2>4 DEF IInv, NoHole
    <3> QED BY <1>1, <3>1, <2>4 DEF IInv, TypeOK, Ids
  <2> QED BY <2>1, <2>2, <2>3, <2>4
<1>3. \A v \in inLife' : v < offset'
  BY <1>1 DEF Handled, IInv, LifeBelow, TypeOK, Ids
<1>4. OnceInALife'
  <2>1. u \notin inLife
    BY <1>1 DEF IInv, LifeBelow, TypeOK, Ids
  <2> QED BY <2>1 DEF Handled, IInv, OnceInALife
<1> QED BY <1>2, <1>3, <1>4 DEF BelowHandled

\* The inductive invariant is kept by what the environment and the process do.
LEMMA EnvironmentKeeps ==
    ASSUME IInv, TypeOK', UpdateArrives \/ Start \/ SetStop \/ ProcessEnds
    PROVE  IInv'
<1> USE DEF IInv, BelowHandled, NoHole, LifeBelow, OnceInALife
<1>1. CASE UpdateArrives
  BY <1>1 DEF UpdateArrives, lifeVars, packageVars, historyVars
<1>2. CASE Start
  BY <1>2 DEF Start, serverVars, packageVars, historyVars
<1>3. CASE SetStop
  BY <1>3 DEF SetStop, serverVars, packageVars, historyVars
<1>4. CASE ProcessEnds
  BY <1>4 DEF ProcessEnds, serverVars, lifeVars, TypeOK, Ids
<1> QED BY <1>1, <1>2, <1>3, <1>4

\* It is kept by the loop up to the answer: only there is anything confirmed.
LEMMA PollKeeps ==
    ASSUME IInv, TypeOK', Run \/ Ask \/ Answered \/ RequestFails \/ BatchEnds
    PROVE  IInv'
<1> USE DEF IInv, BelowHandled, NoHole, LifeBelow, OnceInALife
<1>1. CASE Run
  BY <1>1 DEF Run, serverVars, lifeVars, packageVars, historyVars
<1>2. CASE Ask
  BY <1>2 DEF Ask, serverVars, lifeVars, packageVars, historyVars
<1>3. CASE Answered
  <2>1. BelowHandled'
    BY <1>3 DEF Answered, Confirms, historyVars
  <2>2. NoHole'
    BY <1>3 DEF Answered, Confirms, Offered, TypeOK, Ids
  <2>3. LifeBelow' /\ OnceInALife'
    BY <1>3 DEF Answered, historyVars
  <2> QED BY <2>1, <2>2, <2>3
<1>4. CASE RequestFails
  <2>1. BelowHandled'
    BY <1>4 DEF RequestFails, Confirms, historyVars
  <2>2. pc' \in {"idle", "asking"}
    BY <1>4 DEF RequestFails, Retry
  <2> QED BY <1>4, <2>1, <2>2 DEF RequestFails, historyVars
<1>5. CASE BatchEnds
  BY <1>5 DEF BatchEnds, serverVars, lifeVars, packageVars, historyVars
<1> QED BY <1>1, <1>2, <1>3, <1>4, <1>5

\* It is kept by the batch: only there is anything handled.
LEMMA BatchKeeps ==
    ASSUME IInv, TypeOK',
           SendPart \/ \E u \in Ids : Pass(u) \/ Build(u) \/ BuildFails(u) \/ PackageEnds(u)
    PROVE  IInv'
<1>1. CASE SendPart
  BY <1>1 DEF SendPart, serverVars, lifeVars, historyVars, IInv, BelowHandled, NoHole, LifeBelow,
              OnceInALife
<1>2. ASSUME NEW u \in Ids, Build(u) PROVE IInv'
  BY <1>2 DEF Build, serverVars, lifeVars, historyVars, IInv, BelowHandled, NoHole, LifeBelow,
              OnceInALife
<1>3. ASSUME NEW u \in Ids, Pass(u) \/ BuildFails(u) \/ PackageEnds(u) PROVE IInv'
  <2>1. IsNext(u) /\ pc \in {"batch", "sending"} /\ pc' = "batch"
    BY <1>3 DEF Pass, BuildFails, PackageEnds
  <2>2. confirmed' = confirmed /\ batch' = batch
    BY <1>3 DEF Pass, BuildFails, PackageEnds, serverVars
  <2>3. PICK status, got : Handled(u, status, got)
    BY <1>3 DEF Pass, BuildFails, PackageEnds
  <2>4. BelowHandled' /\ (\A v \in inLife' : v < offset') /\ OnceInALife'
    BY <2>1, <2>2, <2>3, HandledKeeps
  <2>5. NoHole'
    BY <2>1, <2>2 DEF IInv, NoHole
  <2> QED BY <2>1, <2>4, <2>5 DEF IInv, LifeBelow
<1> QED BY <1>1, <1>2, <1>3

\* The inductive invariant.
THEOREM PollingInvariant == Spec => []IInv
<1>1. Init => IInv
  BY InitType DEF Init, IInv, BelowHandled, NoHole, LifeBelow, OnceInALife, Ids
<1>2. IInv /\ TypeOK' /\ [Next]_vars => IInv'
  <2> SUFFICES ASSUME IInv, TypeOK', [Next]_vars PROVE IInv'
    OBVIOUS
  <2>1. CASE UNCHANGED vars
    BY <2>1 DEF vars, serverVars, lifeVars, packageVars, historyVars, IInv, BelowHandled, NoHole,
                LifeBelow, OnceInALife
  <2>2. CASE Next
    BY <2>2, EnvironmentKeeps, PollKeeps, BatchKeeps DEF Next, RuntimeStep
  <2> QED BY <2>1, <2>2
<1> QED BY <1>1, <1>2, PollingTypeCorrect, PTL DEF Spec

\* The Bot API has forgotten an update only if it was handled, whatever answers
\* were lost and whenever the process ended (poll_once moves the offset last).
THEOREM NoUpdateIsLost == Spec => []NothingForgotten
<1>1. IInv => NothingForgotten
  BY DEF IInv, BelowHandled, NothingForgotten
<1> QED BY <1>1, PollingInvariant, PTL

\* In a life of the process no update is handled twice (poll_once looks at the
\* updates in order and leaves out those below the offset).
THEOREM UpdatesHandledOnce == Spec => []OnceInALife
<1>1. IInv => OnceInALife
  BY DEF IInv
<1> QED BY <1>1, PollingInvariant, PTL

-----------------------------------------------------------------------------
(* What is said of a package.                                              *)

\* Each part that was tried has failed or is at the receiver.
TriedLanded == pc = "sending" => \A p \in Parts : p < part => p \in failures \union landed

HonestInv == TriedLanded /\ AnswersHonest

\* The status of a package that was tried to its end fits what has landed.
LEMMA StatusHonest ==
    ASSUME TypeOK, TriedLanded, pc = "sending", part \notin Parts
    PROVE  /\ Status = "delivered" => landed = Parts
           /\ Status = "partial" => landed # {}
           /\ Status # "ignored"
<1>1. part = 4 /\ \A p \in Parts : p < 4
  BY DEF TypeOK, Parts
<1>2. \A p \in Parts : p \in failures \union landed
  BY <1>1 DEF TriedLanded
<1>3. failures \subseteq Parts /\ landed \subseteq Parts
  BY DEF TypeOK
<1>4. failures = {} => landed = Parts
  BY <1>2, <1>3
<1>5. failures # Parts => landed # {}
  BY <1>2, <1>3
<1> QED BY <1>4, <1>5 DEF Status

\* Every step keeps it: an answer is formed where a package or an update ends.
LEMMA HonestStep == TypeOK /\ HonestInv /\ [Next]_vars => HonestInv'
<1> SUFFICES ASSUME TypeOK, HonestInv, [Next]_vars PROVE HonestInv'
  OBVIOUS
<1> USE DEF HonestInv
<1>1. ASSUME UNCHANGED <<part, failures, landed, answer>>, pc' = pc \/ pc' # "sending"
      PROVE  HonestInv'
  BY <1>1 DEF TriedLanded, AnswersHonest
<1>2. CASE UNCHANGED vars
  BY <1>1, <1>2 DEF vars, packageVars, historyVars
<1>3. CASE UpdateArrives \/ Start \/ SetStop
  BY <1>1, <1>3 DEF UpdateArrives, Start, SetStop, packageVars, historyVars
<1>4. CASE ProcessEnds
  BY <1>4 DEF ProcessEnds, TriedLanded, AnswersHonest
<1>5. CASE Run \/ Ask \/ Answered \/ RequestFails \/ BatchEnds
  BY <1>1, <1>5 DEF Run, Ask, Answered, RequestFails, Retry, BatchEnds, packageVars, historyVars
<1>6. ASSUME NEW u \in Ids, Build(u) PROVE HonestInv'
  <2>1. part' = 1 /\ answer' = answer /\ \A p \in Parts : ~(p < 1)
    BY <1>6 DEF Build, historyVars, Parts
  <2> QED BY <2>1 DEF TriedLanded, AnswersHonest
<1>7. CASE SendPart
  <2>1. pc = "sending" /\ part \in Parts /\ part' = part + 1 /\ answer' = answer
    BY <1>7 DEF SendPart, historyVars
  <2>2. part \in failures' \union landed' /\ failures \subseteq failures' /\ landed \subseteq landed'
    BY <1>7 DEF SendPart
  <2>3. \A p \in Parts : p < part + 1 => p < part \/ p = part
    BY <2>1 DEF Parts
  <2> QED BY <2>1, <2>2, <2>3 DEF TriedLanded, AnswersHonest
<1>8. ASSUME NEW u \in Ids, Pass(u) \/ BuildFails(u) PROVE HonestInv'
  <2>1. answer'.status \in {"ignored", "failed"} /\ answer'.landed = {} /\ pc' = pc /\ pc = "batch"
    BY <1>8 DEF Pass, BuildFails, Handled
  <2> QED BY <2>1 DEF TriedLanded, AnswersHonest
<1>9. ASSUME NEW u \in Ids, PackageEnds(u) PROVE HonestInv'
  <2>1. answer' = [status |-> Status, landed |-> landed] /\ pc' = "batch"
    BY <1>9 DEF PackageEnds, Handled
  <2> QED BY <1>9, <2>1, StatusHonest DEF PackageEnds, TriedLanded, AnswersHonest
<1> QED BY <1>2, <1>3, <1>4, <1>5, <1>6, <1>7, <1>8, <1>9 DEF Next, RuntimeStep

\* "delivered" is said of a package only when all of it is at the receiver, and
\* "partial" when something is, although answers are lost (_send_package).
THEOREM AnswersAreHonest == Spec => []AnswersHonest
<1>1. Init => HonestInv
  BY DEF Init, NoAnswer, HonestInv, TriedLanded, AnswersHonest
<1>2. HonestInv => AnswersHonest
  BY DEF HonestInv
<1> QED BY <1>1, <1>2, HonestStep, PollingTypeCorrect, PTL DEF Spec

-----------------------------------------------------------------------------
(* What is handled after a stop.                                           *)

\* Nothing was handled since a stop before the batch that was being fetched when it
\* came; and as the batch is handled from its lowest update up, the offset has
\* gone up by one at least for each.
LateInv ==
    /\ late <= Limit
    /\ ~stop \/ pc \in {"down", "asking", "fetching"} => late = 0
    /\ pc \in {"batch", "sending"} =>
          /\ \A u \in batch : confirmed <= u /\ u < confirmed + Limit
          /\ late = 0 \/ (late + confirmed <= offset /\ offset <= confirmed + Limit)

\* Every step keeps it: the loop looks at stop before each attempt.
LEMMA LateStep == TypeOK /\ LateInv /\ [Next]_vars => LateInv'
<1> SUFFICES ASSUME TypeOK, LateInv, [Next]_vars PROVE LateInv'
  OBVIOUS
<1>0. late \in Nat /\ offset \in Nat /\ confirmed \in Nat /\ arrived \in Nat /\ stop \in BOOLEAN
  BY DEF TypeOK
<1>1. CASE UNCHANGED vars
  BY <1>1 DEF vars, serverVars, lifeVars, historyVars, LateInv
<1>2. CASE UpdateArrives \/ Start \/ SetStop
  BY <1>2 DEF UpdateArrives, Start, SetStop, serverVars, lifeVars, historyVars, LateInv
<1>3. CASE ProcessEnds
  BY <1>3 DEF ProcessEnds, LateInv
<1>4. CASE Run \/ Ask \/ RequestFails \/ BatchEnds
  BY <1>4 DEF Run, Ask, RequestFails, Retry, BatchEnds, serverVars, lifeVars, historyVars, LateInv
<1>5. CASE Answered
  <2>1. /\ pc = "fetching" /\ pc' = "batch" /\ late' = late
        /\ confirmed' = Confirms /\ batch' = Offered
    BY <1>5 DEF Answered, historyVars
  <2>2. late = 0
    BY <2>1 DEF LateInv
  <2>3. \A u \in Offered : Confirms <= u /\ u < Confirms + Limit
    BY <1>0 DEF Offered, Confirms
  <2> QED BY <2>1, <2>2, <2>3 DEF LateInv
<1>6. CASE SendPart \/ \E u \in Ids : Build(u)
  BY <1>6 DEF SendPart, Build, serverVars, lifeVars, historyVars, LateInv
<1>7. ASSUME NEW u \in Ids, Pass(u) \/ BuildFails(u) \/ PackageEnds(u) PROVE LateInv'
  <2>1. IsNext(u) /\ pc \in {"batch", "sending"} /\ pc' = "batch"
    BY <1>7 DEF Pass, BuildFails, PackageEnds
  <2>2. UNCHANGED <<confirmed, batch, stop>>
    BY <1>7 DEF Pass, BuildFails, PackageEnds, serverVars, lifeVars
  <2>3. offset' = u + 1 /\ late' = IF stop THEN late + 1 ELSE late
    BY <1>7 DEF Pass, BuildFails, PackageEnds, Handled
  <2>4. u \in Nat /\ offset <= u /\ confirmed <= u /\ u < confirmed + Limit
    BY <2>1 DEF IsNext, Ahead, LateInv, Ids
  <2>5. \A v \in batch' : confirmed' <= v /\ v < confirmed' + Limit
    BY <2>1, <2>2 DEF LateInv
  <2>6. CASE ~stop
    <3>1. late' = 0
      BY <2>3, <2>6 DEF LateInv
    <3> QED BY <2>1, <2>5, <3>1 DEF LateInv
  <2>7. CASE stop
    <3>1. late' = late + 1
      BY <2>3, <2>7
    <3>2. late' + confirmed' <= offset' /\ offset' <= confirmed' + Limit
      BY <1>0, <2>1, <2>2, <2>3, <2>4, <3>1 DEF LateInv
    <3>3. late' <= Limit
      BY <1>0, <2>2, <2>3, <2>4, <3>1, <3>2
    <3> QED BY <2>1, <2>2, <2>5, <2>7, <3>2, <3>3 DEF LateInv
  <2> QED BY <1>0, <2>6, <2>7
<1> QED BY <1>1, <1>2, <1>3, <1>4, <1>5, <1>6, <1>7 DEF Next, RuntimeStep

\* After a stop no more updates are handled than one batch holds: none is fetched
\* once the loop has looked (run, poll_once).
THEOREM LateIsBounded == Spec => []LateBounded
<1>1. Init => LateInv
  BY DEF Init, LateInv
<1>2. LateInv => LateBounded
  BY DEF LateInv, LateBounded
<1> QED BY <1>1, <1>2, LateStep, PollingTypeCorrect, PTL DEF Spec
=============================================================================
