--------------------------- MODULE TelegramPolling ---------------------------
(***************************************************************************)
(* TelegramPollingRuntime, TelegramReportHandler and the delivery of a     *)
(* package, all of telegram.py, over lives of the process.                 *)
(*                                                                         *)
(* The Bot API keeps updates, numbered as they come, until a request names *)
(* a higher offset.  The offset is kept in memory only.  Requests fail, or *)
(* their answers are lost on the way, for getUpdates and for the parts of  *)
(* a package alike.                                                        *)
(***************************************************************************)
EXTENDS Naturals, FiniteSets

CONSTANTS
    Requests,    \* the updates that ask for a report and may
    Heavy,       \* the updates that make an answer long
    MaxHeavy,    \* how many of these fit within MAX_RESPONSE_BYTES
    Limit,       \* MAX_UPDATE_BATCH
    Attempts,    \* attempts of one poll
    MaxUpdates,  \* bound: how many updates there are
    MaxLives     \* bound: how often the process is started

ASSUME PollingAssumption ==
    /\ Limit \in Nat \ {0} /\ Attempts \in Nat \ {0} /\ MaxHeavy \in Nat
    /\ MaxUpdates \in Nat /\ MaxLives \in Nat
    /\ Requests \subseteq 1 .. MaxUpdates /\ Heavy \subseteq 1 .. MaxUpdates

VARIABLES
    arrived,    \* the Bot API: updates 1 to arrived have come
    confirmed,  \* the Bot API: it has forgotten those below
    lives,      \* how often the process was started
    stop,       \* the stop event
    pc,         \* where the thread is
    offset,     \* offset, 0 for None
    attempt,    \* poll_once: the number of the attempt
    batch,      \* poll_once: the updates still to look at
    part,       \* _send_package: the part that is next
    failures,   \* _send_package: the parts that failed
    landed,     \* history: the parts of this package that are at the receiver
    answer,     \* history: how the last handled request ended, and what landed
    handled,    \* history: the updates handled in any life
    inLife,     \* history: those handled in this life
    twice,      \* history: those handled more than once in a life
    late        \* history: how many were handled since the stop

serverVars  == <<arrived, confirmed>>
lifeVars    == <<lives, stop>>
packageVars == <<part, failures, landed>>
historyVars == <<answer, handled, inLife, twice, late>>
vars == <<serverVars, lifeVars, pc, offset, attempt, batch, packageVars, historyVars>>

Ids   == 1 .. MaxUpdates
Parts == 1 .. 3     \* report, waterfall, heatmap

NoAnswer == [status |-> "ignored", landed |-> {}]

Init ==
    /\ arrived = 0 /\ confirmed = 1
    /\ lives = 0 /\ stop = FALSE /\ pc = "down"
    /\ offset = 0 /\ attempt = 0 /\ batch = {}
    /\ part = 1 /\ failures = {} /\ landed = {}
    /\ answer = NoAnswer /\ handled = {} /\ inLife = {} /\ twice = {} /\ late = 0

-----------------------------------------------------------------------------
(* The Bot API and the process.                                            *)

UpdateArrives ==
    /\ arrived < MaxUpdates
    /\ arrived' = arrived + 1
    /\ UNCHANGED <<confirmed, lifeVars, pc, offset, attempt, batch, packageVars, historyVars>>

\* A new runtime has no offset.
Start ==
    /\ pc = "down" /\ lives < MaxLives
    /\ lives' = lives + 1 /\ stop' = FALSE /\ pc' = "idle"
    /\ UNCHANGED <<serverVars, offset, attempt, batch, packageVars, historyVars>>

SetStop ==
    /\ pc # "down" /\ ~stop
    /\ stop' = TRUE
    /\ UNCHANGED <<serverVars, lives, pc, offset, attempt, batch, packageVars, historyVars>>

\* The end of the program after an orderly stop, or a crash anywhere.
ProcessEnds ==
    /\ pc # "down"
    /\ pc' = "down" /\ offset' = 0 /\ attempt' = 0 /\ batch' = {}
    /\ part' = 1 /\ failures' = {} /\ landed' = {}
    /\ inLife' = {} /\ late' = 0
    /\ UNCHANGED <<serverVars, lifeVars, answer, handled, twice>>

\* What a request with this offset confirms.
Confirms == IF offset > confirmed THEN offset ELSE confirmed

\* The lowest updates that are not confirmed, as many as the limit lets.
Offered == {u \in Confirms .. arrived : u < Confirms + Limit}

\* An answer longer than MAX_RESPONSE_BYTES is refused.
TooLong == Cardinality(Offered \intersect Heavy) > MaxHeavy

-----------------------------------------------------------------------------
(* run and poll_once up to the answer.                                     *)

\* Slip: a stop waits until nothing is left to handle.
RunWhileBusy ==
    /\ pc = "idle"
    /\ IF stop /\ Confirms > arrived
       THEN pc' = "ended" /\ UNCHANGED attempt
       ELSE pc' = "fetching" /\ attempt' = 1
    /\ UNCHANGED <<serverVars, lifeVars, offset, batch, packageVars, historyVars>>

Run ==
    /\ pc = "idle"
    /\ IF stop THEN pc' = "ended" /\ UNCHANGED attempt
               ELSE pc' = "asking" /\ attempt' = 1
    /\ UNCHANGED <<serverVars, lifeVars, offset, batch, packageVars, historyVars>>

\* Every attempt begins with a look at stop.
Ask ==
    /\ pc = "asking"
    /\ pc' = IF stop THEN "idle" ELSE "fetching"
    /\ UNCHANGED <<serverVars, lifeVars, offset, attempt, batch, packageVars, historyVars>>

\* Slip: a poll that failed ends the loop.
RetryThenEnd == IF attempt = Attempts THEN pc' = "ended" /\ UNCHANGED attempt
                                      ELSE pc' = "asking" /\ attempt' = attempt + 1

\* The back-off is a wait for stop, which the next attempt looks at.
Retry == IF attempt = Attempts THEN pc' = "idle" /\ UNCHANGED attempt
                               ELSE pc' = "asking" /\ attempt' = attempt + 1

\* Slip: the offset is moved when the batch is received.
AnsweredAndMoved ==
    /\ pc = "fetching" /\ ~TooLong
    /\ confirmed' = Confirms /\ batch' = Offered /\ pc' = "batch"
    /\ offset' = IF Offered = {} THEN offset ELSE 1 + CHOOSE u \in Offered : \A v \in Offered : v <= u
    /\ UNCHANGED <<arrived, lifeVars, attempt, packageVars, historyVars>>

Answered ==
    /\ pc = "fetching" /\ ~TooLong
    /\ confirmed' = Confirms /\ batch' = Offered /\ pc' = "batch"
    /\ UNCHANGED <<arrived, lifeVars, offset, attempt, packageVars, historyVars>>

\* The request fails on the way, or its answer does or is refused.
RequestFails ==
    /\ pc = "fetching"
    /\ confirmed' \in {Confirms, confirmed}
    /\ Retry
    /\ UNCHANGED <<arrived, lifeVars, offset, batch, packageVars, historyVars>>

-----------------------------------------------------------------------------
(* The batch: poll_once, handle_update and send_package.                   *)

\* The updates of the batch that are not below the offset.
Ahead == {u \in batch : u >= offset}

IsNext(u) == u \in Ahead /\ \A v \in Ahead : u <= v

\* Slip: the offset stays at the update that was handled.
HandledAgain(u, status, got) ==
    /\ offset' = u
    /\ answer' = [status |-> status, landed |-> got]
    /\ handled' = handled \union {u} /\ inLife' = inLife \union {u}
    /\ twice' = IF u \in inLife THEN twice \union {u} ELSE twice
    /\ late' = IF stop THEN late + 1 ELSE late

\* handle_update has returned or raised: in both cases the offset goes on.
Handled(u, status, got) ==
    /\ offset' = u + 1
    /\ answer' = [status |-> status, landed |-> got]
    /\ handled' = handled \union {u} /\ inLife' = inLife \union {u}
    /\ twice' = IF u \in inLife THEN twice \union {u} ELSE twice
    /\ late' = IF stop THEN late + 1 ELSE late

\* Not a request for a report, or not from somebody who may ask.
Pass(u) ==
    /\ pc = "batch" /\ IsNext(u) /\ u \notin Requests
    /\ Handled(u, "ignored", {})
    /\ UNCHANGED <<serverVars, lifeVars, pc, attempt, batch, packageVars>>

\* The report of the last hour is built and rendered.
Build(u) ==
    /\ pc = "batch" /\ IsNext(u) /\ u \in Requests
    /\ pc' = "sending" /\ part' = 1 /\ failures' = {} /\ landed' = {}
    /\ UNCHANGED <<serverVars, lifeVars, offset, attempt, batch, historyVars>>

BuildFails(u) ==
    /\ pc = "batch" /\ IsNext(u) /\ u \in Requests
    /\ Handled(u, "failed", {})
    /\ UNCHANGED <<serverVars, lifeVars, pc, attempt, batch, packageVars>>

\* Each part is sent whatever became of the others.  One that counts as failed
\* may have arrived all the same: its answer was lost.
SendPart ==
    /\ pc = "sending" /\ part \in Parts
    /\ part' = part + 1
    /\ \/ landed' = landed \union {part} /\ UNCHANGED failures
       \/ failures' = failures \union {part} /\ landed' \in {landed, landed \union {part}}
    /\ UNCHANGED <<serverVars, lifeVars, pc, offset, attempt, batch, historyVars>>

\* Slip: a package counts by its last part.
StatusOfLast == IF 3 \notin failures THEN "delivered" ELSE "failed"

Status ==
    IF failures = {} THEN "delivered" ELSE IF failures = Parts THEN "failed" ELSE "partial"

PackageEnds(u) ==
    /\ pc = "sending" /\ part \notin Parts /\ IsNext(u)
    /\ Handled(u, Status, landed)
    /\ pc' = "batch"
    /\ part' = 1 /\ failures' = {} /\ landed' = {}
    /\ UNCHANGED <<serverVars, lifeVars, attempt, batch>>

BatchEnds ==
    /\ pc = "batch" /\ Ahead = {}
    /\ pc' = "idle" /\ batch' = {}
    /\ UNCHANGED <<serverVars, lifeVars, offset, attempt, packageVars, historyVars>>

-----------------------------------------------------------------------------
RuntimeStep ==
    \/ Run \/ Ask \/ Answered \/ RequestFails
    \/ \E u \in Ids : Pass(u) \/ Build(u) \/ BuildFails(u) \/ PackageEnds(u)
    \/ SendPart \/ BatchEnds

Next == UpdateArrives \/ Start \/ SetStop \/ ProcessEnds \/ RuntimeStep

Spec == Init /\ [][Next]_vars

\* The thread goes on, as every request has a timeout, and a request to the
\* Bot API that can be answered is so once in a while.  Nothing is assumed about
\* the process: it may end at any moment and not be started again.
PollingFairness == WF_vars(RuntimeStep) /\ SF_vars(Answered)

FairSpec == Spec /\ PollingFairness

-----------------------------------------------------------------------------
(* Properties.                                                             *)

TypeOK ==
    /\ arrived \in 0 .. MaxUpdates /\ confirmed \in 1 .. MaxUpdates + 1
    /\ lives \in 0 .. MaxLives /\ stop \in BOOLEAN
    /\ pc \in {"down", "idle", "asking", "fetching", "batch", "sending", "ended"}
    /\ offset \in 0 .. MaxUpdates + 1 /\ attempt \in 0 .. Attempts
    /\ batch \subseteq Ids
    /\ part \in 1 .. 4 /\ failures \subseteq Parts /\ landed \subseteq Parts
    /\ answer \in [status : {"ignored", "delivered", "partial", "failed"},
                   landed : SUBSET Parts]
    /\ handled \subseteq Ids /\ inLife \subseteq Ids /\ twice \subseteq Ids
    /\ late \in Nat

\* What the Bot API has forgotten was handled: no request is lost by a crash, a
\* lost answer or a handler that fails (poll_once moves the offset last).
NothingForgotten == \A u \in Ids : u < confirmed => u \in handled

\* Within a life of the process no update is handled twice, whatever answers are
\* lost and however often a poll is tried again.
OnceInALife == twice = {}

\* What the handler reports agrees with what is at the receiver: "delivered" is
\* said of whole packages only, "partial" when something is there.  "failed" says
\* nothing, as an answer may be lost (_post, _send_package).
AnswersHonest ==
    /\ answer.status = "delivered" => answer.landed = Parts
    /\ answer.status = "partial" => answer.landed # {}
    /\ answer.landed # {} => answer.status # "ignored"

\* After a stop at most the batch is handled that was fetched or being fetched:
\* the loop looks at stop before each attempt, though not between updates.
LateBounded == late <= Limit

\* An update that has come is handled while the process runs, unless the answer
\* it is in is too long: that answer is refused, and comes again for ever.
Served ==
    \A u \in Ids :
        (u <= arrived /\ pc # "down") ~> (u \in handled \/ stop \/ pc = "down" \/ TooLong)
=============================================================================
