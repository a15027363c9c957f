---------------------------- MODULE SinkContract ----------------------------
(***************************************************************************)
(* What a caller of AsyncMeasurementSink may rely on, without queue,       *)
(* threads or deadlines: each hand-off gets one receipt, the receipt is    *)
(* settled at most once, and after the first terminal persistence failure  *)
(* no receipt becomes persisted any more.                                  *)
(***************************************************************************)
CONSTANT Sweeps

VARIABLES
    status,  \* the status of each sweep's receipt, "none" before the hand-off
    broken   \* the store failed for good

vars == <<status, broken>>

Init ==
    /\ status = [s \in Sweeps |-> "none"]
    /\ broken = FALSE

Become(s, new) == status' = [status EXCEPT ![s] = new]

\* store_sweep answers: taken over, or refused for one of two reasons.
Accept(s) == status[s] = "none" /\ Become(s, "accepted") /\ UNCHANGED broken

Refuse(s) ==
    /\ status[s] = "none"
    /\ Become(s, "rejected") \/ (broken /\ Become(s, "failed"))
    /\ UNCHANGED broken

Persist(s) ==
    /\ status[s] = "accepted" /\ ~broken
    /\ Become(s, "persisted")
    /\ UNCHANGED broken

\* The store refused the sweep, or broke while it had it, or was broken before.
Lose(s) ==
    /\ status[s] = "accepted"
    /\ Become(s, "rejected") \/ Become(s, "failed")
    /\ broken' \in {broken, TRUE}

Next == \E s \in Sweeps : Accept(s) \/ Refuse(s) \/ Persist(s) \/ Lose(s)

Spec == Init /\ [][Next]_vars
=============================================================================
