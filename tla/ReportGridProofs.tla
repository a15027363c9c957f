--------------------------- MODULE ReportGridProofs ---------------------------
(***************************************************************************)
(* What the canonical grid of a report rests on: in one life of the        *)
(* process the turns of measured sweeps are a budget apart, and no row     *)
(* begins before its turn.  How long after it a row begins is not bounded  *)
(* by the code, so the begins of two rows may be closer than a budget; a   *)
(* slot holds one of them at most while the slot and the longest delay of  *)
(* a row together fit the budget.                                          *)
(***************************************************************************)
EXTENDS ReportGrid, TLAPS

Rows == [start : Nat, finish : Nat, turn : Nat, measured : BOOLEAN]

TypeOK ==
    /\ now \in Nat /\ lives \in Nat /\ due \in Nat /\ turn \in Nat /\ started \in Nat
    /\ state \in {"down", "waiting", "begun", "sweeping"}
    /\ rows \subseteq Rows

\* A sweep that was measured puts the turn of every other a budget away.
Apart ==
    \A r, s \in rows :
        r.measured /\ s.measured /\ r # s => r.turn + Budget <= s.turn \/ s.turn + Budget <= r.turn

\* The next turn, or the one that was taken last, lies after all that were.
Spaced ==
    \A r \in rows : r.measured =>
        /\ state = "waiting" => r.turn + Budget <= due
        /\ state \in {"begun", "sweeping"} => r.turn + Budget <= turn

\* Neither a row nor the sweep that is under way began before its turn.
InTurn ==
    /\ \A r \in rows : r.turn <= r.start
    /\ state \in {"begun", "sweeping"} => turn <= now
    /\ state = "sweeping" => turn <= started

GridInv ==
    /\ TypeOK /\ InTurn
    /\ lives = 0 => rows = {} /\ state = "down"
    /\ lives <= 1 => Apart /\ Spaced

\* No row begins more than lag after its turn.
Prompt(data, lag) == \A r \in data : r.start <= r.turn + lag

\* Two sweeps that begin a slot or more apart are not in one slot.
LEMMA SlotHoldsOne ==
    ASSUME NEW from \in Nat, NEW index \in Nat, NEW quantum \in Nat,
           NEW r \in Rows, NEW s \in Rows,
           r.start + quantum <= s.start \/ s.start + quantum <= r.start,
           InSlot(r, from, index, quantum), InSlot(s, from, index, quantum)
    PROVE  FALSE
<1>1. PICK edge \in Nat : edge = index * quantum
  OBVIOUS
<1>2. (index + 1) * quantum = edge + quantum
  BY <1>1
<1>3. r.start \in Nat /\ s.start \in Nat
  BY DEF Rows
<1> QED BY <1>1, <1>2, <1>3 DEF InSlot

\* A row that is added keeps the rows apart, if it is unmeasured or spaced.
LEMMA AddedApart ==
    ASSUME Budget \in Nat, rows \subseteq Rows, Apart, NEW new \in Rows, rows' = rows \union {new},
           new.measured => \A r \in rows : r.measured => r.turn + Budget <= new.turn
    PROVE  Apart'
<1> SUFFICES ASSUME NEW r \in rows', NEW s \in rows', r.measured, s.measured, r # s
             PROVE  r.turn + Budget <= s.turn \/ s.turn + Budget <= r.turn
  BY DEF Apart
<1>1. CASE r \in rows /\ s \in rows
  BY <1>1 DEF Apart
<1>2. CASE r \in rows /\ s = new
  BY <1>2
<1>3. CASE r = new /\ s \in rows
  BY <1>3
<1> QED BY <1>1, <1>2, <1>3

\* A sweep that succeeds keeps the invariant: the budget is waited for.
LEMMA SucceedsKeeps ==
    ASSUME Budget \in Nat, GridInv, SweepSucceeds
    PROVE  GridInv'
<1> DEFINE new == [start |-> started, finish |-> now, turn |-> turn, measured |-> TRUE]
<1>1. new \in Rows /\ rows' = rows \union {new} /\ state' = "waiting" /\ state = "sweeping"
  BY DEF SweepSucceeds, Store, GridInv, TypeOK, Rows
<1>2. TypeOK' /\ turn' = turn /\ started' = started /\ lives' = lives /\ now' = now
  <2>1. turn' = turn /\ started' = started /\ lives' = lives /\ now' = now
    BY DEF SweepSucceeds
  <2>2. due' \in Nat
    BY DEF SweepSucceeds, GridInv, TypeOK
  <2>3. rows' \subseteq Rows
    BY <1>1 DEF GridInv, TypeOK
  <2> QED BY <1>1, <2>1, <2>2, <2>3 DEF GridInv, TypeOK
<1>3. ASSUME lives <= 1 PROVE Apart' /\ Spaced'
  <2>1. \A r \in rows : r.measured => r.turn + Budget <= turn
    BY <1>1, <1>3 DEF GridInv, Spaced
  <2>2. Apart'
    BY <1>1, <1>3, <2>1, AddedApart DEF GridInv, TypeOK
  <2>3. due' >= turn + Budget /\ due' \in Nat
    BY <1>2 DEF SweepSucceeds, GridInv, TypeOK
  <2>4. ASSUME NEW r \in rows', r.measured PROVE r.turn + Budget <= due'
    <3>1. CASE r \in rows
      <4>1. r.turn \in Nat /\ r.turn + Budget <= turn
        BY <2>1, <2>4, <3>1 DEF GridInv, TypeOK, Rows
      <4> QED BY <4>1, <2>3 DEF GridInv, TypeOK
    <3>2. CASE r = new
      BY <3>2, <2>3
    <3> QED BY <1>1, <3>1, <3>2
  <2> QED BY <1>1, <2>2, <2>4 DEF Spaced
<1>4. InTurn'
  BY <1>1, <1>2 DEF GridInv, InTurn
<1>5. lives' # 0
  BY <1>1, <1>2 DEF GridInv
<1> QED BY <1>1, <1>2, <1>3, <1>4, <1>5 DEF GridInv

\* A sweep that fails keeps it: what it stores is not measured.
LEMMA FailsKeeps ==
    ASSUME Budget \in Nat, Recovery \in Nat, GridInv, SweepFails
    PROVE  GridInv'
<1> DEFINE new == [start |-> turn, finish |-> now, turn |-> turn, measured |-> FALSE]
<1>1. /\ new \in Rows /\ rows' = rows \union {new}
      /\ state' = "waiting" /\ state \in {"begun", "sweeping"}
  BY DEF SweepFails, Store, GridInv, TypeOK, Rows
<1>2. TypeOK' /\ turn' = turn /\ started' = started /\ lives' = lives /\ now' = now
  <2>1. turn' = turn /\ started' = started /\ lives' = lives /\ now' = now
    BY DEF SweepFails
  <2>2. due' \in Nat
    BY DEF SweepFails, GridInv, TypeOK
  <2>3. rows' \subseteq Rows
    BY <1>1 DEF GridInv, TypeOK
  <2> QED BY <1>1, <2>1, <2>2, <2>3 DEF GridInv, TypeOK
<1>3. ASSUME lives <= 1 PROVE Apart' /\ Spaced'
  <2>1. Apart'
    BY <1>1, <1>3, AddedApart DEF GridInv, TypeOK
  <2>2. due' >= turn
    BY DEF SweepFails, GridInv, TypeOK, InTurn
  <2>3. ASSUME NEW r \in rows', r.measured PROVE r.turn + Budget <= due'
    <3>1. r \in rows
      BY <1>1, <2>3
    <3>2. r.turn \in Nat /\ r.turn + Budget <= turn
      BY <1>1, <1>3, <2>3, <3>1 DEF GridInv, Spaced, TypeOK, Rows
    <3> QED BY <2>2, <3>2, <1>2 DEF GridInv, TypeOK
  <2> QED BY <1>1, <2>1, <2>3 DEF Spaced
<1>4. InTurn'
  BY <1>1, <1>2 DEF GridInv, InTurn, TypeOK
<1>5. lives' # 0
  BY <1>1, <1>2 DEF GridInv
<1> QED BY <1>1, <1>2, <1>3, <1>4, <1>5 DEF GridInv

\* In one life the turns of measured sweeps are a budget apart (wait_after_success),
\* and in every life no row begins before its turn (cycle, _scan).
THEOREM GridInvariant ==
    ASSUME Budget \in Nat, Recovery \in Nat
    PROVE  Spec => []GridInv
<1>1. Init => GridInv
  BY DEF Init, GridInv, TypeOK, Rows, Apart, Spaced, InTurn
<1>2. GridInv /\ [Next]_vars => GridInv'
  <2> SUFFICES ASSUME GridInv, [Next]_vars PROVE GridInv'
    OBVIOUS
  <2>1. CASE UNCHANGED vars
    BY <2>1 DEF vars, GridInv, TypeOK, Apart, Spaced, InTurn
  <2>2. CASE Tick
    BY <2>2 DEF Tick, GridInv, TypeOK, Apart, Spaced, InTurn
  <2>3. CASE Start
    <3>1. TypeOK' /\ lives' = lives + 1 /\ rows' = rows /\ state' = "waiting"
      BY <2>3 DEF Start, GridInv, TypeOK
    <3>2. lives' <= 1 => rows = {}
      BY <3>1 DEF GridInv, TypeOK
    <3> QED BY <3>1, <3>2 DEF GridInv, TypeOK, Apart, Spaced, InTurn
  <2>4. CASE TurnBegins
    <3>1. TypeOK' /\ rows' = rows /\ lives' = lives /\ turn' = now /\ now' = now /\ now >= due
      BY <2>4 DEF TurnBegins, GridInv, TypeOK
    <3>2. ASSUME lives <= 1, NEW r \in rows, r.measured PROVE r.turn + Budget <= turn'
      <4>1. r.turn \in Nat /\ r.turn + Budget <= due
        BY <2>4, <3>2 DEF TurnBegins, GridInv, Spaced, TypeOK, Rows
      <4> QED BY <3>1, <4>1 DEF GridInv, TypeOK
    <3>3. state' = "begun" /\ state = "waiting" /\ (lives <= 1 => Apart')
      BY <2>4, <3>1 DEF TurnBegins, GridInv, Apart
    <3>4. lives <= 1 => Spaced'
      BY <3>1, <3>2, <3>3 DEF Spaced
    <3>5. InTurn'
      BY <3>1, <3>3 DEF GridInv, InTurn, TypeOK
    <3> QED BY <3>1, <3>3, <3>4, <3>5 DEF GridInv, TypeOK
  <2>5. CASE SweepStarts
    BY <2>5 DEF SweepStarts, GridInv, TypeOK, Apart, Spaced, InTurn
  <2>6. CASE SweepSucceeds
    BY <2>6, SucceedsKeeps
  <2>7. CASE SweepFails
    BY <2>7, FailsKeeps
  <2>8. CASE ProcessEnds
    BY <2>8 DEF ProcessEnds, GridInv, TypeOK, Apart, Spaced, InTurn
  <2> QED BY <2>1, <2>2, <2>3, <2>4, <2>5, <2>6, <2>7, <2>8 DEF Next
<1> QED BY <1>1, <1>2, PTL DEF Spec

\* A window can be drawn if its sweeps are of one life of the process, each of its
\* rows begins no more than lag after its turn, and the slot, the usual duration in
\* whole minutes, leaves so much of the budget between two turns
\* (_canonical_time_grid, wait_after_success, _scan).
THEOREM OneLifeIsDrawn ==
    ASSUME Budget \in Nat, Recovery \in Nat, NEW from \in Nat, NEW lag \in Nat
    PROVE  Spec => []((/\ lives <= 1
                       /\ Prompt(DataRows(from), lag)
                       /\ Quantum(DataRows(from)) \in Nat
                       /\ Quantum(DataRows(from)) + lag <= Budget)
                      => OneToOne(DataRows(from), from))
<1> DEFINE data == DataRows(from)
           quantum == Quantum(data)
<1>1. ASSUME GridInv, lives <= 1, Prompt(data, lag), quantum \in Nat, quantum + lag <= Budget
      PROVE  OneToOne(data, from)
  <2> SUFFICES ASSUME NEW index \in 0 .. Window, NEW r \in data, NEW s \in data,
                      InSlot(r, from, index, quantum), InSlot(s, from, index, quantum), r # s
               PROVE  FALSE
    BY DEF OneToOne
  <2>1. r \in Rows /\ s \in Rows /\ r \in rows /\ s \in rows /\ r.measured /\ s.measured
    BY <1>1 DEF DataRows, GridInv, TypeOK
  <2>2. r.turn + Budget <= s.turn \/ s.turn + Budget <= r.turn
    BY <1>1, <2>1 DEF GridInv, Apart
  <2>3. /\ r.turn <= r.start /\ r.start <= r.turn + lag
        /\ s.turn <= s.start /\ s.start <= s.turn + lag
    BY <1>1, <2>1 DEF GridInv, InTurn, Prompt
  <2>4. r.turn \in Nat /\ r.start \in Nat /\ s.turn \in Nat /\ s.start \in Nat
    BY <2>1 DEF Rows
  <2> HIDE DEF quantum
  <2>5. r.start + quantum <= s.start \/ s.start + quantum <= r.start
    BY <1>1, <2>2, <2>3, <2>4
  <2>6. index \in Nat
    OBVIOUS
  <2> QED BY <1>1, <2>1, <2>5, <2>6, SlotHoldsOne
<1> QED BY <1>1, GridInvariant, PTL
=============================================================================
