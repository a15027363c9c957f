--------------------------- MODULE StationProofs ---------------------------
(***************************************************************************)
(* For every number of scans and every set of stubborn children: the one   *)
(* child that runs is the one the scanner's handle names, and nothing is   *)
(* left, and nothing comes later, once stop_active_process returned;       *)
(* whatever the station does to the scanner is a step of the scanner, so   *)
(* that this holds in the station too; the station lock covers what the    *)
(* station owns; and its exit code, its run summary and the health file    *)
(* tell one outcome, which is clean only when it was.                      *)
(***************************************************************************)
EXTENDS Station, TLAPS

-----------------------------------------------------------------------------
(* The scanner by itself.                                                  *)
(*                                                                         *)
(* The argument.  Between two scans nothing runs but stubborn children     *)
(* (StubbornOnly); during a scan the handle can be lost only by a stop     *)
(* that has already seen the child end (Named); a stop clears only a child *)
(* that has ended (Ended) and, because later starts are refused (Gated),   *)
(* the handle it read is the only one there will ever be (Last).           *)

StubbornOnly == scan \in {"idle", "start", "clear"} => running \subseteq Stubborn

Named == scan \in {"poll", "reap"} =>
            /\ running \subseteq Stubborn \union {spawned}
            /\ spawned \in running => active = spawned

Room  == scan = "start" => spawned < MaxScans
Ended == reaper = "clear" => handle \notin running
Gated == reaper # "idle" => shutdownRequested
Last  == reaper \in {"stop", "clear"} => active \in {0, handle}

IInv == /\ ScannerTypeOK /\ Room
        /\ StubbornOnly /\ Named /\ Ended
        /\ Gated /\ Last /\ StopIsFinal

(* The one child that is not stubborn is the one the handle names.         *)
LEMMA NamedIsOwned == IInv => OwnedChild
  BY DEF IInv, OwnedChild, StubbornOnly, Named, ScannerTypeOK, ScanStates

(* Without a handle, only stubborn children are left.                      *)
LEMMA NothingOwned == IInv /\ active = 0 => running \subseteq Stubborn
<1> SUFFICES ASSUME IInv, active = 0 PROVE running \subseteq Stubborn
  OBVIOUS
<1>1. running \ Stubborn \subseteq {0}
  BY NamedIsOwned DEF OwnedChild
<1>2. 0 \notin running
  BY DEF IInv, ScannerTypeOK
<1> QED BY <1>1, <1>2

LEMMA InitIInv == ScannerInit => IInv
<1> SUFFICES ASSUME ScannerInit PROVE IInv
  OBVIOUS
<1>1. ScannerTypeOK
  <2>1. spawned \in 0 .. MaxScans
    BY ScannerAssumption DEF ScannerInit
  <2>2. running \subseteq 1 .. spawned /\ active \in 0 .. spawned /\ handle \in 0 .. spawned
    BY DEF ScannerInit
  <2>3. stop \in BOOLEAN /\ shutdownRequested \in BOOLEAN
    BY DEF ScannerInit
  <2>4. scan \in ScanStates /\ result \in Results /\ reaper \in ReaperStates
    BY DEF ScannerInit, ScanStates, Results, ReaperStates
  <2> QED BY <2>1, <2>2, <2>3, <2>4 DEF ScannerTypeOK
<1>2. StubbornOnly /\ Named /\ Room
  BY DEF ScannerInit, StubbornOnly, Named, Room
<1>3. Ended /\ Gated /\ Last /\ StopIsFinal
  BY DEF ScannerInit, Ended, Gated, Last, StopIsFinal
<1> QED BY <1>1, <1>2, <1>3 DEF IInv

-----------------------------------------------------------------------------
(* The steps of the scan.                                                  *)

LEMMA ScanKeepsIInv == IInv /\ (Acquire \/ ScanStep \/ Taken \/ ChildEnds) => IInv'
<1> SUFFICES ASSUME IInv, Acquire \/ ScanStep \/ Taken \/ ChildEnds PROVE IInv'
  OBVIOUS
<1> USE ScannerAssumption DEF IInv, childVars, scanVars, reapVars
<1>1. CASE Acquire
  <2>1. ScannerTypeOK' /\ Room'
    BY <1>1 DEF Acquire, ScannerTypeOK, Room, ScanStates, Results, ReaperStates
  <2>2. StubbornOnly' /\ Named' /\ Ended'
    BY <1>1 DEF Acquire, ScannerTypeOK, StubbornOnly, Named, Ended
  <2>3. Gated' /\ Last' /\ StopIsFinal'
    BY <1>1 DEF Acquire, ScannerTypeOK, Gated, Last, StopIsFinal
  <2> QED BY <2>1, <2>2, <2>3
<1>2. CASE StartFails
  <2>1. ScannerTypeOK' /\ Room'
    BY <1>2 DEF StartFails, ScannerTypeOK, Room, ScanStates, Results, ReaperStates
  <2>2. StubbornOnly' /\ Named' /\ Ended'
    BY <1>2 DEF StartFails, ScannerTypeOK, StubbornOnly, Named, Ended
  <2>3. Gated' /\ Last' /\ StopIsFinal'
    BY <1>2 DEF StartFails, ScannerTypeOK, Gated, Last, StopIsFinal
  <2> QED BY <2>1, <2>2, <2>3
<1>3. CASE StartRefused
  <2>1. ScannerTypeOK' /\ Room'
    BY <1>3 DEF StartRefused, ScannerTypeOK, Room, ScanStates, Results, ReaperStates
  <2>2. StubbornOnly' /\ Named' /\ Ended'
    BY <1>3 DEF StartRefused, ScannerTypeOK, StubbornOnly, Named, Ended
  <2>3. Gated' /\ Last' /\ StopIsFinal'
    BY <1>3 DEF StartRefused, ScannerTypeOK, Gated, Last, StopIsFinal
  <2> QED BY <2>1, <2>2, <2>3
<1>4. CASE StartProcess
  <2>1. ScannerTypeOK' /\ Room'
    BY <1>4 DEF StartProcess, ScannerTypeOK, Room, ScanStates, Results, ReaperStates
  <2>2. StubbornOnly' /\ Named' /\ Ended'
    BY <1>4 DEF StartProcess, ScannerTypeOK, StubbornOnly, Named, Ended
  <2>3. Gated' /\ Last' /\ StopIsFinal'
    BY <1>4 DEF StartProcess, ScannerTypeOK, Gated, Last, StopIsFinal
  <2> QED BY <2>1, <2>2, <2>3
<1>5. CASE PollEnded
  <2>1. ScannerTypeOK' /\ Room'
    BY <1>5 DEF PollEnded, ScannerTypeOK, Room, ScanStates, Results, ReaperStates
  <2>2. StubbornOnly' /\ Named' /\ Ended'
    BY <1>5 DEF PollEnded, ScannerTypeOK, StubbornOnly, Named, Ended
  <2>3. Gated' /\ Last' /\ StopIsFinal'
    BY <1>5 DEF PollEnded, ScannerTypeOK, Gated, Last, StopIsFinal
  <2> QED BY <2>1, <2>2, <2>3
<1>6. CASE PollStopped
  <2>1. ScannerTypeOK' /\ Room'
    BY <1>6 DEF PollStopped, ScannerTypeOK, Room, ScanStates, Results, ReaperStates
  <2>2. StubbornOnly' /\ Named' /\ Ended'
    BY <1>6 DEF PollStopped, ScannerTypeOK, StubbornOnly, Named, Ended
  <2>3. Gated' /\ Last' /\ StopIsFinal'
    BY <1>6 DEF PollStopped, ScannerTypeOK, Gated, Last, StopIsFinal
  <2> QED BY <2>1, <2>2, <2>3
<1>7. CASE PollFailed
  <2>1. ScannerTypeOK' /\ Room'
    BY <1>7 DEF PollFailed, ScannerTypeOK, Room, ScanStates, Results, ReaperStates
  <2>2. StubbornOnly' /\ Named' /\ Ended'
    BY <1>7 DEF PollFailed, ScannerTypeOK, StubbornOnly, Named, Ended
  <2>3. Gated' /\ Last' /\ StopIsFinal'
    BY <1>7 DEF PollFailed, ScannerTypeOK, Gated, Last, StopIsFinal
  <2> QED BY <2>1, <2>2, <2>3
<1>8. CASE Reap
  <2>1. ScannerTypeOK' /\ Room'
    BY <1>8 DEF Reap, ScannerTypeOK, Room, ScanStates, Results, ReaperStates
  <2>2. StubbornOnly' /\ Named' /\ Ended'
    BY <1>8 DEF Reap, ScannerTypeOK, StubbornOnly, Named, Ended
  <2>3. Gated' /\ Last' /\ StopIsFinal'
    BY <1>8 DEF Reap, ScannerTypeOK, Gated, Last, StopIsFinal
  <2> QED BY <2>1, <2>2, <2>3
<1>9. CASE ReapTimesOut
  <2>1. ScannerTypeOK' /\ Room'
    BY <1>9 DEF ReapTimesOut, ScannerTypeOK, Room, ScanStates, Results, ReaperStates
  <2>2. StubbornOnly' /\ Named' /\ Ended'
    BY <1>9 DEF ReapTimesOut, ScannerTypeOK, StubbornOnly, Named, Ended
  <2>3. Gated' /\ Last' /\ StopIsFinal'
    BY <1>9 DEF ReapTimesOut, ScannerTypeOK, Gated, Last, StopIsFinal
  <2> QED BY <2>1, <2>2, <2>3
<1>10. CASE ClearProcess
  <2>1. ScannerTypeOK' /\ Room'
    BY <1>10 DEF ClearProcess, Cleared, ScannerTypeOK, Room, ScanStates, Results,
                 ReaperStates
  <2>2. StubbornOnly' /\ Named' /\ Ended'
    BY <1>10 DEF ClearProcess, Cleared, ScannerTypeOK, StubbornOnly, Named, Ended
  <2>3. Gated' /\ Last' /\ StopIsFinal'
    BY <1>10 DEF ClearProcess, Cleared, ScannerTypeOK, Gated, Last, StopIsFinal
  <2> QED BY <2>1, <2>2, <2>3
<1>11. CASE Taken
  <2>1. ScannerTypeOK' /\ Room'
    BY <1>11 DEF Taken, ScannerTypeOK, Room, ScanStates, Results, ReaperStates
  <2>2. StubbornOnly' /\ Named' /\ Ended'
    BY <1>11 DEF Taken, ScannerTypeOK, StubbornOnly, Named, Ended
  <2>3. Gated' /\ Last' /\ StopIsFinal'
    BY <1>11 DEF Taken, ScannerTypeOK, Gated, Last, StopIsFinal
  <2> QED BY <2>1, <2>2, <2>3
<1>12. CASE ChildEnds
  <2>1. ScannerTypeOK' /\ Room'
    BY <1>12 DEF ChildEnds, ScannerTypeOK, Room, ScanStates, Results, ReaperStates
  <2>2. StubbornOnly' /\ Named' /\ Ended'
    BY <1>12 DEF ChildEnds, ScannerTypeOK, StubbornOnly, Named, Ended
  <2>3. Gated' /\ Last' /\ StopIsFinal'
    BY <1>12 DEF ChildEnds, ScannerTypeOK, Gated, Last, StopIsFinal
  <2> QED BY <2>1, <2>2, <2>3
<1> QED BY <1>1, <1>2, <1>3, <1>4, <1>5, <1>6, <1>7, <1>8, <1>9, <1>10, <1>11, <1>12 DEF ScanStep

-----------------------------------------------------------------------------
(* The steps of the stop.                                                  *)

LEMMA StopKeepsIInv == IInv /\ (SetStop \/ StopLookup \/ StopStep(TRUE)) => IInv'
<1> SUFFICES ASSUME IInv, SetStop \/ StopLookup \/ StopStep(TRUE) PROVE IInv'
  OBVIOUS
<1> USE ScannerAssumption DEF IInv, childVars, scanVars, reapVars
<1>1. CASE SetStop
  <2>1. ScannerTypeOK' /\ Room'
    BY <1>1 DEF SetStop, ScannerTypeOK, Room, ScanStates, Results, ReaperStates
  <2>2. StubbornOnly' /\ Named' /\ Ended' /\ Gated' /\ Last'
    BY <1>1 DEF SetStop, ScannerTypeOK, StubbornOnly, Named, Ended, Gated, Last
  <2>3. StopIsFinal'
    BY <1>1 DEF SetStop, StopIsFinal
  <2> QED BY <2>1, <2>2, <2>3
<1>2. CASE StopLookup
  <2>1. ScannerTypeOK' /\ Room'
    BY <1>2 DEF StopLookup, ScannerTypeOK, Room, ScanStates, Results, ReaperStates
  <2>2. StubbornOnly' /\ Named' /\ Ended' /\ Gated' /\ Last'
    BY <1>2 DEF StopLookup, ScannerTypeOK, StubbornOnly, Named, Ended, Gated, Last
  <2>3. StopIsFinal'
    BY <1>2, NothingOwned DEF StopLookup, StopIsFinal
  <2> QED BY <2>1, <2>2, <2>3
<1>3. CASE StopReap
  <2>1. ScannerTypeOK' /\ Room'
    BY <1>3 DEF StopReap, ScannerTypeOK, Room, ScanStates, Results, ReaperStates
  <2>2. StubbornOnly' /\ Named' /\ Ended' /\ Gated' /\ Last'
    BY <1>3 DEF StopReap, ScannerTypeOK, StubbornOnly, Named, Ended, Gated, Last
  <2>3. StopIsFinal'
    BY <1>3 DEF StopReap, StopIsFinal
  <2> QED BY <2>1, <2>2, <2>3
<1>4. CASE StopTimesOut(TRUE)
  <2>1. ScannerTypeOK' /\ Room'
    BY <1>4 DEF StopTimesOut, ScannerTypeOK, Room, ScanStates, Results, ReaperStates
  <2>2. StubbornOnly' /\ Named' /\ Ended' /\ Gated' /\ Last'
    BY <1>4 DEF StopTimesOut, ScannerTypeOK, StubbornOnly, Named, Ended, Gated, Last
  <2>3. StopIsFinal'
    BY <1>4 DEF StopTimesOut, StopIsFinal
  <2> QED BY <2>1, <2>2, <2>3
<1>5. CASE StopClear
  <2>1. ScannerTypeOK' /\ Room'
    BY <1>5 DEF StopClear, Cleared, ScannerTypeOK, Room, ScanStates, Results, ReaperStates
  <2>2. StubbornOnly' /\ Named' /\ Ended' /\ Gated' /\ Last'
    BY <1>5 DEF StopClear, Cleared, ScannerTypeOK, StubbornOnly, Named, Ended, Gated, Last
  <2>3. StopIsFinal'
    <3>1. active \in {0, handle} /\ handle \notin running
      BY <1>5 DEF StopClear, Last, Ended
    <3>2. running \subseteq Stubborn
      BY <3>1, NamedIsOwned, NothingOwned DEF OwnedChild
    <3> QED BY <1>5, <3>1, <3>2 DEF StopClear, StopIsFinal, Cleared
  <2> QED BY <2>1, <2>2, <2>3
<1> QED BY <1>1, <1>2, <1>3, <1>4, <1>5 DEF StopStep

-----------------------------------------------------------------------------
(* The invariant is inductive for the scanner by itself, and so for every  *)
(* specification whose steps are the scanner's.                            *)
LEMMA NextKeepsIInv == IInv /\ [ScannerNext]_scannerVars => IInv'
<1> SUFFICES ASSUME IInv, [ScannerNext]_scannerVars PROVE IInv'
  OBVIOUS
<1>1. CASE ScannerNext
  BY <1>1, ScanKeepsIInv, StopKeepsIInv DEF ScannerNext
<1>2. CASE UNCHANGED scannerVars
  BY <1>2 DEF scannerVars, childVars, scanVars, reapVars, IInv, ScannerTypeOK, Room,
              StubbornOnly, Named, Ended, Gated, Last, StopIsFinal
<1> QED BY <1>1, <1>2

(* Every reachable state of the scanner satisfies the inductive invariant. *)
THEOREM ScannerInductive == ScannerSpec => []IInv
  BY InitIInv, NextKeepsIInv, PTL DEF ScannerSpec

(* The scanner's variables keep their types, and no more than MaxScans     *)
(* children are started: the handle always names one that was.             *)
THEOREM ScannerTypeCorrect == ScannerSpec => []ScannerTypeOK
<1>1. IInv => ScannerTypeOK
  BY DEF IInv
<1> QED BY <1>1, ScannerInductive, PTL

(* Two children that end when they are killed never run at the same time,  *)
(* and the supervisor can find the one that does.                          *)
THEOREM ScannerOwnsItsChild == ScannerSpec => []OwnedChild
  BY NamedIsOwned, ScannerInductive, PTL

(* However acquire and stop_active_process interleave: once it returned,   *)
(* no child is owned and none will be started.                             *)
THEOREM StopLeavesNothing == ScannerSpec => []StopIsFinal
<1>1. IInv => StopIsFinal
  BY DEF IInv
<1> QED BY <1>1, ScannerInductive, PTL

-----------------------------------------------------------------------------
(* What a step of the station is to the scanner.                           *)

ScannerMoves == [ScannerNext]_scannerVars

(* The acquisition thread acquires, takes what it got, or fails and stops  *)
(* the station.                                                            *)
LEMMA AcqMoves == AcqStep => ScannerMoves
<1> SUFFICES ASSUME AcqStep PROVE ScannerMoves
  OBVIOUS
<1> USE DEF ScannerMoves
<1>1. CASE AcqBegin \/ AcqRecords \/ AcqSave \/ AcqTop \/ AcqStops \/ AcqDown
  BY <1>1 DEF AcqBegin, AcqRecords, AcqSave, AcqTop, AcqStops, AcqDown
<1>2. CASE AcqScan
  BY <1>2 DEF AcqScan, ScannerNext
<1>3. CASE AcqStored \/ AcqRefused \/ AcqInterrupted
  BY <1>3 DEF AcqStored, AcqRefused, AcqInterrupted, ScannerNext
<1>4. CASE AcqEnds
  <2>1. CASE acqFailed \/ ~stop
    BY <1>4, <2>1 DEF AcqEnds, Record, ScannerNext, SetStop
  <2>2. CASE ~(acqFailed \/ ~stop)
    BY <1>4, <2>2 DEF AcqEnds, scannerVars
  <2> QED BY <2>1, <2>2
<1> QED BY <1>1, <1>2, <1>3, <1>4 DEF AcqStep

LEMMA ChildMoves == ChildStep => ScannerMoves
  BY DEF ChildStep, ScannerNext, ScannerMoves

(* A stop that may be late is one the scanner allows.                      *)
LEMMA ReapMoves == ReapStep => ScannerMoves
  BY DEF ReapStep, StopStep, StopTimesOut, ScannerNext, ScannerMoves

(* The other threads stop the station, and do nothing else to the scanner. *)
LEMMA HelperMoves == HelperStep => ScannerMoves
<1> SUFFICES ASSUME HelperStep PROVE ScannerMoves
  OBVIOUS
<1> USE DEF ScannerMoves
<1>1. ASSUME NEW t \in Runtimes, TurnEnds(t) \/ HelperSaves(t) \/ RuntimeEnds(t)
      PROVE  ScannerMoves
  BY <1>1 DEF TurnEnds, HelperSaves, RuntimeEnds
<1>2. ASSUME NEW t \in Runtimes, RuntimeCrashes(t) PROVE ScannerMoves
  BY <1>2 DEF RuntimeCrashes, Record, ScannerNext, SetStop
<1>3. ASSUME NEW t \in Closes, CloseEnds(t) PROVE ScannerMoves
  BY <1>3 DEF CloseEnds
<1>4. CASE WriterFails
  <2>1. CASE stop
    BY <1>4, <2>1 DEF WriterFails, scannerVars
  <2>2. CASE ~stop
    BY <1>4, <2>2 DEF WriterFails, Record, ScannerNext, SetStop
  <2> QED BY <2>1, <2>2
<1>5. CASE ReportRecords \/ WriterStores \/ WriterStored \/ WriterEnds
  BY <1>5 DEF ReportRecords, WriterStores, WriterStored, WriterEnds
<1> QED BY <1>1, <1>2, <1>3, <1>4, <1>5 DEF HelperStep

LEMMA StartMoves == StartStep \/ StopRequested => ScannerMoves
<1> SUFFICES ASSUME StartStep \/ StopRequested PROVE ScannerMoves
  OBVIOUS
<1> USE DEF ScannerMoves
<1>1. CASE Construct
  BY <1>1 DEF Construct
<1>2. CASE ConstructFails
  BY <1>2 DEF ConstructFails, ScannerNext, SetStop
<1>3. ASSUME NEW n \in 0 .. 5, Start(n) PROVE ScannerMoves
  <2>1. UNCHANGED <<childVars, scanVars, reapVars>>
    BY <1>3 DEF Start
  <2>2. stop' = IF n = Len(StartOrder) THEN stop ELSE TRUE
    BY <1>3, Zenon DEF Start
  <2>3. stop' = stop \/ stop' = TRUE
    BY <2>2
  <2> QED BY <2>1, <2>3 DEF ScannerNext, SetStop, scannerVars
<1>4. CASE StopRequested
  BY <1>4 DEF StopRequested, ScannerNext
<1> QED BY <1>1, <1>2, <1>3, <1>4 DEF StartStep

-----------------------------------------------------------------------------
(* The supervisor stops the child only after it has set stop.              *)

Running  == {"construct", "start", "main"}
Stopping == sup \notin Running => stop

LEMMA ShutdownMoves == Stopping /\ ShutdownStep => ScannerMoves
<1> SUFFICES ASSUME Stopping, ShutdownStep PROVE ScannerMoves
  OBVIOUS
<1> USE DEF ScannerMoves
<1>1. CASE StopScanner
  BY <1>1 DEF StopScanner, Stopping, Running, Go, ScannerNext
<1>2. CASE MainEnds \/ ScannerStopped \/ NoLateScanner \/ AskSampler
  BY <1>2 DEF MainEnds, ScannerStopped, NoLateScanner, AskSampler
<1>3. CASE JoinSampler \/ JoinAcquisition \/ JoinReport \/ JoinTelegram
  BY <1>3 DEF JoinSampler, JoinAcquisition, JoinReport, JoinTelegram, Join
<1>4. CASE \/ CloseSink \/ SinkWriterJoined \/ SinkCloses
             \/ QueryIncidents \/ CloseReports \/ ReportsClosed
  BY <1>4 DEF CloseSink, SinkWriterJoined, SinkCloses, QueryIncidents, CloseReports,
              ReportsClosed
<1> QED BY <1>1, <1>2, <1>3, <1>4 DEF ShutdownStep

LEMMA OutcomeMoves == OutcomeStep \/ Expire \/ ProcessExits => ScannerMoves
<1> SUFFICES ASSUME OutcomeStep \/ Expire \/ ProcessExits PROVE ScannerMoves
  OBVIOUS
<1> USE DEF ScannerMoves, OutcomeFrame
<1>1. CASE Capture \/ Decide \/ Publish \/ Published \/ PublishFails
  BY <1>1 DEF Capture, Decide, Publish, Published, PublishFails
<1>2. CASE Summarise \/ SummaryFails \/ Return
  BY <1>2 DEF Summarise, SummaryFails, Return
<1>3. CASE Expire \/ ProcessExits
  BY <1>3 DEF Expire, ProcessExits
<1> QED BY <1>1, <1>2, <1>3 DEF OutcomeStep

LEMMA GuardianMoves == Stopping /\ GuardianStep => ScannerMoves
<1> SUFFICES ASSUME Stopping, GuardianStep PROVE ScannerMoves
  OBVIOUS
<1>1. CASE GuardianJoins
  BY <1>1 DEF GuardianJoins, Stopping, Running, ScannerNext, ScannerMoves
<1>2. CASE GuardianReleases
  BY <1>2 DEF GuardianReleases, ScannerMoves
<1> QED BY <1>1, <1>2 DEF GuardianStep

LEMMA StationMoves == Stopping /\ [Next]_vars => ScannerMoves
<1> SUFFICES ASSUME Stopping, [Next]_vars PROVE ScannerMoves
  OBVIOUS
<1>1. CASE UNCHANGED vars
  BY <1>1 DEF vars, ScannerMoves
<1>2. CASE Next
  BY <1>2, AcqMoves, ChildMoves, ReapMoves, HelperMoves, StartMoves, ShutdownMoves,
     OutcomeMoves, GuardianMoves DEF Next
<1> QED BY <1>1, <1>2

(* No step of the scanner takes stop back.                                 *)
LEMMA StopStays == stop /\ ScannerMoves => stop'
<1> SUFFICES ASSUME stop, ScannerMoves PROVE stop'
  OBVIOUS
<1>1. CASE UNCHANGED scannerVars
  BY <1>1 DEF scannerVars
<1>2. CASE SetStop
  BY <1>2 DEF SetStop
<1>3. CASE Acquire \/ Taken \/ ChildEnds \/ StopLookup
  BY <1>3 DEF Acquire, Taken, ChildEnds, StopLookup
<1>4. CASE ScanStep
  BY <1>4 DEF ScanStep, StartFails, StartRefused, StartProcess, PollEnded, PollStopped,
              PollFailed, Reap, ReapTimesOut, ClearProcess
<1>5. CASE StopStep(TRUE)
  BY <1>5 DEF StopStep, StopReap, StopTimesOut, StopClear
<1> QED BY <1>1, <1>2, <1>3, <1>4, <1>5 DEF ScannerMoves, ScannerNext

\* What the acquisition thread leaves alone.
LEMMA AcqLeaves == AcqStep => AcqFrame
<1> USE DEF AcqFrame
<1>1. CASE AcqBegin \/ AcqTop \/ AcqDown
  BY <1>1 DEF AcqBegin, AcqTop, AcqDown, Observe, Tell
<1>2. CASE AcqRecords \/ AcqSave \/ AcqStops \/ AcqScan \/ AcqInterrupted \/ AcqEnds
  BY <1>2 DEF AcqRecords, AcqSave, AcqStops, AcqScan, AcqInterrupted, AcqEnds
<1>3. CASE AcqStored \/ AcqRefused
  BY <1>3 DEF AcqStored, AcqRefused, ObserveSweep, ObserveFailure, Tell
<1> QED BY <1>1, <1>2, <1>3 DEF AcqStep

\* What every other thread leaves alone; only the writer takes from the queue.
LEMMA HelperLeaves ==
  HelperStep => UNCHANGED <<acq, acqNext, acqFailed, failing, sup, unstopped, survivors,
  endVars>>
<1> USE DEF acqVars, ThreadFrame, WriterFrame
<1>1. ASSUME NEW t \in Runtimes,
             TurnEnds(t) \/ HelperSaves(t) \/ RuntimeEnds(t) \/ RuntimeCrashes(t)
      PROVE  ThreadFrame
  BY <1>1 DEF TurnEnds, HelperSaves, RuntimeEnds, RuntimeCrashes
<1>2. ASSUME NEW t \in Closes, CloseEnds(t) PROVE ThreadFrame
  BY <1>2 DEF CloseEnds
<1>3. CASE ReportRecords \/ WriterStored \/ WriterEnds
  BY <1>3 DEF ReportRecords, WriterStored, WriterEnds
<1>4. CASE WriterStores \/ WriterFails
  BY <1>4 DEF WriterStores, WriterFails
<1> QED BY <1>1, <1>2, <1>3, <1>4 DEF HelperStep

(* The supervisor leaves the startup and the main loop only with stop set. *)
LEMMA LeavesStopped == [Next]_vars /\ sup \in Running /\ sup' \notin Running => stop'
<1> SUFFICES ASSUME [Next]_vars, sup \in Running, sup' \notin Running PROVE stop'
  OBVIOUS
<1> USE DEF Running, Go
<1>1. sup' # sup
  OBVIOUS
<1>2. CASE AcqStep
  <2>1. UNCHANGED sup
    BY <1>2, AcqLeaves DEF AcqFrame
  <2> QED BY <1>1, <2>1
<1>3. CASE ChildStep \/ ReapStep
  BY <1>1, <1>3 DEF ChildStep, ReapStep
<1>4. CASE HelperStep
  BY <1>1, <1>4, HelperLeaves
<1>5. CASE Construct \/ StopRequested \/ Expire \/ GuardianStep
  BY <1>1, <1>5 DEF Construct, StopRequested, Expire, GuardianStep, GuardianJoins,
                    GuardianReleases, GuardianFrame
<1>6. CASE ConstructFails
  BY <1>6 DEF ConstructFails
<1>7. ASSUME NEW n \in 0 .. 5, Start(n) PROVE stop'
  <2>1. sup' = (IF n = Len(StartOrder) THEN "main" ELSE "lookup")
    BY <1>7, Zenon DEF Start
  <2>2. stop' = IF n = Len(StartOrder) THEN stop ELSE TRUE
    BY <1>7, Zenon DEF Start
  <2> QED BY <2>1, <2>2
<1>8. CASE ShutdownStep
  <2>1. CASE MainEnds
    BY <2>1 DEF MainEnds, scannerVars
  <2>2. CASE StopScanner \/ ScannerStopped \/ NoLateScanner \/ AskSampler
    BY <2>2 DEF StopScanner, ScannerStopped, NoLateScanner, AskSampler
  <2>3. CASE JoinSampler \/ JoinAcquisition \/ JoinReport \/ JoinTelegram
    BY <2>3 DEF JoinSampler, JoinAcquisition, JoinReport, JoinTelegram
  <2>4. CASE \/ CloseSink \/ SinkWriterJoined \/ SinkCloses
             \/ QueryIncidents \/ CloseReports \/ ReportsClosed
    BY <2>4 DEF CloseSink, SinkWriterJoined, SinkCloses, QueryIncidents, CloseReports,
                ReportsClosed
  <2> QED BY <1>8, <2>1, <2>2, <2>3, <2>4 DEF ShutdownStep
<1>9. CASE OutcomeStep \/ ProcessExits
  BY <1>9 DEF OutcomeStep, Capture, Decide, Publish, Published, PublishFails, Summarise,
              SummaryFails, Return, ProcessExits
<1> QED BY <1>1, <1>2, <1>3, <1>4, <1>5, <1>6, <1>7, <1>8, <1>9
        DEF Next, StartStep, vars

LEMMA StoppingInvariant == Spec => []Stopping
<1>1. Init => Stopping
  BY DEF Init, Stopping, Running
<1>2. Stopping /\ [Next]_vars => Stopping'
  BY StationMoves, StopStays, LeavesStopped DEF Stopping
<1> QED BY <1>1, <1>2, PTL DEF Spec

(* Whatever the acquisition thread, the supervisor and the guardian do to  *)
(* the scanner, in every order, is a behaviour of module Scanner.          *)
THEOREM StationDrivesScanner == Spec => ScannerSpec
<1>1. Init => ScannerInit
  BY DEF Init
<1>2. Stopping /\ [Next]_vars => [ScannerNext]_scannerVars
  BY StationMoves DEF ScannerMoves
<1> QED BY <1>1, <1>2, StoppingInvariant, PTL DEF Spec, ScannerSpec

(* So no child of the station runs that its scanner has lost sight of, but *)
(* a stubborn one, and a stop is final.                        *)
THEOREM StationOwnsItsChild == Spec => [](OwnedChild /\ StopIsFinal)
  BY StationDrivesScanner, ScannerOwnsItsChild, StopLeavesNothing, PTL

-----------------------------------------------------------------------------
(* Type correctness.                                                       *)

LEMMA AcqTypes == OwnTypeOK /\ (AcqStep) => OwnTypeOK'
<1> SUFFICES ASSUME OwnTypeOK, AcqStep PROVE OwnTypeOK'
  OBVIOUS
<1> USE QueueAssumption
    DEF OwnTypeOK, AcqStates, ThreadStates, SupStates, acqVars, healthVars, failVars,
        endVars
<1>1. CASE AcqBegin
  BY <1>1 DEF AcqBegin, Observe, Tell, Take, AcqFrame
<1>2. CASE AcqSave
  <2>1. CASE SaveOK
    <3>1. file' \in BOOLEAN
      BY <2>1, Zenon DEF SaveOK
    <3>2. acqFailed' \in BOOLEAN /\ acq' \in AcqStates
      BY <1>2 DEF AcqSave
    <3>3. holder' = "none"
      BY <2>1 DEF SaveOK
    <3>4. UNCHANGED <<failing, queued, app, shut, thread, sink, sup, broken, unstopped,
                       survivors, endVars>>
          /\ acqNext' = "top"
      BY <1>2 DEF AcqSave, AcqFrame
    <3> QED BY <3>1, <3>2, <3>3, <3>4
  <2>2. CASE ~SaveOK
    <3>1. holder' = "none" /\ file' = file /\ acqFailed' = TRUE /\ acq' \in AcqStates
      BY <1>2, <2>2 DEF AcqSave, SaveFails
    <3>2. UNCHANGED <<failing, queued, app, shut, thread, sink, sup, broken, unstopped,
                       survivors, endVars>>
          /\ acqNext' = "top"
      BY <1>2 DEF AcqSave, AcqFrame
    <3> QED BY <3>1, <3>2
  <2> QED BY <2>1, <2>2
<1>3. CASE AcqTop
  BY <1>3 DEF AcqTop, Observe, Tell, Take, AcqFrame
<1>4. CASE AcqStops
  BY <1>4 DEF AcqStops, AcqFrame
<1>5. CASE AcqScan
  BY <1>5 DEF AcqScan, AcqFrame
<1>6. CASE AcqStored
  <2>1. queued' \in 0 .. QueueBound /\ acqFailed' = acqFailed
    BY <1>6 DEF AcqStored
  <2>2. PICK first \in {"incident", "save"} :
           Tell("fine", first, "top") /\ failing' \in BOOLEAN
    BY <1>6 DEF AcqStored, ObserveFailure, ObserveSweep
  <2> QED BY <2>1, <2>2 DEF Tell, Take, AcqFrame
<1>7. CASE AcqRefused
  <2>1. acqFailed' = TRUE /\ queued' = queued
    BY <1>7 DEF AcqRefused
  <2>2. CASE ObserveFailure("down")
    BY <2>1, <2>2 DEF ObserveFailure, Tell, Take, AcqFrame
  <2>3. CASE /\ acq' = "down"
             /\ UNCHANGED <<acqNext, failing, healthVars, broken>> /\ AcqFrame
    BY <2>1, <2>3 DEF AcqFrame
  <2> QED BY <1>7, <2>2, <2>3 DEF AcqRefused
<1>8. CASE AcqInterrupted
  BY <1>8 DEF AcqInterrupted, AcqFrame
<1>9. CASE AcqDown
  BY <1>9 DEF AcqDown, Observe, Tell, Take, AcqFrame
<1>10. CASE AcqEnds
  <2>1. broken' \in BOOLEAN /\ app' \in {"fine", "failed"}
    <3>1. CASE acqFailed \/ ~stop
      BY <1>10, <3>1 DEF AcqEnds, Record
    <3>2. CASE ~(acqFailed \/ ~stop)
      BY <1>10, <3>2 DEF AcqEnds
    <3> QED BY <3>1, <3>2
  <2>2. acq' = "ended"
        /\ UNCHANGED <<acqNext, acqFailed, failing, queued, holder, shut, file, thread,
        sink, sup,
                       unstopped, survivors, endVars>>
    BY <1>10 DEF AcqEnds, AcqFrame
  <2> QED BY <2>1, <2>2
<1>11. CASE AcqRecords
  BY <1>11 DEF AcqRecords, AcqFrame
<1> QED BY <1>1, <1>2, <1>3, <1>4, <1>5, <1>6, <1>7, <1>8, <1>9, <1>10, <1>11 DEF AcqStep

LEMMA HelperTypes == OwnTypeOK /\ (HelperStep) => OwnTypeOK'
<1> SUFFICES ASSUME OwnTypeOK, HelperStep PROVE OwnTypeOK'
  OBVIOUS
<1> USE QueueAssumption
    DEF OwnTypeOK, AcqStates, ThreadStates, SupStates, acqVars, healthVars, failVars,
        endVars
<1>1. ASSUME NEW t \in Runtimes, TurnEnds(t) PROVE OwnTypeOK'
  <2>1. thread' \in [Threads -> ThreadStates]
    BY <1>1 DEF TurnEnds, Move
  <2>2. holder' \in {"none", "acquisition", "report", "sampler", "supervisor"}
    BY <1>1 DEF TurnEnds, Take, Runtimes
  <2>3. UNCHANGED <<acqVars, sink, app, shut, file, sup, failVars, endVars>>
    BY <1>1 DEF TurnEnds, ThreadFrame
  <2> QED BY <2>1, <2>2, <2>3
<1>2. ASSUME NEW t \in Runtimes, HelperSaves(t) PROVE OwnTypeOK'
  <2>1. file' \in BOOLEAN
    <3>1. CASE SaveOK
      BY <3>1, Zenon DEF SaveOK
    <3>2. CASE SaveFails
      BY <3>2 DEF SaveFails
    <3> QED BY <1>2, <3>1, <3>2 DEF HelperSaves
  <2>2. holder' = "none"
    BY <1>2 DEF HelperSaves, SaveOK, SaveFails
  <2>3. thread' \in [Threads -> ThreadStates]
    BY <1>2 DEF HelperSaves, Move
  <2>4. UNCHANGED <<acqVars, app, shut, sink, sup, failVars, endVars>>
    BY <1>2 DEF HelperSaves, ThreadFrame
  <2> QED BY <2>1, <2>2, <2>3, <2>4
<1>3. ASSUME NEW t \in Runtimes, RuntimeEnds(t) PROVE OwnTypeOK'
  BY <1>3 DEF RuntimeEnds, Move, ThreadFrame, Runtimes, Threads
<1>4. ASSUME NEW t \in Runtimes, RuntimeCrashes(t) PROVE OwnTypeOK'
  BY <1>4 DEF RuntimeCrashes, Record, Move, ThreadFrame, Runtimes, Threads
<1>5. ASSUME NEW t \in Closes, CloseEnds(t) PROVE OwnTypeOK'
  BY <1>5 DEF CloseEnds, Move, ThreadFrame, Closes, Threads
<1>6. CASE WriterFails
  <2>1. broken' \in BOOLEAN /\ app' \in {"fine", "failed"}
    <3>1. CASE stop
      BY <1>6, <3>1 DEF WriterFails
    <3>2. CASE ~stop
      BY <1>6, <3>2 DEF WriterFails, Record
    <3> QED BY <3>1, <3>2
  <2>2. thread' \in [Threads -> ThreadStates]
    BY <1>6 DEF WriterFails, Move
  <2>3. sink' = "failed" /\ queued' = 0
        /\ UNCHANGED <<acq, acqNext, acqFailed, failing, holder, shut, file, sup,
                       unstopped, survivors, endVars>>
    BY <1>6 DEF WriterFails, WriterFrame
  <2> QED BY <2>1, <2>2, <2>3
<1>7. CASE WriterStores
  <2>1. queued' \in 0 .. QueueBound
    BY <1>7 DEF WriterStores
  <2>2. thread' \in [Threads -> ThreadStates]
    BY <1>7 DEF WriterStores, Move
  <2>3. UNCHANGED <<acq, acqNext, acqFailed, failing, sink, healthVars, sup, failVars,
  endVars>>
    BY <1>7 DEF WriterStores, WriterFrame
  <2> QED BY <2>1, <2>2, <2>3
<1>8. CASE ReportRecords \/ WriterStored \/ WriterEnds
  <2>1. thread' \in [Threads -> ThreadStates]
    BY <1>8 DEF ReportRecords, WriterStored, WriterEnds, Move
  <2>2. UNCHANGED <<acqVars, sink, healthVars, sup, failVars, endVars>>
    BY <1>8 DEF ReportRecords, WriterStored, WriterEnds, ThreadFrame
  <2> QED BY <2>1, <2>2
<1> QED BY <1>1, <1>2, <1>3, <1>4, <1>5, <1>6, <1>7, <1>8 DEF HelperStep

LEMMA StartTypes == OwnTypeOK /\ (StartStep \/ StopRequested \/ Expire) => OwnTypeOK'
<1> SUFFICES ASSUME OwnTypeOK, StartStep \/ StopRequested \/ Expire PROVE OwnTypeOK'
  OBVIOUS
<1> USE DEF OwnTypeOK, AcqStates, ThreadStates, SupStates, acqVars, healthVars, failVars,
            endVars
<1>1. CASE Construct
  BY <1>1 DEF Construct, Go
<1>2. CASE ConstructFails
  BY <1>2 DEF ConstructFails, Go, Closes, Threads, Owned
<1>3. ASSUME NEW n \in 0 .. 5, Start(n) PROVE OwnTypeOK'
  BY <1>3 DEF Start, Go, Threads, StartOrder
<1>4. CASE StopRequested
  BY <1>4 DEF StopRequested
<1>5. CASE Expire
  BY <1>5 DEF Expire
<1> QED BY <1>1, <1>2, <1>3, <1>4, <1>5 DEF StartStep

\* What an entry of category shutdown makes of the three it changes.
LEMMA UnstoppedTypes ==
  ASSUME NEW who \in SUBSET {"rtl_power", "acquisition", "storage", "other"},
         OwnTypeOK, Unstopped(who)
  PROVE  /\ unstopped' \subseteq {"rtl_power", "acquisition", "storage", "other"}
         /\ app' \in {"fine", "failed"} /\ shut' \in {"incomplete", "complete"}
<1>1. CASE who = {}
  BY <1>1 DEF Unstopped, OwnTypeOK
<1>2. CASE who # {}
  BY <1>2 DEF Unstopped, OwnTypeOK
<1> QED BY <1>1, <1>2

LEMMA ShutdownTypes == OwnTypeOK /\ (ShutdownStep) => OwnTypeOK'
<1> SUFFICES ASSUME OwnTypeOK, ShutdownStep PROVE OwnTypeOK'
  OBVIOUS
<1> USE DEF OwnTypeOK, AcqStates, ThreadStates, SupStates, acqVars, healthVars, failVars,
            endVars
<1>1. CASE MainEnds
  BY <1>1 DEF MainEnds, Go
<1>2. CASE StopScanner
  BY <1>2 DEF StopScanner, Go, Quiet
<1>3. CASE ScannerStopped
  BY <1>3 DEF ScannerStopped, Go, QuietBut, Unstopped, Owned
<1>4. CASE NoLateScanner
  BY <1>4 DEF NoLateScanner, Go
<1>5. CASE AskSampler
  BY <1>5 DEF AskSampler, Go, Quiet
<1>6. CASE JoinSampler
  BY <1>6 DEF JoinSampler, Go, Join, Unstopped, QuietBut, Owned, Threads, Runtimes
<1>7. CASE JoinAcquisition
  BY <1>7 DEF JoinAcquisition, Go, Join, Unstopped, QuietBut, Owned
<1>8. CASE JoinReport
  BY <1>8 DEF JoinReport, Go, Join, Unstopped, QuietBut, Owned, Threads, Runtimes
<1>9. CASE JoinTelegram
  BY <1>9 DEF JoinTelegram, Go, Join, Unstopped, QuietBut, Owned, Threads, Runtimes
<1>10. CASE CloseSink
  BY <1>10 DEF CloseSink, Go
<1>11. CASE SinkWriterJoined
  BY <1>11 DEF SinkWriterJoined, Go, Move, Quiet, Threads, Closes
<1>12. CASE SinkCloses
  <2>1. PICK who \in SUBSET {"rtl_power", "acquisition", "storage",
  "other"} : Unstopped(who)
    BY <1>12 DEF SinkCloses
  <2>2. sink' \in {"unstarted", "open", "failed", "closing", "closed"} /\ sup' \in SupStates
    BY <1>12 DEF SinkCloses, Go
  <2>3. UNCHANGED <<acqVars, thread, holder, file, broken, survivors, endVars>>
    BY <1>12 DEF SinkCloses
  <2> QED BY <2>1, <2>2, <2>3, UnstoppedTypes
<1>13. CASE CloseReports
  BY <1>13 DEF CloseReports, Go, Move, Quiet, Threads, Closes
<1>14. CASE ReportsClosed
  BY <1>14 DEF ReportsClosed, Go, Unstopped, QuietBut, Owned, Threads, Closes
<1>15. CASE QueryIncidents
  BY <1>15 DEF QueryIncidents, Go, Quiet
<1> QED BY <1>1, <1>2, <1>3, <1>4, <1>5, <1>6, <1>7, <1>8, <1>9, <1>10, <1>11, <1>12, <1>13,
           <1>14, <1>15 DEF ShutdownStep

LEMMA OutcomeTypes == OwnTypeOK /\ (OutcomeStep \/ GuardianStep \/ ProcessExits) => OwnTypeOK'
<1> SUFFICES ASSUME OwnTypeOK, OutcomeStep \/ GuardianStep \/ ProcessExits PROVE OwnTypeOK'
  OBVIOUS
<1> USE DEF OwnTypeOK, AcqStates, ThreadStates, SupStates, acqVars, healthVars, failVars,
            endVars
<1>1. CASE Capture
  <2>1. /\ unstopped' \subseteq {"rtl_power", "acquisition", "storage", "other"}
        /\ app' \in {"fine", "failed"} /\ shut' \in {"incomplete", "complete"}
        /\ snap' \in {"none", "clean", "dirty"}
    <3>1. CASE snap' \in {"dirty", "clean"}
      BY <1>1, <3>1 DEF Capture
    <3>2. CASE snap' = "none"
      BY <1>1, <3>2, UnstoppedTypes DEF Capture
    <3> QED BY <1>1, <3>1, <3>2 DEF Capture
  <2>2. survivors' \subseteq Owned
    BY <1>1 DEF Capture, Owned, Threads, Closes
  <2>3. sup' \in SupStates
    BY <1>1 DEF Capture, Go
  <2>4. UNCHANGED <<acqVars, thread, sink, holder, file, broken, attempt, published,
                    exitCode, summary, asked, expired, raising, lock>>
    BY <1>1 DEF Capture, OutcomeFrame
  <2> QED BY <2>1, <2>2, <2>3, <2>4
<1>2. CASE Decide
  BY <1>2 DEF Decide, Go, OutcomeFrame
<1>3. CASE Publish
  BY <1>3 DEF Publish, Go, Take, OutcomeFrame
<1>4. CASE Published
  BY <1>4 DEF Published, Go, SaveOK, AfterPublish, OutcomeFrame
<1>5. CASE PublishFails
  <2>1. /\ unstopped' \subseteq {"rtl_power", "acquisition", "storage", "other"}
        /\ app' \in {"fine", "failed"} /\ shut' \in {"incomplete", "complete"}
    <3>1. PICK who \in SUBSET {"rtl_power", "acquisition", "storage",
    "other"} : Unstopped(who)
      BY <1>5, Zenon DEF PublishFails
    <3> QED BY <3>1, UnstoppedTypes
  <2>2. sup' \in SupStates
    BY <1>5 DEF PublishFails, Go, AfterPublish
  <2>3. attempt' \in {"first", "second", "correct"} /\ published' \in BOOLEAN
    BY <1>5 DEF PublishFails
  <2>4. holder' = "none" /\ UNCHANGED file
    BY <1>5 DEF PublishFails, SaveFails
  <2>5. UNCHANGED <<acqVars, thread, sink, broken, survivors, exitCode, summary, snap,
                    asked, expired, raising, lock>>
    BY <1>5 DEF PublishFails, OutcomeFrame
  <2> QED BY <2>1, <2>2, <2>3, <2>4, <2>5
<1>6. CASE Summarise
  BY <1>6 DEF Summarise, Go, OutcomeFrame
<1>7. CASE SummaryFails
  BY <1>7 DEF SummaryFails, Go, OutcomeFrame
<1>8. CASE Return
  BY <1>8 DEF Return, Go
<1>9. CASE GuardianJoins
  BY <1>9 DEF GuardianJoins, GuardianFrame
<1>10. CASE GuardianReleases
  BY <1>10 DEF GuardianReleases, GuardianFrame
<1>11. CASE ProcessExits
  BY <1>11 DEF ProcessExits, Go
<1> QED BY <1>1, <1>2, <1>3, <1>4, <1>5, <1>6, <1>7, <1>8, <1>9, <1>10, <1>11 DEF OutcomeStep,
         GuardianStep

-----------------------------------------------------------------------------
(* The station lock.  From the moment the supervisor has looked at a thing *)
(* it owns, the thing is dead or among the survivors (Accounted).  This    *)
(* stays true because nothing is started any more: the threads because the *)
(* supervisor alone starts them, and a child because starts are refused    *)
(* (Closed).                                                               *)

Outcome     == {"decide", "publish", "publishing", "summarise", "return", "exiting"}
PastReports == {"capture"} \union Outcome
PastTelegram == {"sinkclose", "sinkwait", "sinkjoin", "query", "reportclose",
                 "reportjoin"} \union PastReports
PastReport  == {"jointelegram"} \union PastTelegram
PastScanner == {"joinreport"} \union PastReport
PastAcq     == {"late", "latestopping"} \union PastScanner
PastSampler == {"joinacquisition"} \union PastAcq
PastLookup  == {"stopping", "sampler", "joinsampler"} \union PastSampler

Looked == [c \in Owned |->
             CASE c = "sampler"      -> PastSampler
               [] c = "acquisition"  -> PastAcq
               [] c = "scanner"      -> PastScanner
               [] c = "report"       -> PastReport
               [] c = "telegram"     -> PastTelegram
               [] c = "report_close" -> PastReports
               [] OTHER              -> Outcome]

Fresh == sup \in {"construct", "start"} =>
            /\ scan = "idle" /\ active = 0 /\ acq = "none"
            /\ \A t \in Threads : thread[t] = "none"
Driven == scan # "idle" /\ sup # "exited" => acq = "scan"
Closed == sup \in PastLookup => shutdownRequested \/ (acq = "none" /\ active = 0)
Accounted == \A c \in Owned : sup \in Looked[c] /\ Alive(c) => c \in survivors
Locked == /\ sup \notin {"exiting", "exited"} => lock = "held"
          /\ sup = "exiting" /\ lock = "free" => \A c \in Owned : ~Alive(c)

LockInv == OwnTypeOK /\ Fresh /\ Driven /\ Closed /\ Accounted /\ Locked

\* What a step may do to the scanner's handle once starts are refused.
LEMMA HandleFalls ==
  LockInv /\ ScannerMoves /\ sup \in PastLookup => active' \in {active, 0}
<1> SUFFICES ASSUME LockInv, ScannerMoves, sup \in PastLookup PROVE active' \in {active, 0}
  OBVIOUS
<1> USE DEF childVars, scanVars, reapVars, scannerVars
<1>1. ~StartProcess
  <2>1. sup # "exited"
    BY DEF PastLookup, PastSampler, PastAcq, PastScanner, PastReport, PastTelegram,
           PastReports, Outcome
  <2> QED BY <2>1 DEF LockInv, Driven, Closed, StartProcess
<1>2. CASE UNCHANGED scannerVars
  BY <1>2
<1>3. CASE SetStop \/ Acquire \/ Taken \/ ChildEnds \/ StopLookup
  BY <1>3 DEF SetStop, Acquire, Taken, ChildEnds, StopLookup
<1>4. CASE ScanStep
  BY <1>1, <1>4 DEF ScanStep, StartFails, StartRefused, PollEnded, PollStopped,
                    PollFailed, Reap, ReapTimesOut, ClearProcess, Cleared
<1>5. CASE StopStep(TRUE)
  BY <1>5 DEF StopStep, StopReap, StopTimesOut, StopClear, Cleared
<1> QED BY <1>2, <1>3, <1>4, <1>5 DEF ScannerMoves, ScannerNext

\* The steps of the scanner by themselves.
LEMMA ScanFrame ==
  ChildStep \/ ReapStep =>
      /\ UNCHANGED <<acqVars, thread, sink, healthVars, sup, failVars, endVars>>
      /\ sup # "exited" \/ UNCHANGED scan
  BY DEF ChildStep, ReapStep, ChildEnds, scanVars, StopStep, StopReap, StopTimesOut,
         StopClear

\* The acquisition thread is started once.
LEMMA AcqFalls == [Next]_vars /\ sup # "start" /\ Up(acq)' => Up(acq)
<1> SUFFICES ASSUME [Next]_vars, sup # "start", Up(acq)' PROVE Up(acq)
  OBVIOUS
<1> USE DEF Up
<1>1. CASE AcqStep
  BY <1>1 DEF AcqStep, AcqBegin, AcqRecords, AcqSave, AcqTop, AcqStops, AcqScan,
              AcqStored, AcqRefused, AcqInterrupted, AcqDown, AcqEnds
<1>2. CASE ChildStep \/ ReapStep
  BY <1>2, ScanFrame DEF acqVars
<1>3. CASE HelperStep
  BY <1>3, HelperLeaves
<1>4. CASE StartStep \/ StopRequested \/ Expire
  BY <1>4 DEF StartStep, Construct, ConstructFails, Start, Go, StopRequested, Expire,
              acqVars
<1>5. CASE ShutdownStep
  BY <1>5 DEF ShutdownStep, MainEnds, StopScanner, ScannerStopped, NoLateScanner,
              AskSampler, JoinSampler, JoinAcquisition, JoinReport, JoinTelegram, Join,
              CloseSink, SinkWriterJoined, SinkCloses, QueryIncidents, CloseReports,
              ReportsClosed, Quiet, QuietBut, acqVars
<1>6. CASE OutcomeStep \/ GuardianStep
  BY <1>6 DEF OutcomeStep, Capture, Decide, Publish, Published, PublishFails, Summarise,
              SummaryFails, Return, OutcomeFrame, GuardianStep, GuardianJoins,
              GuardianReleases, GuardianFrame, acqVars
<1>7. CASE ProcessExits
  BY <1>7 DEF ProcessExits
<1>8. CASE UNCHANGED vars
  BY <1>8 DEF vars, acqVars
<1> QED BY <1>1, <1>2, <1>3, <1>4, <1>5, <1>6, <1>7, <1>8 DEF Next

\* Every other thread is started once, the two closes by their own steps.
LEMMA ThreadFalls ==
  ASSUME OwnTypeOK, [Next]_vars, NEW t \in Threads, sup \notin {"construct", "start"},
         ~(t = "sink_close" /\ sup = "sinkwait"),
         ~(t = "report_close" /\ sup = "reportclose"),
         Up(thread[t])'
  PROVE  Up(thread[t])
<1> USE DEF Up, OwnTypeOK
<1>1. CASE AcqStep
  BY <1>1, AcqLeaves DEF AcqFrame
<1>2. CASE ChildStep \/ ReapStep
  BY <1>2, ScanFrame
<1>3. CASE HelperStep
  BY <1>3 DEF HelperStep, TurnEnds, HelperSaves, RuntimeEnds, RuntimeCrashes, CloseEnds,
              ReportRecords, WriterFrame, WriterStores, WriterStored, WriterFails,
              WriterEnds, Move, Threads
<1>4. CASE StartStep \/ StopRequested \/ Expire
  BY <1>4 DEF StartStep, Construct, ConstructFails, Start, Go, StopRequested, Expire
<1>5. CASE ShutdownStep
  BY <1>5 DEF ShutdownStep, MainEnds, StopScanner, ScannerStopped, NoLateScanner,
              AskSampler, JoinSampler, JoinAcquisition, JoinReport, JoinTelegram, Join,
              CloseSink, SinkWriterJoined, SinkCloses, QueryIncidents, CloseReports,
              ReportsClosed, Go, Move
<1>6. CASE OutcomeStep \/ GuardianStep
  BY <1>6 DEF OutcomeStep, Capture, Decide, Publish, Published, PublishFails, Summarise,
              SummaryFails, Return, OutcomeFrame, GuardianStep, GuardianJoins,
              GuardianReleases, GuardianFrame
<1>7. CASE ProcessExits
  BY <1>7 DEF ProcessExits
<1>8. CASE UNCHANGED vars
  BY <1>8 DEF vars
<1> QED BY <1>1, <1>2, <1>3, <1>4, <1>5, <1>6, <1>7, <1>8 DEF Next

\* A survivor is never struck off.
LEMMA SurvivorsStay == [Next]_vars /\ sup # "construct" => survivors \subseteq survivors'
<1> SUFFICES ASSUME [Next]_vars, sup # "construct" PROVE survivors \subseteq survivors'
  OBVIOUS
<1> USE DEF failVars
<1>1. CASE AcqStep
  BY <1>1, AcqLeaves DEF AcqFrame
<1>2. CASE ChildStep \/ ReapStep
  BY <1>2, ScanFrame
<1>3. CASE HelperStep
  BY <1>3, HelperLeaves
<1>4. CASE StartStep \/ StopRequested \/ Expire
  BY <1>4 DEF StartStep, Construct, ConstructFails, Start, Go, StopRequested, Expire
<1>5. CASE ShutdownStep
  BY <1>5 DEF ShutdownStep, MainEnds, StopScanner, ScannerStopped, NoLateScanner,
              AskSampler, JoinSampler, JoinAcquisition, JoinReport, JoinTelegram, Join,
              CloseSink, SinkWriterJoined, SinkCloses, QueryIncidents, CloseReports,
              ReportsClosed
<1>6. CASE OutcomeStep \/ GuardianStep \/ ProcessExits
  BY <1>6 DEF OutcomeStep, Capture, Decide, Publish, Published, PublishFails, Summarise,
              SummaryFails, Return, GuardianStep, GuardianJoins, GuardianReleases,
              GuardianFrame, ProcessExits
<1>7. CASE UNCHANGED vars
  BY <1>7 DEF vars
<1> QED BY <1>1, <1>2, <1>3, <1>4, <1>5, <1>6, <1>7 DEF Next

\* Nothing the supervisor has looked at comes to life again.
LEMMA NoRevival ==
  ASSUME LockInv, [Next]_vars, ScannerMoves, NEW c \in Owned, sup \in Looked[c], Alive(c)'
  PROVE  Alive(c)
<1> USE DEF LockInv, Looked, PastSampler, PastAcq, PastScanner, PastReport, PastTelegram,
            PastReports, Outcome
<1>1. CASE c = "scanner"
  <2>1. sup \in PastLookup
    BY <1>1 DEF PastLookup
  <2> QED BY <1>1, <2>1, HandleFalls DEF Alive
<1>2. CASE c = "acquisition"
  BY <1>2, AcqFalls DEF Alive
<1>3. CASE c \in Threads
  <2>1. Alive(c) = Up(thread[c]) /\ Alive(c)' = Up(thread[c])'
    BY <1>3, Zenon DEF Alive, Threads, Runtimes, Closes
  <2>2. /\ sup \notin {"construct", "start"}
        /\ ~(c = "sink_close" /\ sup = "sinkwait")
        /\ ~(c = "report_close" /\ sup = "reportclose")
    BY <1>3 DEF Threads, Runtimes, Closes
  <2> QED BY <1>3, <2>1, <2>2, ThreadFalls
<1> QED BY <1>1, <1>2, <1>3 DEF Owned

\* When the supervisor looks at a thing, it is dead or becomes a survivor.
LEMMA LooksWell ==
  ASSUME LockInv, [Next]_vars, NEW c \in Owned,
         sup \notin Looked[c], sup' \in Looked[c], Alive(c)'
  PROVE  c \in survivors'
<1> USE DEF LockInv, Looked, PastSampler, PastAcq, PastScanner, PastReport, PastTelegram,
            PastReports, Outcome, Go
<1>1. sup' # sup
  OBVIOUS
<1>2. CASE AcqStep \/ ChildStep \/ ReapStep \/ HelperStep \/ UNCHANGED vars
  <2>1. UNCHANGED sup
    BY <1>2, ScanFrame, AcqLeaves, HelperLeaves DEF AcqFrame, vars
  <2> QED BY <1>1, <2>1
<1>3. CASE Construct \/ StopRequested \/ Expire \/ GuardianStep \/ ProcessExits
  BY <1>1, <1>3 DEF Construct, StopRequested, Expire, GuardianStep, GuardianJoins,
                    GuardianReleases, GuardianFrame, ProcessExits
<1>4. CASE ConstructFails
  <2>1. PICK left \in SUBSET Closes :
           /\ thread' = [t \in Threads |-> IF t \in left THEN "run" ELSE "none"]
           /\ survivors' = left
    BY <1>4 DEF ConstructFails
  <2>2. acq' = "none" /\ active' = 0
    BY <1>4 DEF ConstructFails, Fresh, acqVars, childVars
  <2> QED BY <2>1, <2>2 DEF Alive, Up, Owned
<1>5. ASSUME NEW n \in 0 .. 5, Start(n) PROVE c \in survivors'
  <2>1. sup' \in {"main", "lookup"}
    BY <1>5, Zenon DEF Start
  <2> QED BY <2>1
<1>6. CASE ShutdownStep
  <2>1. CASE MainEnds \/ StopScanner \/ AskSampler \/ CloseSink \/ SinkWriterJoined \/ SinkCloses
             \/ QueryIncidents \/ CloseReports
    BY <2>1 DEF MainEnds, StopScanner, AskSampler, CloseSink, SinkWriterJoined,
                SinkCloses, QueryIncidents, CloseReports
  <2>2. CASE ScannerStopped
    BY <2>2 DEF ScannerStopped, Alive, scannerVars, childVars
  <2>3. CASE NoLateScanner
    BY <2>3 DEF NoLateScanner, Alive, scannerVars, childVars
  <2>4. CASE JoinSampler
    BY <2>4 DEF JoinSampler, Join, Alive
  <2>5. CASE JoinAcquisition
    BY <2>5 DEF JoinAcquisition, Join, Alive, QuietBut, acqVars
  <2>6. CASE JoinReport
    BY <2>6 DEF JoinReport, Join, Alive
  <2>7. CASE JoinTelegram
    BY <2>7 DEF JoinTelegram, Join, Alive
  <2>8. CASE ReportsClosed
    BY <2>8 DEF ReportsClosed, Alive
  <2> QED BY <1>6, <2>1, <2>2, <2>3, <2>4, <2>5, <2>6, <2>7, <2>8 DEF ShutdownStep
<1>7. CASE OutcomeStep
  <2>1. CASE Capture
    <3>1. sup = "capture" /\ UNCHANGED thread
      BY <2>1 DEF Capture, OutcomeFrame
    <3>2. c \in {"writer", "sink_close"}
      BY <3>1 DEF Owned, Threads, Runtimes, Closes
    <3> QED BY <2>1, <3>1, <3>2 DEF Capture, Alive
  <2>2. CASE Decide \/ Publish \/ Published \/ PublishFails \/ Summarise \/ SummaryFails \/ Return
    BY <2>2 DEF Decide, Publish, Published, PublishFails, AfterPublish, Summarise,
                SummaryFails, Return
  <2> QED BY <1>7, <2>1, <2>2 DEF OutcomeStep
<1> QED BY <1>2, <1>3, <1>4, <1>5, <1>6, <1>7 DEF Next, StartStep

LEMMA AccountedKept == LockInv /\ [Next]_vars /\ ScannerMoves => Accounted'
<1> SUFFICES ASSUME LockInv, [Next]_vars, ScannerMoves,
                    NEW c \in Owned, sup' \in Looked[c], Alive(c)'
             PROVE  c \in survivors'
  BY DEF Accounted, Looked
<1>1. CASE sup \in Looked[c]
  <2>1. c \in survivors
    BY <1>1, NoRevival DEF LockInv, Accounted
  <2>2. sup # "construct"
    BY <1>1 DEF Looked, PastSampler, PastAcq, PastScanner, PastReport, PastTelegram,
                PastReports, Outcome
  <2> QED BY <2>1, <2>2, SurvivorsStay
<1>2. CASE sup \notin Looked[c]
  BY <1>2, LooksWell
<1> QED BY <1>1, <1>2

\* The other threads leave the supervisor and the lock alone.
LEMMA OthersFrame ==
  AcqStep \/ ChildStep \/ ReapStep \/ HelperStep => UNCHANGED <<sup, lock>>
  BY ScanFrame, AcqLeaves, HelperLeaves DEF AcqFrame, endVars

LEMMA FreshKept == LockInv /\ [Next]_vars => Fresh'
<1> SUFFICES ASSUME LockInv, [Next]_vars, sup' \in {"construct", "start"}
             PROVE  /\ scan' = "idle" /\ active' = 0 /\ acq' = "none"
                    /\ \A t \in Threads : thread'[t] = "none"
  BY DEF Fresh
<1> USE DEF LockInv, Fresh, Go, scannerVars, childVars, scanVars, acqVars
<1>1. CASE AcqStep
  BY <1>1, OthersFrame DEF AcqStep, AcqBegin, AcqRecords, AcqSave, AcqTop, AcqStops,
                           AcqScan, AcqStored, AcqRefused, AcqInterrupted, AcqDown,
                           AcqEnds
<1>2. CASE ChildStep \/ ReapStep
  <2>1. sup \in {"construct", "start"} /\ UNCHANGED <<acq, thread>>
    BY <1>2, ScanFrame
  <2>2. ~ScanStep
    BY <2>1 DEF ScanStep, StartFails, StartRefused, StartProcess, PollEnded, PollStopped,
                PollFailed, Reap, ReapTimesOut, ClearProcess
  <2>3. scan' = scan /\ active' \in {active, 0}
    BY <1>2, <2>2 DEF ChildStep, ChildEnds, ReapStep, StopStep, StopReap, StopTimesOut,
                      StopClear, Cleared
  <2> QED BY <2>1, <2>3
<1>3. CASE HelperStep
  <2>1. sup \in {"construct", "start"}
    BY <1>3, OthersFrame
  <2>2. \A t \in Threads : thread[t] = "none"
    BY <2>1
  <2>3. "report" \in Threads /\ "writer" \in Threads
        /\ Runtimes \subseteq Threads /\ Closes \subseteq Threads
    BY DEF Threads, Runtimes
  <2> QED BY <1>3, <2>2, <2>3 DEF HelperStep, TurnEnds, HelperSaves, RuntimeEnds,
                                  RuntimeCrashes, CloseEnds, ReportRecords, WriterStores,
                                  WriterStored, WriterFails, WriterEnds
<1>4. CASE Construct \/ ConstructFails \/ StopRequested \/ Expire
  BY <1>4 DEF Construct, ConstructFails, StopRequested, Expire
<1>5. ASSUME NEW n \in 0 .. 5, Start(n) PROVE FALSE
  <2>1. sup' \in {"main", "lookup"}
    BY <1>5, Zenon DEF Start
  <2> QED BY <2>1
<1>6. CASE ShutdownStep
  BY <1>6 DEF ShutdownStep, MainEnds, StopScanner, ScannerStopped, NoLateScanner,
              AskSampler, JoinSampler, JoinAcquisition, JoinReport, JoinTelegram,
              CloseSink, SinkWriterJoined, SinkCloses, QueryIncidents, CloseReports,
              ReportsClosed
<1>7. CASE OutcomeStep \/ GuardianStep \/ ProcessExits
  BY <1>7 DEF OutcomeStep, Capture, Decide, Publish, Published, PublishFails,
              AfterPublish, Summarise, SummaryFails, Return, GuardianStep, GuardianJoins,
              GuardianReleases, GuardianFrame, ProcessExits
<1>8. CASE UNCHANGED vars
  BY <1>8 DEF vars
<1> QED BY <1>1, <1>2, <1>3, <1>4, <1>5, <1>6, <1>7, <1>8 DEF Next, StartStep

LEMMA DrivenKept == LockInv /\ [Next]_vars => Driven'
<1> SUFFICES ASSUME LockInv, [Next]_vars, scan' # "idle", sup' # "exited"
             PROVE  acq' = "scan"
  BY DEF Driven
<1> USE DEF LockInv, Driven, Go, scannerVars, scanVars, acqVars
<1>1. CASE AcqStep
  <2>1. sup # "exited"
    BY <1>1, OthersFrame
  <2> QED BY <1>1, <2>1 DEF AcqStep, AcqBegin, AcqRecords, AcqSave, AcqTop, AcqStops,
                            AcqScan, AcqStored, AcqRefused, AcqInterrupted, AcqDown,
                            AcqEnds, Taken
<1>2. CASE ChildStep \/ ReapStep
  <2>1. sup # "exited" /\ UNCHANGED acq
    BY <1>2, ScanFrame
  <2>2. scan # "idle"
    BY <1>2 DEF ChildStep, ChildEnds, ReapStep, StopStep, StopReap, StopTimesOut,
                StopClear, ScanStep, StartFails, StartRefused, StartProcess, PollEnded,
                PollStopped, PollFailed, Reap, ReapTimesOut, ClearProcess
  <2> QED BY <2>1, <2>2
<1>3. CASE HelperStep
  BY <1>3, OthersFrame, HelperLeaves DEF HelperStep, TurnEnds, HelperSaves, RuntimeEnds,
           RuntimeCrashes, Record, CloseEnds, ReportRecords, WriterStores, WriterStored,
           WriterFails, WriterEnds
<1>4. CASE StartStep \/ StopRequested \/ Expire
  BY <1>4 DEF StartStep, Construct, ConstructFails, Start, StopRequested, SetStop, Expire,
              Fresh
<1>5. CASE ShutdownStep
  BY <1>5 DEF ShutdownStep, MainEnds, StopScanner, StopLookup, ScannerStopped,
              NoLateScanner, AskSampler, JoinSampler, JoinAcquisition, JoinReport,
              JoinTelegram, Join, CloseSink, SinkWriterJoined, SinkCloses, QueryIncidents,
              CloseReports, ReportsClosed, Quiet, QuietBut
<1>6. CASE OutcomeStep \/ GuardianStep \/ ProcessExits
  BY <1>6 DEF OutcomeStep, Capture, Decide, Publish, Published, PublishFails, Summarise,
              SummaryFails, Return, OutcomeFrame, GuardianStep, GuardianJoins, StopLookup,
              GuardianReleases, GuardianFrame, ProcessExits
<1>7. CASE UNCHANGED vars
  BY <1>7 DEF vars
<1> QED BY <1>1, <1>2, <1>3, <1>4, <1>5, <1>6, <1>7 DEF Next

\* Once starts are refused they stay refused.
LEMMA RequestStays == shutdownRequested /\ ScannerMoves => shutdownRequested'
<1> SUFFICES ASSUME shutdownRequested, ScannerMoves PROVE shutdownRequested'
  OBVIOUS
<1> USE DEF scannerVars, childVars
<1>1. CASE UNCHANGED scannerVars
  BY <1>1
<1>2. CASE SetStop \/ Acquire \/ Taken \/ ChildEnds \/ StopLookup
  BY <1>2 DEF SetStop, Acquire, Taken, ChildEnds, StopLookup
<1>3. CASE ScanStep
  BY <1>3 DEF ScanStep, StartFails, StartRefused, StartProcess, PollEnded, PollStopped,
              PollFailed, Reap, ReapTimesOut, ClearProcess
<1>4. CASE StopStep(TRUE)
  BY <1>4 DEF StopStep, StopReap, StopTimesOut, StopClear
<1> QED BY <1>1, <1>2, <1>3, <1>4 DEF ScannerMoves, ScannerNext

LEMMA ClosedKept == LockInv /\ [Next]_vars /\ ScannerMoves => Closed'
<1> SUFFICES ASSUME LockInv, [Next]_vars, ScannerMoves, sup' \in PastLookup
             PROVE  shutdownRequested' \/ (acq' = "none" /\ active' = 0)
  BY DEF Closed
<1> USE DEF LockInv, PastLookup, PastSampler, PastAcq, PastScanner, PastReport,
            PastTelegram, PastReports, Outcome, Go
<1>1. CASE sup \in PastLookup
  <2>1. CASE shutdownRequested
    BY <2>1, RequestStays
  <2>2. CASE acq = "none" /\ active = 0
    <3>1. active' = 0
      BY <1>1, <2>2, HandleFalls
    <3>2. CASE ProcessExits
      BY <3>2 DEF ProcessExits
    <3>3. CASE ~ProcessExits
      <4>1. ~Up(acq)'
        BY <1>1, <2>2, AcqFalls DEF Up
      <4>2. CASE AcqStep
        BY <2>2, <4>2 DEF AcqStep, AcqBegin, AcqRecords, AcqSave, AcqTop, AcqStops,
                          AcqScan, AcqStored, AcqRefused, AcqInterrupted, AcqDown, AcqEnds
      <4>3. CASE ~AcqStep
        <5>1. acq' = acq
          BY <1>1, <3>3, <4>3, ScanFrame, HelperLeaves
          DEF Next, vars, acqVars, StartStep, Construct, ConstructFails, Start,
              StopRequested, Expire, ShutdownStep, MainEnds, StopScanner, ScannerStopped,
              NoLateScanner, AskSampler, JoinSampler, JoinAcquisition, JoinReport,
              JoinTelegram, Join, CloseSink, SinkWriterJoined, SinkCloses, QueryIncidents,
              CloseReports, ReportsClosed, Quiet, QuietBut, OutcomeStep, Capture, Decide,
              Publish, Published, PublishFails, Summarise, SummaryFails, Return,
              OutcomeFrame, GuardianStep, GuardianJoins, GuardianReleases, GuardianFrame
        <5> QED BY <2>2, <3>1, <5>1
      <4> QED BY <4>2, <4>3
    <3> QED BY <3>2, <3>3
  <2> QED BY <1>1, <2>1, <2>2 DEF Closed
<1>2. CASE sup \notin PastLookup
  <2>1. sup' # sup
    BY <1>2
  <2>2. ~(AcqStep \/ ChildStep \/ ReapStep \/ HelperStep \/ UNCHANGED vars)
    BY <2>1, OthersFrame DEF vars
  <2>3. CASE ConstructFails
    BY <2>3 DEF ConstructFails, Fresh, childVars, acqVars
  <2>4. CASE Construct \/ StopRequested \/ Expire \/ GuardianStep \/ ProcessExits
    BY <2>1, <2>4 DEF Construct, StopRequested, Expire, GuardianStep, GuardianJoins,
                      GuardianReleases, GuardianFrame, ProcessExits
  <2>5. ASSUME NEW n \in 0 .. 5, Start(n) PROVE FALSE
    <3>1. sup' \in {"main", "lookup"}
      BY <2>5, Zenon DEF Start
    <3> QED BY <3>1
  <2>6. CASE StopScanner
    BY <2>6 DEF StopScanner, StopLookup
  <2>7. CASE ShutdownStep /\ ~StopScanner
    BY <1>2, <2>7 DEF ShutdownStep, MainEnds, ScannerStopped, NoLateScanner, AskSampler,
                      JoinSampler, JoinAcquisition, JoinReport, JoinTelegram, CloseSink,
                      SinkWriterJoined, SinkCloses, QueryIncidents, CloseReports,
                      ReportsClosed
  <2>8. CASE OutcomeStep
    BY <1>2, <2>8 DEF OutcomeStep, Capture, Decide, Publish, Published, PublishFails,
                      Summarise, SummaryFails, Return
  <2> QED BY <2>2, <2>3, <2>4, <2>5, <2>6, <2>7, <2>8 DEF Next, StartStep
<1> QED BY <1>1, <1>2

\* Nobody but the last steps touches the lock.
LEMMA LockFrame ==
  [Next]_vars => \/ UNCHANGED lock /\ (sup' = "exiting" => sup = "exiting")
                 \/ Return \/ GuardianReleases \/ ProcessExits
<1> SUFFICES ASSUME [Next]_vars, ~Return, ~GuardianReleases, ~ProcessExits
             PROVE  UNCHANGED lock /\ (sup' = "exiting" => sup = "exiting")
  OBVIOUS
<1> USE DEF Go, endVars
<1>1. CASE AcqStep \/ ChildStep \/ ReapStep \/ HelperStep \/ UNCHANGED vars
  BY <1>1, OthersFrame DEF vars
<1>2. CASE StartStep \/ StopRequested \/ Expire \/ GuardianStep
  BY <1>2 DEF StartStep, Construct, ConstructFails, Start, StopRequested, Expire,
              GuardianStep, GuardianJoins, GuardianFrame
<1>3. CASE ShutdownStep
  BY <1>3 DEF ShutdownStep, MainEnds, StopScanner, ScannerStopped, NoLateScanner,
              AskSampler, JoinSampler, JoinAcquisition, JoinReport, JoinTelegram, Join,
              CloseSink, SinkWriterJoined, SinkCloses, QueryIncidents, CloseReports,
              ReportsClosed, Quiet, QuietBut
<1>4. CASE OutcomeStep
  BY <1>4 DEF OutcomeStep, Capture, Decide, Publish, Published, PublishFails,
              AfterPublish, Summarise, SummaryFails, OutcomeFrame
<1> QED BY <1>1, <1>2, <1>3, <1>4 DEF Next

\* Before the lifecycle has returned, no step gets to the last two places.
LEMMA HeldBefore ==
  [Next]_vars /\ sup' \notin {"exiting", "exited"} => sup \notin {"exiting", "exited"}
<1> SUFFICES ASSUME [Next]_vars, sup \in {"exiting", "exited"} PROVE sup' \in {"exiting",
"exited"}
  OBVIOUS
<1> USE DEF Go
<1>1. CASE AcqStep \/ ChildStep \/ ReapStep \/ HelperStep \/ UNCHANGED vars
  BY <1>1, OthersFrame DEF vars
<1>2. CASE StartStep \/ StopRequested \/ Expire \/ GuardianStep \/ ProcessExits
  BY <1>2 DEF StartStep, Construct, ConstructFails, Start, StopRequested, Expire,
              GuardianStep, GuardianJoins, GuardianReleases, GuardianFrame, ProcessExits
<1>3. CASE ShutdownStep
  BY <1>3 DEF ShutdownStep, MainEnds, StopScanner, ScannerStopped, NoLateScanner,
              AskSampler, JoinSampler, JoinAcquisition, JoinReport, JoinTelegram,
              CloseSink, SinkWriterJoined, SinkCloses, QueryIncidents, CloseReports,
              ReportsClosed
<1>4. CASE OutcomeStep
  BY <1>4 DEF OutcomeStep, Capture, Decide, Publish, Published, PublishFails, Summarise,
              SummaryFails, Return
<1> QED BY <1>1, <1>2, <1>3, <1>4 DEF Next

\* At the return everything has been looked at.
LEMMA AllLooked == sup \in {"return", "exiting"} => \A c \in Owned : sup \in Looked[c]
  BY DEF Looked, PastSampler, PastAcq, PastScanner, PastReport, PastTelegram, PastReports,
         Outcome

LEMMA LockedKept == LockInv /\ [Next]_vars /\ ScannerMoves => Locked'
<1> SUFFICES ASSUME LockInv, [Next]_vars, ScannerMoves PROVE Locked'
  OBVIOUS
<1>1. sup' \notin {"exiting", "exited"} => lock' = "held"
  <2> SUFFICES ASSUME sup' \notin {"exiting", "exited"} PROVE lock' = "held"
    OBVIOUS
  <2>1. sup \notin {"exiting", "exited"} /\ lock = "held"
    BY HeldBefore DEF LockInv, Locked
  <2> QED BY <2>1, LockFrame DEF Return, GuardianReleases, ProcessExits, Go
<1>2. ASSUME sup' = "exiting", lock' = "free", NEW c \in Owned, Alive(c)' PROVE FALSE
  <2>1. CASE Return
    <3>1. sup = "return" /\ survivors = {}
      BY <1>2, <2>1 DEF Return, Go
    <3>2. Alive(c)
      BY <1>2, <3>1, AllLooked, NoRevival
    <3> QED BY <3>1, <3>2, AllLooked DEF LockInv, Accounted
  <2>2. CASE GuardianReleases
    <3>1. sup = "exiting" /\ \A d \in survivors : ~Alive(d)
      BY <2>2 DEF GuardianReleases
    <3>2. Alive(c)
      BY <1>2, <3>1, AllLooked, NoRevival
    <3> QED BY <3>1, <3>2, AllLooked DEF LockInv, Accounted
  <2>3. CASE UNCHANGED lock /\ sup = "exiting"
    <3>1. Alive(c)
      BY <1>2, <2>3, AllLooked, NoRevival
    <3> QED BY <1>2, <2>3, <3>1 DEF LockInv, Locked
  <2> QED BY <1>2, <2>1, <2>2, <2>3, LockFrame DEF ProcessExits, Go
<1> QED BY <1>1, <1>2 DEF Locked

LEMMA InitLockInv == Init => LockInv
<1> SUFFICES ASSUME Init PROVE LockInv
  OBVIOUS
<1> USE DEF Init, ScannerInit
<1>1. OwnTypeOK
  <2>1. thread \in [Threads -> ThreadStates]
    BY DEF ThreadStates
  <2>2. acq \in AcqStates /\ acqNext \in AcqStates /\ sup \in SupStates
    BY DEF AcqStates, SupStates
  <2>3. /\ acqFailed \in BOOLEAN /\ file \in BOOLEAN /\ asked \in BOOLEAN
        /\ expired \in BOOLEAN /\ raising \in BOOLEAN /\ broken \in BOOLEAN
        /\ published \in BOOLEAN /\ failing \in BOOLEAN
    OBVIOUS
  <2>4. queued \in 0 .. QueueBound
    BY QueueAssumption
  <2> QED BY <2>1, <2>2, <2>3, <2>4 DEF OwnTypeOK
<1>2. Fresh /\ Driven
  BY DEF Fresh, Driven
<1>3. Closed /\ Accounted /\ Locked
  BY DEF Closed, Accounted, Locked, Looked, PastLookup, PastSampler, PastAcq, PastScanner,
         PastReport, PastTelegram, PastReports, Outcome
<1> QED BY <1>1, <1>2, <1>3 DEF LockInv

\* The types are kept by every step.
LEMMA TypesKept == OwnTypeOK /\ [Next]_vars => OwnTypeOK'
<1> SUFFICES ASSUME OwnTypeOK, [Next]_vars PROVE OwnTypeOK'
  OBVIOUS
<1>1. CASE UNCHANGED vars
  BY <1>1 DEF vars, OwnTypeOK, acqVars, healthVars, failVars, endVars
<1>2. CASE ChildStep \/ ReapStep
  <2>1. UNCHANGED <<acqVars, thread, sink, healthVars, sup, failVars, endVars>>
    BY <1>2, ScanFrame
  <2> QED BY <2>1 DEF OwnTypeOK, acqVars, healthVars, failVars, endVars
<1> QED BY <1>1, <1>2, AcqTypes, HelperTypes, StartTypes, ShutdownTypes, OutcomeTypes DEF Next

(* Every reachable state of the station: whatever the supervisor has       *)
(* looked at is dead or a survivor, and the lock goes by the survivors.    *)
THEOREM StationInductive == Spec => []LockInv
<1>1. LockInv /\ ScannerMoves /\ [Next]_vars => LockInv'
  BY TypesKept, FreshKept, DrivenKept, ClosedKept, AccountedKept, LockedKept DEF LockInv
<1>2. Stopping /\ [Next]_vars => ScannerMoves
  BY StationMoves
<1> QED BY InitLockInv, <1>1, <1>2, StoppingInvariant, PTL DEF Spec

(* Every variable of the station and of its scanner keeps its type.        *)
THEOREM StationTypeCorrect == Spec => []TypeOK
<1>1. LockInv /\ ScannerTypeOK => TypeOK
  BY DEF LockInv, TypeOK
<1> QED BY <1>1, StationInductive, StationDrivesScanner, ScannerTypeCorrect, PTL

(* While the process lives, its lock is free only when every thread it     *)
(* owns has ended and no child is left but a stubborn one that the scanner *)
(* lost sight of: a second station finds the device and the files unused.  *)
THEOREM LockCovers == Spec => []LockCoversOwned
<1>1. LockInv /\ IInv => LockCoversOwned
  <2> SUFFICES ASSUME LockInv, IInv, lock = "free", sup # "exited"
               PROVE  (\A c \in Owned : ~Alive(c)) /\ running \subseteq Stubborn
    BY DEF LockCoversOwned
  <2>1. \A c \in Owned : ~Alive(c)
    BY DEF LockInv, Locked
  <2>2. active = 0
    BY <2>1 DEF Alive, Owned
  <2> QED BY <2>1, <2>2, NothingOwned
<1> QED BY <1>1, StationInductive, StationDrivesScanner, ScannerInductive, PTL

-----------------------------------------------------------------------------
(* The outcome.  The supervisor finds out what did not end in time, tells  *)
(* it in the health file, the summary and the exit code, and from then on  *)
(* what it told must stay true.  It does, because a thread that could      *)
(* still change it has an entry among the failures (Blamed), and then the  *)
(* outcome was not clean (Verdict).                                        *)

Finish    == {"return", "exiting", "exited"}
Tellings  == {"publish", "publishing", "summarise"} \union Finish

\* From where on a thing that lives has its entry in unstopped, and which.
Faced == [c \in Owned |-> {"exited"} \union
             (IF c \in {"writer", "sink_close"}
              THEN {"query", "reportclose",
              "reportjoin"} \union PastReports ELSE Looked[c])]
Entry == [c \in Owned |->
             IF c = "scanner" THEN "rtl_power"
             ELSE IF c = "acquisition" THEN c
             ELSE IF c \in Runtimes THEN "other" ELSE "storage"]

\* What the supervisor knows is clean, and it did not fail to tell it.
Clean == ~NonClean /\ attempt # "correct"

Gone      == sup = "exited" =>
                 /\ acq = "ended"
                 /\ \A t \in Threads : thread[t] = "ended"
\* The sampler is asked to stop unless the construction had failed.
Begun     ==
    /\ asked => sup \notin Running \union {"lookup", "stopping", "sampler"}
    /\ ~asked => /\ sup \notin {"joinsampler"} \union (PastSampler \ Finish)
                 /\ (sup \in Finish => raising /\ exitCode # 0 /\ summary = "marker")
Blamed    == \A c \in Owned : asked /\ sup \in Faced[c] /\ Alive(c) => Entry[c] \in unstopped
SinkShut  == /\ sup = "sinkjoin" => ~Up(thread["writer"])
             /\ asked /\ sup \in Faced["writer"]
                    => sink = "closed" \/ "storage" \in unstopped
Untold    == sup \notin Finish =>
                 /\ summary = "marker" /\ exitCode # 0
                 /\ (attempt = "correct" => sup \in {"publish", "publishing"})
Captured  == sup \in {"decide"} \union Tellings /\ asked /\ snap = "none"
                 => "storage" \in unstopped
Verdict   == asked /\ sup \in Finish =>
                 /\ (summary = "clean" <=> Clean)
                 /\ (exitCode = 0 => Clean)
                 /\ (Clean /\ ~raising => exitCode = 0)
Said      == asked /\ sup \in Tellings =>
                 /\ (Clean => app = "fine" /\ shut = "complete")
                 /\ (~Clean /\ "acquisition" \notin unstopped => app = "failed")
Written   == asked /\ sup \in {"summarise"} \union Finish /\ published
                 /\ "acquisition" \notin unstopped => (file <=> Clean)

OutcomeInv == /\ Gone /\ Begun /\ Blamed /\ SinkShut /\ Untold /\ Captured
              /\ Verdict /\ Said /\ Written

\* An entry of category shutdown is never struck off.
LEMMA UnstoppedStays == [Next]_vars => unstopped \subseteq unstopped'
<1> SUFFICES ASSUME [Next]_vars PROVE unstopped \subseteq unstopped'
  OBVIOUS
<1> USE DEF failVars
<1>1. CASE AcqStep
  BY <1>1, AcqLeaves DEF AcqFrame
<1>2. CASE ChildStep \/ ReapStep
  BY <1>2, ScanFrame
<1>3. CASE HelperStep
  BY <1>3, HelperLeaves
<1>4. CASE StartStep \/ StopRequested \/ Expire
  BY <1>4 DEF StartStep, Construct, ConstructFails, Start, StopRequested, Expire
<1>5. CASE ShutdownStep
  BY <1>5 DEF ShutdownStep, MainEnds, StopScanner, ScannerStopped, NoLateScanner,
              AskSampler, JoinSampler, JoinAcquisition, JoinReport, JoinTelegram, Join,
              CloseSink, SinkWriterJoined, SinkCloses, QueryIncidents, CloseReports,
              ReportsClosed, Unstopped
<1>6. CASE OutcomeStep \/ GuardianStep \/ ProcessExits
  BY <1>6 DEF OutcomeStep, Capture, Decide, Publish, Published, PublishFails, Summarise,
              SummaryFails, Return, Unstopped, GuardianStep, GuardianJoins,
              GuardianReleases, GuardianFrame, ProcessExits
<1>7. CASE UNCHANGED vars
  BY <1>7 DEF vars
<1> QED BY <1>1, <1>2, <1>3, <1>4, <1>5, <1>6, <1>7 DEF Next

\* Neither is a failure of a running component.
LEMMA BrokenStays == [Next]_vars /\ broken => broken'
<1> SUFFICES ASSUME [Next]_vars, broken PROVE broken'
  OBVIOUS
<1> USE DEF failVars
<1>1. CASE AcqStep
  BY <1>1 DEF AcqStep, Observe, ObserveFailure, ObserveSweep, Tell, AcqBegin, AcqRecords,
              AcqSave, AcqTop, AcqStops, AcqScan, AcqStored, AcqRefused, AcqInterrupted,
              AcqDown, AcqEnds, Record
<1>2. CASE ChildStep \/ ReapStep
  BY <1>2, ScanFrame
<1>3. CASE HelperStep
  BY <1>3 DEF HelperStep, TurnEnds, HelperSaves, RuntimeEnds, RuntimeCrashes, CloseEnds,
              ReportRecords, WriterFrame, WriterStores, WriterStored, WriterFails,
              WriterEnds, Record
<1>4. CASE StartStep \/ StopRequested \/ Expire
  BY <1>4 DEF StartStep, Construct, ConstructFails, Start, StopRequested, Expire
<1>5. CASE ShutdownStep
  BY <1>5 DEF ShutdownStep, MainEnds, StopScanner, ScannerStopped, NoLateScanner,
              AskSampler, JoinSampler, JoinAcquisition, JoinReport, JoinTelegram, Join,
              CloseSink, SinkWriterJoined, SinkCloses, QueryIncidents, CloseReports,
              ReportsClosed, Quiet, QuietBut
<1>6. CASE OutcomeStep \/ GuardianStep \/ ProcessExits
  BY <1>6 DEF OutcomeStep, Capture, Decide, Publish, Published, PublishFails, Summarise,
              SummaryFails, Return, GuardianStep, GuardianJoins, GuardianReleases,
              GuardianFrame, ProcessExits
<1>7. CASE UNCHANGED vars
  BY <1>7 DEF vars
<1> QED BY <1>1, <1>2, <1>3, <1>4, <1>5, <1>6, <1>7 DEF Next

\* What the outcome is told by, and who it is about.
toldVars == <<sup, unstopped, attempt, asked, raising, snap, published, exitCode, summary>>

\* The steps that leave the supervisor's own state alone.
LEMMA RestFrame ==
  ChildStep \/ ReapStep \/ StopRequested \/ Expire \/ GuardianStep \/ UNCHANGED vars
     => UNCHANGED <<acqVars, thread, sink, healthVars, failVars, toldVars>>
  BY ScanFrame
  DEF StopRequested, Expire, GuardianStep, GuardianJoins, GuardianReleases, GuardianFrame,
      vars, failVars, endVars, toldVars

\* The acquisition thread leaves all of it alone but the health state.
LEMMA AcqTells == AcqStep => acq # "none" /\ acq # "ended" /\ UNCHANGED <<thread, sink,
toldVars>>
<1>1. AcqStep => acq # "none" /\ acq # "ended"
  BY DEF AcqStep, AcqBegin, AcqRecords, AcqSave, AcqTop, AcqStops, AcqScan, AcqStored,
         AcqRefused, AcqInterrupted, AcqDown, AcqEnds
<1> QED BY <1>1, AcqLeaves DEF AcqFrame, endVars, toldVars

\* What the other threads may do to the health state: fail it, or save it.
LEMMA HelperTells ==
  ASSUME OwnTypeOK, HelperStep
  PROVE  /\ UNCHANGED <<acq, shut, toldVars>>
         /\ sink' = sink \/ Up(thread["writer"])
         /\ \/ UNCHANGED <<app, broken, file>>
            \/ UNCHANGED file /\ broken' = TRUE /\ app' = "failed"
            \/ UNCHANGED <<app, broken>> /\ file' = (app = "fine" /\ shut = "complete")
         /\ \E t \in Threads : Up(thread[t])
<1> USE DEF ThreadFrame, WriterFrame, acqVars, endVars, toldVars, Up, OwnTypeOK,
            ThreadStates, Threads
<1>1. ASSUME NEW t \in Runtimes, TurnEnds(t) \/ RuntimeEnds(t) \/ RuntimeCrashes(t)
      PROVE  /\ UNCHANGED <<acq, shut, toldVars, sink, file>>
             /\ UNCHANGED <<app, broken>> \/ (broken' = TRUE /\ app' = "failed")
             /\ Up(thread[t])
  BY <1>1 DEF TurnEnds, RuntimeEnds, RuntimeCrashes, Record, healthVars
<1>2. ASSUME NEW t \in Runtimes, HelperSaves(t)
      PROVE  /\ UNCHANGED <<acq, shut, toldVars, sink, app, broken>>
             /\ file' = file \/ file' = (app = "fine" /\ shut = "complete")
             /\ Up(thread[t])
  <2>1. file' = file \/ file' = (app = "fine" /\ shut = "complete")
    BY <1>2, Zenon DEF HelperSaves, SaveOK, SaveFails
  <2>2. UNCHANGED <<acq, shut, toldVars, sink, app, broken>> /\ Up(thread[t])
    BY <1>2 DEF HelperSaves
  <2> QED BY <2>1, <2>2
<1>3. ASSUME NEW t \in Closes, CloseEnds(t)
      PROVE  UNCHANGED <<acq, shut, toldVars, sink, file, app, broken>> /\ Up(thread[t])
  BY <1>3 DEF CloseEnds, healthVars
<1>4. CASE WriterFails
  <2>1. UNCHANGED <<acq, shut, toldVars, file>> /\ Up(thread["writer"])
    BY <1>4 DEF WriterFails
  <2>2. UNCHANGED <<app, broken>> \/ (broken' = TRUE /\ app' = "failed")
    <3>1. CASE stop
      BY <1>4, <3>1 DEF WriterFails
    <3>2. CASE ~stop
      BY <1>4, <3>2 DEF WriterFails, Record
    <3> QED BY <3>1, <3>2
  <2> QED BY <2>1, <2>2
<1>5. CASE ReportRecords \/ WriterStores \/ WriterStored \/ WriterEnds
  <2>1. UNCHANGED <<acq, shut, toldVars, sink, file, app, broken>>
    BY <1>5 DEF ReportRecords, WriterStores, WriterStored, WriterEnds, healthVars
  <2>2. Up(thread["report"]) \/ Up(thread["writer"])
    BY <1>5 DEF ReportRecords, WriterStores, WriterStored, WriterEnds
  <2>3. "report" \in Threads /\ "writer" \in Threads
    BY DEF Threads, Runtimes
  <2> QED BY <2>1, <2>2, <2>3
<1> QED
  <2>1. CASE \E t \in Runtimes : TurnEnds(t) \/ RuntimeEnds(t) \/ RuntimeCrashes(t)
    BY <1>1, <2>1
  <2>2. CASE \E t \in Runtimes : HelperSaves(t)
    <3>1. PICK t \in Runtimes : HelperSaves(t)
      BY <2>2
    <3>2. /\ UNCHANGED <<acq, shut, toldVars, sink, app, broken>>
          /\ file' = file \/ file' = (app = "fine" /\ shut = "complete")
          /\ Up(thread[t])
      BY <1>2, <3>1
    <3> HIDE DEF Up
    <3> QED BY <3>2, Zenon DEF Threads
  <2>3. CASE \E t \in Closes : CloseEnds(t)
    BY <1>3, <2>3
  <2> QED BY <2>1, <2>2, <2>3, <1>4, <1>5 DEF HelperStep

\* The entry of each.
LEMMA Entries ==
  /\ Entry["scanner"] = "rtl_power" /\ Entry["acquisition"] = "acquisition"
  /\ \A t \in Runtimes : Entry[t] = "other"
  /\ \A t \in Closes \union {"writer"} : Entry[t] = "storage"
<1>1. Entry["scanner"] = "rtl_power" /\ Entry["acquisition"] = "acquisition"
  <2>1. "scanner" \in Owned /\ "acquisition" \in Owned /\ "acquisition" # "scanner"
    BY DEF Owned
  <2> QED BY <2>1 DEF Entry
<1>2. ASSUME NEW t \in Runtimes PROVE Entry[t] = "other"
  <2>1. t \in Owned /\ t # "scanner" /\ t # "acquisition"
    BY DEF Owned, Threads, Runtimes
  <2> QED BY <2>1 DEF Entry
<1>3. ASSUME NEW t \in Closes \union {"writer"} PROVE Entry[t] = "storage"
  <2>1. t \in Owned /\ t # "scanner" /\ t # "acquisition" /\ t \notin Runtimes
    BY DEF Owned, Threads, Runtimes, Closes
  <2> QED BY <2>1 DEF Entry
<1> QED BY <1>1, <1>2, <1>3

\* What can still tell anything has its entry.
LEMMA AcqBlamed ==
  ASSUME OutcomeInv, asked, sup \in Faced["acquisition"], "acquisition" \notin unstopped
  PROVE  ~AcqStep
<1>1. ~Alive("acquisition")
  BY Entries DEF OutcomeInv, Blamed, Owned
<1>2. acq \in {"none", "ended"}
  BY <1>1 DEF Alive, Up
<1> QED BY <1>2, AcqTells

LEMMA HelperBlamed ==
  ASSUME LockInv, OutcomeInv, asked, sup \in {"decide", "exited"} \union Tellings,
         HelperStep
  PROVE  unstopped # {}
<1>1. PICK t \in Threads : Up(thread[t])
  BY HelperTells DEF LockInv
<1>2. Alive(t) /\ t \in Owned
  BY <1>1, Zenon DEF Alive, Threads, Runtimes, Closes, Owned
<1>3. sup \in Faced[t]
  BY <1>1 DEF Faced, Looked, Tellings, Finish, Outcome, PastSampler, PastAcq, PastScanner,
              PastReport, PastTelegram, PastReports, Owned, Threads, Runtimes, Closes
<1> QED BY <1>2, <1>3 DEF OutcomeInv, Blamed

\* The threads are gone with the process.
LEMMA GoneKept == LockInv /\ OutcomeInv /\ [Next]_vars => Gone'
<1> SUFFICES ASSUME LockInv, OutcomeInv, [Next]_vars, sup' = "exited"
             PROVE  acq' = "ended" /\ \A t \in Threads : thread'[t] = "ended"
  BY DEF Gone
<1> USE DEF OutcomeInv, Gone, Go
<1>1. CASE ProcessExits
  BY <1>1 DEF ProcessExits
<1>2. CASE ChildStep \/ ReapStep \/ StopRequested \/ Expire \/ GuardianStep \/ UNCHANGED vars
  BY <1>2, RestFrame DEF toldVars, acqVars
<1>3. CASE AcqStep
  BY <1>3, AcqTells DEF toldVars
<1>4. CASE HelperStep
  <2>1. sup = "exited"
    BY <1>4, HelperTells DEF LockInv, toldVars
  <2> QED BY <1>4, <2>1, HelperTells DEF LockInv, Up
<1>5. CASE StartStep \/ ShutdownStep \/ OutcomeStep
  <2>1. sup' # "exited"
    BY <1>5 DEF StartStep, Construct, ConstructFails, Start, ShutdownStep, MainEnds,
                StopScanner, ScannerStopped, NoLateScanner, AskSampler, JoinSampler,
                JoinAcquisition, JoinReport, JoinTelegram, CloseSink, SinkWriterJoined,
                SinkCloses, QueryIncidents, CloseReports, ReportsClosed, OutcomeStep,
                Capture, Decide, Publish, Published, PublishFails, AfterPublish,
                Summarise, SummaryFails, Return
  <2> QED BY <2>1
<1> QED BY <1>1, <1>2, <1>3, <1>4, <1>5 DEF Next

\* The supervisor goes through the shutdown once, and asks the sampler first.
LEMMA BegunKept == LockInv /\ OutcomeInv /\ [Next]_vars => Begun'
<1> SUFFICES ASSUME LockInv, OutcomeInv, [Next]_vars PROVE Begun'
  OBVIOUS
<1> USE DEF OutcomeInv, Begun, Finish, Running, PastSampler, PastAcq, PastScanner,
            PastReport, PastTelegram, PastReports, Outcome, Go
<1>1. CASE ChildStep \/ ReapStep \/ StopRequested \/ Expire \/ GuardianStep \/ UNCHANGED vars
  BY <1>1, RestFrame DEF toldVars
<1>2. CASE AcqStep
  BY <1>2, AcqTells DEF toldVars
<1>3. CASE HelperStep
  BY <1>3, HelperTells DEF toldVars, LockInv
<1>4. CASE Construct
  BY <1>4 DEF Construct, endVars
<1>5. CASE ConstructFails
  BY <1>5 DEF ConstructFails, Untold
<1>6. ASSUME NEW n \in 0 .. 5, Start(n) PROVE Begun'
  <2>1. sup' \in {"main", "lookup"}
    BY <1>6, Zenon DEF Start
  <2>2. sup = "start" /\ asked' = asked
    BY <1>6 DEF Start
  <2> QED BY <2>1, <2>2
<1>7. CASE ShutdownStep
  BY <1>7 DEF ShutdownStep, MainEnds, StopScanner, ScannerStopped, NoLateScanner,
              AskSampler, JoinSampler, JoinAcquisition, JoinReport, JoinTelegram, Join,
              CloseSink, SinkWriterJoined, SinkCloses, QueryIncidents, CloseReports,
              ReportsClosed, Quiet, QuietBut, endVars
<1>8. CASE OutcomeStep
  BY <1>8 DEF OutcomeStep, Capture, Decide, Publish, Published, PublishFails,
              AfterPublish, Summarise, SummaryFails, Return, OutcomeFrame
<1>9. CASE ProcessExits
  BY <1>9 DEF ProcessExits
<1> QED BY <1>1, <1>2, <1>3, <1>4, <1>5, <1>6, <1>7, <1>8, <1>9 DEF Next, StartStep

\* asked is set by one step, and stays.
LEMMA AskedWhen == [Next]_vars /\ asked' => asked \/ AskSampler
<1> SUFFICES ASSUME [Next]_vars, asked', ~AskSampler PROVE asked
  OBVIOUS
<1> USE DEF endVars
<1>1. CASE ChildStep \/ ReapStep \/ StopRequested \/ Expire \/ GuardianStep \/ UNCHANGED vars
  BY <1>1, RestFrame DEF toldVars
<1>2. CASE AcqStep
  BY <1>2, AcqTells DEF toldVars
<1>3. CASE HelperStep
  BY <1>3, HelperLeaves
<1>4. CASE StartStep
  BY <1>4 DEF StartStep, Construct, ConstructFails, Start
<1>5. CASE ShutdownStep
  BY <1>5 DEF ShutdownStep, MainEnds, StopScanner, ScannerStopped, NoLateScanner,
              JoinSampler, JoinAcquisition, JoinReport, JoinTelegram, Join, CloseSink,
              SinkWriterJoined, SinkCloses, QueryIncidents, CloseReports, ReportsClosed,
              Quiet, QuietBut
<1>6. CASE OutcomeStep \/ ProcessExits
  BY <1>6 DEF OutcomeStep, Capture, Decide, Publish, Published, PublishFails, Summarise,
              SummaryFails, Return, OutcomeFrame, ProcessExits
<1> QED BY <1>1, <1>2, <1>3, <1>4, <1>5, <1>6 DEF Next

\* Nothing that the supervisor has faced comes to life again.
LEMMA FacedStaysDead ==
  ASSUME LockInv, OutcomeInv, [Next]_vars, ScannerMoves, NEW c \in Owned,
         sup \in Faced[c], Alive(c)'
  PROVE  Alive(c)
<1>1. CASE sup = "exited"
  <2>1. acq \in {"none", "ended"} /\ \A t \in Threads : ~Up(thread[t])
    BY <1>1 DEF OutcomeInv, Gone, Up
  <2>2. ~AcqStep /\ ~HelperStep
    BY <2>1, AcqTells, HelperTells DEF LockInv
  <2>3. ~(ReapStep \/ StopRequested \/ GuardianStep \/ Expire)
    BY <1>1 DEF ReapStep, StopRequested, GuardianStep, GuardianJoins, GuardianReleases,
                Expire
  <2>4. ~(StartStep \/ ShutdownStep \/ OutcomeStep \/ ProcessExits)
    BY <1>1 DEF StartStep, Construct, ConstructFails, Start, ShutdownStep, MainEnds,
                StopScanner, ScannerStopped, NoLateScanner, AskSampler, JoinSampler,
                JoinAcquisition, JoinReport, JoinTelegram, CloseSink, SinkWriterJoined,
                SinkCloses, QueryIncidents, CloseReports, ReportsClosed, OutcomeStep,
                Capture, Decide, Publish, Published, PublishFails, Summarise,
                SummaryFails, Return, ProcessExits, Go
  <2>5. CASE ChildStep
    <3>1. ChildEnds /\ UNCHANGED <<acqVars, thread>>
      BY <1>1, <2>5 DEF ChildStep
    <3> QED BY <3>1 DEF ChildEnds, acqVars, Alive
  <2>6. CASE UNCHANGED vars
    BY <2>6 DEF vars, acqVars, scannerVars, childVars, Alive
  <2> QED BY <2>2, <2>3, <2>4, <2>5, <2>6 DEF Next
<1>2. CASE sup \in Looked[c]
  BY <1>2, NoRevival
<1>3. CASE /\ c \in {"writer", "sink_close"}
           /\ sup \in {"query", "reportclose", "reportjoin", "capture"}
  <2>1. c \in Threads
    BY <1>3 DEF Threads, Closes
  <2>2. Alive(c) = Up(thread[c]) /\ Alive(c)' = Up(thread[c])'
    BY <1>3, Zenon DEF Alive
  <2> QED BY <1>3, <2>1, <2>2, ThreadFalls DEF LockInv
<1> QED BY <1>1, <1>2, <1>3 DEF Faced, Looked, PastReports, Outcome, Owned

\* What lives when the supervisor faces it is given its entry.
LEMMA FacesWell ==
  ASSUME LockInv, OutcomeInv, [Next]_vars, NEW c \in Owned, asked',
         sup \notin Faced[c], sup' \in Faced[c], Alive(c)'
  PROVE  Entry[c] \in unstopped'
<1> USE DEF Faced, Looked, PastSampler, PastAcq, PastScanner, PastReport, PastTelegram,
            PastReports, Outcome, Go
<1>1. sup' # sup
  OBVIOUS
<1>2. ~(ChildStep \/ ReapStep \/ StopRequested \/ Expire \/ GuardianStep \/ UNCHANGED vars)
  BY <1>1, RestFrame DEF toldVars
<1>3. ~AcqStep /\ ~HelperStep
  BY <1>1, AcqTells, HelperTells DEF toldVars, LockInv
<1>4. ~Construct /\ ~ProcessExits
  BY DEF Construct, ProcessExits
<1>5. ~ConstructFails
  BY DEF ConstructFails, OutcomeInv, Begun, Running
<1>6. ASSUME NEW n \in 0 .. 5, Start(n) PROVE FALSE
  <2>1. sup' \in {"main", "lookup"}
    BY <1>6, Zenon DEF Start
  <2> QED BY <2>1
<1>7. CASE ShutdownStep
  <2>1. CASE MainEnds \/ StopScanner \/ AskSampler \/ CloseSink \/ SinkWriterJoined
             \/ QueryIncidents \/ CloseReports
    BY <2>1 DEF MainEnds, StopScanner, AskSampler, CloseSink, SinkWriterJoined,
                QueryIncidents, CloseReports
  <2>2. CASE ScannerStopped
    <3>1. c = "scanner" /\ active # 0
      BY <2>2 DEF ScannerStopped, Alive, scannerVars, childVars
    <3>2. "rtl_power" \in unstopped'
      BY <2>2, <3>1 DEF ScannerStopped, Unstopped
    <3> QED BY <3>1, <3>2, Entries
  <2>3. CASE NoLateScanner
    BY <2>3 DEF NoLateScanner, Alive, scannerVars, childVars
  <2>4. CASE JoinSampler
    <3>1. c = "sampler" /\ Alive(c)
      BY <2>4 DEF JoinSampler, Join, Alive
    <3>2. "other" \in unstopped'
      BY <2>4, <3>1 DEF JoinSampler, Join, Unstopped
    <3> QED BY <3>1, <3>2, Entries DEF Runtimes
  <2>5. CASE JoinAcquisition
    <3>1. c = "acquisition" /\ Alive(c)
      BY <2>5 DEF JoinAcquisition, Join, Alive, QuietBut, acqVars
    <3>2. "acquisition" \in unstopped'
      BY <2>5, <3>1 DEF JoinAcquisition, Join, Unstopped
    <3> QED BY <3>1, <3>2, Entries
  <2>6. CASE JoinReport
    <3>1. c = "report" /\ Alive(c)
      BY <2>6 DEF JoinReport, Join, Alive
    <3>2. "other" \in unstopped'
      BY <2>6, <3>1 DEF JoinReport, Join, Unstopped
    <3> QED BY <3>1, <3>2, Entries DEF Runtimes
  <2>7. CASE JoinTelegram
    <3>1. c = "telegram" /\ Alive(c)
      BY <2>7 DEF JoinTelegram, Join, Alive
    <3>2. "other" \in unstopped'
      BY <2>7, <3>1 DEF JoinTelegram, Join, Unstopped
    <3> QED BY <3>1, <3>2, Entries DEF Runtimes
  <2>8. CASE SinkCloses
    <3>1. c \in {"writer", "sink_close"}
      BY <2>8 DEF SinkCloses, Owned, Threads, Runtimes, Closes
    <3>2. UNCHANGED thread
      BY <2>8 DEF SinkCloses
    <3>3. Up(thread[c])
      BY <3>1, <3>2 DEF Alive
    <3>4. "storage" \in unstopped'
      <4>1. CASE sup = "sinkjoin" /\ ~Up(thread["sink_close"])
        BY <3>1, <3>3, <4>1 DEF OutcomeInv, SinkShut
      <4>2. CASE ~(sup = "sinkjoin" /\ ~Up(thread["sink_close"]))
        BY <2>8, <4>2 DEF SinkCloses, Unstopped
      <4> QED BY <4>1, <4>2
    <3> QED BY <3>1, <3>4, Entries DEF Closes
  <2>9. CASE ReportsClosed
    <3>1. c = "report_close"
      BY <2>9 DEF ReportsClosed, Owned, Threads, Runtimes, Closes
    <3>2. UNCHANGED thread /\ Up(thread["report_close"])
      BY <2>9, <3>1 DEF ReportsClosed, Alive
    <3>3. "storage" \in unstopped'
      BY <2>9, <3>2 DEF ReportsClosed, Unstopped
    <3> QED BY <3>1, <3>3, Entries DEF Closes
  <2> QED BY <1>7, <2>1, <2>2, <2>3, <2>4, <2>5, <2>6, <2>7, <2>8, <2>9 DEF ShutdownStep
<1>8. CASE OutcomeStep
  BY <1>8 DEF OutcomeStep, Capture, Decide, Publish, Published, PublishFails,
              AfterPublish, Summarise, SummaryFails, Return, Owned, Threads, Runtimes,
              Closes
<1> QED BY <1>2, <1>3, <1>4, <1>5, <1>6, <1>7, <1>8 DEF Next, StartStep

\* So whatever lives and was faced has its entry after every step.
LEMMA BlamedKept == LockInv /\ OutcomeInv /\ [Next]_vars /\ ScannerMoves => Blamed'
<1> SUFFICES ASSUME LockInv, OutcomeInv, [Next]_vars, ScannerMoves,
                    NEW c \in Owned, asked', sup' \in Faced[c], Alive(c)'
             PROVE  Entry[c] \in unstopped'
  BY DEF Blamed, Faced, Looked, Entry
<1>1. CASE sup \in Faced[c]
  <2>1. asked
    <3>1. CASE AskSampler
      BY <1>1, <3>1 DEF AskSampler, Go, Faced, Looked, PastSampler, PastAcq, PastScanner,
                        PastReport, PastTelegram, PastReports, Outcome
    <3> QED BY <3>1, AskedWhen
  <2>2. Alive(c)
    BY <1>1, FacedStaysDead
  <2> QED BY <1>1, <2>1, <2>2, UnstoppedStays DEF OutcomeInv, Blamed
<1>2. CASE sup \notin Faced[c]
  BY <1>2, FacesWell
<1> QED BY <1>1, <1>2

\* The sink is closed by one step, and a writer that has ended cannot fail it.
LEMMA SinkShutKept == LockInv /\ OutcomeInv /\ [Next]_vars /\ ScannerMoves => SinkShut'
<1> SUFFICES ASSUME LockInv, OutcomeInv, [Next]_vars, ScannerMoves PROVE SinkShut'
  OBVIOUS
<1>1. sup' = "sinkjoin" => ~Up(thread'["writer"])
  <2> SUFFICES ASSUME sup' = "sinkjoin" PROVE ~Up(thread["writer"])'
    BY DEF Up
  <2>1. CASE sup = "sinkjoin"
    <3>1. ~Up(thread["writer"])
      BY <2>1 DEF OutcomeInv, SinkShut
    <3>2. "writer" \in Threads
      BY DEF Threads
    <3> QED BY <2>1, <3>1, <3>2, ThreadFalls DEF LockInv
  <2>2. CASE SinkWriterJoined
    BY <2>2 DEF SinkWriterJoined, Move, Up, LockInv, OwnTypeOK, Threads
  <2>3. CASE sup # "sinkjoin" /\ ~SinkWriterJoined
    <3> USE DEF Go
    <3>1. ~(ChildStep \/ ReapStep \/ StopRequested \/ Expire \/ GuardianStep \/ UNCHANGED vars)
      BY <2>3, RestFrame DEF toldVars
    <3>2. ~AcqStep /\ ~HelperStep
      BY <2>3, AcqTells, HelperTells DEF toldVars, LockInv
    <3>3. ~(StartStep \/ OutcomeStep \/ ProcessExits)
      BY <2>3 DEF StartStep, Construct, ConstructFails, Start, OutcomeStep, Capture,
                  Decide, Publish, Published, PublishFails, AfterPublish, Summarise,
                  SummaryFails, Return, ProcessExits
    <3>4. ~ShutdownStep
      BY <2>3 DEF ShutdownStep, MainEnds, StopScanner, ScannerStopped, NoLateScanner,
                  AskSampler, JoinSampler, JoinAcquisition, JoinReport, JoinTelegram,
                  CloseSink, SinkCloses, QueryIncidents, CloseReports, ReportsClosed
    <3> QED BY <3>1, <3>2, <3>3, <3>4 DEF Next
  <2> QED BY <2>1, <2>2, <2>3
<1>2. asked' /\ sup' \in Faced["writer"] => sink' = "closed" \/ "storage" \in unstopped'
  <2> SUFFICES ASSUME asked', sup' \in Faced["writer"], "storage" \notin unstopped'
               PROVE  sink' = "closed"
    OBVIOUS
  <2> USE DEF Faced, PastReports, Outcome, Owned, Threads, Go
  <2>1. "storage" \notin unstopped
    BY UnstoppedStays
  <2>2. CASE SinkCloses
    BY <2>2 DEF SinkCloses, Unstopped
  <2>3. CASE ~SinkCloses
    <3>1. CASE ChildStep \/ ReapStep \/ StopRequested \/ Expire \/ GuardianStep \/ UNCHANGED vars
      BY <2>1, <3>1, RestFrame DEF toldVars, OutcomeInv, SinkShut
    <3>2. CASE AcqStep
      BY <2>1, <3>2, AcqTells DEF toldVars, OutcomeInv, SinkShut
    <3>3. CASE HelperStep
      <4>1. asked /\ sup \in Faced["writer"] /\ (sink' = sink \/ Up(thread["writer"]))
        BY <3>3, HelperTells DEF toldVars, LockInv
      <4>2. ~Up(thread["writer"])
        BY <2>1, <4>1, Entries DEF OutcomeInv, Blamed, Alive
      <4> QED BY <2>1, <4>1, <4>2 DEF OutcomeInv, SinkShut
    <3>4. CASE Construct
      BY <3>4 DEF Construct
    <3>5. CASE ConstructFails
      BY <3>5 DEF ConstructFails, OutcomeInv, Begun, Running
    <3>6. ASSUME NEW n \in 0 .. 5, Start(n) PROVE FALSE
      <4>1. sup' \in {"main", "lookup"}
        BY <3>6, Zenon DEF Start
      <4> QED BY <4>1
    <3>7. CASE ShutdownStep
      BY <2>1, <2>3, <3>7 DEF ShutdownStep, MainEnds, StopScanner, ScannerStopped,
                              NoLateScanner, AskSampler, JoinSampler, JoinAcquisition,
                              JoinReport, JoinTelegram, Join, CloseSink, SinkWriterJoined,
                              QueryIncidents, CloseReports, ReportsClosed, Quiet,
                              QuietBut, OutcomeInv, SinkShut
    <3>8. CASE OutcomeStep
      BY <2>1, <3>8 DEF OutcomeStep, Capture, Decide, Publish, Published, PublishFails,
                        AfterPublish, Summarise, SummaryFails, Return, OutcomeFrame,
                        OutcomeInv, SinkShut
    <3>9. CASE ProcessExits
      BY <2>1, <3>9 DEF ProcessExits, OutcomeInv, SinkShut
    <3> QED BY <3>1, <3>2, <3>3, <3>4, <3>5, <3>6, <3>7, <3>8, <3>9 DEF Next, StartStep
  <2> QED BY <2>2, <2>3
<1> QED BY <1>1, <1>2 DEF SinkShut

\* The three are told once, by Summarise or SummaryFails.
LEMMA UntoldKept == LockInv /\ OutcomeInv /\ [Next]_vars => Untold'
<1> SUFFICES ASSUME LockInv, OutcomeInv, [Next]_vars, sup' \notin Finish
             PROVE  /\ summary' = "marker" /\ exitCode' # 0
                    /\ attempt' = "correct" => sup' \in {"publish", "publishing"}
  BY DEF Untold
<1> USE DEF OutcomeInv, Untold, Finish, Go
<1>1. CASE ChildStep \/ ReapStep \/ StopRequested \/ Expire \/ GuardianStep \/ UNCHANGED vars
  BY <1>1, RestFrame DEF toldVars
<1>2. CASE AcqStep
  BY <1>2, AcqTells DEF toldVars
<1>3. CASE HelperStep
  BY <1>3, HelperTells DEF toldVars, LockInv
<1>4. CASE Construct
  BY <1>4 DEF Construct, endVars
<1>5. CASE ConstructFails
  BY <1>5 DEF ConstructFails
<1>6. ASSUME NEW n \in 0 .. 5, Start(n)
      PROVE  /\ summary' = "marker" /\ exitCode' # 0
             /\ attempt' = "correct" => sup' \in {"publish", "publishing"}
  <2>1. sup = "start" /\ UNCHANGED <<attempt, exitCode, summary>>
    BY <1>6 DEF Start
  <2> QED BY <2>1
<1>7. CASE ShutdownStep
  BY <1>7 DEF ShutdownStep, MainEnds, StopScanner, ScannerStopped, NoLateScanner,
              AskSampler, JoinSampler, JoinAcquisition, JoinReport, JoinTelegram, Join,
              CloseSink, SinkWriterJoined, SinkCloses, QueryIncidents, CloseReports,
              ReportsClosed, Quiet, QuietBut, endVars
<1>8. CASE OutcomeStep
  BY <1>8 DEF OutcomeStep, Capture, Decide, Publish, Published, PublishFails,
              AfterPublish, Summarise, SummaryFails, Return, OutcomeFrame
<1>9. CASE ProcessExits
  BY <1>9 DEF ProcessExits
<1> QED BY <1>1, <1>2, <1>3, <1>4, <1>5, <1>6, <1>7, <1>8, <1>9 DEF Next, StartStep

\* From the decision on the supervisor only tells the outcome.
LEMMA LateSteps ==
  ASSUME [Next]_vars, sup \in {"decide"} \union Tellings
  PROVE  \/ ChildStep \/ ReapStep \/ StopRequested \/ Expire \/ GuardianStep \/ UNCHANGED vars
         \/ AcqStep \/ HelperStep \/ Decide \/ Publish \/ Published \/ PublishFails
         \/ Summarise \/ SummaryFails \/ Return \/ ProcessExits
<1> USE DEF Tellings, Finish, Go
<1>1. ~StartStep
  BY DEF StartStep, Construct, ConstructFails, Start
<1>2. ~ShutdownStep
  BY DEF ShutdownStep, MainEnds, StopScanner, ScannerStopped, NoLateScanner, AskSampler,
         JoinSampler, JoinAcquisition, JoinReport, JoinTelegram, CloseSink,
         SinkWriterJoined, SinkCloses, QueryIncidents, CloseReports, ReportsClosed
<1>3. ~Capture
  BY DEF Capture
<1> QED BY <1>1, <1>2, <1>3 DEF Next, OutcomeStep

\* It starts to with the decision.
LEMMA DecidesFirst ==
  ASSUME LockInv, OutcomeInv, [Next]_vars, asked', sup' \in Tellings, sup \notin Tellings
  PROVE  Decide
<1> USE DEF Tellings, Finish, Go
<1>1. ~(ChildStep \/ ReapStep \/ StopRequested \/ Expire \/ GuardianStep \/ UNCHANGED vars)
  BY RestFrame DEF toldVars
<1>2. ~AcqStep /\ ~HelperStep
  BY AcqTells, HelperTells DEF toldVars, LockInv
<1>3. ~StartStep
  <2>1. ~Construct
    BY DEF Construct
  <2>2. ~ConstructFails
    BY DEF ConstructFails, OutcomeInv, Begun, Running
  <2>3. ASSUME NEW n \in 0 .. 5, Start(n) PROVE FALSE
    <3>1. sup' \in {"main", "lookup"}
      BY <2>3, Zenon DEF Start
    <3> QED BY <3>1
  <2> QED BY <2>1, <2>2, <2>3 DEF StartStep
<1>4. ~ShutdownStep
  BY DEF ShutdownStep, MainEnds, StopScanner, ScannerStopped, NoLateScanner, AskSampler,
         JoinSampler, JoinAcquisition, JoinReport, JoinTelegram, CloseSink,
         SinkWriterJoined, SinkCloses, QueryIncidents, CloseReports, ReportsClosed
<1>5. OutcomeStep => Decide
  BY DEF OutcomeStep, Capture, Publish, Published, PublishFails, Summarise, SummaryFails,
         Return
<1> QED BY <1>1, <1>2, <1>3, <1>4, <1>5 DEF Next, ProcessExits

\* The sampler was asked long before.
LEMMA AskedBefore ==
  ASSUME [Next]_vars, asked', sup \in {"decide", "capture"} \union Tellings
  PROVE  asked
  BY AskedWhen DEF AskSampler, Go, Tellings, Finish

\* A thread that lives so late makes the outcome a failure, before and after its step.
LEMMA OthersUnclean ==
  ASSUME LockInv, OutcomeInv, asked, sup \in {"decide"} \union Tellings,
         AcqStep \/ HelperStep
  PROVE  ~Clean /\ ~Clean'
<1>1. unstopped # {}
  <2>1. CASE AcqStep
    <3>1. sup \in Faced["acquisition"]
      BY DEF Faced, Looked, Tellings, Finish, Outcome, PastAcq, PastScanner, PastReport,
             PastTelegram, PastReports, Owned
    <3> QED BY <2>1, <3>1, AcqBlamed
  <2>2. CASE HelperStep
    BY <2>2, HelperBlamed
  <2> QED BY <2>1, <2>2
<1>2. UNCHANGED unstopped
  BY AcqTells, HelperTells DEF toldVars, LockInv
<1> QED BY <1>1, <1>2 DEF Clean, NonClean, AnyFailure

\* A snapshot that could not be taken is a failure of the storage.
LEMMA CapturedKept == LockInv /\ OutcomeInv /\ [Next]_vars => Captured'
<1> SUFFICES ASSUME LockInv, OutcomeInv, [Next]_vars,
                    sup' \in {"decide"} \union Tellings, asked', snap' = "none"
             PROVE  "storage" \in unstopped'
  BY DEF Captured, Tellings, Finish
<1>1. CASE Capture
  BY <1>1 DEF Capture, Unstopped
<1>2. CASE ~Capture
  <2>1. sup \in {"decide"} \union Tellings
    <3>1. CASE sup' \in Tellings
      BY <3>1, DecidesFirst DEF Decide, Go
    <3>2. CASE sup' = "decide" /\ sup # "decide"
      <4> USE DEF Go
      <4>1. ~(ChildStep \/ ReapStep \/ StopRequested \/ Expire \/ GuardianStep \/ UNCHANGED vars)
        BY <3>2, RestFrame DEF toldVars
      <4>2. ~AcqStep /\ ~HelperStep
        BY <3>2, AcqTells, HelperTells DEF toldVars, LockInv
      <4>3. ~(StartStep \/ ShutdownStep \/ OutcomeStep \/ ProcessExits)
        BY <1>2, <3>2 DEF StartStep, Construct, ConstructFails, Start, ShutdownStep,
                          MainEnds, StopScanner, ScannerStopped, NoLateScanner,
                          AskSampler, JoinSampler, JoinAcquisition, JoinReport,
                          JoinTelegram, CloseSink, SinkWriterJoined, SinkCloses,
                          QueryIncidents, CloseReports, ReportsClosed, OutcomeStep,
                          Decide, Publish, Published, PublishFails, AfterPublish,
                          Summarise, SummaryFails, Return, ProcessExits
      <4> QED BY <4>1, <4>2, <4>3 DEF Next
    <3> QED BY <3>1, <3>2
  <2>2. snap' = snap
    BY <2>1, LateSteps, RestFrame, AcqTells, HelperTells
    DEF toldVars, LockInv, Decide, Publish, Published, PublishFails, Summarise,
        SummaryFails, Return, ProcessExits
  <2> QED BY <2>1, <2>2, AskedBefore, UnstoppedStays DEF OutcomeInv, Captured
<1> QED BY <1>1, <1>2

\* Summary and exit code are told from the same failures, and these stay.
LEMMA VerdictKept == LockInv /\ OutcomeInv /\ [Next]_vars => Verdict'
<1> SUFFICES ASSUME LockInv, OutcomeInv, [Next]_vars, asked', sup' \in Finish
             PROVE  /\ (summary = "clean" <=> Clean)'
                    /\ (exitCode = 0 => Clean)'
                    /\ (Clean /\ ~raising => exitCode = 0)'
  BY DEF Verdict, Finish
<1> USE DEF Clean, NonClean, AnyFailure
<1>1. sup \in {"decide"} \union Tellings
  BY DecidesFirst DEF Decide, Go, Tellings
<1>2. asked
  BY <1>1, AskedBefore
<1>3. CASE sup \in Finish
  <2>1. sup # "decide" /\ Verdict
    BY <1>3 DEF Finish, OutcomeInv
  <2>2. CASE ChildStep \/ ReapStep \/ StopRequested \/ Expire \/ GuardianStep \/ UNCHANGED vars
    BY <1>2, <1>3, <2>1, <2>2, RestFrame DEF toldVars, failVars, Verdict
  <2>3. CASE AcqStep \/ HelperStep
    <3>1. ~Clean /\ ~Clean'
      BY <1>1, <1>2, <2>3, OthersUnclean
    <3>2. UNCHANGED <<summary, exitCode>>
      BY <2>3, AcqTells, HelperTells DEF toldVars, LockInv
    <3> HIDE DEF Clean
    <3> QED BY <1>2, <1>3, <2>1, <3>1, <3>2 DEF Verdict
  <2>4. CASE Return
    BY <1>2, <1>3, <2>1, <2>4 DEF Return, failVars, Verdict
  <2>5. CASE ProcessExits
    BY <1>2, <1>3, <2>1, <2>5 DEF ProcessExits, failVars, Verdict
  <2>6. ~(Decide \/ Publish \/ Published \/ PublishFails \/ Summarise \/ SummaryFails)
    BY <1>3 DEF Decide, Publish, Published, PublishFails, Summarise, SummaryFails, Go,
                Finish
  <2> QED BY <1>1, <2>2, <2>3, <2>4, <2>5, <2>6, LateSteps
<1>4. CASE sup \notin Finish
  <2>1. ~(ChildStep \/ ReapStep \/ StopRequested \/ Expire \/ GuardianStep \/ UNCHANGED vars)
    BY <1>4, RestFrame DEF toldVars
  <2>2. ~AcqStep /\ ~HelperStep
    BY <1>4, AcqTells, HelperTells DEF toldVars, LockInv
  <2>3. summary = "marker" /\ exitCode # 0
    BY <1>4 DEF OutcomeInv, Untold
  <2>4. CASE Summarise
    <3>1. attempt # "correct"
      BY <2>4 DEF Summarise, Go, OutcomeInv, Untold, Finish
    <3> QED BY <2>4, <3>1 DEF Summarise, failVars
  <2>5. CASE Published \/ PublishFails
    BY <1>4, <2>3, <2>5 DEF Published, PublishFails, AfterPublish, Go, Finish
  <2>6. ~(Decide \/ Publish \/ SummaryFails \/ Return \/ ProcessExits)
    BY <1>4 DEF Decide, Publish, SummaryFails, Return, ProcessExits, Go, Finish
  <2> QED BY <1>1, <2>1, <2>2, <2>4, <2>5, <2>6, LateSteps
<1> QED BY <1>3, <1>4

\* The health state says what was decided, once nobody else can change it.
LEMMA SaidKept == LockInv /\ OutcomeInv /\ [Next]_vars => Said'
<1> SUFFICES ASSUME LockInv, OutcomeInv, [Next]_vars, asked', sup' \in Tellings
             PROVE  /\ (Clean => app = "fine" /\ shut = "complete")'
                    /\ (~Clean /\ "acquisition" \notin unstopped => app = "failed")'
  BY DEF Said, Tellings, Finish
<1>1. sup \in {"decide"} \union Tellings
  BY DecidesFirst DEF Decide, Go, Tellings
<1>2. asked
  BY <1>1, AskedBefore
<1>3. CASE Decide
  <2>1. attempt # "correct"
    BY <1>3 DEF Decide, Go, OutcomeInv, Untold, Finish
  <2>2. UNCHANGED <<attempt, broken, unstopped, snap>>
    BY <1>3 DEF Decide, failVars
  <2>3. (NonClean => app' = "failed") /\ (~NonClean => app' = "fine" /\ shut' = "complete")
    BY <1>3 DEF Decide
  <2> QED BY <2>1, <2>2, <2>3 DEF Clean, NonClean, AnyFailure
<1>4. CASE ~Decide
  <2>0. sup \in Tellings
    BY <1>4, DecidesFirst
  <2>1. /\ Clean => app = "fine" /\ shut = "complete"
        /\ ~Clean /\ "acquisition" \notin unstopped => app = "failed"
    BY <1>2, <2>0 DEF OutcomeInv, Said
  <2>2. CASE ChildStep \/ ReapStep \/ StopRequested \/ Expire \/ GuardianStep \/ UNCHANGED vars
    <3>1. UNCHANGED <<attempt, broken, unstopped, snap, app, shut>>
      BY <2>2, RestFrame DEF toldVars, failVars, healthVars
    <3> QED BY <2>1, <3>1 DEF Clean, NonClean, AnyFailure
  <2>3. CASE AcqStep
    <3>1. sup \in Faced["acquisition"]
      BY <2>0 DEF Faced, Looked, Tellings, Finish, Outcome, PastAcq, PastScanner,
                  PastReport, PastTelegram, PastReports, Owned
    <3>2. "acquisition" \in unstopped'
      BY <1>2, <2>3, <3>1, AcqBlamed, AcqTells DEF toldVars
    <3> QED BY <1>1, <1>2, <2>3, <3>2, OthersUnclean
  <2>4. CASE HelperStep
    <3>1. ~Clean /\ ~Clean'
      BY <1>1, <1>2, <2>4, OthersUnclean
    <3>2. UNCHANGED unstopped /\ app' \in {app, "failed"}
      BY <2>4, HelperTells DEF LockInv, toldVars
    <3> QED BY <2>1, <3>1, <3>2
  <2>5. CASE Publish
    <3>1. UNCHANGED <<attempt, broken, unstopped, snap, app>>
      BY <2>5 DEF Publish, failVars
    <3>2. Clean => snap = "clean"
      <4>1. snap = "none" => unstopped # {}
        BY <1>2, <2>0 DEF OutcomeInv, Captured
      <4> QED BY <4>1 DEF Clean, NonClean, AnyFailure, LockInv, OwnTypeOK
    <3>3. Clean => shut' = "complete"
      BY <2>1, <2>5, <3>2 DEF Publish
    <3> QED BY <2>1, <3>1, <3>3 DEF Clean, NonClean, AnyFailure
  <2>6. CASE Published \/ Summarise \/ Return \/ ProcessExits
    <3>1. UNCHANGED <<attempt, broken, unstopped, snap, app, shut>>
      BY <2>6 DEF Published, Summarise, Return, ProcessExits, failVars, healthVars,
                  OutcomeFrame
    <3> QED BY <2>1, <3>1 DEF Clean, NonClean, AnyFailure
  <2>7. CASE PublishFails
    <3>1. CASE attempt = "first"
      BY <2>7, <3>1 DEF PublishFails, Unstopped, Clean, NonClean, AnyFailure
    <3>2. CASE attempt # "first"
      <4>1. UNCHANGED <<attempt, broken, unstopped, snap, app, shut>>
        BY <2>7, <3>2 DEF PublishFails, Unstopped
      <4> QED BY <2>1, <4>1 DEF Clean, NonClean, AnyFailure
    <3> QED BY <3>1, <3>2
  <2>8. CASE SummaryFails
    BY <2>8 DEF SummaryFails, Clean
  <2> QED BY <1>1, <1>4, <2>2, <2>3, <2>4, <2>5, <2>6, <2>7, <2>8, LateSteps
<1> QED BY <1>3, <1>4

\* What was published last stays in the file, or is written again as it is.
LEMMA WrittenKept == LockInv /\ OutcomeInv /\ [Next]_vars => Written'
<1> SUFFICES ASSUME LockInv, OutcomeInv, [Next]_vars, asked',
                    sup' \in {"summarise"} \union Finish, published',
                    "acquisition" \notin unstopped'
             PROVE  (file <=> Clean)'
  BY DEF Written, Finish
<1>1. sup \in Tellings
  BY DecidesFirst DEF Decide, Go, Tellings, Finish
<1>2. asked /\ "acquisition" \notin unstopped
  BY <1>1, AskedBefore, UnstoppedStays
<1>3. /\ Clean => app = "fine" /\ shut = "complete"
      /\ ~Clean => app = "failed"
  BY <1>1, <1>2 DEF OutcomeInv, Said
<1>4. CASE Published
  <2>1. file' <=> app = "fine" /\ shut = "complete"
    BY <1>4 DEF Published, SaveOK
  <2>2. UNCHANGED <<attempt, broken, unstopped, snap>>
    BY <1>4 DEF Published, failVars
  <2> QED BY <1>3, <2>1, <2>2 DEF Clean, NonClean, AnyFailure
<1>5. CASE PublishFails
  BY <1>5 DEF PublishFails
<1>6. CASE ~Published /\ ~PublishFails
  <2>1. sup \in {"summarise"} \union Finish
    <3> SUFFICES ASSUME sup \notin {"summarise"} \union Finish PROVE FALSE
      OBVIOUS
    <3> USE DEF Go, Tellings, Finish
    <3>1. ~(ChildStep \/ ReapStep \/ StopRequested \/ Expire \/ GuardianStep \/ UNCHANGED vars)
      BY <1>1, RestFrame DEF toldVars
    <3>2. ~AcqStep /\ ~HelperStep
      BY <1>1, AcqTells, HelperTells DEF toldVars, LockInv
    <3>3. ~(Decide \/ Publish \/ Summarise \/ SummaryFails \/ Return \/ ProcessExits)
      BY <1>1 DEF Decide, Publish, Summarise, SummaryFails, Return, ProcessExits
    <3> QED BY <1>1, <1>6, <3>1, <3>2, <3>3, LateSteps
  <2>2. CASE ChildStep \/ ReapStep \/ StopRequested \/ Expire \/ GuardianStep \/ UNCHANGED vars
    <3>1. UNCHANGED <<attempt, broken, unstopped, snap, file, published>>
      BY <2>2, RestFrame DEF toldVars, failVars, healthVars
    <3> QED BY <1>2, <2>1, <3>1 DEF Clean, NonClean, AnyFailure, OutcomeInv, Written
  <2>3. ~AcqStep
    <3>1. sup \in Faced["acquisition"]
      BY <1>1 DEF Faced, Looked, Tellings, Finish, Outcome, PastAcq, PastScanner,
                  PastReport, PastTelegram, PastReports, Owned
    <3> QED BY <1>2, <3>1, AcqBlamed
  <2>4. CASE HelperStep
    <3>1. ~Clean /\ ~Clean'
      BY <1>1, <1>2, <2>4, OthersUnclean
    <3>2. UNCHANGED published /\ (file' = file \/ file' = (app = "fine" /\ shut = "complete"))
      BY <2>4, HelperTells DEF LockInv, toldVars
    <3>3. ~file
      BY <1>2, <2>1, <3>1, <3>2 DEF OutcomeInv, Written
    <3>4. ~file'
      BY <1>3, <3>1, <3>2, <3>3
    <3> QED BY <3>1, <3>4
  <2>5. CASE Summarise \/ Return \/ ProcessExits
    <3>1. UNCHANGED <<attempt, broken, unstopped, snap, file, published>>
      BY <2>5 DEF Summarise, Return, ProcessExits, failVars, healthVars
    <3> QED BY <1>2, <2>1, <3>1 DEF Clean, NonClean, AnyFailure, OutcomeInv, Written
  <2>6. ~(Decide \/ Publish \/ SummaryFails)
    BY <2>1 DEF Decide, Publish, SummaryFails, Go, Finish
  <2> QED BY <1>1, <1>6, <2>2, <2>3, <2>4, <2>5, <2>6, LateSteps
<1> QED BY <1>4, <1>5, <1>6

\* Nothing is told at the start.
LEMMA InitOutcomeInv == Init => OutcomeInv
<1> SUFFICES ASSUME Init PROVE OutcomeInv
  OBVIOUS
<1>1. Gone /\ Begun /\ SinkShut /\ Untold /\ Captured
  BY DEF Init, Gone, Begun, SinkShut, Untold, Captured, Finish, Running, Tellings,
         PastSampler, PastAcq, PastScanner, PastReport, PastTelegram, PastReports, Outcome
<1>2. Blamed /\ Verdict /\ Said /\ Written
  BY DEF Init, Blamed, Verdict, Said, Written
<1> QED BY <1>1, <1>2 DEF OutcomeInv

(* Every reachable state of the station: what outlives the deadline has    *)
(* its entry, and what was told goes by the entries.                       *)
THEOREM OutcomeInductive == Spec => []OutcomeInv
<1>1. LockInv /\ ScannerMoves /\ OutcomeInv /\ [Next]_vars => OutcomeInv'
  BY GoneKept, BegunKept, BlamedKept, SinkShutKept, UntoldKept, CapturedKept, VerdictKept,
     SaidKept, WrittenKept DEF OutcomeInv
<1>2. Stopping /\ [Next]_vars => ScannerMoves
  BY StationMoves
<1> QED BY InitOutcomeInv, <1>1, <1>2, StoppingInvariant, StationInductive, PTL DEF Spec

(* The exit code is 0 only after a stop in which nothing failed, every     *)
(* thread ended, the sink was closed, and no child is left but one that    *)
(* outlived its kill.                                                      *)
THEOREM CleanExitHolds == Spec => []CleanExit
<1>1. LockInv /\ OutcomeInv /\ IInv => CleanExit
  <2> SUFFICES ASSUME LockInv, OutcomeInv, IInv, exitCode = 0
               PROVE  /\ ~AnyFailure /\ sink = "closed"
                      /\ \A c \in Owned : ~Alive(c)
                      /\ running \subseteq Stubborn
    BY DEF CleanExit
  <2>1. sup \in Finish /\ asked
    BY DEF OutcomeInv, Untold, Begun
  <2>2. ~AnyFailure /\ unstopped = {}
    BY <2>1 DEF OutcomeInv, Verdict, Clean, NonClean, AnyFailure
  <2>3. \A c \in Owned : sup \in Faced[c]
    BY <2>1 DEF Faced, Looked, Finish, Outcome, PastSampler, PastAcq, PastScanner,
                PastReport, PastTelegram, PastReports
  <2>4. \A c \in Owned : ~Alive(c)
    BY <2>1, <2>2, <2>3 DEF OutcomeInv, Blamed
  <2>5. sink = "closed"
    BY <2>1, <2>2, <2>3 DEF OutcomeInv, SinkShut, Owned, Threads
  <2>6. active = 0
    BY <2>4 DEF Alive, Owned
  <2> QED BY <2>2, <2>4, <2>5, <2>6, NothingOwned
<1> QED BY <1>1, StationInductive, OutcomeInductive, StationDrivesScanner,
ScannerInductive, PTL

(* The run summary and the exit code tell the same outcome.                *)
THEOREM SummaryAgreesHolds == Spec => []SummaryAgrees
<1>1. OutcomeInv => SummaryAgrees
  BY DEF OutcomeInv, Verdict, Begun, SummaryAgrees, Told, Finish
<1> QED BY <1>1, OutcomeInductive, PTL

(* The health file that is left tells it too, if it could be written and   *)
(* the acquisition thread had ended.                                       *)
THEOREM HealthAgreesHolds == Spec => []HealthAgrees
<1>1. OutcomeInv => HealthAgrees
  BY DEF OutcomeInv, Verdict, Written, Begun, HealthAgrees, Told, Finish
<1> QED BY <1>1, OutcomeInductive, PTL
=============================================================================
