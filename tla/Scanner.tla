------------------------------ MODULE Scanner ------------------------------
(***************************************************************************)
(* RTLPowerScanner of rtl_power.py: the acquisition thread runs one        *)
(* rtl_power child per scan, and the supervisor may at any moment stop the *)
(* child the scanner owns.  _process_lock guards only the handle and the   *)
(* shutdown flag; starting is one critical section, stopping is not: the   *)
(* handle is read, the child is ended outside the lock, and the handle is  *)
(* cleared in a second critical section.                                   *)
(*                                                                         *)
(* Children are numbered in the order they are started.  The child of a    *)
(* scan in Stubborn may outlive SIGKILL for longer than the two seconds    *)
(* the code waits for it (a process in uninterruptible sleep).             *)
(***************************************************************************)
EXTENDS Naturals, FiniteSets

CONSTANTS
    MaxScans,   \* bound: how many children are started at most
    Stubborn    \* the scans whose child may outlive its kill

ASSUME ScannerAssumption == MaxScans \in Nat /\ Stubborn \subseteq 1 .. MaxScans

VARIABLES
    stop,               \* the station's stop Event
    spawned,            \* how many children were started
    running,            \* the children that have not ended
    active,             \* _active_process, 0 for None
    shutdownRequested,  \* _shutdown_requested
    scan,               \* where _run is, in the acquisition thread
    result,             \* what acquire gave or raised, until the caller took it
    reaper,             \* where stop_active_process is
    handle              \* its local variable process

childVars   == <<spawned, running, active, shutdownRequested>>
scanVars    == <<scan, result>>
reapVars    == <<reaper, handle>>
scannerVars == <<stop, childVars, scanVars, reapVars>>

ScanStates   == {"idle", "start", "poll", "reap", "clear"}
Results      == {"none", "sweep", "stopped", "failed"}
ReaperStates == {"idle", "stop", "clear", "done", "raised"}

ScannerInit ==
    /\ stop = FALSE
    /\ spawned = 0 /\ running = {} /\ active = 0
    /\ shutdownRequested = FALSE
    /\ scan = "idle" /\ result = "none"
    /\ reaper = "idle" /\ handle = 0

SetStop == stop' = TRUE /\ UNCHANGED <<childVars, scanVars, reapVars>>

-----------------------------------------------------------------------------
(* acquire(), called by the acquisition thread; its child is spawned.      *)

Acquire ==
    /\ scan = "idle" /\ result = "none" /\ spawned < MaxScans
    /\ scan' = "start"
    /\ UNCHANGED <<stop, childVars, result, reaper, handle>>

\* The device lock is taken by another process, or Popen raises OSError.
StartFails ==
    /\ scan = "start"
    /\ scan' = "idle" /\ result' = "failed"
    /\ UNCHANGED <<stop, childVars, reapVars>>

StartRefused ==
    /\ scan = "start" /\ shutdownRequested
    /\ scan' = "idle" /\ result' = "stopped"
    /\ UNCHANGED <<stop, childVars, reapVars>>

\* Slip: the handle is set before there is a child.
StartEarly ==
    /\ scan = "start" /\ ~shutdownRequested
    /\ active' = spawned + 1
    /\ UNCHANGED <<stop, spawned, running, shutdownRequested, scanVars, reapVars>>

\* The handle is overwritten, whatever it held.
StartProcess ==
    /\ scan = "start" /\ ~shutdownRequested
    /\ scan' = "poll"
    /\ spawned' = spawned + 1
    /\ running' = running \union {spawned + 1}
    /\ active' = spawned + 1
    /\ UNCHANGED <<stop, shutdownRequested, result, reapVars>>

\* poll() is asked first: a child that is gone ends the loop, even after stop.
PollEnded ==
    /\ scan = "poll" /\ spawned \notin running
    /\ scan' = "reap"
    /\ result' \in {"sweep", "failed"}
    /\ UNCHANGED <<stop, childVars, reapVars>>

\* An iteration is not atomic: what it saw of the child may be old by now.
PollStopped ==
    /\ scan = "poll" /\ stop
    /\ scan' = "reap" /\ result' = "stopped"
    /\ UNCHANGED <<stop, childVars, reapVars>>

\* Over the time limit, or over a limit of the output's size.
PollFailed ==
    /\ scan = "poll"
    /\ scan' = "reap" /\ result' = "failed"
    /\ UNCHANGED <<stop, childVars, reapVars>>

\* Slip: the child is told to end, and not waited for.
ReapUnwaited ==
    /\ scan = "reap"
    /\ scan' = "clear"
    /\ UNCHANGED <<stop, childVars, result, reapVars>>

Reap ==
    /\ scan = "reap"
    /\ scan' = "clear"
    /\ running' = running \ {spawned}
    /\ UNCHANGED <<stop, spawned, active, shutdownRequested, result, reapVars>>

\* The child outlives its kill: io_error replaces what was raised before.
ReapTimesOut ==
    /\ scan = "reap" /\ spawned \in running \intersect Stubborn
    /\ scan' = "idle" /\ result' = "failed"
    /\ UNCHANGED <<stop, childVars, reapVars>>

Cleared(process) == IF active = process THEN 0 ELSE active

ClearProcess ==
    /\ scan = "clear"
    /\ scan' = "idle"
    /\ active' = Cleared(spawned)
    /\ UNCHANGED <<stop, spawned, running, shutdownRequested, result, reapVars>>

\* The caller deals with the sweep, or with the exception.
Taken ==
    /\ scan = "idle" /\ result # "none"
    /\ result' = "none"
    /\ UNCHANGED <<stop, childVars, scan, reapVars>>

ChildEnds ==
    /\ \E child \in running : running' = running \ {child}
    /\ UNCHANGED <<stop, spawned, active, shutdownRequested, scanVars, reapVars>>

-----------------------------------------------------------------------------
(* stop_active_process(deadline).                                          *)

\* Slip: later starts are not refused.
StopLookupOnly ==
    /\ reaper # "stop" /\ reaper # "clear"
    /\ handle' = active
    /\ reaper' = IF active = 0 THEN "done" ELSE "stop"
    /\ UNCHANGED <<stop, spawned, running, active, shutdownRequested, scanVars>>

StopLookup ==
    /\ reaper # "stop" /\ reaper # "clear"
    /\ shutdownRequested' = TRUE
    /\ handle' = active
    /\ reaper' = IF active = 0 THEN "done" ELSE "stop"
    /\ UNCHANGED <<stop, spawned, running, active, scanVars>>

StopReap ==
    /\ reaper = "stop"
    /\ reaper' = "clear"
    /\ running' = running \ {handle}
    /\ UNCHANGED <<stop, spawned, active, shutdownRequested, scanVars, handle>>

\* The child outlives its kill, or the deadline leaves no time to see it end.
StopTimesOut(late) ==
    /\ reaper = "stop" /\ handle \in running
    /\ late \/ handle \in Stubborn
    /\ reaper' = "raised" /\ handle' = 0
    /\ UNCHANGED <<stop, childVars, scanVars>>

StopClear ==
    /\ reaper = "clear"
    /\ reaper' = "done" /\ handle' = 0
    /\ active' = Cleared(handle)
    /\ UNCHANGED <<stop, spawned, running, shutdownRequested, scanVars>>

-----------------------------------------------------------------------------
ScanStep == \/ StartFails \/ StartRefused \/ StartProcess
            \/ PollEnded \/ PollStopped \/ PollFailed
            \/ Reap \/ ReapTimesOut \/ ClearProcess

StopStep(late) == StopReap \/ StopTimesOut(late) \/ StopClear

\* The scanner by itself: whoever owns it sets stop before it stops the child.
ScannerNext ==
    \/ SetStop
    \/ Acquire \/ ScanStep \/ Taken \/ ChildEnds
    \/ stop /\ StopLookup
    \/ StopStep(TRUE)

ScannerSpec == ScannerInit /\ [][ScannerNext]_scannerVars

-----------------------------------------------------------------------------
(* Properties.                                                             *)

ScannerTypeOK ==
    /\ stop \in BOOLEAN /\ shutdownRequested \in BOOLEAN
    /\ spawned \in 0 .. MaxScans
    /\ running \subseteq 1 .. spawned
    /\ active \in 0 .. spawned
    /\ scan \in ScanStates /\ result \in Results
    /\ reaper \in ReaperStates /\ handle \in 0 .. spawned

(* rtl_power has the one device: children that end when they are killed    *)
(* never overlap, and the one that runs is the one the handle names, so    *)
(* that the supervisor can find it.                                        *)
OwnedChild == running \ Stubborn \subseteq {active}

(* Once stop_active_process returned, nothing the scanner starts or owns   *)
(* is left, however acquire and the stop interleave.                       *)
StopIsFinal == reaper = "done" => active = 0 /\ running \subseteq Stubborn
=============================================================================
