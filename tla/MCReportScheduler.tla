------------------------- MODULE MCReportScheduler -------------------------
(***************************************************************************)
(* Zones for the runs of module ReportScheduler, for hours of two ticks:   *)
(* one that keeps an offset of an hour and a half, one whose clock is put  *)
(* forward by an hour (to midnight of the runs' short days), and one whose *)
(* clock is put back.                                                      *)
(***************************************************************************)
EXTENDS ReportScheduler

Steady == [before |-> 3, after |-> 3, at |-> 1]
Spring == [before |-> 2, after |-> 4, at |-> 2]
Autumn == [before |-> 4, after |-> 2, at |-> 2]

AllZones   == {Steady, Spring, Autumn}
SpringOnly == {Spring}
SteadyOnly == {Steady}
=============================================================================
