-------------------------- MODULE MCMeasurementSink --------------------------
(* MeasurementSink for TLC: which permutations of its constants are alike.  *)
EXTENDS MeasurementSink, TLC

Alike == Permutations(Sweeps) \union Permutations(Closers)
=============================================================================
