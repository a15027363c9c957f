----------------------------- MODULE MCStation -----------------------------
(***************************************************************************)
(* Bounds for the runs of module Station.  A thread that outlives the      *)
(* deadline keeps running beside every step that is left, so the number    *)
(* that do so in one behaviour is bounded.  The two that wait for one      *)
(* another over the sink's connection may always do so.                    *)
(***************************************************************************)
EXTENDS Station

CONSTANT MaxSurvivors   \* bound: how many owned things outlive the deadline

FewSurvivors ==
    Cardinality(survivors) <= MaxSurvivors \/ survivors \subseteq {"acquisition", "writer"}
=============================================================================
