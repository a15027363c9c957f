--------------------------- MODULE Characterization ---------------------------
(***************************************************************************)
(* The two characterization runs that keep a checkpoint: the CW matrix     *)
(* (cw_matrix.py) and the frequency accuracy (cw_frequency_accuracy.py),   *)
(* with what they share (checkpoint.py, capture.py).                       *)
(*                                                                         *)
(* A run measures the points of its plan one by one, with the generator's  *)
(* output on, and saves the whole dataset after each.  It may raise or be  *)
(* killed anywhere, and is then started again with --resume and the same   *)
(* arguments.  results.json is the checkpoint; results.csv and summary.md  *)
(* are derived from it.  A point's artifacts have names of their own.      *)
(***************************************************************************)
EXTENDS Naturals, Sequences

CONSTANTS
    Points,    \* how many points the plan has; an empty one is refused
    Offset,    \* those in offset mode, in a frequency accuracy run
    MaxLives   \* bound: how often the command is started

ASSUME CharacterizationAssumption ==
    /\ Points \in Nat \ {0} /\ MaxLives \in Nat /\ Offset \subseteq 1 .. Points

VARIABLES
    runner,     \* which of the two commands
    life,       \* how often it was started
    pc,         \* where it is
    phase,      \* what the dataset is saved for
    records,    \* the records in memory
    supported,  \* offset_supported
    raised,     \* an exception is on its way out
    exit,       \* how the last life ended
    file,       \* the files of the dataset
    raw,        \* each point's raw CSV: the life that wrote it, 0 for none
    stderr,     \* each point's diagnostics: what they say, "nothing" for none
    output,     \* the generator's output
    used        \* history: the generator was turned on in this life

memoryVars == <<phase, records, supported, raised>>
pointFiles == <<raw, stderr>>
vars == <<runner, life, pc, memoryVars, exit, file, pointFiles, output, used>>

Files == {"results", "csv", "summary"}

\* What invoke_rtl_power can leave, and raw_csv_within_limit and analyze_spectrum
\* can find; "unknown" is a file whose size cannot be asked for.
Says      == {"nothing", "enabled", "failed"}
Qualities == {"carrier", "weak", "empty", "unreadable", "unknown"}

Mode(p) == IF runner = "accuracy" /\ p \in Offset THEN "offset" ELSE "normal"

Init ==
    /\ runner \in {"matrix", "accuracy"}
    /\ life = 0 /\ pc = "down" /\ phase = "first"
    /\ records = <<>> /\ supported = "unknown" /\ raised = FALSE /\ exit = "none"
    /\ file = [f \in Files |-> [there |-> FALSE, points |-> <<>>]]
    /\ raw = [p \in 1 .. Points |-> 0] /\ stderr = [p \in 1 .. Points |-> "nothing"]
    /\ output = FALSE /\ used = FALSE

-----------------------------------------------------------------------------
(* The outcome of a capture and of a run.                                  *)

\* The matrix: ok is a return code of 0.
MatrixStatus(p, ok, quality) ==
    IF ~ok \/ raw[p] = 0 \/ quality \in {"empty", "unreadable", "unknown"} THEN "failed"
    ELSE IF quality = "carrier" THEN "valid" ELSE "invalid"

\* offset_tuning_active, of the diagnostics on disk.
Active(p) ==
    CASE Mode(p) = "normal" \/ stderr[p] = "failed" -> "no"
      [] OTHER -> IF stderr[p] = "enabled" THEN "yes" ELSE "unknown"

\* A spectrum without bins counts as one without a carrier here.
AccuracyStatus(p, ok, quality) ==
    CASE ~ok \/ quality = "unknown" -> "failed"
      [] ok /\ quality # "unknown" /\ Mode(p) = "offset" /\ Active(p) = "no" -> "unsupported"
      [] OTHER ->
            IF raw[p] = 0 \/ quality = "unreadable" THEN "failed"
            ELSE IF Mode(p) = "offset" /\ Active(p) = "unknown" THEN "unverified"
            ELSE IF quality = "carrier" THEN "valid" ELSE "invalid"

StatusOf(p, ok, quality) ==
    IF runner = "matrix" THEN MatrixStatus(p, ok, quality) ELSE AccuracyStatus(p, ok, quality)

Complete(rs) == {rs[i].point : i \in DOMAIN rs} = 1 .. Points

\* The exit code of a run that returns its records.
Succeeded(rs) ==
    /\ Complete(rs)
    /\ IF runner = "matrix"
       THEN \A i \in DOMAIN rs : rs[i].status = "valid"
       ELSE /\ \A i \in DOMAIN rs : rs[i].status \in {"valid", "unsupported"}
            /\ \E i \in DOMAIN rs : rs[i].status = "valid"

-----------------------------------------------------------------------------
(* The life of a run.                                                      *)

Ends(code) ==
    /\ pc' = "down" /\ exit' = code
    /\ phase' = "first" /\ records' = <<>> /\ supported' = "unknown" /\ raised' = FALSE

\* Slip: any record that names the capability counts.
RememberedOfAny(rs) ==
    LET told == {i \in DOMAIN rs : Mode(rs[i].point) = "offset" /\ rs[i].active # "unknown"}
    IN  IF told = {} THEN "unknown" ELSE rs[CHOOSE i \in told : \A j \in told : i <= j].active

\* The capability that the first telling record has.
Remembered(rs) ==
    LET told == {i \in DOMAIN rs : /\ Mode(rs[i].point) = "offset" /\ rs[i].active # "unknown"
                                   /\ rs[i].status \in {"valid", "invalid", "unsupported"}}
    IN  IF told = {} THEN "unknown" ELSE rs[CHOOSE i \in told : \A j \in told : i <= j].active

\* Slip: a dataset that is complete is left as it is.
LoadComplete(rs) == Ends(IF Succeeded(rs) THEN "ok" ELSE "bad")

\* Nothing is pending: only the derived files are made anew.
Rebuild(rs) ==
    /\ pc' = "csv" /\ phase' = "rebuild" /\ records' = rs
    /\ UNCHANGED <<supported, raised, exit>>

\* _load_resume.  Without --resume a run that finds a dataset is refused.
Start(resume) ==
    LET rs == file["results"].points
    IN  /\ pc = "down" /\ life < MaxLives
        /\ resume \/ ~file["results"].there
        /\ life' = life + 1 /\ used' = FALSE
        /\ IF Complete(rs)
           THEN Rebuild(rs)
           ELSE /\ pc' = "preflight" /\ phase' = "first" /\ records' = rs
                /\ supported' = Remembered(rs)
                /\ UNCHANGED <<raised, exit>>
        /\ UNCHANGED <<runner, file, pointFiles, output>>

\* The receiver answers, or the run ends before anything is touched.
Preflight ==
    /\ pc = "preflight"
    /\ \/ pc' = "results" /\ UNCHANGED <<memoryVars, exit>>
       \/ Ends("error")
    /\ UNCHANGED <<runner, life, file, pointFiles, output, used>>

\* Each file is replaced by a new one that was written beside it.
Write(f, next) ==
    /\ pc = f /\ pc' = next
    /\ file' = [file EXCEPT ![f] = [there |-> TRUE, points |-> records]]
    /\ UNCHANGED <<runner, life, memoryVars, exit, pointFiles, output, used>>

WriteResults == Write("results", "csv")
WriteCsv     == Write("csv", "summary")
WriteSummary ==
    Write("summary", CASE phase = "rebuild" -> "return"
                       [] phase = "first"   -> "connect"
                       [] phase = "loop"    -> "point")

\* A complete dataset is returned as it was loaded.
Return ==
    /\ pc = "return"
    /\ Ends(IF Succeeded(records) THEN "ok" ELSE "bad")
    /\ UNCHANGED <<runner, life, file, pointFiles, output, used>>

Connect ==
    /\ pc = "connect"
    /\ pc' = "point" /\ phase' = "loop"
    /\ UNCHANGED <<runner, life, records, supported, raised, exit, file, pointFiles, output, used>>

-----------------------------------------------------------------------------
(* One point of the plan.                                                  *)

\* As the dataset has a prefix of the plan, the points after it are pending.
Pending == Len(records) + 1

\* Slip: what an earlier attempt has left stays.
KeepArtifacts(p) == UNCHANGED pointFiles

\* What an interrupted attempt has left of this point is removed.
RemoveArtifacts(p) == raw' = [raw EXCEPT ![p] = 0] /\ stderr' = [stderr EXCEPT ![p] = "nothing"]

Point ==
    /\ pc = "point" /\ Pending <= Points
    /\ RemoveArtifacts(Pending)
    /\ pc' = IF Mode(Pending) = "offset" /\ supported = "no" THEN "skip" ELSE "generate"
    /\ UNCHANGED <<runner, life, memoryVars, exit, file, output, used>>

PlanEnds ==
    /\ pc = "point" /\ Pending > Points
    /\ pc' = "shutdown"
    /\ UNCHANGED <<runner, life, memoryVars, exit, file, pointFiles, output, used>>

\* done says whether rtl_power ran, and ended well.
Record(p, status, active, done) ==
    records' = Append(records, [point |-> p, status |-> status, active |-> active,
                                done |-> done, life |-> life])

\* Offset tuning is known not to work: the point counts as unsupported.
Skip ==
    /\ pc = "skip" /\ pc' = "results"
    /\ Record(Pending, "unsupported", "no", FALSE)
    /\ UNCHANGED <<runner, life, phase, supported, raised, exit, file, pointFiles, output, used>>

\* The generator is told to go on; one that does not answer makes the capture fail.
Generate ==
    /\ pc = "generate" /\ used' = TRUE
    /\ \/ output' = TRUE /\ pc' = "capture"
       \/ output' \in {output, TRUE} /\ pc' = "lost"
    /\ UNCHANGED <<runner, life, memoryVars, exit, file, pointFiles>>

\* rtl_power runs: what it writes, and how it ends.  One that times out fails too.
Capture ==
    /\ pc = "capture"
    /\ pc' \in {"captured", "lost"}
    /\ raw' = [raw EXCEPT ![Pending] = life] \/ UNCHANGED raw
    /\ \E says \in Says : stderr' = [stderr EXCEPT ![Pending] = says]
    /\ UNCHANGED <<runner, life, memoryVars, exit, file, output, used>>

Judge(quality) ==
    LET ok == pc = "captured"
    IN  /\ pc \in {"captured", "lost"} /\ pc' = "results"
        /\ Record(Pending, StatusOf(Pending, ok, quality), Active(Pending), ok)
        /\ supported' = IF ok /\ Mode(Pending) = "offset" /\ Active(Pending) # "unknown"
                        THEN Active(Pending) ELSE supported
        /\ UNCHANGED <<runner, life, phase, raised, exit, file, pointFiles, output, used>>

-----------------------------------------------------------------------------
(* The ways out.                                                           *)

\* An error while saving, a point's files that cannot be removed, a generator that
\* cannot be reached, or an interrupt: in the loop the generator is turned off.
Raise ==
    /\ pc \notin {"down", "preflight", "shutdown"}
    /\ IF phase = "loop"
       THEN pc' = "shutdown" /\ raised' = TRUE /\ UNCHANGED <<phase, records, supported, exit>>
       ELSE Ends("error")
    /\ UNCHANGED <<runner, life, file, pointFiles, output, used>>

\* The finally clause, where the last command may fail as well.
Shutdown ==
    /\ pc = "shutdown"
    /\ \/ /\ output' = FALSE
          /\ Ends(IF raised THEN "error" ELSE IF Succeeded(records) THEN "ok" ELSE "bad")
       \/ output' \in {output, FALSE} /\ Ends("error")
    /\ UNCHANGED <<runner, life, file, pointFiles, used>>

Killed ==
    /\ pc # "down"
    /\ Ends("killed")
    /\ UNCHANGED <<runner, life, file, pointFiles, output, used>>

Next ==
    \/ \E resume \in BOOLEAN : Start(resume)
    \/ Preflight \/ WriteResults \/ WriteCsv \/ WriteSummary \/ Return \/ Connect
    \/ Point \/ PlanEnds \/ Skip \/ Generate \/ Capture
    \/ \E quality \in Qualities : Judge(quality)
    \/ Raise \/ Shutdown \/ Killed

Spec == Init /\ [][Next]_vars

-----------------------------------------------------------------------------
(* Properties.                                                             *)

RecordSet == [point : 1 .. Points,
              status : {"valid", "invalid", "failed", "unsupported", "unverified"},
              active : {"yes", "no", "unknown"}, done : BOOLEAN, life : Nat]

TypeOK ==
    /\ runner \in {"matrix", "accuracy"} /\ life \in 0 .. MaxLives
    /\ pc \in Files \union {"down", "preflight", "return", "connect", "point", "skip", "generate",
                            "capture", "captured", "lost", "shutdown"}
    /\ phase \in {"rebuild", "first", "loop"} /\ records \in Seq(RecordSet)
    /\ supported \in {"yes", "no", "unknown"} /\ raised \in BOOLEAN
    /\ exit \in {"none", "ok", "bad", "error", "killed"}
    /\ file \in [Files -> [there : BOOLEAN, points : Seq(RecordSet)]]
    /\ raw \in [1 .. Points -> Nat] /\ stderr \in [1 .. Points -> Says]
    /\ output \in BOOLEAN /\ used \in BOOLEAN

Saved == file["results"].points

\* The checkpoint has each point once, in the order of the plan, and the capture
\* that a status was read from is still there and of the same attempt: none that
\* was left by an interrupted attempt, and none that was made again after a resume.
CheckpointTrue ==
    \A i \in DOMAIN Saved :
        /\ Saved[i].point = i
        /\ Saved[i].status \in {"valid", "invalid", "unverified"} => raw[i] = Saved[i].life

\* A point counts as unsupported, captured or skipped, only when a capture of an
\* offset point ended well, by then and in whatever life, and told that offset
\* tuning does not work: one that failed tells nothing.
UnsupportedJustified ==
    \A i \in DOMAIN Saved : Saved[i].status = "unsupported" =>
        \E j \in 1 .. i : Saved[j].done /\ Mode(Saved[j].point) = "offset" /\ Saved[j].active = "no"

\* A run that returns, whatever became of those before it, leaves files that say
\* the same, and, when it has turned the generator on, leaves it off.  A run that
\* finds nothing pending returns without a word to the generator, though the one
\* before it may have been killed with the output on.
EndsWhole ==
    exit \in {"ok", "bad"} /\ pc = "down" =>
        /\ file["csv"] = file["results"] /\ file["summary"] = file["results"]
        /\ exit = "ok" => Succeeded(Saved)
        /\ used => ~output
=============================================================================
