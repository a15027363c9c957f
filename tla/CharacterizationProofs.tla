------------------------ MODULE CharacterizationProofs ------------------------
(***************************************************************************)
(* For every plan, however many of its points are in offset mode and       *)
(* however often a run is killed and resumed: what the checkpoint says is  *)
(* of captures that are there, a point is unsupported only for a reason,   *)
(* and a run that returns leaves the dataset whole and the output off.     *)
(***************************************************************************)
EXTENDS Characterization, WellFoundedInduction, TLAPS

-----------------------------------------------------------------------------
(* The inductive invariant.  What holds of the checkpoint holds of the     *)
(* records in memory first; Ahead says that the records are never behind   *)
(* the checkpoint, so that the files of a saved point are not touched.     *)

\* The point that is being measured.
Measuring == {"skip", "generate", "capture", "captured", "lost"}

\* All three files say what the records say.
Synced == {"return", "connect", "point"} \union Measuring

MeasuredHere(rs) ==
    \A i \in DOMAIN rs :
        /\ rs[i].point = i
        /\ rs[i].status \in {"valid", "invalid", "unverified"} => raw[i] = rs[i].life

\* A record that tells that offset tuning does not work, of a capture that ended.
Telling(r) == r.done /\ Mode(r.point) = "offset" /\ r.active = "no"

Justified(rs) ==
    \A i \in DOMAIN rs :
        /\ rs[i].status = "unsupported" => \E j \in 1 .. i : Telling(rs[j])
        /\ rs[i].status \in {"valid", "invalid"} => rs[i].done

Ahead == /\ Len(records) <= Points
         /\ pc # "down" => Len(Saved) <= Len(records)
         /\ ~file["results"].there => Saved = <<>>

\* A capture of this attempt, or none.
FreshCapture ==
    /\ pc \in Measuring => Len(records) < Points
    /\ pc \in {"skip", "generate"} => raw[Len(records) + 1] = 0
    /\ pc \in {"capture", "captured", "lost"} => raw[Len(records) + 1] \in {0, life}

KnownToFail == /\ supported = "no" => \E j \in DOMAIN records : Telling(records[j])
               /\ pc = "down" => supported = "unknown"

Skipping == pc = "skip" => supported = "no" /\ Mode(Len(records) + 1) = "offset"

Content == [there |-> TRUE, points |-> records]

FilesFollow ==
    /\ pc \in {"csv", "summary"} \union Synced => file["results"] = Content
    /\ pc \in {"summary"} \union Synced => file["csv"] = Content
    /\ pc \in Synced => file["summary"] = Content
    /\ pc = "shutdown" /\ ~raised =>
          \A f \in Files : file[f] = Content

\* What is done with the generator, and what for the dataset is saved.
Phases ==
    /\ phase = "rebuild" => ~used /\ pc \in {"csv", "summary", "return"}
    /\ phase = "first"   => pc \in {"down", "preflight", "results", "csv", "summary", "connect"}
    /\ phase = "loop"    => pc \in Files \union {"point", "shutdown"} \union Measuring
    /\ phase = "first" /\ pc # "down" => ~used

IInv == /\ TypeOK /\ MeasuredHere(records) /\ MeasuredHere(Saved)
        /\ Justified(records) /\ Justified(Saved)
        /\ Ahead /\ FreshCapture /\ KnownToFail /\ Skipping /\ FilesFollow /\ Phases
        /\ EndsWhole

-----------------------------------------------------------------------------
(* Lemmas about the operators.                                             *)

\* A set of naturals that is not empty has a least member.
LEMMA Least ==
    ASSUME NEW T \in SUBSET Nat, T # {}
    PROVE  \E m \in T : \A k \in T : m <= k
<1> DEFINE R == OpToRel(<, Nat)
<1>1. PICK m \in T : \A k \in T : ~(<<k, m>> \in R)
  BY NatLessThanWellFounded, WFMin
<1>2. \A k \in T : k < m => <<k, m>> \in R
  BY DEF OpToRel
<1> HIDE DEF R
<1>3. \A k \in T : ~(k < m)
  BY <1>1, <1>2
<1> QED BY <1>3

\* The status of a capture is one of those there are, and says what was there.
LEMMA StatusMeans ==
    ASSUME TypeOK, NEW p \in 1 .. Points, NEW ok \in BOOLEAN, NEW quality \in Qualities
    PROVE  /\ StatusOf(p, ok, quality) \in
                 {"valid", "invalid", "failed", "unsupported", "unverified"}
           /\ Active(p) \in {"yes", "no", "unknown"}
           /\ StatusOf(p, ok, quality) \in {"valid", "invalid", "unverified"}
                 => ok /\ raw[p] # 0
           /\ StatusOf(p, ok, quality) = "unsupported"
                 => ok /\ Mode(p) = "offset" /\ Active(p) = "no"
<1>1. Active(p) \in {"yes", "no", "unknown"}
  BY DEF Active
<1>2. Mode(p) \in {"offset", "normal"}
  BY DEF Mode
<1> DEFINE MS == MatrixStatus(p, ok, quality)
           AS == AccuracyStatus(p, ok, quality)
<1>3. /\ MS \in {"valid", "invalid", "failed"}
      /\ MS \in {"valid", "invalid"} => ok /\ raw[p] # 0
  BY DEF MatrixStatus
<1>4. CASE ~ok \/ quality = "unknown"
  <2>1. AS = "failed"
    BY <1>4 DEF AccuracyStatus
  <2> HIDE DEF MS, AS
  <2>2. StatusOf(p, ok, quality) \in {MS, "failed"}
    BY <2>1 DEF StatusOf, MS, AS
  <2> QED BY <1>1, <1>3, <2>2
<1>5. CASE ~(~ok \/ quality = "unknown") /\ Mode(p) = "offset" /\ Active(p) = "no"
  <2>1. AS = "unsupported"
    BY <1>5 DEF AccuracyStatus
  <2> HIDE DEF MS, AS
  <2>2. StatusOf(p, ok, quality) \in {MS, "unsupported"}
    BY <2>1 DEF StatusOf, MS, AS
  <2> QED BY <1>1, <1>3, <1>5, <2>2
<1>6. CASE ~(~ok \/ quality = "unknown") /\ ~(Mode(p) = "offset" /\ Active(p) = "no")
  <2>1. /\ AS \in {"valid", "invalid", "failed", "unverified"}
        /\ AS \in {"valid", "invalid", "unverified"} => raw[p] # 0
    BY <1>6 DEF AccuracyStatus
  <2> HIDE DEF MS, AS
  <2>2. StatusOf(p, ok, quality) \in {MS, AS}
    BY DEF StatusOf, MS, AS
  <2> QED BY <1>1, <1>3, <1>6, <2>1, <2>2
<1> QED BY <1>4, <1>5, <1>6

\* A record appended is the last, and the others stay.
LEMMA Appended ==
    ASSUME NEW rs \in Seq(RecordSet), NEW r \in RecordSet
    PROVE  /\ Append(rs, r) \in Seq(RecordSet)
           /\ Len(rs) \in Nat /\ DOMAIN rs = 1 .. Len(rs)
           /\ Len(Append(rs, r)) = Len(rs) + 1
           /\ DOMAIN Append(rs, r) = 1 .. Len(rs) + 1
           /\ \A i \in 1 .. Len(rs) : Append(rs, r)[i] = rs[i]
           /\ Append(rs, r)[Len(rs) + 1] = r
  OBVIOUS

\* The capability that is remembered is that of a record which settles it.
LEMMA RememberedMeans ==
    ASSUME NEW rs \in Seq(RecordSet)
    PROVE  /\ Remembered(rs) \in {"yes", "no", "unknown"}
           /\ Remembered(rs) = "no" =>
                 \E i \in DOMAIN rs : /\ Mode(rs[i].point) = "offset" /\ rs[i].active = "no"
                                      /\ rs[i].status \in {"valid", "invalid", "unsupported"}
<1> DEFINE told == {i \in DOMAIN rs : /\ Mode(rs[i].point) = "offset" /\ rs[i].active # "unknown"
                                      /\ rs[i].status \in {"valid", "invalid", "unsupported"}}
           least == CHOOSE i \in told : \A j \in told : i <= j
<1>1. \A i \in DOMAIN rs : i \in Nat /\ rs[i] \in RecordSet
  OBVIOUS
<1>2. told \in SUBSET Nat
  BY <1>1
<1>3. Remembered(rs) = IF told = {} THEN "unknown" ELSE rs[least].active
  BY DEF Remembered
<1>4. ASSUME told # {} PROVE least \in told
  <2> HIDE DEF told
  <2>1. \E m \in told : \A k \in told : m <= k
    BY <1>2, <1>4, Least
  <2> QED BY <2>1
<1>5. \A i \in told : /\ i \in DOMAIN rs /\ rs[i].active \in {"yes", "no"}
                      /\ Mode(rs[i].point) = "offset"
                      /\ rs[i].status \in {"valid", "invalid", "unsupported"}
  BY <1>1 DEF RecordSet
<1> HIDE DEF told, least
<1> QED BY <1>3, <1>4, <1>5

-----------------------------------------------------------------------------
(* Type correctness.                                                       *)

\* A run that ends is in its initial state but for the files.
LEMMA EndsTypes ==
    ASSUME TypeOK, NEW code \in {"ok", "bad", "error", "killed"}, Ends(code)
    PROVE  /\ pc' = "down" /\ exit' = code /\ phase' = "first" /\ records' = <<>>
           /\ supported' = "unknown" /\ raised' = FALSE
           /\ records' \in Seq(RecordSet)
  BY DEF Ends

\* Every step keeps the types.
LEMMA TypeStep ==
    ASSUME TypeOK, Phases, FreshCapture, [Next]_vars
    PROVE  TypeOK'
<1> USE CharacterizationAssumption
<1>0. /\ <<>> \in Seq(RecordSet)
      /\ file["results"] \in [there : BOOLEAN, points : Seq(RecordSet)]
      /\ Saved \in Seq(RecordSet)
  BY DEF TypeOK, Files, Saved
<1>1. ASSUME NEW resume \in BOOLEAN, Start(resume) PROVE TypeOK'
  <2>1. /\ Remembered(Saved) \in {"yes", "no", "unknown"}
    BY <1>0, RememberedMeans
  <2>2. /\ life' \in 0 .. MaxLives /\ used' = FALSE
        /\ pc' \in {"csv", "preflight"} /\ phase' \in {"rebuild", "first"}
        /\ records' = Saved /\ supported' \in {supported, Remembered(Saved)}
        /\ raised' = raised /\ exit' = exit
        /\ UNCHANGED <<runner, file, raw, stderr, output>>
    <3>1. CASE Complete(Saved)
      BY <1>1, <3>1 DEF Start, Rebuild, Saved, pointFiles, TypeOK
    <3>2. CASE ~Complete(Saved)
      BY <1>1, <3>2 DEF Start, Saved, pointFiles, TypeOK
    <3> QED BY <3>1, <3>2
  <2> QED BY <1>0, <2>1, <2>2 DEF TypeOK, Files
<1>2. CASE Preflight
  <2>1. CASE pc' = "results" /\ UNCHANGED <<memoryVars, exit>>
    BY <1>2, <2>1 DEF Preflight, memoryVars, pointFiles, TypeOK, Files
  <2>2. CASE Ends("error")
    BY <1>0, <1>2, <2>2 DEF Preflight, Ends, pointFiles, TypeOK, Files
  <2> QED BY <1>2, <2>1, <2>2 DEF Preflight
<1>3. ASSUME NEW f \in Files, NEW next, Write(f, next),
             next \in {"csv", "summary", "return", "connect", "point"}
      PROVE  TypeOK'
  <2>1. file' \in [Files -> [there : BOOLEAN, points : Seq(RecordSet)]]
    BY <1>3 DEF Write, TypeOK
  <2> QED BY <1>3, <2>1 DEF Write, memoryVars, pointFiles, TypeOK, Files
<1>4. CASE WriteResults
  BY <1>3, <1>4 DEF WriteResults, Files
<1>5. CASE WriteCsv
  BY <1>3, <1>5 DEF WriteCsv, Files
<1>6. CASE WriteSummary
  <2>1. PICK next \in {"return", "connect", "point"} : Write("summary", next)
    BY <1>6 DEF WriteSummary, TypeOK
  <2> QED BY <1>3, <2>1 DEF Files
<1>7. CASE Return
  BY <1>0, <1>7 DEF Return, Ends, pointFiles, TypeOK, Files
<1>8. CASE Connect
  BY <1>8 DEF Connect, pointFiles, TypeOK, Files
<1>9. CASE Point
  <2>1. Len(records) + 1 \in 1 .. Points
    BY <1>9 DEF Point, Pending, TypeOK
  <2> QED BY <1>9, <2>1 DEF Point, RemoveArtifacts, Pending, memoryVars, TypeOK, Files, Says
<1>10. CASE PlanEnds
  BY <1>10 DEF PlanEnds, memoryVars, pointFiles, TypeOK, Files
<1>11. CASE Skip
  <2>1. Len(records) + 1 \in 1 .. Points
    BY <1>11 DEF Skip, FreshCapture, Measuring, TypeOK
  <2> DEFINE r == [point |-> Len(records) + 1, status |-> "unsupported", active |-> "no",
                   done |-> FALSE, life |-> life]
  <2>2. r \in RecordSet
    BY <2>1 DEF RecordSet, TypeOK
  <2>3. records' = Append(records, r)
    BY <1>11 DEF Skip, Record, Pending
  <2> HIDE DEF r
  <2>4. records' \in Seq(RecordSet)
    BY <2>2, <2>3 DEF TypeOK
  <2> QED BY <1>11, <2>4 DEF Skip, pointFiles, TypeOK, Files
<1>12. CASE Generate
  BY <1>12 DEF Generate, memoryVars, pointFiles, TypeOK, Files
<1>13. CASE Capture
  <2>0. life \in Nat /\ raw \in [1 .. Points -> Nat]
    BY DEF TypeOK
  <2>1. raw' \in [1 .. Points -> Nat]
    BY <1>13, <2>0 DEF Capture
  <2>2. stderr' \in [1 .. Points -> Says]
    BY <1>13 DEF Capture, Pending, TypeOK
  <2> QED BY <1>13, <2>1, <2>2 DEF Capture, memoryVars, TypeOK, Files
<1>14. ASSUME NEW quality \in Qualities, Judge(quality) PROVE TypeOK'
  <2>1. Len(records) + 1 \in 1 .. Points
    BY <1>14 DEF Judge, FreshCapture, Measuring, TypeOK
  <2> DEFINE ok == pc = "captured"
             r == [point |-> Len(records) + 1, status |-> StatusOf(Len(records) + 1, ok, quality),
                   active |-> Active(Len(records) + 1), done |-> ok, life |-> life]
  <2>2. ok \in BOOLEAN
    OBVIOUS
  <2>3. /\ StatusOf(Len(records) + 1, ok, quality) \in
              {"valid", "invalid", "failed", "unsupported", "unverified"}
        /\ Active(Len(records) + 1) \in {"yes", "no", "unknown"}
    BY <2>1, <2>2, StatusMeans
  <2>4. r \in RecordSet
    BY <2>1, <2>2, <2>3 DEF RecordSet, TypeOK
  <2>5. records' = Append(records, r)
    BY <1>14 DEF Judge, Record, Pending
  <2>6. supported' \in {supported, Active(Len(records) + 1)}
    BY <1>14 DEF Judge, Pending
  <2> HIDE DEF r
  <2>7. records' \in Seq(RecordSet)
    BY <2>4, <2>5 DEF TypeOK
  <2>8. supported' \in {"yes", "no", "unknown"}
    BY <2>3, <2>6 DEF TypeOK
  <2> QED BY <1>14, <2>7, <2>8 DEF Judge, pointFiles, TypeOK, Files
<1>15. CASE Raise
  BY <1>0, <1>15 DEF Raise, Ends, pointFiles, TypeOK, Files
<1>16. CASE Shutdown
  <2>1. \E code \in {"ok", "bad", "error"} : Ends(code)
    BY <1>16 DEF Shutdown
  <2>2. output' \in BOOLEAN
    BY <1>16 DEF Shutdown, TypeOK
  <2> QED BY <1>0, <1>16, <2>1, <2>2 DEF Shutdown, Ends, pointFiles, TypeOK, Files
<1>17. CASE Killed
  BY <1>0, <1>17 DEF Killed, Ends, pointFiles, TypeOK, Files
<1>18. CASE UNCHANGED vars
  BY <1>18 DEF vars, memoryVars, pointFiles, TypeOK
<1> QED
  BY <1>1, <1>2, <1>4, <1>5, <1>6, <1>7, <1>8, <1>9, <1>10, <1>11, <1>12, <1>13, <1>14, <1>15,
     <1>16, <1>17, <1>18 DEF Next

-----------------------------------------------------------------------------
(* What a step does to the records, the checkpoint and the raw CSVs.       *)

\* A step that does not work on a point leaves the raw CSVs and the checkpoint, and
\* the records stay, are forgotten or are read from the checkpoint.
Elsewhere ==
    /\ UNCHANGED raw /\ file'["results"] = file["results"]
    /\ records' \in {records, <<>>, Saved}

\* The command stays the same one, and each step is of one of six kinds.
LEMMA StepShapes ==
    ASSUME TypeOK, [Next]_vars
    PROVE  /\ runner' = runner
           /\ \/ Point \/ Skip \/ Capture \/ (\E quality \in Qualities : Judge(quality))
              \/ WriteResults \/ Elsewhere
<1>1. ASSUME NEW resume \in BOOLEAN, Start(resume) PROVE runner' = runner /\ Elsewhere
  <2>1. CASE Complete(Saved)
    BY <1>1, <2>1 DEF Start, Rebuild, Saved, pointFiles, Elsewhere
  <2>2. CASE ~Complete(Saved)
    BY <1>1, <2>2 DEF Start, Saved, pointFiles, Elsewhere
  <2> QED BY <2>1, <2>2
<1>2. CASE Preflight
  BY <1>2 DEF Preflight, Ends, memoryVars, pointFiles, Elsewhere
<1>3. CASE WriteResults
  BY <1>3 DEF WriteResults, Write
<1>4. CASE WriteCsv
  BY <1>4 DEF WriteCsv, Write, memoryVars, pointFiles, Elsewhere, TypeOK, Files
<1>5. CASE WriteSummary
  <2>1. /\ runner' = runner /\ UNCHANGED raw /\ records' = records
        /\ file' = [file EXCEPT !["summary"] = [there |-> TRUE, points |-> records]]
    BY <1>5 DEF WriteSummary, Write, memoryVars, pointFiles
  <2> QED BY <2>1 DEF Elsewhere, TypeOK, Files
<1>6. CASE Return
  BY <1>6 DEF Return, Ends, pointFiles, Elsewhere
<1>7. CASE Connect \/ PlanEnds \/ Generate
  BY <1>7 DEF Connect, PlanEnds, Generate, memoryVars, pointFiles, Elsewhere
<1>8. CASE Raise
  BY <1>8 DEF Raise, Ends, pointFiles, Elsewhere
<1>9. CASE Shutdown
  BY <1>9 DEF Shutdown, Ends, pointFiles, Elsewhere
<1>10. CASE Killed
  BY <1>10 DEF Killed, Ends, pointFiles, Elsewhere
<1>11. CASE UNCHANGED vars
  BY <1>11 DEF vars, memoryVars, pointFiles, Elsewhere
<1>12. CASE Point \/ Skip \/ Capture
  BY <1>12 DEF Point, Skip, Capture
<1>13. ASSUME NEW quality \in Qualities, Judge(quality) PROVE runner' = runner
  BY <1>13 DEF Judge
<1> QED
  BY <1>1, <1>2, <1>3, <1>4, <1>5, <1>6, <1>7, <1>8, <1>9, <1>10, <1>11, <1>12, <1>13 DEF Next

\* What a point that is done appends: a record of it, in this life, whose status
\* stands for a capture that ended, or for the knowledge that it would not.
Done(r) ==
    /\ r \in RecordSet /\ r.point = Len(records) + 1 /\ r.life = life
    /\ r.status \in {"valid", "invalid", "unverified"} => raw[Len(records) + 1] = life
    /\ r.status \in {"valid", "invalid"} => r.done
    /\ r.status = "unsupported" => Telling(r) \/ supported = "no"
    /\ records' = Append(records, r)

\* Both that skip a point and that judge its capture append one.
LEMMA PointDone ==
    ASSUME TypeOK, FreshCapture, Skipping,
           Skip \/ (\E quality \in Qualities : Judge(quality))
    PROVE  /\ \E r \in RecordSet : Done(r)
           /\ UNCHANGED <<raw, file, runner>> /\ pc \in Measuring /\ pc' = "results"
           /\ phase' = phase /\ Len(records) + 1 \in 1 .. Points
<1>0. life \in Nat /\ Len(records) \in Nat
  BY DEF TypeOK
<1>1. CASE Skip
  <2>1. Len(records) + 1 \in 1 .. Points
    BY <1>1, CharacterizationAssumption DEF Skip, FreshCapture, Measuring, TypeOK
  <2> DEFINE r == [point |-> Len(records) + 1, status |-> "unsupported", active |-> "no",
                   done |-> FALSE, life |-> life]
  <2>2. r \in RecordSet
    BY <1>0, <2>1 DEF RecordSet
  <2>3. records' = Append(records, r) /\ supported = "no"
    BY <1>1 DEF Skip, Record, Pending, Skipping
  <2>4. Done(r)
    BY <2>2, <2>3 DEF Done
  <2> QED BY <1>1, <2>1, <2>2, <2>4 DEF Skip, Measuring, pointFiles
<1>2. ASSUME NEW quality \in Qualities, Judge(quality)
      PROVE  /\ \E r \in RecordSet : Done(r)
             /\ UNCHANGED <<raw, file, runner>> /\ pc \in Measuring /\ pc' = "results"
             /\ phase' = phase /\ Len(records) + 1 \in 1 .. Points
  <2>1. Len(records) + 1 \in 1 .. Points
    BY <1>2, CharacterizationAssumption DEF Judge, FreshCapture, Measuring, TypeOK
  <2>2. raw[Len(records) + 1] \in {0, life}
    BY <1>2 DEF Judge, FreshCapture
  <2> DEFINE p == Len(records) + 1
             ok == pc = "captured"
             st == StatusOf(p, ok, quality)
             r == [point |-> p, status |-> st, active |-> Active(p), done |-> ok, life |-> life]
  <2>3. ok \in BOOLEAN
    OBVIOUS
  <2>4. /\ st \in {"valid", "invalid", "failed", "unsupported", "unverified"}
        /\ Active(p) \in {"yes", "no", "unknown"}
        /\ st \in {"valid", "invalid", "unverified"} => ok /\ raw[p] # 0
        /\ st = "unsupported" => ok /\ Mode(p) = "offset" /\ Active(p) = "no"
    BY <2>1, <2>3, StatusMeans
  <2>5. records' = Append(records, r)
    BY <1>2 DEF Judge, Record, Pending
  <2> HIDE DEF st, ok
  <2>6. r \in RecordSet
    BY <1>0, <2>1, <2>3, <2>4 DEF RecordSet
  <2>7. Done(r)
    BY <2>2, <2>4, <2>5, <2>6 DEF Done, Telling
  <2> QED BY <1>2, <2>1, <2>6, <2>7 DEF Judge, Measuring, pointFiles
<1> QED BY <1>1, <1>2

-----------------------------------------------------------------------------
(* A record is of its own place and of a capture that is there.            *)

\* Nothing touches the capture of a point that is recorded.
LEMMA MeasuredStep ==
    ASSUME TypeOK, MeasuredHere(records), MeasuredHere(Saved), Ahead, FreshCapture, Skipping,
           [Next]_vars
    PROVE  MeasuredHere(records)' /\ MeasuredHere(Saved)'
<1> USE CharacterizationAssumption
<1>0. /\ records \in Seq(RecordSet) /\ Len(records) \in Nat
      /\ DOMAIN records = 1 .. Len(records)
  BY DEF TypeOK
<1>1. /\ Saved \in Seq(RecordSet) /\ Len(Saved) \in Nat
      /\ DOMAIN Saved = 1 .. Len(Saved)
  <2>1. Saved \in Seq(RecordSet)
    BY DEF TypeOK, Files, Saved
  <2> QED BY <2>1
<1>2. raw \in [1 .. Points -> Nat] /\ Len(records) <= Points
  BY DEF TypeOK, Ahead
<1>3. ASSUME pc # "down", UNCHANGED <<records, file>>,
             \A i \in 1 .. Len(records) : raw'[i] = raw[i]
      PROVE  MeasuredHere(records)' /\ MeasuredHere(Saved)'
  <2>1. Len(Saved) <= Len(records)
    BY <1>3 DEF Ahead
  <2>2. Saved' = Saved
    BY <1>3 DEF Saved
  <2>3. \A i \in DOMAIN Saved : raw'[i] = raw[i]
    BY <1>0, <1>1, <1>3, <2>1
  <2> QED BY <1>0, <1>3, <2>2, <2>3 DEF MeasuredHere
<1>4. CASE Point
  BY <1>0, <1>2, <1>3, <1>4 DEF Point, RemoveArtifacts, Pending, memoryVars
<1>5. CASE Capture
  BY <1>0, <1>2, <1>3, <1>5 DEF Capture, Pending, memoryVars
<1>6. CASE Skip \/ (\E quality \in Qualities : Judge(quality))
  <2>1. PICK r \in RecordSet : Done(r)
    BY <1>6, PointDone
  <2>2. UNCHANGED <<raw, file>>
    BY <1>6, PointDone
  <2>3. MeasuredHere(Saved)'
    BY <2>2 DEF MeasuredHere, Saved
  <2>4. records' = Append(records, r)
    BY <2>1 DEF Done
  <2>5. /\ DOMAIN records' = 1 .. Len(records) + 1
        /\ \A i \in 1 .. Len(records) : records'[i] = records[i]
        /\ records'[Len(records) + 1] = r
    BY <1>0, <2>4, Appended
  <2>6. ASSUME NEW i \in DOMAIN records'
        PROVE  /\ records'[i].point = i
               /\ records'[i].status \in {"valid", "invalid", "unverified"}
                     => raw[i] = records'[i].life
    <3>1. CASE i = Len(records) + 1
      BY <2>1, <2>5, <3>1 DEF Done
    <3>2. CASE i # Len(records) + 1
      <4>1. i \in 1 .. Len(records)
        BY <1>0, <2>5, <2>6, <3>2
      <4> QED BY <1>0, <2>5, <4>1 DEF MeasuredHere
    <3> QED BY <3>1, <3>2
  <2> QED BY <2>2, <2>3, <2>6 DEF MeasuredHere
<1>7. CASE WriteResults
  <2>1. Saved' = records
    BY <1>7 DEF WriteResults, Write, Saved, TypeOK, Files
  <2>2. records' = records /\ raw' = raw
    BY <1>7 DEF WriteResults, Write, memoryVars, pointFiles
  <2> QED BY <2>1, <2>2 DEF MeasuredHere
<1>8. CASE Elsewhere
  <2>1. Saved' = Saved /\ raw' = raw /\ records' \in {records, <<>>, Saved}
    BY <1>8 DEF Elsewhere, Saved
  <2>2. DOMAIN <<>> = {}
    OBVIOUS
  <2>3. MeasuredHere(Saved)'
    BY <2>1 DEF MeasuredHere
  <2> QED BY <2>1, <2>2, <2>3 DEF MeasuredHere
<1> QED BY <1>4, <1>5, <1>6, <1>7, <1>8, StepShapes

-----------------------------------------------------------------------------
(* A point counts as unsupported only for a reason.                        *)

\* A record that is appended keeps the reasons of those before it, and brings its
\* own or has one among them.
LEMMA JustifiedStep ==
    ASSUME TypeOK, Justified(records), Justified(Saved), FreshCapture, Skipping, KnownToFail,
           [Next]_vars
    PROVE  Justified(records)' /\ Justified(Saved)'
<1>0. /\ records \in Seq(RecordSet) /\ Len(records) \in Nat
      /\ DOMAIN records = 1 .. Len(records)
  BY DEF TypeOK
<1>1. \A r : Telling(r)' <=> Telling(r)
  BY StepShapes DEF Telling, Mode
<1>2. ASSUME NEW rs, Justified(rs)
      PROVE  \A i \in DOMAIN rs :
                /\ rs[i].status = "unsupported" => \E j \in 1 .. i : Telling(rs[j])'
                /\ rs[i].status \in {"valid", "invalid"} => rs[i].done
  BY <1>1, <1>2 DEF Justified
<1>3. CASE Point \/ Capture
  BY <1>1, <1>3 DEF Point, Capture, memoryVars, Justified, Saved
<1>4. CASE Skip \/ (\E quality \in Qualities : Judge(quality))
  <2>1. PICK r \in RecordSet : Done(r)
    BY <1>4, PointDone
  <2>2. Saved' = Saved
    BY <1>4, PointDone DEF Saved
  <2>3. Justified(Saved)'
    BY <1>1, <2>2 DEF Justified
  <2>4. records' = Append(records, r)
    BY <2>1 DEF Done
  <2>5. /\ DOMAIN records' = 1 .. Len(records) + 1
        /\ \A i \in 1 .. Len(records) : records'[i] = records[i]
        /\ records'[Len(records) + 1] = r
    BY <1>0, <2>4, Appended
  <2>6. ASSUME NEW i \in DOMAIN records'
        PROVE  /\ records'[i].status = "unsupported" => \E j \in 1 .. i : Telling(records'[j])
               /\ records'[i].status \in {"valid", "invalid"} => records'[i].done
    <3>1. CASE i = Len(records) + 1
      <4>1. ASSUME supported = "no"
            PROVE  \E j \in 1 .. i : Telling(records'[j])
        <5>1. PICK j \in DOMAIN records : Telling(records[j])
          BY <4>1 DEF KnownToFail
        <5>2. j \in 1 .. i /\ records'[j] = records[j]
          BY <1>0, <2>5, <3>1, <5>1
        <5> QED BY <5>1, <5>2
      <4>2. records'[i] = r /\ i \in 1 .. i
        BY <1>0, <2>5, <3>1
      <4>3. Telling(r) => \E j \in 1 .. i : Telling(records'[j])
        BY <4>2
      <4> QED BY <2>1, <4>1, <4>2, <4>3 DEF Done
    <3>2. CASE i # Len(records) + 1
      <4>1. i \in 1 .. Len(records) /\ \A j \in 1 .. i : j \in 1 .. Len(records)
        BY <1>0, <2>5, <2>6, <3>2
      <4> QED BY <1>0, <2>5, <4>1 DEF Justified
    <3> QED BY <3>1, <3>2
  <2> QED BY <1>1, <2>3, <2>6 DEF Justified
<1>5. CASE WriteResults
  <2>1. Saved' = records
    BY <1>5 DEF WriteResults, Write, Saved, TypeOK, Files
  <2>2. records' = records
    BY <1>5 DEF WriteResults, Write, memoryVars
  <2> QED BY <1>1, <2>1, <2>2 DEF Justified
<1>6. CASE Elsewhere
  <2>1. Saved' = Saved /\ records' \in {records, <<>>, Saved}
    BY <1>6 DEF Elsewhere, Saved
  <2>2. DOMAIN <<>> = {}
    OBVIOUS
  <2>3. Justified(Saved)'
    BY <1>1, <2>1 DEF Justified
  <2> QED BY <1>1, <2>1, <2>2, <2>3 DEF Justified
<1> QED BY <1>3, <1>4, <1>5, <1>6, StepShapes

\* That offset tuning fails is known from a record: of this life, or, at a resume,
\* from the first one in the checkpoint that settles it.
LEMMA KnownStep ==
    ASSUME TypeOK, Justified(Saved), FreshCapture, Skipping, KnownToFail, [Next]_vars
    PROVE  KnownToFail'
<1>0. /\ records \in Seq(RecordSet) /\ Len(records) \in Nat
      /\ DOMAIN records = 1 .. Len(records)
  BY DEF TypeOK
<1>1. \A r : Telling(r)' <=> Telling(r)
  BY StepShapes DEF Telling, Mode
<1>2. ASSUME UNCHANGED <<records, supported>>, pc' # "down" \/ pc = "down" PROVE KnownToFail'
  BY <1>1, <1>2 DEF KnownToFail
<1>3. ASSUME supported' = "unknown" PROVE KnownToFail'
  BY <1>3 DEF KnownToFail
<1>4. ASSUME NEW resume \in BOOLEAN, Start(resume) PROVE KnownToFail'
  <2>1. CASE Complete(Saved)
    BY <1>3, <1>4, <2>1 DEF Start, Rebuild, Saved, KnownToFail
  <2>2. CASE ~Complete(Saved)
    <3>1. /\ pc' = "preflight" /\ records' = Saved /\ supported' = Remembered(Saved)
      BY <1>4, <2>2 DEF Start, Saved
    <3>2. Saved \in Seq(RecordSet)
      BY DEF TypeOK, Files, Saved
    <3>3. DOMAIN Saved = 1 .. Len(Saved) /\ Len(Saved) \in Nat
      BY <3>2
    <3>4. ASSUME Remembered(Saved) = "no" PROVE \E j \in DOMAIN Saved : Telling(Saved[j])
      <4>1. PICK i \in DOMAIN Saved : /\ Mode(Saved[i].point) = "offset" /\ Saved[i].active = "no"
                                      /\ Saved[i].status \in {"valid", "invalid", "unsupported"}
        BY <3>2, <3>4, RememberedMeans
      <4>2. CASE Saved[i].status = "unsupported"
        <5>1. PICK j \in 1 .. i : Telling(Saved[j])
          BY <4>1, <4>2 DEF Justified
        <5>2. j \in DOMAIN Saved
          BY <3>3, <4>1
        <5> QED BY <5>1, <5>2
      <4>3. CASE Saved[i].status \in {"valid", "invalid"}
        BY <4>1, <4>3 DEF Justified, Telling
      <4> QED BY <4>1, <4>2, <4>3
    <3> QED BY <1>1, <3>1, <3>4 DEF KnownToFail
  <2> QED BY <2>1, <2>2
<1>5. CASE Skip \/ (\E quality \in Qualities : Judge(quality))
  <2>1. PICK r \in RecordSet : Done(r)
    BY <1>5, PointDone
  <2>2. records' = Append(records, r) /\ pc' = "results"
    BY <1>5, <2>1, PointDone DEF Done
  <2>3. /\ DOMAIN records' = 1 .. Len(records) + 1
        /\ \A i \in 1 .. Len(records) : records'[i] = records[i]
        /\ records'[Len(records) + 1] = r
    BY <1>0, <2>2, Appended
  <2>4. CASE supported' = supported
    <3>1. ASSUME supported = "no" PROVE \E j \in DOMAIN records' : Telling(records'[j])
      <4>1. PICK j \in DOMAIN records : Telling(records[j])
        BY <3>1 DEF KnownToFail
      <4>2. j \in DOMAIN records' /\ records'[j] = records[j]
        BY <1>0, <2>3, <4>1
      <4> QED BY <4>1, <4>2
    <3> QED BY <1>1, <2>2, <2>4, <3>1 DEF KnownToFail
  <2>5. ASSUME NEW quality \in Qualities, Judge(quality), supported' # supported,
               supported' = "no"
        PROVE  \E j \in DOMAIN records' : Telling(records'[j])
    <3>1. /\ pc = "captured" /\ Mode(Len(records) + 1) = "offset"
          /\ Active(Len(records) + 1) = "no"
      BY <2>5 DEF Judge, Pending
    <3> DEFINE q == [point |-> Len(records) + 1,
                     status |-> StatusOf(Len(records) + 1, pc = "captured", quality),
                     active |-> Active(Len(records) + 1), done |-> pc = "captured", life |-> life]
    <3>2. records' = Append(records, q)
      BY <2>5 DEF Judge, Record, Pending
    <3>3. Telling(q)
      BY <3>1 DEF Telling
    <3> HIDE DEF q
    <3>4. records'[Len(records) + 1] = q
      BY <1>0, <3>2
    <3>5. Len(records) + 1 \in DOMAIN records'
      BY <1>0, <2>3
    <3> QED BY <3>3, <3>4, <3>5
  <2>6. CASE supported' # supported
    <3>1. \E quality \in Qualities : Judge(quality)
      BY <1>5, <2>6 DEF Skip
    <3> QED BY <1>1, <2>2, <2>5, <2>6, <3>1 DEF KnownToFail
  <2> QED BY <2>4, <2>6
<1>6. CASE Preflight
  BY <1>2, <1>3, <1>6 DEF Preflight, Ends, memoryVars
<1>7. CASE WriteResults \/ WriteCsv \/ WriteSummary
  <2>1. pc' # "down"
    BY <1>7 DEF WriteResults, WriteCsv, WriteSummary, Write, TypeOK
  <2> QED BY <1>2, <1>7, <2>1 DEF WriteResults, WriteCsv, WriteSummary, Write, memoryVars
<1>8. CASE Return \/ Killed
  BY <1>3, <1>8 DEF Return, Killed, Ends
<1>9. CASE Connect \/ Point \/ PlanEnds \/ Generate \/ Capture
  <2>1. pc' # "down"
    BY <1>9 DEF Connect, Point, PlanEnds, Generate, Capture
  <2> QED BY <1>2, <1>9, <2>1 DEF Connect, Point, PlanEnds, Generate, Capture, memoryVars
<1>10. CASE Raise
  BY <1>2, <1>3, <1>10 DEF Raise, Ends
<1>11. CASE Shutdown
  BY <1>3, <1>11 DEF Shutdown, Ends
<1>12. CASE UNCHANGED vars
  BY <1>2, <1>12 DEF vars, memoryVars
<1> QED
  BY <1>4, <1>5, <1>6, <1>7, <1>8, <1>9, <1>10, <1>11, <1>12 DEF Next

-----------------------------------------------------------------------------
(* Where a run is, and what its files say there.                           *)

\* Where a run is, and what that means for its files.
Control == Ahead /\ FreshCapture /\ Skipping /\ FilesFollow /\ Phases /\ EndsWhole

\* A run that ends by an error, or is killed, is not held to anything.
LEMMA EndsControl ==
    ASSUME TypeOK, Ahead, Phases,
           NEW code \in {"error", "killed"}, Ends(code), UNCHANGED <<file, life, used>>
    PROVE  Control'
<1>1. /\ pc' = "down" /\ exit' = code /\ phase' = "first" /\ records' = <<>>
      /\ raised' = FALSE
  BY DEF Ends
<1>2. Len(<<>>) = 0 /\ Points \in Nat
  BY CharacterizationAssumption
<1>3. Ahead'
  BY <1>1, <1>2 DEF Ahead, Saved
<1>4. FreshCapture' /\ Skipping' /\ FilesFollow' /\ Phases'
  BY <1>1 DEF FreshCapture, Skipping, FilesFollow, Phases, Measuring, Synced
<1>5. EndsWhole'
  BY <1>1 DEF EndsWhole
<1> QED BY <1>3, <1>4, <1>5 DEF Control

\* A run that returns when all three files say what its records say leaves the
\* dataset whole.
LEMMA ReturnControl ==
    ASSUME TypeOK, Ahead, NEW code \in {"ok", "bad"}, Ends(code),
           UNCHANGED <<runner, life, file, used>>,
           \A f \in Files : file[f] = Content, code = "ok" => Succeeded(records),
           used => ~output'
    PROVE  Control'
<1>1. /\ pc' = "down" /\ exit' = code /\ phase' = "first" /\ records' = <<>>
      /\ raised' = FALSE
  BY DEF Ends
<1>2. Len(<<>>) = 0 /\ Points \in Nat
  BY CharacterizationAssumption
<1>3. Ahead'
  BY <1>1, <1>2 DEF Ahead, Saved
<1>4. FreshCapture' /\ Skipping' /\ FilesFollow' /\ Phases'
  BY <1>1 DEF FreshCapture, Skipping, FilesFollow, Phases, Measuring, Synced
<1>5. Saved' = records
  BY DEF Saved, Files, Content
<1>6. Succeeded(records) => Succeeded(Saved)'
  BY <1>5 DEF Succeeded, Complete
<1>7. file'["csv"] = file'["results"] /\ file'["summary"] = file'["results"]
  BY DEF Files
<1>8. EndsWhole'
  BY <1>1, <1>6, <1>7 DEF EndsWhole
<1> QED BY <1>3, <1>4, <1>8 DEF Control

\* The checkpoint has no more records than the plan has points, and when it has all
\* of them it is there: a plan has at least one.
LEMMA CheckpointFits ==
    ASSUME TypeOK, MeasuredHere(Saved), Ahead
    PROVE  /\ Saved \in Seq(RecordSet) /\ Len(Saved) \in Nat /\ Len(Saved) <= Points
           /\ Complete(Saved) => file["results"] = [there |-> TRUE, points |-> Saved]
<1> USE CharacterizationAssumption
<1>1. /\ file["results"] \in [there : BOOLEAN, points : Seq(RecordSet)]
      /\ Saved \in Seq(RecordSet) /\ Len(Saved) \in Nat /\ DOMAIN Saved = 1 .. Len(Saved)
  <2>1. file["results"] \in [there : BOOLEAN, points : Seq(RecordSet)]
    BY DEF TypeOK, Files
  <2>2. Saved \in Seq(RecordSet)
    BY <2>1 DEF Saved
  <2> QED BY <2>1, <2>2
<1>2. Len(Saved) <= Points
  <2>1. CASE Len(Saved) = 0
    BY <2>1
  <2>2. CASE Len(Saved) # 0
    <3>1. Len(Saved) \in DOMAIN Saved
      BY <1>1, <2>2
    <3>2. Saved[Len(Saved)].point = Len(Saved) /\ Saved[Len(Saved)] \in RecordSet
      BY <1>1, <3>1 DEF MeasuredHere
    <3> QED BY <3>2 DEF RecordSet
  <2> QED BY <2>1, <2>2
<1>3. ASSUME Complete(Saved) PROVE file["results"].there
  <2>1. 1 \in {Saved[i].point : i \in DOMAIN Saved}
    BY <1>3 DEF Complete
  <2>2. PICK i \in DOMAIN Saved : TRUE
    BY <2>1
  <2>3. Saved # <<>>
    BY <1>1, <2>2
  <2> QED BY <1>1, <2>3 DEF Ahead
<1> QED BY <1>1, <1>2, <1>3 DEF Saved

\* Every step keeps the files in step with the run.
LEMMA ControlStep ==
    ASSUME TypeOK, MeasuredHere(Saved), Control, KnownToFail, [Next]_vars
    PROVE  Control'
<1> USE CharacterizationAssumption
<1>0. /\ records \in Seq(RecordSet) /\ Len(records) \in Nat
      /\ DOMAIN records = 1 .. Len(records) /\ life \in Nat
      /\ Saved \in Seq(RecordSet) /\ Len(Saved) \in Nat
  BY CheckpointFits DEF TypeOK, Control
<1>1. ASSUME NEW resume \in BOOLEAN, Start(resume) PROVE Control'
  <2>1. UNCHANGED <<runner, file, raw, output>> /\ used' = FALSE /\ pc = "down"
    BY <1>1 DEF Start, pointFiles
  <2>2. records' = Saved /\ pc' \in {"csv", "preflight"}
    BY <1>1 DEF Start, Rebuild, Saved
  <2>3. Ahead'
    BY <1>0, <2>1, <2>2, CheckpointFits DEF Ahead, Control, Saved
  <2>4. FilesFollow'
    <3>1. CASE Complete(Saved)
      <4>1. pc' = "csv"
        BY <1>1, <3>1 DEF Start, Rebuild, Saved
      <4>2. file'["results"] = [there |-> TRUE, points |-> records']
        BY <2>1, <2>2, <3>1, CheckpointFits DEF Control
      <4> QED BY <4>1, <4>2 DEF FilesFollow, Synced, Measuring, Content
    <3>2. CASE ~Complete(Saved)
      <4>1. pc' = "preflight"
        BY <1>1, <3>2 DEF Start, Saved
      <4> QED BY <4>1 DEF FilesFollow, Synced, Measuring
    <3> QED BY <3>1, <3>2
  <2>5. Phases'
    <3>1. CASE Complete(Saved)
      BY <1>1, <2>1, <3>1 DEF Start, Rebuild, Saved, Phases
    <3>2. CASE ~Complete(Saved)
      BY <1>1, <2>1, <3>2 DEF Start, Saved, Phases
    <3> QED BY <3>1, <3>2
  <2>6. FreshCapture' /\ Skipping' /\ EndsWhole'
    BY <2>2 DEF FreshCapture, Skipping, EndsWhole, Measuring
  <2> QED BY <2>3, <2>4, <2>5, <2>6 DEF Control
<1>2. CASE Preflight
  <2>1. CASE Ends("error")
    BY <1>2, <2>1, EndsControl DEF Preflight, Control
  <2>2. CASE pc' = "results" /\ UNCHANGED <<memoryVars, exit>>
    <3>1. pc = "preflight" /\ UNCHANGED <<phase, records, file, used>>
      BY <1>2, <2>2 DEF Preflight, memoryVars
    <3> QED
      BY <2>2, <3>1 DEF Control, Ahead, Saved, FreshCapture, Skipping, FilesFollow, Synced,
                        Measuring, Phases, EndsWhole, Files
  <2> QED BY <1>2, <2>1, <2>2 DEF Preflight
<1>3. ASSUME NEW f \in Files, NEW next, Write(f, next)
      PROVE  /\ pc = f /\ pc' = next
             /\ UNCHANGED <<runner, life, phase, records, supported, raised, exit, raw, used>>
             /\ file'[f] = Content /\ \A g \in Files \ {f} : file'[g] = file[g]
             /\ Content' = Content
  BY <1>3 DEF Write, memoryVars, pointFiles, TypeOK, Content
<1>4. CASE WriteResults
  <2>1. /\ pc = "results" /\ pc' = "csv" /\ UNCHANGED <<phase, records, used>>
        /\ file'["results"] = Content /\ Content' = Content
    BY <1>3, <1>4 DEF WriteResults, Files
  <2>2. Saved' = records
    BY <2>1 DEF Saved, Content
  <2>3. Ahead'
    BY <1>0, <2>1, <2>2 DEF Control, Ahead, Content
  <2> QED
    BY <2>1, <2>3 DEF Control, FreshCapture, Skipping, FilesFollow, Synced, Measuring, Phases,
                      EndsWhole, Files
<1>5. CASE WriteCsv
  <2>1. /\ pc = "csv" /\ pc' = "summary" /\ UNCHANGED <<phase, records, used>>
        /\ file'["csv"] = Content /\ file'["results"] = file["results"] /\ Content' = Content
    BY <1>3, <1>5 DEF WriteCsv, Files
  <2> QED
    BY <2>1 DEF Control, Ahead, Saved, FreshCapture, Skipping, FilesFollow, Synced, Measuring,
                Phases, EndsWhole, Files
<1>6. CASE WriteSummary
  <2>1. PICK next : /\ Write("summary", next) /\ next \in {"return", "connect", "point"}
                    /\ next = CASE phase = "rebuild" -> "return"
                                [] phase = "first"   -> "connect"
                                [] phase = "loop"    -> "point"
    BY <1>6 DEF WriteSummary, TypeOK
  <2>2. /\ pc = "summary" /\ pc' = next
        /\ UNCHANGED <<runner, life, phase, records, supported, raised, exit, raw, used>>
        /\ file'["summary"] = Content /\ file'["results"] = file["results"]
        /\ file'["csv"] = file["csv"] /\ Content' = Content
    BY <1>3, <2>1 DEF Files
  <2>3. FilesFollow'
    BY <2>1, <2>2 DEF Control, FilesFollow, Synced, Measuring
  <2>4. Phases'
    <3>1. phase = "rebuild" => pc' = "return"
      BY <2>1, <2>2
    <3>2. phase = "first" => pc' = "connect"
      BY <2>1, <2>2
    <3>3. phase = "loop" => pc' = "point"
      BY <2>1, <2>2
    <3> QED BY <2>2, <3>1, <3>2, <3>3 DEF Control, Phases, Files
  <2>5. Ahead'
    BY <2>1, <2>2 DEF Control, Ahead, Saved
  <2> QED
    BY <2>1, <2>2, <2>3, <2>4, <2>5 DEF Control, FreshCapture, Skipping, Measuring, EndsWhole
<1>7. CASE Return
  <2>1. PICK code \in {"ok", "bad"} : Ends(code) /\ (code = "ok" => Succeeded(records))
    BY <1>7 DEF Return
  <2>2. pc = "return" /\ UNCHANGED <<runner, life, file, used>>
    BY <1>7 DEF Return
  <2>3. ~used
    BY <2>2 DEF Control, Phases, TypeOK, Files, Measuring
  <2>4. \A f \in Files : file[f] = Content
    BY <2>2 DEF Control, FilesFollow, Synced, Files
  <2> QED BY <2>1, <2>2, <2>3, <2>4, ReturnControl DEF Control
<1>8. CASE Connect
  BY <1>8 DEF Connect, Control, Ahead, Saved, FreshCapture, Skipping, FilesFollow, Content,
              Synced, Measuring, Phases, EndsWhole, Files
<1>9. CASE Point
  <2>1. /\ pc = "point" /\ Len(records) + 1 <= Points
        /\ UNCHANGED <<runner, life, phase, records, supported, raised, file, used>>
        /\ raw' = [raw EXCEPT ![Len(records) + 1] = 0]
        /\ pc' = IF Mode(Len(records) + 1) = "offset" /\ supported = "no"
                 THEN "skip" ELSE "generate"
    BY <1>9 DEF Point, Pending, RemoveArtifacts, memoryVars
  <2>2. raw'[Len(records) + 1] = 0
    BY <1>0, <2>1 DEF TypeOK
  <2>3. Mode(Len(records) + 1)' = Mode(Len(records) + 1)
    BY <2>1 DEF Mode
  <2>4. Skipping'
    BY <2>1, <2>3 DEF Skipping
  <2> QED
    BY <1>0, <2>1, <2>2, <2>4 DEF Control, Ahead, Saved, FreshCapture, FilesFollow, Content,
                                  Synced, Measuring, Phases, EndsWhole, Files
<1>10. CASE PlanEnds
  <2>1. /\ pc = "point" /\ pc' = "shutdown"
        /\ UNCHANGED <<runner, life, phase, records, raised, file, used>>
    BY <1>10 DEF PlanEnds, memoryVars
  <2>2. \A f \in Files : file[f] = Content
    BY <2>1 DEF Control, FilesFollow, Synced, Files
  <2> QED
    BY <2>1, <2>2 DEF Control, Ahead, Saved, FreshCapture, Skipping, FilesFollow, Content,
                      Synced, Measuring, Phases, EndsWhole, Files
<1>11. CASE Skip \/ (\E quality \in Qualities : Judge(quality))
  <2>1. PICK r \in RecordSet : Done(r)
    BY <1>11, PointDone DEF Control
  <2>2. /\ UNCHANGED <<file, used>> /\ pc \in Measuring /\ pc' = "results" /\ phase' = phase
        /\ Len(records) + 1 \in 1 .. Points
    BY <1>11, PointDone DEF Control, Skip, Judge
  <2>3. Len(records') = Len(records) + 1
    BY <1>0, <2>1, Appended DEF Done
  <2> QED
    BY <1>0, <2>2, <2>3 DEF Control, Ahead, Saved, FreshCapture, Skipping, FilesFollow, Synced,
                            Measuring, Phases, EndsWhole, Files
<1>12. CASE Generate
  <2>1. /\ pc = "generate" /\ pc' \in {"capture", "lost"}
        /\ UNCHANGED <<runner, life, phase, records, raised, file, raw>>
    BY <1>12 DEF Generate, memoryVars, pointFiles
  <2>2. phase = "loop"
    BY <2>1 DEF Control, Phases, TypeOK, Files
  <2> QED
    BY <2>1, <2>2 DEF Control, Ahead, Saved, FreshCapture, Skipping, FilesFollow, Content,
                      Synced, Measuring, Phases, EndsWhole, Files
<1>13. CASE Capture
  <2>1. /\ pc = "capture" /\ pc' \in {"captured", "lost"}
        /\ UNCHANGED <<runner, life, phase, records, raised, file, used>>
        /\ raw' = [raw EXCEPT ![Len(records) + 1] = life] \/ raw' = raw
    BY <1>13 DEF Capture, Pending, memoryVars
  <2>2. Len(records) + 1 \in 1 .. Points
    BY <1>0, <2>1 DEF Control, FreshCapture, Measuring
  <2>3. raw'[Len(records) + 1] \in {0, life}
    BY <2>1, <2>2 DEF TypeOK, Control, FreshCapture
  <2> QED
    BY <2>1, <2>3 DEF Control, Ahead, Saved, FreshCapture, Skipping, FilesFollow, Content,
                      Synced, Measuring, Phases, EndsWhole, Files
<1>14. CASE Raise
  <2>1. CASE phase = "loop"
    BY <1>14, <2>1 DEF Raise, pointFiles, Control, Ahead, Saved, FreshCapture, Skipping,
                       FilesFollow, Synced, Measuring, Phases, EndsWhole, Files
  <2>2. CASE phase # "loop"
    BY <1>14, <2>2, EndsControl DEF Raise, Control
  <2> QED BY <2>1, <2>2
<1>15. CASE Shutdown
  <2>1. UNCHANGED <<runner, life, file, used>> /\ pc = "shutdown"
    BY <1>15 DEF Shutdown
  <2>2. CASE Ends("error")
    BY <2>1, <2>2, EndsControl DEF Control
  <2>3. CASE ~Ends("error")
    <3>1. ~raised
      BY <1>15, <2>3 DEF Shutdown
    <3>2. PICK code \in {"ok", "bad"} : Ends(code) /\ (code = "ok" => Succeeded(records))
      BY <1>15, <2>3 DEF Shutdown
    <3>3. output' = FALSE
      BY <1>15, <2>3 DEF Shutdown
    <3>4. \A f \in Files : file[f] = Content
      BY <2>1, <3>1 DEF Control, FilesFollow
    <3> QED BY <2>1, <3>2, <3>3, <3>4, ReturnControl DEF Control
  <2> QED BY <2>2, <2>3
<1>16. CASE Killed
  BY <1>16, EndsControl DEF Killed, Control
<1>17. CASE UNCHANGED vars
  <2>1. UNCHANGED <<runner, life, pc, phase, records, supported, raised, exit, file, raw, output,
                    used>>
    BY <1>17 DEF vars, memoryVars, pointFiles
  <2>2. Saved' = Saved /\ Content' = Content
    BY <2>1 DEF Saved, Content
  <2>3. Mode(Len(records) + 1)' = Mode(Len(records) + 1)
    BY <2>1 DEF Mode
  <2>4. Succeeded(Saved)' <=> Succeeded(Saved)
    BY <2>1, <2>2 DEF Succeeded, Complete
  <2>5. Ahead' /\ FreshCapture' /\ Skipping' /\ Phases'
    BY <2>1, <2>2, <2>3 DEF Control, Ahead, FreshCapture, Skipping, Phases
  <2>6. FilesFollow'
    BY <2>1, <2>2 DEF Control, FilesFollow
  <2>7. EndsWhole'
    BY <2>1, <2>2, <2>4 DEF Control, EndsWhole
  <2> QED BY <2>5, <2>6, <2>7 DEF Control
<1> QED
  BY <1>1, <1>2, <1>4, <1>5, <1>6, <1>7, <1>8, <1>9, <1>10, <1>11, <1>12, <1>13, <1>14, <1>15,
     <1>16, <1>17 DEF Next

-----------------------------------------------------------------------------
(* The theorems.                                                           *)

\* Nothing was measured yet.
LEMMA InitHolds == Init => IInv
<1> USE CharacterizationAssumption
<1> SUFFICES ASSUME Init PROVE IInv
  OBVIOUS
<1>1. /\ records = <<>> /\ Saved = <<>> /\ DOMAIN <<>> = {} /\ Len(<<>>) = 0
      /\ <<>> \in Seq(RecordSet)
  BY DEF Init, Saved, Files
<1>2. TypeOK
  <2>1. file \in [Files -> [there : BOOLEAN, points : Seq(RecordSet)]]
    BY <1>1 DEF Init
  <2>2. /\ raw \in [1 .. Points -> Nat] /\ stderr \in [1 .. Points -> Says]
        /\ life \in 0 .. MaxLives
    BY DEF Init, Says
  <2> QED BY <1>1, <2>1, <2>2 DEF Init, TypeOK
<1>3. MeasuredHere(records) /\ MeasuredHere(Saved) /\ Justified(records) /\ Justified(Saved)
  BY <1>1 DEF MeasuredHere, Justified
<1>4. Ahead /\ FreshCapture /\ KnownToFail /\ Skipping /\ FilesFollow /\ Phases /\ EndsWhole
  BY <1>1 DEF Init, Ahead, FreshCapture, KnownToFail, Skipping, FilesFollow, Phases, EndsWhole,
              Measuring, Synced
<1> QED BY <1>2, <1>3, <1>4 DEF IInv

\* What the proofs rest on: the records in memory are never behind the checkpoint,
\* each of them is of a capture that is there, what is known of offset tuning is in
\* a record, and the files are as new as the place in the run says.
THEOREM Inductive == Spec => []IInv
<1>1. Init => IInv
  BY InitHolds
<1>2. IInv /\ [Next]_vars => IInv'
  <2> SUFFICES ASSUME IInv, [Next]_vars PROVE IInv'
    OBVIOUS
  <2>1. TypeOK'
    BY TypeStep DEF IInv
  <2>2. MeasuredHere(records)' /\ MeasuredHere(Saved)'
    BY MeasuredStep DEF IInv
  <2>3. Justified(records)' /\ Justified(Saved)'
    BY JustifiedStep DEF IInv
  <2>4. KnownToFail'
    BY KnownStep DEF IInv
  <2>5. Control'
    BY ControlStep DEF IInv, Control
  <2> QED BY <2>1, <2>2, <2>3, <2>4, <2>5 DEF IInv, Control
<1> QED BY <1>1, <1>2, PTL DEF Spec

\* The variables of both commands have their types, for every plan.
THEOREM TypeCorrect == Spec => []TypeOK
<1>1. IInv => TypeOK
  BY DEF IInv
<1> QED BY <1>1, Inductive, PTL

\* The checkpoint has each point once, in the order of the plan, and the capture
\* its status was read from is there and of the same attempt: a resume removes
\* what an interrupted attempt has left (cw_matrix.py, cw_frequency_accuracy.py).
THEOREM CheckpointHolds == Spec => []CheckpointTrue
<1>1. IInv => CheckpointTrue
  BY DEF IInv, MeasuredHere, CheckpointTrue
<1> QED BY <1>1, Inductive, PTL

\* A point counts as unsupported only when a capture that ended well, in whatever
\* life, told that offset tuning does not work: also after a resume, which reads
\* the capability from the checkpoint again (cw_frequency_accuracy.py).
THEOREM UnsupportedHolds == Spec => []UnsupportedJustified
<1>1. IInv => UnsupportedJustified
  <2> SUFFICES ASSUME IInv PROVE UnsupportedJustified
    OBVIOUS
  <2> QED BY DEF IInv, Justified, Telling, UnsupportedJustified
<1> QED BY <1>1, Inductive, PTL

\* A run that returns, however often the ones before it were killed, leaves three
\* files that agree and an exit code that fits them, and the output it turned on
\* off: for a plan that has a point, as the code demands.
THEOREM EndsWholeHolds == Spec => []EndsWhole
<1>1. IInv => EndsWhole
  BY DEF IInv
<1> QED BY <1>1, Inductive, PTL
=============================================================================
