--------------------------- MODULE EvalRunnerProofs ---------------------------
(***************************************************************************)
(* For every catalogue, candidate list, number of repetitions and outcome: *)
(* no cell of the matrix is lost or recorded twice, the runner implements  *)
(* ReleaseGate, and the report ranks exactly the candidates that were      *)
(* asked for, each over its whole matrix, the best survivor first.         *)
(***************************************************************************)
EXTENDS EvalRunner, FiniteSetTheorems, FunctionTheorems, TLAPS

\* The order in which the three loops reach the cells.
Precedes(a, b) ==
  \/ a.candidate < b.candidate
  \/ a.candidate = b.candidate /\ a.scenario < b.scenario
  \/ /\ a.candidate = b.candidate /\ a.scenario = b.scenario
     /\ a.repetition < b.repetition

Recorded == {records[i].cell : i \in DOMAIN records}

RecordsTyped ==
  records \in Seq([cell : Cells, classification : Classifications,
                   latency : Nat, cost : Nat \cup {None}])

Distinct == \A i, j \in DOMAIN records : records[i].cell = records[j].cell => i = j

\* Where the runner is in its matrix: what was recorded so far is what
\* precedes the cursor, and after the loops it is everything.
Progress ==
  /\ invocation \in Invocations
  /\ RecordsTyped
  /\ Distinct
  /\ probe_records \in Seq({"CLEAN_PASS", "CRITICAL_FAILURE"})
  /\ stage \in Stages
  /\ stage = "configuration" => records = <<>> /\ probe_records = <<>>
  /\ stage = "configuration" => cursor = [candidate |-> 1, scenario |-> 1, repetition |-> 1]
  /\ stage # "configuration" =>
       Configured /\ ~invocation.dry_run /\ Selected # {} /\ cursor \in Cells
  /\ stage \in {"candidate", "built", "unbuilt"} =>
       /\ Recorded = {cell \in Cells : Precedes(cell, cursor)}
       /\ probe_records = <<>>
  /\ stage = "candidate" => cursor.scenario = Min(Selected) /\ cursor.repetition = 1
  /\ stage \in {"probes", "writing"} => Recorded = Cells
  /\ stage = "probes" => Len(probe_records) <= ProbesWanted
  /\ stage = "writing" => Len(probe_records) = ProbesWanted

-----------------------------------------------------------------------------
(* Facts about the matrix.                                                 *)

\* A set of scenarios has a first one.
LEMMA MinIsLeast ==
  ASSUME NEW S \in SUBSET Nat, S # {}
  PROVE  Min(S) \in S /\ \A n \in S : Min(S) <= n
<1>. DEFINE R == {p \in Nat \X Nat : p[1] < p[2]}
<1>1. IsWellFoundedOn(R, Nat)
  BY NatLessThanWellFounded DEF OpToRel
<1>2. \A m, n \in Nat : <<m, n>> \in R <=> m < n
  OBVIOUS
<1>. HIDE DEF R
<1>3. PICK n \in S : \A m \in S : ~(<<m, n>> \in R)
  BY <1>1, WFMin
<1>4. \A m \in S : n <= m
  <2>1. SUFFICES ASSUME NEW m \in S PROVE n <= m
    OBVIOUS
  <2>2. m \in Nat /\ n \in Nat
    OBVIOUS
  <2>3. ~(m < n)
    BY <1>2, <1>3, <2>2
  <2>. QED BY <2>2, <2>3
<1>. QED BY <1>4 DEF Min

\* The types of what an invocation holds.
LEMMA InvocationFacts ==
  ASSUME invocation \in Invocations
  PROVE  /\ invocation.candidates \in Seq(Candidates) /\ invocation.candidates # <<>>
         /\ Len(invocation.candidates) \in Nat \ {0}
         /\ DOMAIN invocation.candidates = 1 .. Len(invocation.candidates)
         /\ invocation.repetitions \in Int
         /\ Selected \subseteq Nat
         /\ ProbesWanted \in Nat
         /\ invocation.dry_run \in BOOLEAN
  BY EvalRunnerAssumption DEF Selected, ProbesWanted

\* Configured leaves no scenario to look up in vain, so some are selected.
LEMMA SomeSelected ==
  ASSUME invocation \in Invocations, Configured
  PROVE  Selected # {}
<1>1. CASE invocation.scenario_ids = {}
  <2>1. 1 \in 1 .. AgentScenarios
    BY EvalRunnerAssumption
  <2>. QED BY <1>1, <2>1 DEF Selected
<1>2. CASE invocation.scenario_ids # {}
  <2>1. PICK s \in invocation.scenario_ids : TRUE
    BY <1>2
  <2>2. s \in 1 .. AgentScenarios
    BY <2>1, EvalRunnerAssumption DEF Configured
  <2>. QED BY <1>2, <2>1, <2>2 DEF Selected
<1>. QED BY <1>1, <1>2

\* The fields of a cell.
LEMMA CellsFacts ==
  ASSUME invocation \in Invocations, NEW cell \in Cells
  PROVE  /\ cell.candidate \in 1 .. Len(invocation.candidates)
         /\ cell.scenario \in Selected /\ cell.scenario \in Nat
         /\ cell.repetition \in 1 .. invocation.repetitions
         /\ cell = [candidate |-> cell.candidate, scenario |-> cell.scenario,
                    repetition |-> cell.repetition]
  BY InvocationFacts DEF Cells

-----------------------------------------------------------------------------
(* One step of the loops.                                                  *)

\* Advance moves the cursor to the cell that comes next, or out of the loops.
LEMMA AdvanceSteps ==
  ASSUME invocation \in Invocations, Configured, Selected # {},
         cursor \in Cells, Advance, UNCHANGED invocation,
         stage \in {"built", "unbuilt"}
  PROVE  /\ cursor' \in Cells
         /\ \/ /\ stage' \in {stage, "candidate"}
               /\ \A cell \in Cells :
                    Precedes(cell, cursor') <=> Precedes(cell, cursor) \/ cell = cursor
            \/ /\ stage' = "probes"
               /\ \A cell \in Cells : Precedes(cell, cursor) \/ cell = cursor
         /\ stage' = "candidate" => cursor'.scenario = Min(Selected) /\ cursor'.repetition = 1
<1>. DEFINE reps == invocation.repetitions
            last == Len(invocation.candidates)
<1>1. /\ reps \in Nat \ {0} /\ last \in Nat \ {0}
      /\ Selected \subseteq Nat /\ DOMAIN invocation.candidates = 1 .. last
  BY InvocationFacts DEF Configured
<1>2. /\ cursor.candidate \in 1 .. last /\ cursor.scenario \in Selected
      /\ cursor.repetition \in 1 .. reps
      /\ cursor = [candidate |-> cursor.candidate, scenario |-> cursor.scenario,
                   repetition |-> cursor.repetition]
  BY CellsFacts
<1>3. \A cell \in Cells :
        /\ cell.candidate \in 1 .. last /\ cell.scenario \in Selected
        /\ cell.repetition \in 1 .. reps
        /\ cell = cursor <=> /\ cell.candidate = cursor.candidate
                             /\ cell.scenario = cursor.scenario
                             /\ cell.repetition = cursor.repetition
  BY <1>2, CellsFacts
<1>4. Cells = [candidate : 1 .. last, scenario : Selected, repetition : 1 .. reps]
  BY <1>1 DEF Cells
<1>5. Min(Selected) \in Selected /\ \A s \in Selected : Min(Selected) <= s
  BY <1>1, MinIsLeast
<1>. HIDE DEF reps, last
<1>6. CASE cursor.repetition < reps
  <2>1. cursor' = [cursor EXCEPT !.repetition = cursor.repetition + 1] /\ stage' = stage
    BY <1>6 DEF Advance, reps
  <2>2. cursor' = [candidate |-> cursor.candidate, scenario |-> cursor.scenario,
                   repetition |-> cursor.repetition + 1]
    BY <2>1, <1>2
  <2>3. cursor' \in Cells
    BY <2>2, <1>1, <1>2, <1>4, <1>6
  <2>4. \A cell \in Cells :
          Precedes(cell, cursor') <=> Precedes(cell, cursor) \/ cell = cursor
    BY <2>2, <1>1, <1>2, <1>3 DEF Precedes
  <2>. QED BY <2>1, <2>3, <2>4
<1>7. CASE ~(cursor.repetition < reps) /\ LaterScenarios # {}
  <2>1. /\ cursor' = [cursor EXCEPT !.scenario = Min(LaterScenarios), !.repetition = 1]
        /\ stage' = stage
    BY <1>7 DEF Advance, reps
  <2>2. cursor' = [candidate |-> cursor.candidate, scenario |-> Min(LaterScenarios),
                   repetition |-> 1]
    BY <2>1, <1>2
  <2>3. /\ Min(LaterScenarios) \in LaterScenarios
        /\ \A s \in LaterScenarios : Min(LaterScenarios) <= s
    BY <1>1, <1>7, MinIsLeast DEF LaterScenarios
  <2>4. cursor.repetition = reps
    BY <1>1, <1>2, <1>7
  <2>5. /\ Min(LaterScenarios) \in Selected /\ Min(LaterScenarios) > cursor.scenario
        /\ \A s \in Selected : s > cursor.scenario => Min(LaterScenarios) <= s
    BY <2>3 DEF LaterScenarios
  <2>6. cursor' \in Cells
    BY <2>2, <2>5, <1>1, <1>2, <1>4
  <2>7. \A cell \in Cells :
          Precedes(cell, cursor') <=> Precedes(cell, cursor) \/ cell = cursor
    BY <2>2, <2>4, <2>5, <1>1, <1>2, <1>3 DEF Precedes
  <2>. QED BY <2>1, <2>6, <2>7
<1>8. CASE /\ ~(cursor.repetition < reps) /\ LaterScenarios = {}
           /\ cursor.candidate < last
  <2>1. /\ cursor' = [candidate |-> cursor.candidate + 1,
                      scenario |-> Min(Selected), repetition |-> 1]
        /\ stage' = "candidate"
    BY <1>8 DEF Advance, reps, last
  <2>2. cursor.repetition = reps /\ \A s \in Selected : s <= cursor.scenario
    BY <1>1, <1>2, <1>8 DEF LaterScenarios
  <2>3. cursor' \in Cells
    BY <2>1, <1>1, <1>2, <1>4, <1>5, <1>8
  <2>4. \A cell \in Cells :
          Precedes(cell, cursor') <=> Precedes(cell, cursor) \/ cell = cursor
    BY <2>1, <2>2, <1>1, <1>2, <1>3, <1>5 DEF Precedes
  <2>. QED BY <2>1, <2>3, <2>4
<1>9. CASE /\ ~(cursor.repetition < reps) /\ LaterScenarios = {}
           /\ ~(cursor.candidate < last)
  <2>1. cursor' = cursor /\ stage' = "probes"
    BY <1>9 DEF Advance, reps, last
  <2>2. /\ cursor.repetition = reps /\ cursor.candidate = last
        /\ \A s \in Selected : s <= cursor.scenario
    BY <1>1, <1>2, <1>9 DEF LaterScenarios
  <2>3. \A cell \in Cells : Precedes(cell, cursor) \/ cell = cursor
    BY <2>2, <1>1, <1>2, <1>3 DEF Precedes
  <2>. QED BY <2>1, <2>3
<1>. QED BY <1>6, <1>7, <1>8, <1>9

\* A recorded cell is one more record, of a cell that had none.
LEMMA RecordCellFacts ==
  ASSUME Progress, stage \in {"built", "unbuilt"},
         NEW classification \in Classifications,
         NEW measure, measure.latency \in Nat, measure.cost \in Nat \cup {None},
         RecordCell(classification, measure)
  PROVE  /\ RecordsTyped' /\ Distinct'
         /\ Recorded' = Recorded \cup {cursor}
         /\ cursor \in Cells \ Recorded
<1>. DEFINE r == [cell |-> cursor, classification |-> classification,
                  latency |-> measure.latency, cost |-> measure.cost]
            R == [cell : Cells, classification : Classifications,
                  latency : Nat, cost : Nat \cup {None}]
<1>1. records' = Append(records, r) /\ UNCHANGED invocation
  BY DEF RecordCell
<1>2. cursor \in Cells /\ invocation \in Invocations /\ records \in Seq(R)
  BY DEF Progress, RecordsTyped
<1>3. r \in R
  BY <1>2
<1>4. Cells' = Cells
  BY <1>1 DEF Cells, Selected
<1>5. cursor \notin Recorded
  <2>1. ~Precedes(cursor, cursor)
    BY <1>2, CellsFacts DEF Precedes
  <2>. QED BY <2>1 DEF Progress
<1>6. records' \in Seq(R)
  BY <1>1, <1>2, <1>3
<1>7. /\ DOMAIN records' = DOMAIN records \cup {Len(records) + 1}
      /\ Len(records) + 1 \notin DOMAIN records
      /\ records'[Len(records) + 1] = r
      /\ \A i \in DOMAIN records : records'[i] = records[i]
  BY <1>1, <1>2, <1>3
<1>. HIDE DEF R
<1>8. r.cell = cursor
  OBVIOUS
<1>. HIDE DEF r
<1>9. Recorded' = Recorded \cup {cursor}
  BY <1>7, <1>8 DEF Recorded
<1>10. Distinct'
  <2>1. \A i \in DOMAIN records : records[i].cell # cursor
    BY <1>5 DEF Recorded
  <2>2. Distinct
    BY DEF Progress
  <2>. QED BY <1>7, <1>8, <2>1, <2>2 DEF Distinct
<1>11. RecordsTyped'
  BY <1>4, <1>6 DEF RecordsTyped, R
<1>. QED BY <1>2, <1>5, <1>9, <1>10, <1>11

\* The two ways a cell gets its record.
LEMMA RecordingStep ==
  ASSUME Progress, ScoreCell \/ FailCell \/ RecordUnbuilt
  PROVE  /\ stage \in {"built", "unbuilt"} /\ status = None
         /\ \E classification \in Classifications, measure \in [latency : Nat, cost : Nat \cup {None}] :
              RecordCell(classification, measure)
<1>1. NoMetrics \in [latency : Nat, cost : Nat \cup {None}]
  BY DEF NoMetrics
<1>2. "CRITICAL_FAILURE" \in Classifications
  BY DEF Classifications
<1>3. CASE FailCell \/ RecordUnbuilt
  BY <1>1, <1>2, <1>3 DEF FailCell, RecordUnbuilt, RecordCell
<1>4. CASE ScoreCell
  BY <1>4, EvalRunnerAssumption DEF ScoreCell, RecordCell
<1>. QED BY <1>3, <1>4

-----------------------------------------------------------------------------
(* The invariant.                                                          *)

\* Nothing is recorded at first.
LEMMA ProgressInit == Init => Progress
<1>. SUFFICES ASSUME Init PROVE Progress
  OBVIOUS
<1>1. /\ invocation \in Invocations /\ stage = "configuration"
      /\ records = <<>> /\ probe_records = <<>>
      /\ cursor = [candidate |-> 1, scenario |-> 1, repetition |-> 1]
  BY DEF Init
<1>2. RecordsTyped /\ Distinct
  BY <1>1 DEF RecordsTyped, Distinct
<1>. QED BY <1>1, <1>2 DEF Progress, Stages

\* Recording a cell moves on to the next.
LEMMA ProgressRecord ==
  ASSUME Progress, ScoreCell \/ FailCell \/ RecordUnbuilt
  PROVE  Progress'
<1>1. PICK classification \in Classifications, measure \in [latency : Nat, cost : Nat \cup {None}] :
        RecordCell(classification, measure)
  BY RecordingStep
<1>2. stage \in {"built", "unbuilt"}
  BY RecordingStep
<1>3. /\ RecordsTyped' /\ Distinct' /\ cursor \in Cells \ Recorded
      /\ Recorded' = Recorded \cup {cursor}
  BY <1>1, <1>2, RecordCellFacts
<1>4. /\ Advance /\ UNCHANGED <<invocation, probe_records>>
  BY <1>1 DEF RecordCell
<1>5. Cells' = Cells /\ Selected' = Selected /\ Configured' = Configured /\ ProbesWanted' = ProbesWanted
  BY <1>4 DEF Cells, Selected, Configured, ProbesWanted, DuplicateIds, Unsupported
<1>6. /\ invocation \in Invocations /\ Configured /\ ~invocation.dry_run /\ Selected # {}
      /\ Recorded = {cell \in Cells : Precedes(cell, cursor)} /\ probe_records = <<>>
  BY <1>2 DEF Progress
<1>7. /\ cursor' \in Cells
      /\ \/ /\ stage' \in {stage, "candidate"}
            /\ \A cell \in Cells :
                 Precedes(cell, cursor') <=> Precedes(cell, cursor) \/ cell = cursor
         \/ /\ stage' = "probes"
            /\ \A cell \in Cells : Precedes(cell, cursor) \/ cell = cursor
      /\ stage' = "candidate" => cursor'.scenario = Min(Selected) /\ cursor'.repetition = 1
  BY <1>2, <1>3, <1>4, <1>6, AdvanceSteps
<1>8. stage' \in {"candidate", "built", "unbuilt"} =>
        Recorded' = {cell \in Cells : Precedes(cell, cursor')}
  BY <1>2, <1>3, <1>6, <1>7
<1>9. stage' \in {"probes", "writing"} => Recorded' = Cells
  BY <1>2, <1>3, <1>6, <1>7
<1>10. ProbesWanted \in Nat
  BY <1>6, InvocationFacts
<1>. QED
  <2>1. stage' \in {"candidate", "built", "unbuilt", "probes"}
    BY <1>2, <1>7
  <2>2. probe_records' = <<>>
    BY <1>4, <1>6
  <2>. QED
    BY <1>3, <1>4, <1>5, <1>6, <1>7, <1>8, <1>9, <1>10, <2>1, <2>2
    DEF Progress, Stages

\* The steps that record nothing of a cell.
LEMMA ProgressOther ==
  ASSUME Progress,
         \/ LoadToolkit \/ BuildAgent \/ FailBuild \/ RunToolProbe \/ BuildReport
         \/ WriteFile \/ (\E code \in {0, 1, 2, 130} : Exit(code))
         \/ UNCHANGED runnerVars
  PROVE  Progress'
<1>1. /\ invocation \in Invocations /\ ProbesWanted \in Nat /\ Selected \subseteq Nat
      /\ DOMAIN invocation.candidates = 1 .. Len(invocation.candidates)
      /\ Len(invocation.candidates) \in Nat \ {0} /\ invocation.repetitions \in Int
  BY InvocationFacts DEF Progress
<1>2. CASE LoadToolkit
  <2>1. /\ Configured /\ ~invocation.dry_run /\ status = None /\ stage = "configuration"
        /\ stage' = "candidate" /\ records = <<>> /\ probe_records = <<>>
        /\ cursor' = [candidate |-> 1, scenario |-> Min(Selected), repetition |-> 1]
        /\ UNCHANGED <<invocation, records, probe_records>>
    BY <1>2 DEF LoadToolkit, Runnable, Configuring, Progress
  <2>2. Selected # {} /\ invocation.repetitions \in Nat \ {0}
    BY <1>1, <2>1, SomeSelected DEF Configured
  <2>3. Min(Selected) \in Selected /\ \A s \in Selected : Min(Selected) <= s
    BY <1>1, <2>2, MinIsLeast
  <2>4. cursor' \in Cells
    BY <1>1, <2>1, <2>2, <2>3 DEF Cells
  <2>5. \A cell \in Cells : ~Precedes(cell, cursor')
    <3>1. SUFFICES ASSUME NEW cell \in Cells PROVE ~Precedes(cell, cursor')
      OBVIOUS
    <3>2. /\ cell.candidate \in 1 .. Len(invocation.candidates)
          /\ cell.scenario \in Selected /\ cell.repetition \in 1 .. invocation.repetitions
      BY <1>1, CellsFacts
    <3>3. /\ cursor'.candidate = 1 /\ cursor'.scenario = Min(Selected)
          /\ cursor'.repetition = 1
      BY <2>1
    <3>4. /\ cell.candidate \in Nat /\ cell.candidate >= 1
          /\ cell.repetition \in Nat /\ cell.repetition >= 1
          /\ cell.scenario \in Nat /\ Min(Selected) <= cell.scenario /\ Min(Selected) \in Nat
      BY <1>1, <2>3, <3>2
    <3>5. /\ ~(cell.candidate < 1) /\ ~(cell.scenario < Min(Selected)) /\ ~(cell.repetition < 1)
      BY <3>4
    <3>. QED BY <3>3, <3>5 DEF Precedes
  <2>6. Cells' = Cells /\ Selected' = Selected /\ Configured' = Configured
    BY <2>1 DEF Cells, Selected, Configured, DuplicateIds, Unsupported
  <2>7. Recorded = {} /\ Recorded' = {}
    BY <2>1 DEF Recorded
  <2>8. RecordsTyped' /\ Distinct'
    BY <2>1 DEF RecordsTyped, Distinct
  <2>9. probe_records' = <<>>
    BY <2>1
  <2>. QED
    BY <1>1, <2>1, <2>2, <2>4, <2>5, <2>6, <2>7, <2>8, <2>9 DEF Progress, Stages
<1>. DEFINE Kept == /\ RecordsTyped /\ Distinct
                    /\ UNCHANGED <<invocation, records, cursor>>
<1>3. Kept => /\ Cells' = Cells /\ Selected' = Selected /\ Configured' = Configured
              /\ Recorded' = Recorded /\ ProbesWanted' = ProbesWanted
              /\ RecordsTyped' /\ Distinct'
              /\ \A cell : Precedes(cell, cursor)' = Precedes(cell, cursor)
  BY DEF Cells, Selected, Configured, DuplicateIds, Unsupported, Recorded, ProbesWanted,
         RecordsTyped, Distinct, Precedes
<1>4. CASE BuildAgent \/ FailBuild
  <2>1. /\ Kept /\ stage = "candidate" /\ stage' \in {"built", "unbuilt"}
        /\ UNCHANGED probe_records
    BY <1>4 DEF BuildAgent, FailBuild, EnterCandidate, Progress
  <2>. QED BY <1>3, <2>1 DEF Progress, Stages
<1>5. CASE RunToolProbe
  <2>1. /\ Kept /\ stage = "probes" /\ stage' = stage
        /\ Len(probe_records) < ProbesWanted
        /\ \E c \in {"CLEAN_PASS", "CRITICAL_FAILURE"} :
             probe_records' = Append(probe_records, c)
    BY <1>5 DEF RunToolProbe, Probing, Progress
  <2>2. /\ probe_records' \in Seq({"CLEAN_PASS", "CRITICAL_FAILURE"})
        /\ Len(probe_records') <= ProbesWanted
    BY <1>1, <2>1 DEF Progress
  <2>. QED BY <1>3, <2>1, <2>2 DEF Progress, Stages
<1>6. CASE BuildReport
  <2>1. /\ Kept /\ stage = "probes" /\ stage' \in {stage, "writing"}
        /\ stage' = "writing" => Len(probe_records) = ProbesWanted
        /\ UNCHANGED probe_records
    BY <1>6 DEF BuildReport, Probing, Exit, Progress
  <2>. QED BY <1>3, <2>1 DEF Progress, Stages
<1>7. CASE WriteFile \/ (\E code \in {0, 1, 2, 130} : Exit(code)) \/ UNCHANGED runnerVars
  <2>1. Kept /\ UNCHANGED <<stage, probe_records>>
    BY <1>7 DEF WriteFile, Exit, runnerVars, Progress
  <2>. QED BY <1>3, <2>1 DEF Progress
<1>. QED BY <1>2, <1>4, <1>5, <1>6, <1>7

\* Every other action of the runner is an exit.
LEMMA ExitSteps ==
  ASSUME \/ RejectConfiguration \/ PrintDryRun \/ RejectMissingKeys \/ FailToolkit
         \/ FailWrite \/ Finish \/ Interrupt
  PROVE  \E code \in {0, 1, 2, 130} : Exit(code)
  BY DEF RejectConfiguration, PrintDryRun, RejectMissingKeys, FailToolkit, FailWrite,
         Finish, Interrupt

\* Every step of the runner keeps its place in the matrix.
LEMMA ProgressStep == Progress /\ [Next]_runnerVars => Progress'
<1>. SUFFICES ASSUME Progress, [Next]_runnerVars PROVE Progress'
  OBVIOUS
<1>1. CASE ScoreCell \/ FailCell \/ RecordUnbuilt
  BY <1>1, ProgressRecord
<1>2. CASE \/ RejectConfiguration \/ PrintDryRun \/ RejectMissingKeys \/ FailToolkit
           \/ FailWrite \/ Finish \/ Interrupt
  BY <1>2, ExitSteps, ProgressOther
<1>3. CASE LoadToolkit \/ BuildAgent \/ FailBuild \/ RunToolProbe \/ BuildReport \/ WriteFile
  BY <1>3, ProgressOther
<1>4. CASE UNCHANGED runnerVars
  BY <1>4, ProgressOther
<1>. QED BY <1>1, <1>2, <1>3, <1>4 DEF Next, Proceed

\* At any moment the recorded cells are those before the loops' cursor (main,
\* run_evals.py): the invariant behind the results below.
THEOREM RunnerProgress == Spec => []Progress
  BY ProgressInit, ProgressStep, PTL DEF Spec

\* Whatever raises on the way, no cell of the matrix is recorded twice and,
\* when the loops are over, none is missing (main, run_evals.py).
THEOREM MatrixRecorded == Spec => []OneRecordPerCell
<1>1. Progress => OneRecordPerCell
  BY DEF Progress, OneRecordPerCell, Distinct, Recorded
<1>. QED BY <1>1, RunnerProgress, PTL

-----------------------------------------------------------------------------
(* The files.                                                              *)

FilesInOrder ==
  /\ files \in [1 .. 4 -> Contents]
  /\ files[3] \in {"absent", "partial", "complete"}
  /\ files[4] \in {"absent", "partial", "complete"}
  /\ LatestFollowsReport

\* The files are opened in their order.
LEMMA FilesStep == FilesInOrder /\ [Next]_runnerVars => FilesInOrder'
<1>. SUFFICES ASSUME FilesInOrder, [Next]_runnerVars PROVE FilesInOrder'
  OBVIOUS
<1>1. CASE WriteFile
  <2>1. PICK i \in Unwritten :
          /\ \A j \in Unwritten : i <= j
          /\ files' = [files EXCEPT ![i] = IF files[i] = "partial" THEN "complete" ELSE "partial"]
    BY <1>1 DEF WriteFile
  <2>2. i \in 1 .. 4 /\ files[i] # "complete"
    BY DEF Unwritten, FilesInOrder
  <2>3. \A j \in 1 .. 4 : j < i => files[j] = "complete"
    BY <2>1, <2>2 DEF Unwritten, FilesInOrder
  <2>4. stage' = stage /\ stage = "writing"
    BY <1>1 DEF WriteFile, Writing
  <2>5. files' \in [1 .. 4 -> Contents]
    BY <2>1, <2>2 DEF FilesInOrder, Contents
  <2>6. CASE i = 1
    BY <2>1, <2>2, <2>4, <2>5, <2>6 DEF FilesInOrder, LatestFollowsReport
  <2>7. CASE i = 2
    BY <2>1, <2>2, <2>3, <2>4, <2>5, <2>7 DEF FilesInOrder, LatestFollowsReport
  <2>8. CASE i = 3
    BY <2>1, <2>2, <2>3, <2>4, <2>5, <2>8 DEF FilesInOrder, LatestFollowsReport
  <2>9. CASE i = 4
    BY <2>1, <2>2, <2>3, <2>4, <2>5, <2>9 DEF FilesInOrder, LatestFollowsReport
  <2>. QED BY <2>2, <2>6, <2>7, <2>8, <2>9
<1>2. CASE ScoreCell \/ FailCell \/ RecordUnbuilt
  <2>1. UNCHANGED files /\ stage # "writing"
    BY <1>2 DEF ScoreCell, FailCell, RecordUnbuilt, RecordCell
  <2>. QED BY <2>1 DEF FilesInOrder, LatestFollowsReport
<1>3. CASE LoadToolkit \/ BuildAgent \/ FailBuild \/ RunToolProbe \/ BuildReport
  <2>1. UNCHANGED files /\ (stage = "writing" => stage' = "writing")
    BY <1>3 DEF LoadToolkit, Runnable, Configuring, BuildAgent, FailBuild, EnterCandidate,
                RunToolProbe, BuildReport, Probing, Exit
  <2>. QED BY <2>1 DEF FilesInOrder, LatestFollowsReport
<1>4. CASE \/ RejectConfiguration \/ PrintDryRun \/ RejectMissingKeys \/ FailToolkit
           \/ FailWrite \/ Finish \/ Interrupt
  <2>1. UNCHANGED <<files, stage>>
    BY <1>4, ExitSteps DEF Exit
  <2>. QED BY <2>1 DEF FilesInOrder, LatestFollowsReport
<1>5. CASE UNCHANGED runnerVars
  BY <1>5 DEF runnerVars, FilesInOrder, LatestFollowsReport
<1>. QED BY <1>1, <1>2, <1>3, <1>4, <1>5 DEF Next, Proceed

\* However the runner ends, latest.json was only touched once the report it
\* repeats was whole under its own name (write_report, reporting.py).
THEOREM LatestIsBacked == Spec => []LatestFollowsReport
<1>1. Init => FilesInOrder
  BY DEF Init, FilesInOrder, Contents, LatestFollowsReport
<1>2. FilesInOrder => LatestFollowsReport
  BY DEF FilesInOrder
<1>. QED BY <1>1, <1>2, FilesStep, PTL DEF Spec

-----------------------------------------------------------------------------
(* The runner implements ReleaseGate.                                      *)

\* Cells and probes are different checks.
LEMMA MatrixFacts ==
  ASSUME invocation \in Invocations
  PROVE  /\ Matrix \in SUBSET AllChecks
         /\ \A i \in Nat : ProbeCheck(i) \notin Cells
         /\ \A i, j \in Nat : ProbeCheck(i) = ProbeCheck(j) => i = j
<1>1. Cells \subseteq AllChecks
  BY InvocationFacts DEF Cells, AllChecks
<1>2. \A i \in Nat : ProbeCheck(i) \in AllChecks
  BY DEF ProbeCheck, AllChecks
<1>3. Matrix \in SUBSET AllChecks
  BY <1>1, <1>2, InvocationFacts DEF Matrix
<1>4. \A i \in Nat : ProbeCheck(i) \notin Cells
  <2>1. \A cell \in Cells : cell.candidate # 0
    BY CellsFacts, InvocationFacts
  <2>2. \A i \in Nat : ProbeCheck(i).candidate = 0
    BY DEF ProbeCheck
  <2>. QED BY <2>1, <2>2
<1>5. \A i, j \in Nat : ProbeCheck(i) = ProbeCheck(j) => i = j
  <2>1. \A i \in Nat : ProbeCheck(i).repetition = i
    BY DEF ProbeCheck
  <2>. QED BY <2>1
<1>. QED BY <1>3, <1>4, <1>5

\* The runner starts as the gate does.
LEMMA GateInit == Init => Gate!Init
<1>. SUFFICES ASSUME Init PROVE Gate!Init
  OBVIOUS
<1>1. records = <<>> /\ probe_records = <<>> /\ status = None /\ invocation \in Invocations
  BY DEF Init
<1>2. Judged = {} /\ Failed = {}
  BY <1>1 DEF Judged, Failed
<1>3. Matrix \in SUBSET AllChecks
  BY <1>1, MatrixFacts
<1>. QED BY <1>1, <1>2, <1>3 DEF Gate!Init

\* Recording a cell judges it.
LEMMA GateRecord ==
  ASSUME Progress, ScoreCell \/ FailCell \/ RecordUnbuilt
  PROVE  Gate!Next
<1>1. PICK classification \in Classifications, measure \in [latency : Nat, cost : Nat \cup {None}] :
        RecordCell(classification, measure)
  BY RecordingStep
<1>2. stage \in {"built", "unbuilt"} /\ status = None
  BY RecordingStep
<1>3. cursor \in Cells \ Recorded
  BY <1>1, <1>2, RecordCellFacts
<1>4. /\ invocation \in Invocations /\ ~invocation.dry_run /\ probe_records = <<>>
      /\ records \in Seq([cell : Cells, classification : Classifications,
                           latency : Nat, cost : Nat \cup {None}])
  BY <1>2 DEF Progress, RecordsTyped
<1>5. /\ UNCHANGED <<invocation, probe_records, status>>
      /\ records' = Append(records, [cell |-> cursor, classification |-> classification,
                                     latency |-> measure.latency, cost |-> measure.cost])
  BY <1>1 DEF RecordCell
<1>6. Matrix' = Matrix
  BY <1>5 DEF Matrix, Cells, Selected, ProbesWanted
<1>7. cursor \in Matrix
  BY <1>3, <1>4 DEF Matrix
<1>8. /\ DOMAIN records' = DOMAIN records \cup {Len(records) + 1}
      /\ Len(records) + 1 \notin DOMAIN records
      /\ records'[Len(records) + 1].cell = cursor
      /\ records'[Len(records) + 1].classification = classification
      /\ \A i \in DOMAIN records : records'[i] = records[i]
  BY <1>4, <1>5
<1>9. Judged = Recorded /\ Judged' = Recorded \cup {cursor}
  BY <1>4, <1>5, <1>8 DEF Judged, Recorded
<1>10. Failed' \in {Failed, Failed \cup {cursor}}
  <2>1. CASE classification = "CRITICAL_FAILURE"
    <3>1. Failed' = Failed \cup {cursor}
      BY <1>4, <1>5, <1>8, <2>1 DEF Failed
    <3>. QED BY <3>1
  <2>2. CASE classification # "CRITICAL_FAILURE"
    <3>1. Failed' = Failed
      BY <1>4, <1>5, <1>8, <2>2 DEF Failed
    <3>. QED BY <3>1
  <2>. QED BY <2>1, <2>2
<1>11. Gate!Judge(cursor)
  BY <1>2, <1>3, <1>5, <1>6, <1>7, <1>9, <1>10 DEF Gate!Judge
<1>. QED BY <1>7, <1>11 DEF Gate!Next

\* So does a probe.
LEMMA GateProbe ==
  ASSUME Progress, RunToolProbe
  PROVE  Gate!Next
<1>. DEFINE n == Len(probe_records) + 1
            check == ProbeCheck(n)
<1>1. PICK c \in {"CLEAN_PASS", "CRITICAL_FAILURE"} : probe_records' = Append(probe_records, c)
  BY DEF RunToolProbe
<1>2. /\ stage = "probes" /\ status = None /\ Len(probe_records) < ProbesWanted
      /\ UNCHANGED <<invocation, records, status>>
  BY DEF RunToolProbe, Probing
<1>3. /\ invocation \in Invocations /\ ~invocation.dry_run /\ Recorded = Cells
      /\ probe_records \in Seq({"CLEAN_PASS", "CRITICAL_FAILURE"})
  BY <1>2 DEF Progress
<1>4. n \in 1 .. ProbesWanted /\ n \in Nat /\ ProbesWanted \in Nat
  BY <1>2, <1>3, InvocationFacts
<1>5. Matrix' = Matrix /\ check \in Matrix
  BY <1>2, <1>3, <1>4 DEF Matrix, Cells, Selected, ProbesWanted
<1>6. /\ DOMAIN probe_records' = DOMAIN probe_records \cup {n}
      /\ DOMAIN probe_records \subseteq Nat /\ n \notin DOMAIN probe_records
      /\ probe_records'[n] = c
      /\ \A i \in DOMAIN probe_records : probe_records'[i] = probe_records[i]
  BY <1>1, <1>3
<1>. HIDE DEF n
<1>7. Judged' = Judged \cup {check}
  BY <1>2, <1>6 DEF Judged
<1>8. check \notin Judged
  <2>1. check \notin {ProbeCheck(i) : i \in DOMAIN probe_records}
    BY <1>3, <1>4, <1>6, MatrixFacts
  <2>2. check \notin Cells
    BY <1>3, <1>4, MatrixFacts
  <2>. QED BY <1>3, <2>1, <2>2 DEF Judged, Recorded
<1>9. Failed' \in {Failed, Failed \cup {check}}
  <2>1. CASE c = "CRITICAL_FAILURE"
    <3>1. Failed' = Failed \cup {check}
      BY <1>2, <1>6, <2>1 DEF Failed
    <3>. QED BY <3>1
  <2>2. CASE c # "CRITICAL_FAILURE"
    <3>1. Failed' = Failed
      BY <1>2, <1>6, <2>2 DEF Failed
    <3>. QED BY <3>1
  <2>. QED BY <2>1, <2>2
<1>10. Gate!Judge(check)
  BY <1>2, <1>5, <1>7, <1>8, <1>9 DEF Gate!Judge
<1>. QED BY <1>5, <1>10 DEF Gate!Next

\* What Exit keeps.
LEMMA ExitKeeps ==
  ASSUME NEW code, Exit(code)
  PROVE  status' = code /\ Matrix' = Matrix /\ Judged' = Judged /\ Failed' = Failed
  BY DEF Exit, Matrix, Cells, Selected, ProbesWanted, Judged, Failed

\* An exit with 0 concludes a matrix that was judged and passed; any other
\* exit gives it up.
LEMMA GateExit ==
  ASSUME Progress,
         \/ RejectConfiguration \/ PrintDryRun \/ RejectMissingKeys \/ FailToolkit
         \/ FailWrite \/ Finish \/ Interrupt
  PROVE  Gate!Next
<1>1. CASE \/ RejectConfiguration \/ RejectMissingKeys \/ FailToolkit \/ FailWrite \/ Interrupt
  <2>1. status = None /\ \E code \in {1, 2, 130} : Exit(code)
    BY <1>1 DEF RejectConfiguration, RejectMissingKeys, FailToolkit, FailWrite, Interrupt,
                Runnable, Configuring, Writing
  <2>. QED BY <2>1, ExitKeeps DEF Gate!Next, Gate!Abandon
<1>2. CASE PrintDryRun
  <2>1. status = None /\ Exit(0) /\ invocation.dry_run /\ stage = "configuration"
    BY <1>2 DEF PrintDryRun, Configuring
  <2>2. records = <<>> /\ probe_records = <<>>
    BY <2>1 DEF Progress
  <2>3. Judged = {} /\ Failed = {} /\ Matrix = {}
    BY <2>1, <2>2 DEF Judged, Failed, Matrix
  <2>. QED BY <2>1, <2>3, ExitKeeps DEF Gate!Next, Gate!Conclude
<1>3. CASE Finish
  <2>1. status = None /\ stage = "writing" /\ Exit(IF HasCritical THEN 1 ELSE 0)
    BY <1>3 DEF Finish, Writing
  <2>2. /\ Recorded = Cells /\ Len(probe_records) = ProbesWanted /\ ~invocation.dry_run
        /\ probe_records \in Seq({"CLEAN_PASS", "CRITICAL_FAILURE"})
    BY <2>1 DEF Progress
  <2>3. DOMAIN probe_records = 1 .. ProbesWanted
    BY <2>2
  <2>4. Judged = Matrix
    BY <2>2, <2>3 DEF Judged, Matrix, Recorded
  <2>5. HasCritical <=> Failed # {}
    BY DEF HasCritical, Failed
  <2>. QED BY <2>1, <2>4, <2>5, ExitKeeps DEF Gate!Next, Gate!Conclude
<1>. QED BY <1>1, <1>2, <1>3

\* Every step of the runner is one of the gate, or none.
LEMMA GateStep ==
  Progress /\ [Next]_runnerVars => [Gate!Next]_<<Matrix, Judged, Failed, status>>
<1>. SUFFICES ASSUME Progress, [Next]_runnerVars
              PROVE  Gate!Next \/ UNCHANGED <<Matrix, Judged, Failed, status>>
  OBVIOUS
<1>1. CASE ScoreCell \/ FailCell \/ RecordUnbuilt
  BY <1>1, GateRecord
<1>2. CASE RunToolProbe
  BY <1>2, GateProbe
<1>3. CASE \/ RejectConfiguration \/ PrintDryRun \/ RejectMissingKeys \/ FailToolkit
           \/ FailWrite \/ Finish \/ Interrupt
  BY <1>3, GateExit
<1>4. CASE BuildReport
  <2>1. CASE records = <<>>
    <3>1. status = None /\ Exit(2)
      BY <1>4, <2>1 DEF BuildReport, Probing
    <3>. QED BY <3>1, ExitKeeps DEF Gate!Next, Gate!Abandon
  <2>2. CASE records # <<>>
    <3>1. UNCHANGED <<invocation, records, probe_records, status>>
      BY <1>4, <2>2 DEF BuildReport
    <3>. QED BY <3>1 DEF Matrix, Cells, Selected, ProbesWanted, Judged, Failed
  <2>. QED BY <2>1, <2>2
<1>5. CASE LoadToolkit \/ BuildAgent \/ FailBuild \/ WriteFile \/ UNCHANGED runnerVars
  <2>1. UNCHANGED <<invocation, records, probe_records, status>>
    BY <1>5 DEF LoadToolkit, BuildAgent, FailBuild, EnterCandidate, WriteFile, runnerVars
  <2>. QED BY <2>1 DEF Matrix, Cells, Selected, ProbesWanted, Judged, Failed
<1>. QED BY <1>1, <1>2, <1>3, <1>4, <1>5 DEF Next, Proceed

\* Exit status 0 is only given to a matrix of which every run and every probe
\* was judged, and none was a critical failure (main, run_evals.py).
THEOREM RunnerImplementsReleaseGate == Spec => ImplementsReleaseGate
  BY RunnerProgress, GateInit, GateStep, PTL
  DEF Spec, ImplementsReleaseGate, Gate!Spec

-----------------------------------------------------------------------------
(* Sums.                                                                   *)

\* A recursive sum of natural numbers is defined, and is one.
LEMMA TotalType ==
  ASSUME NEW n \in Nat, NEW a \in [1 .. n -> Nat]
  PROVE  Total(a) \in Nat
<1>. DEFINE Sums(k, g) == g[0] = 0 /\ \A i \in 1 .. k : g[i] = g[i - 1] + a[i]
            Summable(k) == \E g \in [0 .. k -> Nat] : Sums(k, g)
            Bad == {k \in 0 .. n : ~Summable(k)}
<1>1. Bad = {}
  <2>1. SUFFICES ASSUME Bad # {} PROVE FALSE
    OBVIOUS
  <2>2. PICK m \in Bad : \A k \in Bad : m <= k
    <3>1. Bad \in SUBSET Nat
      OBVIOUS
    <3>. HIDE DEF Bad
    <3>. QED BY <2>1, <3>1, MinIsLeast
  <2>3. m # 0
    <3>1. Summable(0)
      <4>1. [i \in 0 .. 0 |-> 0] \in [0 .. 0 -> Nat] /\ Sums(0, [i \in 0 .. 0 |-> 0])
        OBVIOUS
      <4>. QED BY <4>1
    <3>. HIDE DEF Summable
    <3>. QED BY <3>1
  <2>4. m - 1 \in 0 .. n /\ Summable(m - 1)
    <3>. HIDE DEF Summable
    <3>1. m \in 0 .. n
      OBVIOUS
    <3>2. m - 1 \in 0 .. n
      BY <2>3, <3>1
    <3>3. m - 1 \notin Bad
      BY <2>2, <3>1, <3>2
    <3>. QED BY <3>2, <3>3
  <2>5. PICK g \in [0 .. m - 1 -> Nat] : Sums(m - 1, g)
    BY <2>4
  <2>. DEFINE h == [i \in 0 .. m |-> IF i = m THEN g[m - 1] + a[m] ELSE g[i]]
  <2>6. h \in [0 .. m -> Nat]
    <3>1. m \in 1 .. n /\ m - 1 \in 0 .. m - 1
      BY <2>3
    <3>2. g[m - 1] + a[m] \in Nat
      BY <3>1
    <3>3. \A i \in 0 .. m : i # m => g[i] \in Nat
      BY <3>1
    <3>. QED BY <3>2, <3>3
  <2>7. Sums(m, h)
    <3>1. h[0] = 0
      BY <2>3, <2>5
    <3>2. ASSUME NEW i \in 1 .. m PROVE h[i] = h[i - 1] + a[i]
      <4>1. CASE i = m
        BY <2>3, <4>1
      <4>2. CASE i # m
        BY <2>3, <2>5, <4>2
      <4>. QED BY <4>1, <4>2
    <3>. QED BY <3>1, <3>2
  <2>8. Summable(m)
    <3>. HIDE DEF h, Sums
    <3>. QED BY <2>6, <2>7
  <2>. HIDE DEF Summable
  <2>. QED BY <2>2, <2>8
<1>2. PICK g \in [0 .. n -> Nat] : Sums(n, g)
  <2>. HIDE DEF Summable
  <2>1. Summable(n)
    BY <1>1
  <2>. QED BY <2>1 DEF Summable
<1>3. Len(a) = n
  OBVIOUS
<1>. DEFINE F == CHOOSE f : f = [i \in 0 .. Len(a) |-> IF i = 0 THEN 0 ELSE f[i - 1] + a[i]]
<1>4. g = [i \in 0 .. n |-> IF i = 0 THEN 0 ELSE g[i - 1] + a[i]]
  BY <1>2
<1>5. F = [i \in 0 .. n |-> IF i = 0 THEN 0 ELSE F[i - 1] + a[i]]
  BY <1>3, <1>4
<1>6. Total(a) = F[n]
  BY <1>3 DEF Total
<1>. HIDE DEF F
<1>. DEFINE Wrong == {k \in 0 .. n : F[k] \notin Nat}
<1>7. Wrong = {}
  <2>1. SUFFICES ASSUME Wrong # {} PROVE FALSE
    OBVIOUS
  <2>2. PICK m \in Wrong : \A k \in Wrong : m <= k
    <3>1. Wrong \in SUBSET Nat
      OBVIOUS
    <3>. HIDE DEF Wrong
    <3>. QED BY <2>1, <3>1, MinIsLeast
  <2>3. m # 0
    BY <1>5
  <2>4. m - 1 \in 0 .. n /\ m - 1 \notin Wrong /\ m \in 1 .. n
    BY <2>2, <2>3
  <2>5. F[m] = F[m - 1] + a[m]
    BY <1>5, <2>4
  <2>. QED BY <2>4, <2>5
<1>. QED BY <1>6, <1>7

-----------------------------------------------------------------------------
(* The sort key.                                                           *)

\* The summary of a candidate that was recorded at all.
Rankable == {s \in Summaries : s.total_runs > 0}

\* A product grows with its factors.
LEMMA ProductGrows ==
  ASSUME NEW m \in Nat, NEW k \in Nat, NEW f \in Nat, f > 0, m > k
  PROVE  m * f > k * f
<1>1. PICK d \in Nat : m = k + d /\ d > 0
  <2>1. m - k \in Nat /\ m = k + (m - k) /\ m - k > 0
    OBVIOUS
  <2>. QED BY <2>1
<1>2. m * f = k * f + d * f
  BY <1>1
<1>3. d * f > 0
  BY <1>1
<1>. QED BY <1>2, <1>3

\* Fractions are compared by their cross products.
LEMMA FractionsTransitive ==
  ASSUME NEW x \in Nat, NEW y \in Nat, NEW z \in Nat,
         NEW p \in Nat, NEW q \in Nat, NEW r \in Nat, q > 0,
         x * q <= y * p, y * r <= z * q
  PROVE  x * r <= z * p
<1>1. \A m, k, f \in Nat : m <= k => m * f <= k * f
  OBVIOUS
<1>2. \A m, k \in Nat : m * q <= k * q => m <= k
  <2>1. \A m, k \in Nat : m > k => m * q > k * q
    BY ProductGrows
  <2>2. \A m \in Nat : m * q \in Nat
    OBVIOUS
  <2>. QED BY <2>1, <2>2
<1>3. /\ x * q \in Nat /\ y * p \in Nat /\ y * r \in Nat /\ z * q \in Nat
      /\ x * r \in Nat /\ z * p \in Nat
  OBVIOUS
<1>4. (x * q) * r <= (y * p) * r
  BY <1>1, <1>3
<1>5. (y * r) * p <= (z * q) * p
  BY <1>1, <1>3
<1>6. /\ (y * p) * r = (y * r) * p
      /\ (x * q) * r = (x * r) * q
      /\ (z * q) * p = (z * p) * q
  OBVIOUS
<1>7. (x * r) * q <= (z * p) * q
  <2>1. /\ (x * q) * r \in Int /\ (y * p) * r \in Int /\ (z * q) * p \in Int
    OBVIOUS
  <2>. QED BY <1>4, <1>5, <1>6, <2>1
<1>. QED BY <1>2, <1>3, <1>7

\* Each criterion of the sort key is a strict weak order.
LEMMA CriteriaFacts ==
  /\ \A a, b \in Rankable : ~(Cleaner(a, b) /\ Cleaner(b, a))
  /\ \A a, b, c \in Rankable : Cleaner(a, c) => Cleaner(a, b) \/ Cleaner(b, c)
  /\ \A a, b \in Rankable : ~(Faster(a, b) /\ Faster(b, a))
  /\ \A a, b, c \in Rankable : Faster(a, c) => Faster(a, b) \/ Faster(b, c)
  /\ \A a, b \in Rankable : ~(Cheaper(a, b) /\ Cheaper(b, a))
  /\ \A a, b, c \in Rankable : Cheaper(a, c) => Cheaper(a, b) \/ Cheaper(b, c)
<1>1. \A s \in Rankable :
        /\ s.total_runs \in Nat /\ s.total_runs > 0 /\ s.clean_passes \in Nat
        /\ s.model_latency \in Nat /\ s.total_cost \in Nat \cup {None}
  BY DEF Rankable, Summaries
<1>2. \A m, k \in Nat : m * k \in Nat
  OBVIOUS
<1>3. ASSUME NEW a \in Rankable, NEW b \in Rankable
      PROVE  ~(Cleaner(a, b) /\ Cleaner(b, a)) /\ ~(Faster(a, b) /\ Faster(b, a))
  <2>1. /\ a.clean_passes * b.total_runs \in Nat /\ b.clean_passes * a.total_runs \in Nat
        /\ a.model_latency * b.total_runs \in Nat /\ b.model_latency * a.total_runs \in Nat
    BY <1>1, <1>2
  <2>. QED BY <2>1 DEF Cleaner, Faster
<1>4. ASSUME NEW a \in Rankable, NEW b \in Rankable, NEW c \in Rankable,
             ~Cleaner(a, b), ~Cleaner(b, c)
      PROVE  ~Cleaner(a, c)
  <2>1. /\ a.clean_passes * b.total_runs <= b.clean_passes * a.total_runs
        /\ b.clean_passes * c.total_runs <= c.clean_passes * b.total_runs
    <3>1. /\ a.clean_passes * b.total_runs \in Nat /\ b.clean_passes * a.total_runs \in Nat
          /\ b.clean_passes * c.total_runs \in Nat /\ c.clean_passes * b.total_runs \in Nat
      BY <1>1, <1>2
    <3>. QED BY <1>4, <3>1 DEF Cleaner
  <2>2. a.clean_passes * c.total_runs <= c.clean_passes * a.total_runs
    BY <1>1, <2>1, FractionsTransitive
  <2>3. a.clean_passes * c.total_runs \in Nat /\ c.clean_passes * a.total_runs \in Nat
    BY <1>1, <1>2
  <2>. QED BY <2>2, <2>3 DEF Cleaner
<1>5. ASSUME NEW a \in Rankable, NEW b \in Rankable, NEW c \in Rankable,
             ~Faster(a, b), ~Faster(b, c)
      PROVE  ~Faster(a, c)
  <2>1. /\ c.model_latency * b.total_runs <= b.model_latency * c.total_runs
        /\ b.model_latency * a.total_runs <= a.model_latency * b.total_runs
    <3>1. /\ a.model_latency * b.total_runs \in Nat /\ b.model_latency * a.total_runs \in Nat
          /\ b.model_latency * c.total_runs \in Nat /\ c.model_latency * b.total_runs \in Nat
      BY <1>1, <1>2
    <3>. QED BY <1>5, <3>1 DEF Faster
  <2>2. c.model_latency * a.total_runs <= a.model_latency * c.total_runs
    BY <1>1, <2>1, FractionsTransitive
  <2>3. a.model_latency * c.total_runs \in Nat /\ c.model_latency * a.total_runs \in Nat
    BY <1>1, <1>2
  <2>. QED BY <2>2, <2>3 DEF Faster
<1>6. \A a, b \in Rankable : ~(Cheaper(a, b) /\ Cheaper(b, a))
  BY <1>1, EvalRunnerAssumption DEF Cheaper
<1>7. \A a, b, c \in Rankable : Cheaper(a, c) => Cheaper(a, b) \/ Cheaper(b, c)
  BY <1>1, EvalRunnerAssumption DEF Cheaper
<1>. QED BY <1>3, <1>4, <1>5, <1>6, <1>7

\* The sort key, with the ids the sort starts from, is a strict order of
\* summaries, and a total one of candidates.
LEMMA RanksFacts ==
  /\ \A a, b \in Rankable : ~(RanksBefore(a, b) /\ RanksBefore(b, a))
  /\ \A a, b, c \in Rankable :
       RanksBefore(a, b) /\ RanksBefore(b, c) => RanksBefore(a, c)
  /\ \A a, b \in Rankable :
       a.candidate_id # b.candidate_id => RanksBefore(a, b) \/ RanksBefore(b, a)
<1>1. \A s \in Rankable : s.candidate_id \in Nat /\ s.release_gate_passed \in BOOLEAN
  BY DEF Rankable, Summaries
<1>. DEFINE Rest(a, b) == Faster(a, b) \/ (~Faster(b, a) /\ CheaperOrFirst(a, b))
<1>2. /\ \A a, b \in Rankable : ~(CheaperOrFirst(a, b) /\ CheaperOrFirst(b, a))
      /\ \A a, b, c \in Rankable :
           CheaperOrFirst(a, b) /\ CheaperOrFirst(b, c) => CheaperOrFirst(a, c)
      /\ \A a, b \in Rankable :
           a.candidate_id # b.candidate_id => CheaperOrFirst(a, b) \/ CheaperOrFirst(b, a)
  BY <1>1, CriteriaFacts DEF CheaperOrFirst
<1>3. /\ \A a, b \in Rankable : ~(Rest(a, b) /\ Rest(b, a))
      /\ \A a, b, c \in Rankable : Rest(a, b) /\ Rest(b, c) => Rest(a, c)
      /\ \A a, b \in Rankable : a.candidate_id # b.candidate_id => Rest(a, b) \/ Rest(b, a)
  BY <1>2, CriteriaFacts
<1>4. \A a, b : RanksBefore(a, b) <=>
        \/ a.release_gate_passed /\ ~b.release_gate_passed
        \/ /\ a.release_gate_passed = b.release_gate_passed
           /\ Cleaner(a, b) \/ (~Cleaner(b, a) /\ Rest(a, b))
  BY DEF RanksBefore
<1>. HIDE DEF Rest
<1>5. \A a, b \in Rankable : ~(RanksBefore(a, b) /\ RanksBefore(b, a))
  BY <1>1, <1>3, <1>4, CriteriaFacts
<1>6. \A a, b, c \in Rankable :
        RanksBefore(a, b) /\ RanksBefore(b, c) => RanksBefore(a, c)
  BY <1>1, <1>3, <1>4, CriteriaFacts
<1>7. \A a, b \in Rankable :
        a.candidate_id # b.candidate_id => RanksBefore(a, b) \/ RanksBefore(b, a)
  BY <1>1, <1>3, <1>4, CriteriaFacts
<1>. QED BY <1>5, <1>6, <1>7

-----------------------------------------------------------------------------
(* The ranking.                                                            *)

\* Summaries of different candidates can be put in the order of the sort key:
\* a summary's place is one more than the number of those before it.
LEMMA RankingExists ==
  ASSUME NEW S \in SUBSET Rankable, IsFiniteSet(S),
         \A a, b \in S : a.candidate_id = b.candidate_id => a = b
  PROVE  /\ Cardinality(S) \in Nat
         /\ Ranked(S) \in [1 .. Cardinality(S) -> S]
         /\ \A i, j \in 1 .. Cardinality(S) :
              i < j => RanksBefore(Ranked(S)[i], Ranked(S)[j])
<1>. DEFINE n == Cardinality(S)
            Before(x) == {y \in S : RanksBefore(y, x)}
            place == [x \in S |-> Cardinality(Before(x)) + 1]
<1>1. n \in Nat
  BY FS_CardinalityType
<1>2. /\ \A a, b \in S : ~(RanksBefore(a, b) /\ RanksBefore(b, a))
      /\ \A a, b, c \in S : RanksBefore(a, b) /\ RanksBefore(b, c) => RanksBefore(a, c)
      /\ \A a, b \in S : a # b => RanksBefore(a, b) \/ RanksBefore(b, a)
  BY RanksFacts
<1>3. \A x \in S : IsFiniteSet(Before(x)) /\ Cardinality(Before(x)) \in Nat
  BY FS_Subset, FS_CardinalityType
<1>4. ASSUME NEW x \in S PROVE place[x] \in 1 .. n
  <2>1. Before(x) \subseteq S \ {x}
    BY <1>2
  <2>2. IsFiniteSet(S \ {x}) /\ Cardinality(S \ {x}) = n - 1
    BY FS_RemoveElement
  <2>3. Cardinality(Before(x)) <= n - 1
    <3>. HIDE DEF n, Before
    <3>. QED BY <2>1, <2>2, FS_Subset
  <2>. HIDE DEF n, Before
  <2>. QED BY <1>1, <1>3, <2>3
<1>5. ASSUME NEW x \in S, NEW y \in S, RanksBefore(x, y)
      PROVE  place[x] < place[y]
  <2>1. Before(x) \subseteq Before(y)
    BY <1>2, <1>5
  <2>2. Before(x) # Before(y)
    <3>1. x \in Before(y) /\ x \notin Before(x)
      BY <1>2, <1>5
    <3>. QED BY <3>1
  <2>3. Cardinality(Before(x)) < Cardinality(Before(y))
    <3>. HIDE DEF Before
    <3>. QED BY <1>3, <2>1, <2>2, FS_Subset
  <2>. HIDE DEF Before
  <2>. QED BY <1>3, <2>3
<1>. HIDE DEF n, Before
<1>6. place \in [S -> 1 .. n]
  BY <1>4
<1>. HIDE DEF place
<1>7. \A x, y \in S : place[x] = place[y] => x = y
  BY <1>1, <1>2, <1>5, <1>6
<1>8. \A i \in 1 .. n : \E x \in S : place[x] = i
  <2>1. place \in Injection(S, 1 .. n)
    BY <1>6, <1>7, Fun_IsInj
  <2>2. IsFiniteSet(1 .. n) /\ Cardinality(1 .. n) = n
    BY <1>1, FS_Interval
  <2>3. place \in Surjection(S, 1 .. n)
    <3>1. Cardinality(S) = Cardinality(1 .. n)
      BY <2>2 DEF n
    <3>. QED BY <2>1, <2>2, <3>1, FS_Injection
  <2>. QED BY <2>3, Fun_SurjectionProperties
<1>. DEFINE r == [i \in 1 .. n |-> CHOOSE x \in S : place[x] = i]
<1>9. \A i \in 1 .. n : r[i] \in S /\ place[r[i]] = i
  BY <1>8
<1>10. r \in [1 .. n -> S]
  BY <1>9
<1>. HIDE DEF r
<1>11. \A i, j \in 1 .. n : i < j => RanksBefore(r[i], r[j])
  <2>1. SUFFICES ASSUME NEW i \in 1 .. n, NEW j \in 1 .. n, i < j
                 PROVE  RanksBefore(r[i], r[j])
    OBVIOUS
  <2>2. r[i] \in S /\ r[j] \in S /\ place[r[i]] = i /\ place[r[j]] = j
    BY <1>9
  <2>3. r[i] # r[j] /\ ~RanksBefore(r[j], r[i])
    BY <1>1, <1>5, <2>1, <2>2
  <2>. QED BY <1>2, <2>2, <2>3
<1>12. \E s \in [1 .. n -> S] : \A i, j \in 1 .. n : i < j => RanksBefore(s[i], s[j])
  BY <1>10, <1>11
<1>. QED BY <1>1, <1>12 DEF Ranked, n

\* The ranking leaves no summary out.
LEMMA RankingCovers ==
  ASSUME NEW S \in SUBSET Rankable, IsFiniteSet(S),
         \A a, b \in S : a.candidate_id = b.candidate_id => a = b
  PROVE  \A s \in S : \E i \in 1 .. Cardinality(S) : Ranked(S)[i] = s
<1>. DEFINE n == Cardinality(S)
            r == Ranked(S)
<1>1. /\ n \in Nat /\ r \in [1 .. n -> S]
      /\ \A i, j \in 1 .. n : i < j => RanksBefore(r[i], r[j])
  BY RankingExists
<1>. HIDE DEF r
<1>2. \A a \in S : ~RanksBefore(a, a)
  BY RanksFacts
<1>3. \A i, j \in 1 .. n : r[i] = r[j] => i = j
  <2>1. SUFFICES ASSUME NEW i \in 1 .. n, NEW j \in 1 .. n, r[i] = r[j], i # j
                 PROVE  FALSE
    OBVIOUS
  <2>2. i < j \/ j < i
    BY <1>1, <2>1
  <2>3. r[i] \in S
    BY <1>1
  <2>. QED BY <1>1, <1>2, <2>1, <2>2, <2>3
<1>4. r \in Injection(1 .. n, S)
  BY <1>1, <1>3, Fun_IsInj
<1>5. Cardinality(1 .. n) = Cardinality(S)
  BY <1>1, FS_Interval
<1>6. r \in Surjection(1 .. n, S)
  BY <1>4, <1>5, FS_Injection
<1>. HIDE DEF n
<1>7. \A s \in S : \E i \in 1 .. n : r[i] = s
  BY <1>6 DEF Surjection
<1>. QED BY <1>7 DEF n, r

-----------------------------------------------------------------------------
(* The summaries.                                                          *)

\* What is known of the records, in a form the lemmas below share.
LEMMA RecordsFacts ==
  ASSUME Progress
  PROVE  /\ Len(records) \in Nat /\ DOMAIN records = 1 .. Len(records)
         /\ \A i \in DOMAIN records :
              /\ records[i] \in Records /\ records[i].cell \in Cells
              /\ records[i].classification \in Classifications
              /\ records[i].latency \in Nat /\ records[i].cost \in Nat \cup {None}
              /\ IdOf(records[i]) \in Nat
<1>. DEFINE R == [cell : Cells, classification : Classifications,
                  latency : Nat, cost : Nat \cup {None}]
<1>1. records \in Seq(R)
  BY DEF Progress, RecordsTyped
<1>2. invocation \in Invocations
  BY DEF Progress
<1>. HIDE DEF R
<1>3. Len(records) \in Nat /\ DOMAIN records = 1 .. Len(records)
  BY <1>1
<1>4. \A i \in DOMAIN records : records[i] \in R
  BY <1>1
<1>5. \A i \in DOMAIN records :
        /\ records[i].cell \in Cells
        /\ records[i].classification \in Classifications
        /\ records[i].latency \in Nat /\ records[i].cost \in Nat \cup {None}
  BY <1>4 DEF R
<1>6. ASSUME NEW i \in DOMAIN records PROVE IdOf(records[i]) \in Nat
  <2>1. records[i].cell.candidate \in 1 .. Len(invocation.candidates)
    BY <1>2, <1>5, CellsFacts
  <2>2. invocation.candidates[records[i].cell.candidate] \in Candidates
    BY <1>2, <2>1, InvocationFacts
  <2>. QED BY <2>2 DEF IdOf, Candidates
<1>. QED BY <1>3, <1>4, <1>5, <1>6 DEF Records, R

\* The runs of a candidate are finitely many, and so are those of a class.
LEMMA RunsFacts ==
  ASSUME Progress, NEW id, NEW classification
  PROVE  /\ RunsOf(id) \subseteq DOMAIN records /\ IsFiniteSet(RunsOf(id))
         /\ Cardinality(RunsOf(id)) \in Nat
         /\ RunsOf(id) # {} => Cardinality(RunsOf(id)) > 0
         /\ RunsClassified(id, classification) \subseteq RunsOf(id)
         /\ Cardinality(RunsClassified(id, classification)) \in Nat
<1>1. IsFiniteSet(DOMAIN records)
  BY RecordsFacts, FS_Interval
<1>2. RunsOf(id) \subseteq DOMAIN records
  BY DEF RunsOf
<1>3. IsFiniteSet(RunsOf(id)) /\ Cardinality(RunsOf(id)) \in Nat
  BY <1>1, <1>2, FS_Subset, FS_CardinalityType
<1>4. RunsOf(id) # {} => Cardinality(RunsOf(id)) > 0
  BY <1>3, FS_EmptySet
<1>5. RunsClassified(id, classification) \subseteq RunsOf(id)
  BY DEF RunsClassified
<1>6. Cardinality(RunsClassified(id, classification)) \in Nat
  BY <1>3, <1>5, FS_Subset, FS_CardinalityType
<1>. QED BY <1>2, <1>3, <1>4, <1>5, <1>6

\* The summary of a recorded candidate has its type.
LEMMA SummaryTyped ==
  ASSUME Progress, NEW n \in DOMAIN records
  PROVE  /\ SummarizeCandidate(IdOf(records[n])) \in Rankable
         /\ SummarizeCandidate(IdOf(records[n])).candidate_id = IdOf(records[n])
<1>. DEFINE id == IdOf(records[n])
            latencies == [i \in DOMAIN records |->
                            IF i \in RunsOf(id) THEN records[i].latency ELSE 0]
            costs == [i \in DOMAIN records |->
                        IF i \in RunsOf(id) THEN records[i].cost ELSE 0]
<1>1. /\ Len(records) \in Nat /\ DOMAIN records = 1 .. Len(records)
      /\ \A i \in DOMAIN records :
           records[i].latency \in Nat /\ records[i].cost \in Nat \cup {None}
      /\ id \in Nat
  BY RecordsFacts
<1>2. n \in RunsOf(id)
  BY DEF RunsOf
<1>. HIDE DEF id
<1>3. TotalLatency(id) \in Nat
  <2>1. latencies \in [1 .. Len(records) -> Nat]
    BY <1>1
  <2>2. Total(latencies) \in Nat
    <3>. HIDE DEF latencies
    <3>. QED BY <1>1, <2>1, TotalType
  <2>. QED BY <2>2 DEF TotalLatency
<1>4. TotalCost(id) \in Nat \cup {None}
  <2>1. CASE \E i \in RunsOf(id) : records[i].cost = None
    BY <2>1 DEF TotalCost
  <2>2. CASE ~\E i \in RunsOf(id) : records[i].cost = None
    <3>1. costs \in [1 .. Len(records) -> Nat]
      BY <1>1, <2>2
    <3>2. Total(costs) \in Nat
      <4>. HIDE DEF costs
      <4>. QED BY <1>1, <3>1, TotalType
    <3>. QED BY <2>2, <3>2 DEF TotalCost
  <2>. QED BY <2>1, <2>2
<1>5. /\ Cardinality(RunsOf(id)) \in Nat /\ Cardinality(RunsOf(id)) > 0
      /\ Cardinality(RunsClassified(id, "CLEAN_PASS")) \in Nat
  BY <1>2, RunsFacts
<1>6. SummarizeCandidate(id) \in Summaries
  BY <1>1, <1>3, <1>4, <1>5 DEF SummarizeCandidate, Summaries
<1>7. /\ SummarizeCandidate(id).total_runs = Cardinality(RunsOf(id))
      /\ SummarizeCandidate(id).candidate_id = id
  BY DEF SummarizeCandidate
<1>. QED BY <1>5, <1>6, <1>7 DEF Rankable, id

\* One summary for each id: what the ranking needs.
LEMMA SummarizedFacts ==
  ASSUME Progress
  PROVE  /\ Summarized \in SUBSET Rankable /\ IsFiniteSet(Summarized)
         /\ \A a, b \in Summarized : a.candidate_id = b.candidate_id => a = b
<1>1. Summarized \in SUBSET Rankable
  BY SummaryTyped DEF Summarized
<1>2. IsFiniteSet(Summarized)
  <2>. DEFINE f == [i \in DOMAIN records |-> SummarizeCandidate(IdOf(records[i]))]
  <2>1. f \in Surjection(DOMAIN records, Summarized)
    <3>1. f \in [DOMAIN records -> Summarized]
      BY DEF Summarized
    <3>2. \A s \in Summarized : \E i \in DOMAIN records : f[i] = s
      BY DEF Summarized
    <3>. HIDE DEF f
    <3>. QED BY <3>1, <3>2, Fun_IsSurj
  <2>2. IsFiniteSet(DOMAIN records)
    BY RecordsFacts, FS_Interval
  <2>. HIDE DEF f
  <2>. QED BY <2>1, <2>2, FS_Surjection
<1>3. \A a, b \in Summarized : a.candidate_id = b.candidate_id => a = b
  <2>1. SUFFICES ASSUME NEW i \in DOMAIN records, NEW j \in DOMAIN records,
                        SummarizeCandidate(IdOf(records[i])).candidate_id =
                          SummarizeCandidate(IdOf(records[j])).candidate_id
                 PROVE  SummarizeCandidate(IdOf(records[i])) = SummarizeCandidate(IdOf(records[j]))
    BY DEF Summarized
  <2>2. IdOf(records[i]) = IdOf(records[j])
    BY <2>1, SummaryTyped
  <2>. QED BY <2>2
<1>. QED BY <1>1, <1>2, <1>3

\* The report is a sequence of the summaries, none left out, in the order of
\* the sort key.
LEMMA RankedSummaries ==
  ASSUME Progress
  PROVE  /\ Cardinality(Summarized) \in Nat
         /\ Ranked(Summarized) \in [1 .. Cardinality(Summarized) -> Summarized]
         /\ DOMAIN Ranked(Summarized) = 1 .. Cardinality(Summarized)
         /\ Len(Ranked(Summarized)) = Cardinality(Summarized)
         /\ Ranked(Summarized) \in Seq(Summaries)
         /\ \A i, j \in DOMAIN Ranked(Summarized) :
              i < j => RanksBefore(Ranked(Summarized)[i], Ranked(Summarized)[j])
         /\ \A s \in Summarized : \E i \in DOMAIN Ranked(Summarized) : Ranked(Summarized)[i] = s
<1>. DEFINE S == Summarized
            n == Cardinality(Summarized)
            r == Ranked(Summarized)
<1>1. S \in SUBSET Rankable /\ S \in SUBSET Summaries
  BY SummarizedFacts DEF Rankable
<1>2. /\ n \in Nat /\ r \in [1 .. n -> S]
      /\ \A i, j \in 1 .. n : i < j => RanksBefore(r[i], r[j])
  BY SummarizedFacts, RankingExists
<1>3. \A s \in S : \E i \in 1 .. n : r[i] = s
  BY SummarizedFacts, RankingCovers
<1>. HIDE DEF S, n, r
<1>4. DOMAIN r = 1 .. n /\ Len(r) = n /\ r \in Seq(Summaries)
  BY <1>1, <1>2
<1>. QED BY <1>2, <1>3, <1>4 DEF S, n, r

-----------------------------------------------------------------------------
(* The invariant.                                                          *)

\* The report is built once, from all the records, and kept; the runner
\* leaves with 0 only from a dry run or after the last file.
Reported ==
  /\ stage # "writing" => report = None
  /\ stage = "writing" => records # <<>> /\ report = Ranked(Summarized)
  /\ status \in {None, 0, 1, 2, 130}
  /\ status = 0 /\ ~invocation.dry_run =>
       stage = "writing" /\ Unwritten = {} /\ ~HasCritical

\* What the report is made from is settled when it is built.
LEMMA SummariesSettled ==
  UNCHANGED <<invocation, records>> => Ranked(Summarized)' = Ranked(Summarized)
<1>. SUFFICES ASSUME UNCHANGED <<invocation, records>>
              PROVE  Ranked(Summarized)' = Ranked(Summarized)
  OBVIOUS
<1>1. \A id : RunsOf(id)' = RunsOf(id)
  BY DEF RunsOf, IdOf
<1>2. \A id : SummarizeCandidate(id)' = SummarizeCandidate(id)
  <2>1. TAKE id
  <2>2. TotalLatency(id)' = TotalLatency(id)
    BY <1>1 DEF TotalLatency
  <2>3. TotalCost(id)' = TotalCost(id)
    BY <1>1 DEF TotalCost
  <2>4. \A c : RunsClassified(id, c)' = RunsClassified(id, c)
    BY <1>1 DEF RunsClassified
  <2>. QED BY <1>1, <2>2, <2>3, <2>4 DEF SummarizeCandidate
<1>3. Summarized' = Summarized
  BY <1>2 DEF Summarized, IdOf
<1>. QED BY <1>3 DEF Ranked, RanksBefore, Cleaner, Faster, CheaperOrFirst, Cheaper

\* Every step keeps the report and the status in agreement.
LEMMA ReportedStep == Progress /\ Reported /\ [Next]_runnerVars => Reported'
<1>. SUFFICES ASSUME Progress, Reported, [Next]_runnerVars PROVE Reported'
  OBVIOUS
<1>1. CASE ScoreCell \/ FailCell \/ RecordUnbuilt
  <2>1. /\ stage \in {"built", "unbuilt"} /\ status = None
        /\ UNCHANGED <<report, status>>
    BY <1>1 DEF ScoreCell, FailCell, RecordUnbuilt, RecordCell
  <2>2. stage' # "writing"
    BY <1>1, <2>1 DEF ScoreCell, FailCell, RecordUnbuilt, RecordCell, Advance
  <2>3. report = None /\ None # 0
    BY <2>1, EvalRunnerAssumption DEF Reported
  <2>. QED BY <2>1, <2>2, <2>3 DEF Reported
<1>2. CASE LoadToolkit \/ BuildAgent \/ FailBuild \/ RunToolProbe
  <2>1. /\ stage # "writing" /\ stage' # "writing" /\ status = None
        /\ UNCHANGED <<report, status>>
    BY <1>2 DEF LoadToolkit, Runnable, Configuring, BuildAgent, FailBuild, EnterCandidate,
                RunToolProbe, Probing
  <2>2. report = None /\ None # 0
    BY <2>1, EvalRunnerAssumption DEF Reported
  <2>. QED BY <2>1, <2>2 DEF Reported
<1>3. CASE RejectConfiguration \/ RejectMissingKeys \/ FailToolkit \/ FailWrite \/ Interrupt
  <2>1. PICK code \in {1, 2, 130} : Exit(code)
    BY <1>3 DEF RejectConfiguration, RejectMissingKeys, FailToolkit, FailWrite, Interrupt
  <2>2. status' = code /\ UNCHANGED <<invocation, stage, records, report>>
    BY <2>1 DEF Exit
  <2>. QED BY <2>2, SummariesSettled DEF Reported
<1>4. CASE PrintDryRun
  <2>1. /\ status' = 0 /\ invocation.dry_run
        /\ UNCHANGED <<invocation, stage, records, report>>
    BY <1>4 DEF PrintDryRun, Exit
  <2>. QED BY <2>1, SummariesSettled DEF Reported
<1>5. CASE BuildReport
  <2>1. stage = "probes" /\ status = None /\ report = None /\ None # 0
    BY <1>5, EvalRunnerAssumption DEF BuildReport, Probing, Reported
  <2>2. CASE records = <<>>
    <3>1. status' = 2 /\ UNCHANGED <<stage, report>>
      BY <1>5, <2>2 DEF BuildReport, Exit
    <3>. QED BY <2>1, <3>1 DEF Reported
  <2>3. CASE records # <<>>
    <3>1. /\ report' = Ranked(Summarized) /\ stage' = "writing"
          /\ UNCHANGED <<invocation, records, status>>
      BY <1>5, <2>3 DEF BuildReport
    <3>. QED BY <2>1, <2>3, <3>1, SummariesSettled DEF Reported
  <2>. QED BY <2>2, <2>3
<1>6. CASE WriteFile
  <2>1. /\ stage = "writing" /\ status = None /\ None # 0
        /\ UNCHANGED <<invocation, stage, records, report, status>>
    BY <1>6, EvalRunnerAssumption DEF WriteFile, Writing
  <2>. QED BY <2>1, SummariesSettled DEF Reported
<1>7. CASE Finish
  <2>1. /\ stage = "writing" /\ Unwritten = {}
        /\ status' = (IF HasCritical THEN 1 ELSE 0)
        /\ UNCHANGED <<invocation, stage, records, probe_records, report, files>>
    BY <1>7 DEF Finish, Writing, Exit
  <2>2. Unwritten' = Unwritten /\ HasCritical' = HasCritical
    BY <2>1 DEF Unwritten, HasCritical
  <2>. QED BY <2>1, <2>2, SummariesSettled DEF Reported
<1>8. CASE UNCHANGED runnerVars
  <2>1. UNCHANGED <<invocation, stage, records, probe_records, report, files, status>>
    BY <1>8 DEF runnerVars
  <2>2. Unwritten' = Unwritten /\ HasCritical' = HasCritical
    BY <2>1 DEF Unwritten, HasCritical
  <2>. QED BY <2>1, <2>2, SummariesSettled DEF Reported
<1>. QED BY <1>1, <1>2, <1>3, <1>4, <1>5, <1>6, <1>7, <1>8 DEF Next, Proceed

\* What the runner keeps about its matrix, its report and its files.
RInv == Progress /\ Reported /\ FilesInOrder

\* The report is the ranking of everything recorded (build_report,
\* reporting.py): the invariant behind the results below.
THEOREM ReportKept == Spec => []RInv
<1>1. Init => RInv
  <2>1. Init => Reported
    BY EvalRunnerAssumption DEF Init, Reported
  <2>2. Init => FilesInOrder
    BY DEF Init, FilesInOrder, Contents, LatestFollowsReport
  <2>. QED BY <2>1, <2>2, ProgressInit DEF RInv
<1>2. RInv /\ [Next]_runnerVars => RInv'
  BY ProgressStep, ReportedStep, FilesStep DEF RInv
<1>. QED BY <1>1, <1>2, PTL DEF Spec

\* Where there is a report, the matrix was run and the report ranks it.
LEMMA ReportFacts ==
  ASSUME RInv, report # None \/ stage = "writing"
  PROVE  /\ stage = "writing" /\ report = Ranked(Summarized)
         /\ report # None /\ DOMAIN report # {}
<1>1. stage = "writing" /\ records # <<>> /\ report = Ranked(Summarized)
  BY DEF RInv, Reported
<1>2. Ranked(Summarized) \in Seq(Summaries)
  BY RankedSummaries DEF RInv
<1>3. None \notin Seq(Summaries)
  BY EvalRunnerAssumption
<1>4. \E n \in DOMAIN records : TRUE
  BY <1>1, RecordsFacts DEF RInv, Progress, RecordsTyped
<1>5. DOMAIN Ranked(Summarized) # {}
  <2>1. PICK n \in DOMAIN records : TRUE
    BY <1>4
  <2>2. SummarizeCandidate(IdOf(records[n])) \in Summarized
    BY DEF Summarized
  <2>. QED BY <2>2, RankedSummaries DEF RInv
<1>. QED BY <1>1, <1>2, <1>3, <1>5

\* Everything the runner holds has its type (run_evals.py, reporting.py).
THEOREM RunnerTypes == Spec => []TypeOK
<1>1. RInv => TypeOK
  <2>. SUFFICES ASSUME RInv PROVE TypeOK
    OBVIOUS
  <2>1. Progress /\ Reported /\ FilesInOrder
    BY DEF RInv
  <2>2. \A i \in DOMAIN records : records[i] \in Records
    BY <2>1, RecordsFacts
  <2>3. \A i \in DOMAIN probe_records : probe_records[i] \in Classifications
    <3>1. probe_records \in Seq({"CLEAN_PASS", "CRITICAL_FAILURE"})
      BY <2>1 DEF Progress
    <3>. QED BY <3>1 DEF Classifications
  <2>4. report # None => \A i \in DOMAIN report : report[i] \in Summaries
    <3>1. SUFFICES ASSUME report # None PROVE \A i \in DOMAIN report : report[i] \in Summaries
      OBVIOUS
    <3>2. report \in Seq(Summaries)
      BY <2>1, <3>1, ReportFacts, RankedSummaries
    <3>. HIDE DEF Summaries
    <3>. QED BY <3>2
  <2>5. stage # "configuration" => cursor \in Cells
    BY <2>1 DEF Progress
  <2>. QED BY <2>1, <2>2, <2>3, <2>4, <2>5
       DEF TypeOK, Progress, Reported, FilesInOrder
<1>. QED BY <1>1, ReportKept, PTL

-----------------------------------------------------------------------------
(* Counting the matrix.                                                    *)

IdAt(c) == invocation.candidates[c].id

\* The loops are over, with nothing missing.
MatrixDone == Progress /\ stage = "writing"

\* After the loops a candidate's records are those of its own place in the
\* list, it has some, and its summary is one of those ranked.
LEMMA CandidateRuns ==
  ASSUME MatrixDone, NEW c \in DOMAIN invocation.candidates
  PROVE  /\ RunsOf(IdAt(c)) = {i \in DOMAIN records : records[i].cell.candidate = c}
         /\ \A s \in Selected, k \in 1 .. invocation.repetitions :
              \E i \in RunsOf(IdAt(c)) :
                records[i].cell = [candidate |-> c, scenario |-> s, repetition |-> k]
         /\ SummarizeCandidate(IdAt(c)) \in Summarized
<1>1. /\ Progress /\ Recorded = Cells /\ Configured /\ Selected # {}
      /\ invocation \in Invocations
  BY DEF MatrixDone, Progress
<1>2. \A i \in DOMAIN records : records[i].cell.candidate \in DOMAIN invocation.candidates
  BY <1>1, RecordsFacts, CellsFacts, InvocationFacts
<1>3. \A d \in DOMAIN invocation.candidates : IdAt(d) = IdAt(c) => d = c
  BY <1>1 DEF Configured, DuplicateIds, IdAt
<1>4. RunsOf(IdAt(c)) = {i \in DOMAIN records : records[i].cell.candidate = c}
  BY <1>2, <1>3 DEF RunsOf, IdOf, IdAt
<1>5. ASSUME NEW s \in Selected, NEW k \in 1 .. invocation.repetitions
      PROVE  \E i \in RunsOf(IdAt(c)) :
               records[i].cell = [candidate |-> c, scenario |-> s, repetition |-> k]
  <2>1. [candidate |-> c, scenario |-> s, repetition |-> k] \in Recorded
    BY <1>1 DEF Cells
  <2>2. PICK i \in DOMAIN records :
          records[i].cell = [candidate |-> c, scenario |-> s, repetition |-> k]
    BY <2>1 DEF Recorded
  <2>3. i \in RunsOf(IdAt(c))
    BY <1>4, <2>2
  <2>. QED BY <2>2, <2>3
<1>6. SummarizeCandidate(IdAt(c)) \in Summarized
  <2>1. PICK s \in Selected : TRUE
    BY <1>1
  <2>2. 1 \in 1 .. invocation.repetitions
    BY <1>1, InvocationFacts DEF Configured
  <2>3. PICK i \in RunsOf(IdAt(c)) : TRUE
    BY <1>5, <2>2
  <2>4. i \in DOMAIN records /\ IdOf(records[i]) = IdAt(c)
    BY DEF RunsOf
  <2>. QED BY <2>4 DEF Summarized
<1>. QED BY <1>4, <1>5, <1>6

\* A candidate has one record for each selected scenario and repetition.
LEMMA RunsCounted ==
  ASSUME MatrixDone, NEW c \in DOMAIN invocation.candidates
  PROVE  Cardinality(RunsOf(IdAt(c))) = Cardinality(Selected) * invocation.repetitions
<1>. DEFINE runs == RunsOf(IdAt(c))
            reps == 1 .. invocation.repetitions
            f == [i \in runs |-> <<records[i].cell.scenario, records[i].cell.repetition>>]
<1>1. Progress /\ Configured /\ invocation \in Invocations
  BY DEF MatrixDone, Progress
<1>2. \A i \in runs :
        /\ i \in DOMAIN records /\ records[i].cell.candidate = c
        /\ records[i].cell.scenario \in Selected /\ records[i].cell.repetition \in reps
        /\ records[i].cell = [candidate |-> records[i].cell.candidate,
                              scenario |-> records[i].cell.scenario,
                              repetition |-> records[i].cell.repetition]
  BY <1>1, CandidateRuns, RecordsFacts, CellsFacts
<1>3. f \in [runs -> Selected \X reps]
  BY <1>2
<1>4. \A i, j \in runs : f[i] = f[j] => i = j
  <2>1. SUFFICES ASSUME NEW i \in runs, NEW j \in runs, f[i] = f[j] PROVE i = j
    OBVIOUS
  <2>2. /\ records[i].cell.scenario = records[j].cell.scenario
        /\ records[i].cell.repetition = records[j].cell.repetition
    BY <2>1
  <2>3. records[i].cell = records[j].cell
    BY <1>2, <2>2
  <2>. QED BY <1>1, <1>2, <2>3 DEF Progress, Distinct
<1>5. \A t \in Selected \X reps : \E i \in runs : f[i] = t
  <2>1. TAKE t \in Selected \X reps
  <2>2. PICK s \in Selected, k \in reps : t = <<s, k>>
    OBVIOUS
  <2>3. PICK i \in runs :
          records[i].cell = [candidate |-> c, scenario |-> s, repetition |-> k]
    BY CandidateRuns
  <2>4. f[i] = <<s, k>>
    BY <2>3
  <2>. QED BY <2>2, <2>4
<1>6. IsFiniteSet(runs)
  BY <1>1, RunsFacts
<1>7. ExistsBijection(runs, Selected \X reps)
  <2>. HIDE DEF f, runs, reps
  <2>1. f \in Bijection(runs, Selected \X reps)
    BY <1>3, <1>4, <1>5, Fun_IsBij
  <2>. QED BY <2>1, Fun_ExistsBij
<1>8. Cardinality(Selected \X reps) = Cardinality(runs)
  <2>. HIDE DEF runs, reps
  <2>. QED BY <1>6, <1>7, FS_Bijection
<1>9. /\ IsFiniteSet(reps) /\ Cardinality(reps) = invocation.repetitions
  <2>1. invocation.repetitions \in Int /\ 1 <= invocation.repetitions
    BY <1>1, InvocationFacts DEF Configured
  <2>2. 1 - 1 + invocation.repetitions = invocation.repetitions
    BY <2>1
  <2>. QED BY <2>1, <2>2, FS_Interval
<1>10. IsFiniteSet(Selected)
  <2>1. Selected \subseteq 1 .. AgentScenarios /\ AgentScenarios \in Int
    BY EvalRunnerAssumption DEF Selected
  <2>2. IsFiniteSet(1 .. AgentScenarios)
    BY <2>1, FS_Interval
  <2>. QED BY <2>1, <2>2, FS_Subset
<1>11. Cardinality(Selected \X reps) = Cardinality(Selected) * Cardinality(reps)
  <2>. HIDE DEF reps
  <2>. QED BY <1>9, <1>10, FS_Product
<1>. QED BY <1>8, <1>9, <1>11

\* Every summary is that of a candidate of the list.
LEMMA SummaryOfCandidate ==
  ASSUME Progress, NEW s \in Summarized
  PROVE  \E c \in DOMAIN invocation.candidates : s = SummarizeCandidate(IdAt(c))
<1>1. PICK i \in DOMAIN records : s = SummarizeCandidate(IdOf(records[i]))
  BY DEF Summarized
<1>2. records[i].cell.candidate \in DOMAIN invocation.candidates
  BY RecordsFacts, CellsFacts, InvocationFacts DEF Progress
<1>. QED BY <1>1, <1>2 DEF IdOf, IdAt

\* There are as many summaries as candidates.
LEMMA SummariesCounted ==
  ASSUME MatrixDone
  PROVE  Cardinality(Summarized) = Len(invocation.candidates)
<1>. DEFINE n == Len(invocation.candidates)
            f == [c \in 1 .. n |-> SummarizeCandidate(IdAt(c))]
<1>1. Progress /\ Configured /\ invocation \in Invocations
  BY DEF MatrixDone, Progress
<1>2. n \in Nat /\ DOMAIN invocation.candidates = 1 .. n
  BY <1>1, InvocationFacts
<1>3. \A c \in 1 .. n : f[c] \in Summarized
  BY <1>2, CandidateRuns
<1>4. \A c, d \in 1 .. n : f[c] = f[d] => c = d
  <2>1. SUFFICES ASSUME NEW c \in 1 .. n, NEW d \in 1 .. n, f[c] = f[d] PROVE c = d
    OBVIOUS
  <2>2. f[c].candidate_id = IdAt(c) /\ f[d].candidate_id = IdAt(d)
    BY DEF SummarizeCandidate
  <2>. QED BY <1>1, <1>2, <2>1, <2>2 DEF Configured, DuplicateIds, IdAt
<1>5. \A s \in Summarized : \E c \in 1 .. n : f[c] = s
  BY <1>1, <1>2, SummaryOfCandidate
<1>6. f \in [1 .. n -> Summarized]
  BY <1>3
<1>. HIDE DEF f, n
<1>7. ExistsBijection(1 .. n, Summarized)
  <2>1. f \in Bijection(1 .. n, Summarized)
    BY <1>4, <1>5, <1>6, Fun_IsBij
  <2>. QED BY <2>1, Fun_ExistsBij
<1>8. IsFiniteSet(1 .. n) /\ Cardinality(1 .. n) = n
  BY <1>2, FS_Interval
<1>9. Cardinality(Summarized) = n
  BY <1>7, <1>8, FS_Bijection
<1>. QED BY <1>9 DEF n

-----------------------------------------------------------------------------
(* The report and the status.                                              *)

\* An exit status of 0 means that the report on disk is whole and covers
\* every candidate over its whole matrix, without a critical failure among
\* the runs or the probes (main, run_evals.py, and build_report, reporting.py).
THEOREM StatusAgrees == Spec => []StatusAgreesWithReport
<1>1. RInv => StatusAgreesWithReport
  <2>1. SUFFICES ASSUME RInv, status = 0, ~invocation.dry_run
                 PROVE  /\ report # None /\ Len(report) = Len(invocation.candidates)
                        /\ \A i \in DOMAIN report :
                             /\ report[i].release_gate_passed
                             /\ report[i].total_runs =
                                  Cardinality(Selected) * invocation.repetitions
                        /\ Len(probe_records) = ProbesWanted
                        /\ \A i \in DOMAIN probe_records : probe_records[i] = "CLEAN_PASS"
                        /\ \A i \in DOMAIN files : files[i] = "complete"
    BY DEF StatusAgreesWithReport
  <2>2. Progress /\ stage = "writing" /\ Unwritten = {} /\ ~HasCritical
    BY <2>1 DEF RInv, Reported
  <2>3. MatrixDone
    BY <2>2 DEF MatrixDone
  <2>4. report # None /\ report = Ranked(Summarized)
    BY <2>1, <2>2, ReportFacts
  <2>5. Len(report) = Len(invocation.candidates)
    BY <2>2, <2>3, <2>4, RankedSummaries, SummariesCounted
  <2>6. ASSUME NEW i \in DOMAIN report
        PROVE  /\ report[i].release_gate_passed
               /\ report[i].total_runs = Cardinality(Selected) * invocation.repetitions
    <3>1. report[i] \in Summarized
      BY <2>2, <2>4, RankedSummaries
    <3>2. PICK c \in DOMAIN invocation.candidates : report[i] = SummarizeCandidate(IdAt(c))
      BY <2>2, <3>1, SummaryOfCandidate
    <3>3. RunsClassified(IdAt(c), "CRITICAL_FAILURE") = {}
      BY <2>2 DEF HasCritical, RunsClassified, RunsOf
    <3>4. Cardinality(RunsOf(IdAt(c))) = Cardinality(Selected) * invocation.repetitions
      BY <2>3, RunsCounted
    <3>5. /\ report[i].release_gate_passed =
               (RunsClassified(IdAt(c), "CRITICAL_FAILURE") = {})
          /\ report[i].total_runs = Cardinality(RunsOf(IdAt(c)))
      BY <3>2 DEF SummarizeCandidate
    <3>. QED BY <3>3, <3>4, <3>5
  <2>7. /\ Len(probe_records) = ProbesWanted
        /\ \A i \in DOMAIN probe_records : probe_records[i] = "CLEAN_PASS"
    <3>1. probe_records \in Seq({"CLEAN_PASS", "CRITICAL_FAILURE"})
      BY <2>2 DEF Progress
    <3>2. \A i \in DOMAIN probe_records : probe_records[i] \in {"CLEAN_PASS", "CRITICAL_FAILURE"}
      BY <3>1
    <3>. QED BY <2>2, <3>2 DEF Progress, HasCritical
  <2>8. \A i \in DOMAIN files : files[i] = "complete"
    BY <2>2 DEF Unwritten
  <2>. QED BY <2>4, <2>5, <2>6, <2>7, <2>8
<1>. QED BY <1>1, ReportKept, PTL

\* What the summary of a candidate says of its runs.
LEMMA SummaryMeans ==
  ASSUME MatrixDone, NEW c \in DOMAIN invocation.candidates
  PROVE  LET s == SummarizeCandidate(IdAt(c)) IN
         /\ s \in Rankable /\ s.candidate_id = IdAt(c)
         /\ s.release_gate_passed <=> c \in Survivors
         /\ s.clean_passes = CleanRunsOf(c)
         /\ s.total_runs = Cardinality(Selected) * invocation.repetitions
<1>. DEFINE s == SummarizeCandidate(IdAt(c))
<1>1. RunsOf(IdAt(c)) = {i \in DOMAIN records : records[i].cell.candidate = c}
  BY CandidateRuns
<1>2. s \in Rankable
  BY CandidateRuns, SummarizedFacts DEF MatrixDone
<1>3. RunsClassified(IdAt(c), "CRITICAL_FAILURE") = {} <=> c \in Survivors
  BY <1>1 DEF RunsClassified, Survivors
<1>4. RunsClassified(IdAt(c), "CLEAN_PASS") =
        {i \in DOMAIN records : /\ records[i].cell.candidate = c
                                /\ records[i].classification = "CLEAN_PASS"}
  BY <1>1 DEF RunsClassified
<1>5. Cardinality(RunsOf(IdAt(c))) = Cardinality(Selected) * invocation.repetitions
  BY RunsCounted
<1>6. /\ s.candidate_id = IdAt(c)
      /\ s.release_gate_passed = (RunsClassified(IdAt(c), "CRITICAL_FAILURE") = {})
      /\ s.clean_passes = Cardinality(RunsClassified(IdAt(c), "CLEAN_PASS"))
      /\ s.total_runs = Cardinality(RunsOf(IdAt(c)))
  BY DEF SummarizeCandidate
<1>. HIDE DEF s
<1>7. s.clean_passes = CleanRunsOf(c)
  BY <1>4, <1>6 DEF CleanRunsOf
<1>. QED BY <1>2, <1>3, <1>5, <1>6, <1>7 DEF s

\* No candidate with a critical failure is named before a survivor, and the
\* first one named had as many clean runs as any (build_report, reporting.py).
THEOREM LeaderIsBest == Spec => []LeaderIsBestSurvivor
<1>1. RInv => LeaderIsBestSurvivor
  <2>1. SUFFICES ASSUME RInv, report # None, NEW e \in Survivors
                 PROVE  \E c \in Survivors :
                          /\ invocation.candidates[c].id = report[1].candidate_id
                          /\ \A d \in Survivors : CleanRunsOf(d) <= CleanRunsOf(c)
    BY DEF LeaderIsBestSurvivor
  <2>2. /\ Progress /\ MatrixDone /\ report = Ranked(Summarized)
    BY <2>1, ReportFacts DEF RInv, MatrixDone
  <2>3. /\ Cardinality(Summarized) \in Nat /\ DOMAIN report = 1 .. Cardinality(Summarized)
        /\ DOMAIN report # {}
        /\ \A i \in DOMAIN report : report[i] \in Summarized
        /\ \A i, j \in DOMAIN report : i < j => RanksBefore(report[i], report[j])
        /\ \A s \in Summarized : \E i \in DOMAIN report : report[i] = s
    BY <2>1, <2>2, ReportFacts, RankedSummaries
  <2>4. 1 \in DOMAIN report
    BY <2>3
  <2>5. PICK c \in DOMAIN invocation.candidates : report[1] = SummarizeCandidate(IdAt(c))
    BY <2>2, <2>3, <2>4, SummaryOfCandidate
  <2>6. \A d \in DOMAIN invocation.candidates :
          \/ SummarizeCandidate(IdAt(d)) = report[1]
          \/ RanksBefore(report[1], SummarizeCandidate(IdAt(d)))
    <3>1. TAKE d \in DOMAIN invocation.candidates
    <3>2. PICK j \in DOMAIN report : report[j] = SummarizeCandidate(IdAt(d))
      BY <2>2, <2>3, CandidateRuns
    <3>3. j = 1 \/ 1 < j
      BY <2>3
    <3>. QED BY <2>3, <2>4, <3>2, <3>3
  <2>7. /\ report[1] \in Rankable /\ report[1].candidate_id = IdAt(c)
        /\ report[1].release_gate_passed <=> c \in Survivors
        /\ report[1].clean_passes = CleanRunsOf(c)
        /\ report[1].total_runs = Cardinality(Selected) * invocation.repetitions
    BY <2>2, <2>5, SummaryMeans
  <2>8. \A d \in Survivors : d \in DOMAIN invocation.candidates
    BY DEF Survivors
  <2>9. c \in Survivors
    <3>. DEFINE s == SummarizeCandidate(IdAt(e))
    <3>1. s.release_gate_passed
      BY <2>1, <2>2, <2>8, SummaryMeans
    <3>2. s = report[1] \/ RanksBefore(report[1], s)
      BY <2>6, <2>8
    <3>. HIDE DEF s
    <3>. QED BY <2>7, <3>1, <3>2 DEF RanksBefore
  <2>10. ASSUME NEW d \in Survivors PROVE CleanRunsOf(d) <= CleanRunsOf(c)
    <3>. DEFINE s == SummarizeCandidate(IdAt(d))
    <3>1. /\ s \in Rankable /\ s.release_gate_passed
          /\ s.clean_passes = CleanRunsOf(d)
          /\ s.total_runs = report[1].total_runs
      BY <2>2, <2>7, <2>8, SummaryMeans
    <3>2. s = report[1] \/ RanksBefore(report[1], s)
      BY <2>6, <2>8
    <3>. HIDE DEF s
    <3>3. /\ s.clean_passes \in Nat /\ report[1].clean_passes \in Nat
          /\ s.total_runs \in Nat /\ s.total_runs > 0
      BY <2>7, <3>1 DEF Rankable, Summaries
    <3>4. s.clean_passes <= report[1].clean_passes
      <4>1. CASE s = report[1]
        BY <3>3, <4>1
      <4>2. CASE RanksBefore(report[1], s)
        <5>1. ~Cleaner(s, report[1])
          BY <2>7, <3>1, <4>2, CriteriaFacts DEF RanksBefore
        <5>2. ~(s.clean_passes * s.total_runs > report[1].clean_passes * s.total_runs)
          BY <3>1, <5>1 DEF Cleaner
        <5>3. ~(s.clean_passes > report[1].clean_passes)
          BY <3>3, <5>2, ProductGrows
        <5>. QED BY <3>3, <5>3
      <4>. QED BY <3>2, <4>1, <4>2
    <3>. QED BY <2>7, <3>1, <3>4
  <2>. QED BY <2>7, <2>9, <2>10 DEF IdAt
<1>. QED BY <1>1, ReportKept, PTL
=============================================================================
