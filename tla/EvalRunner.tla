------------------------------ MODULE EvalRunner ------------------------------
(***************************************************************************)
(* run_evals.py with app/evals/reporting.py: one invocation of the         *)
(* evaluation runner.  It checks its arguments and its configuration,      *)
(* loads the starter kit, runs every candidate on every scenario as often  *)
(* as asked, probes the tools, ranks the candidates and writes the report. *)
(*                                                                         *)
(* A run of the agent is one step here: AgentTurn and EvalScoring say what *)
(* happens inside.  It may also raise; so may building a candidate's       *)
(* agent, a probe and a write; and the runner may be interrupted.          *)
(***************************************************************************)
EXTENDS Integers, Sequences, FiniteSets, FiniteSetsExt

CONSTANTS
  None,
  AgentScenarios,   \* length of the scenario catalogue; a scenario is its place in it
  ToolProbes,       \* length of the list of tool probes
  Measures,         \* latency and cost of a scored run
  Invocations       \* the command lines and environments considered

Providers == {"groq", "openrouter"}   \* supported_provider_names

Candidates == [id : Nat, provider : STRING]   \* ids ordered as the strings are

\* CandidateSummary: rates and averages are kept as sums over total_runs.
Summaries ==
  [candidate_id : Nat, total_runs : Nat, clean_passes : Nat,
   release_gate_passed : BOOLEAN, model_latency : Nat, total_cost : Nat \cup {None}]

\* scenario_ids: 0 stands for an unknown scenario; none at all selects every one.
ASSUME EvalRunnerAssumption ==
  /\ AgentScenarios \in Nat \ {0} /\ ToolProbes \in Nat
  /\ None \notin Nat /\ None \notin Seq(Summaries)
  /\ Measures \subseteq [latency : Nat, cost : Nat \cup {None}]
  /\ Invocations \subseteq
       [repetitions : Int, candidates : Seq(Candidates), loads : BOOLEAN,
        scenario_ids : SUBSET (0 .. AgentScenarios), dry_run : BOOLEAN,
        skip_tool_probes : BOOLEAN, keys : SUBSET Providers]
  /\ \A i \in Invocations : i.candidates # <<>>   \* Field(min_length=1)

Classifications == {"CLEAN_PASS", "PASS_WITH_WARNING", "CRITICAL_FAILURE"}

VARIABLES
  invocation,      \* arguments, candidate file, settings
  stage,
  cursor,          \* the candidate, scenario and repetition the loops are at
  records,         \* EvalRecords
  probe_records,   \* classifications of the ToolProbeRecords
  report,          \* candidate_summaries of the report, None before build_report
  files,           \* report, latest.json, runs and summary, in writing order
  status           \* exit status, None while the runner runs

runnerVars ==
  <<invocation, stage, cursor, records, probe_records, report, files, status>>

Stages == {"configuration", "candidate", "built", "unbuilt", "probes", "writing"}

Contents == {"absent", "old", "partial", "complete"}

\* _select_scenarios
Selected ==
  IF invocation.scenario_ids = {} THEN 1 .. AgentScenarios
  ELSE invocation.scenario_ids \cap (1 .. AgentScenarios)

Init ==
  /\ invocation \in Invocations
  /\ stage = "configuration"
  /\ cursor = [candidate |-> 1, scenario |-> 1, repetition |-> 1]
  /\ records = <<>> /\ probe_records = <<>>
  /\ report = None
  /\ \E latest \in {"absent", "old"} : files = <<"absent", latest, "absent", "absent">>
  /\ status = None

Exit(code) ==
  /\ status' = code
  /\ UNCHANGED <<invocation, stage, cursor, records, probe_records, report, files>>

-----------------------------------------------------------------------------
(* Before any agent runs.                                                  *)

Configuring == status = None /\ stage = "configuration"

DuplicateIds ==
  \E c, d \in DOMAIN invocation.candidates :
    c # d /\ invocation.candidates[c].id = invocation.candidates[d].id

Unsupported ==
  \E c \in DOMAIN invocation.candidates :
    invocation.candidates[c].provider \notin Providers

\* load_settings, load_candidate_config, _validate_candidates, _select_scenarios
Configured ==
  /\ invocation.repetitions >= 1 /\ invocation.loads
  /\ ~DuplicateIds /\ ~Unsupported
  /\ 0 \notin invocation.scenario_ids

RejectConfiguration == Configuring /\ ~Configured /\ Exit(2)

PrintDryRun == Configuring /\ Configured /\ invocation.dry_run /\ Exit(0)

MissingApiKeys ==
  {invocation.candidates[c].provider : c \in DOMAIN invocation.candidates}
    \ invocation.keys

Runnable == Configuring /\ Configured /\ ~invocation.dry_run

RejectMissingKeys == Runnable /\ MissingApiKeys # {} /\ Exit(2)

FailToolkit == Runnable /\ MissingApiKeys = {} /\ Exit(2)

LoadToolkit ==
  /\ Runnable /\ MissingApiKeys = {}
  /\ stage' = "candidate"
  /\ cursor' = [cursor EXCEPT !.scenario = Min(Selected)]
  /\ UNCHANGED <<invocation, records, probe_records, report, files, status>>

-----------------------------------------------------------------------------
(* The matrix: candidates, scenarios, repetitions.                         *)

EnterCandidate(built) ==
  /\ status = None /\ stage = "candidate"
  /\ stage' = built
  /\ UNCHANGED <<invocation, cursor, records, probe_records, report, files, status>>

BuildAgent == EnterCandidate("built")

FailBuild == EnterCandidate("unbuilt")

LaterScenarios == {s \in Selected : s > cursor.scenario}

\* Mutation of Advance: the repetitions are not restarted for the next scenario.
AdvanceKeepingRepetition ==
  IF cursor.repetition < invocation.repetitions
  THEN cursor' = [cursor EXCEPT !.repetition = @ + 1] /\ UNCHANGED stage
  ELSE IF LaterScenarios # {}
  THEN cursor' = [cursor EXCEPT !.scenario = Min(LaterScenarios)] /\ UNCHANGED stage
  ELSE IF cursor.candidate < Len(invocation.candidates)
  THEN /\ cursor' = [candidate |-> cursor.candidate + 1,
                     scenario |-> Min(Selected), repetition |-> 1]
       /\ stage' = "candidate"
  ELSE UNCHANGED cursor /\ stage' = "probes"

\* Mutation of Advance: one repetition too many.
AdvancePastEnd ==
  IF cursor.repetition <= invocation.repetitions
  THEN cursor' = [cursor EXCEPT !.repetition = @ + 1] /\ UNCHANGED stage
  ELSE IF LaterScenarios # {}
  THEN /\ cursor' = [cursor EXCEPT !.scenario = Min(LaterScenarios), !.repetition = 1]
       /\ UNCHANGED stage
  ELSE UNCHANGED cursor /\ stage' = "probes"

\* The three nested loops move to their next cell.
Advance ==
  IF cursor.repetition < invocation.repetitions
  THEN cursor' = [cursor EXCEPT !.repetition = @ + 1] /\ UNCHANGED stage
  ELSE IF LaterScenarios # {}
  THEN /\ cursor' = [cursor EXCEPT !.scenario = Min(LaterScenarios), !.repetition = 1]
       /\ UNCHANGED stage
  ELSE IF cursor.candidate < Len(invocation.candidates)
  THEN /\ cursor' = [candidate |-> cursor.candidate + 1,
                     scenario |-> Min(Selected), repetition |-> 1]
       /\ stage' = "candidate"
  ELSE UNCHANGED cursor /\ stage' = "probes"

RecordCell(classification, measure) ==
  /\ status = None
  /\ records' = Append(records, [cell |-> cursor, classification |-> classification,
                                 latency |-> measure.latency, cost |-> measure.cost])
  /\ Advance
  /\ UNCHANGED <<invocation, probe_records, report, files, status>>

ScoreCell ==
  /\ stage = "built"
  /\ \E classification \in Classifications, measure \in Measures :
       RecordCell(classification, measure)

NoMetrics == [latency |-> 0, cost |-> None]

\* record_exception: the run raised.
FailCell == stage = "built" /\ RecordCell("CRITICAL_FAILURE", NoMetrics)

\* Mutation of RecordUnbuilt: the exception of a failed build is not recorded.
RecordUnbuiltSilently ==
  /\ status = None /\ stage = "unbuilt"
  /\ Advance
  /\ UNCHANGED <<invocation, records, probe_records, report, files, status>>

\* The agent of the candidate could not be built: each of its cells failed.
RecordUnbuilt == stage = "unbuilt" /\ RecordCell("CRITICAL_FAILURE", NoMetrics)

-----------------------------------------------------------------------------
(* Tool probes and report.                                                 *)

ProbesWanted == IF invocation.skip_tool_probes THEN 0 ELSE ToolProbes

Probing == status = None /\ stage = "probes"

\* score_tool_probe: an unexpected answer and an exception are both critical.
RunToolProbe ==
  /\ Probing /\ records # <<>> /\ Len(probe_records) < ProbesWanted
  /\ \E classification \in {"CLEAN_PASS", "CRITICAL_FAILURE"} :
       probe_records' = Append(probe_records, classification)
  /\ UNCHANGED <<invocation, stage, cursor, records, report, files, status>>

\* The runs of a candidate, by the id it was recorded under.
IdOf(record) == invocation.candidates[record.cell.candidate].id

RunsOf(id) == {i \in DOMAIN records : IdOf(records[i]) = id}

RunsClassified(id, classification) ==
  {i \in RunsOf(id) : records[i].classification = classification}

Total(amounts) ==
  LET total[i \in 0 .. Len(amounts)] ==
        IF i = 0 THEN 0 ELSE total[i - 1] + amounts[i]
  IN total[Len(amounts)]

TotalLatency(id) ==
  Total([i \in DOMAIN records |-> IF i \in RunsOf(id) THEN records[i].latency ELSE 0])

\* Unknown as soon as the cost of one run is.
TotalCost(id) ==
  IF \E i \in RunsOf(id) : records[i].cost = None THEN None
  ELSE Total([i \in DOMAIN records |-> IF i \in RunsOf(id) THEN records[i].cost ELSE 0])

\* summarize_candidate
SummarizeCandidate(id) ==
  [candidate_id |-> id,
   total_runs |-> Cardinality(RunsOf(id)),
   clean_passes |-> Cardinality(RunsClassified(id, "CLEAN_PASS")),
   release_gate_passed |-> RunsClassified(id, "CRITICAL_FAILURE") = {},
   model_latency |-> TotalLatency(id),
   total_cost |-> TotalCost(id)]

\* An unknown cost is an infinite one.
Cheaper(a, b) ==
  a.total_cost # None /\ (b.total_cost = None \/ a.total_cost < b.total_cost)

Faster(a, b) == a.model_latency * b.total_runs < b.model_latency * a.total_runs

Cleaner(a, b) == a.clean_passes * b.total_runs > b.clean_passes * a.total_runs

\* Ascending by id where nothing else tells them apart: sort is stable.
CheaperOrFirst(a, b) ==
  \/ Cheaper(a, b)
  \/ ~Cheaper(b, a) /\ a.candidate_id < b.candidate_id

\* Mutation of RanksBefore: the gate does not come first.
RanksBeforeByRate(a, b) ==
  \/ Cleaner(a, b)
  \/ ~Cleaner(b, a) /\ (Faster(a, b) \/ (~Faster(b, a) /\ CheaperOrFirst(a, b)))

\* The sort key of build_report.
RanksBefore(a, b) ==
  \/ a.release_gate_passed /\ ~b.release_gate_passed
  \/ /\ a.release_gate_passed = b.release_gate_passed
     /\ \/ Cleaner(a, b)
        \/ ~Cleaner(b, a) /\ (Faster(a, b) \/ (~Faster(b, a) /\ CheaperOrFirst(a, b)))

\* The summaries, one for each candidate id that was recorded.
Summarized == {SummarizeCandidate(IdOf(records[i])) : i \in DOMAIN records}

\* A finite set in the order of the sort key.
Ranked(S) ==
  CHOOSE ranking \in [1 .. Cardinality(S) -> S] :
    \A i, j \in 1 .. Cardinality(S) : i < j => RanksBefore(ranking[i], ranking[j])

\* Without records the runner fails closed, before any probe.
BuildReport ==
  /\ Probing
  /\ IF records = <<>> THEN Exit(2)
     ELSE /\ Len(probe_records) = ProbesWanted
          /\ report' = Ranked(Summarized)
          /\ stage' = "writing"
          /\ UNCHANGED <<invocation, cursor, records, probe_records, files, status>>

Writing == status = None /\ stage = "writing"

\* The file being written, or the next one.
Unwritten == {i \in DOMAIN files : files[i] # "complete"}

\* Mutation of WriteFile: the files are written in any order.
WriteFileLatestFirst ==
  /\ Writing
  /\ \E i \in Unwritten :
       files' = [files EXCEPT ![i] = IF @ = "partial" THEN "complete" ELSE "partial"]
  /\ UNCHANGED <<invocation, stage, cursor, records, probe_records, report, status>>

\* Mutation of WriteFile: a broken write is begun again, without bound.
WriteFileRetrying ==
  /\ Writing
  /\ \E i \in Unwritten :
       /\ \A j \in Unwritten : i <= j
       /\ \E content \in IF files[i] = "partial" THEN {"complete", "absent"} ELSE {"partial"} :
            files' = [files EXCEPT ![i] = content]
  /\ UNCHANGED <<invocation, stage, cursor, records, probe_records, report, status>>

\* write_text and the CSV writers create or truncate the file, then fill it.
WriteFile ==
  /\ Writing
  /\ \E i \in Unwritten :
       /\ \A j \in Unwritten : i <= j
       /\ files' = [files EXCEPT ![i] = IF @ = "partial" THEN "complete" ELSE "partial"]
  /\ UNCHANGED <<invocation, stage, cursor, records, probe_records, report, status>>

\* A write raises; the interpreter ends with status 1.
FailWrite == Writing /\ Unwritten # {} /\ Exit(1)

\* Mutation of HasCritical: the probes do not count.
HasCriticalRun == \E i \in DOMAIN records : records[i].classification = "CRITICAL_FAILURE"

HasCritical ==
  \/ \E i \in DOMAIN records : records[i].classification = "CRITICAL_FAILURE"
  \/ \E i \in DOMAIN probe_records : probe_records[i] = "CRITICAL_FAILURE"

Finish == Writing /\ Unwritten = {} /\ Exit(IF HasCritical THEN 1 ELSE 0)

\* KeyboardInterrupt is no Exception: nothing in the runner catches it.
Interrupt == status = None /\ Exit(130)

Proceed ==
  \/ RejectConfiguration \/ PrintDryRun \/ RejectMissingKeys \/ FailToolkit \/ LoadToolkit
  \/ BuildAgent \/ FailBuild \/ ScoreCell \/ FailCell \/ RecordUnbuilt
  \/ RunToolProbe \/ BuildReport \/ WriteFile \/ FailWrite \/ Finish

Next == Proceed \/ Interrupt

\* Each call of the runner returns or raises.
Spec == Init /\ [][Next]_runnerVars /\ WF_runnerVars(Proceed)

-----------------------------------------------------------------------------
(* Properties.                                                             *)

Cells ==
  [candidate : DOMAIN invocation.candidates, scenario : Selected,
   repetition : 1 .. invocation.repetitions]

Records ==
  [cell : Cells, classification : Classifications, latency : Nat, cost : Nat \cup {None}]

TypeOK ==
  /\ invocation \in Invocations
  /\ stage \in Stages
  /\ stage # "configuration" => cursor \in Cells
  /\ \A i \in DOMAIN records : records[i] \in Records
  /\ \A i \in DOMAIN probe_records : probe_records[i] \in Classifications
  /\ report # None => \A i \in DOMAIN report : report[i] \in Summaries
  /\ files \in [1 .. 4 -> Contents]
  /\ status \in {None, 0, 1, 2, 130}

\* The records follow the loops of main: no cell is recorded twice, whatever
\* raised on the way, and once the probes are run every cell of the matrix has
\* its record, also those of a candidate whose agent was never built.
OneRecordPerCell ==
  /\ \A i, j \in DOMAIN records : records[i].cell = records[j].cell => i = j
  /\ stage \in {"probes", "writing"} =>
       \A cell \in Cells : \E i \in DOMAIN records : records[i].cell = cell

\* The exit status and the report are computed apart, and agree: the runner
\* exits with 0 only after it wrote all files of a report in which every
\* candidate that was asked for passes the gate on its whole matrix, and
\* every probe was clean; and a report of a failure never leaves with 0.
StatusAgreesWithReport ==
  status = 0 /\ ~invocation.dry_run =>
    /\ report # None /\ Len(report) = Len(invocation.candidates)
    /\ \A i \in DOMAIN report :
         /\ report[i].release_gate_passed
         /\ report[i].total_runs = Cardinality(Selected) * invocation.repetitions
    /\ Len(probe_records) = ProbesWanted
    /\ \A i \in DOMAIN probe_records : probe_records[i] = "CLEAN_PASS"
    /\ \A i \in DOMAIN files : files[i] = "complete"

\* The candidates whose every run was other than a critical failure.
Survivors ==
  {c \in DOMAIN invocation.candidates :
     \A i \in DOMAIN records :
       records[i].cell.candidate = c => records[i].classification # "CRITICAL_FAILURE"}

CleanRunsOf(c) ==
  Cardinality({i \in DOMAIN records : /\ records[i].cell.candidate = c
                                      /\ records[i].classification = "CLEAN_PASS"})

\* The candidate a report names first is one to release: no candidate with a
\* critical failure is named before one without, however clean or fast it
\* was, and no other survivor had more clean runs.
LeaderIsBestSurvivor ==
  report # None /\ Survivors # {} =>
    \E c \in Survivors :
      /\ invocation.candidates[c].id = report[1].candidate_id
      /\ \A d \in Survivors : CleanRunsOf(d) <= CleanRunsOf(c)

\* latest.json is replaced only by a report that is already kept under its own
\* name, and an evaluation that never got that far leaves it as it was: a
\* reader of latest.json sees an old or a whole report unless this very write broke.
LatestFollowsReport ==
  /\ files[2] \in {"partial", "complete"} => files[1] = "complete"
  /\ \A i \in {3, 4} : files[i] # "absent" => files[2] = "complete"
  /\ files[1] # "absent" => stage = "writing"

\* No exception on the way leaves the runner waiting: it exits with a status.
ExitsEventually == <>(status # None)

-----------------------------------------------------------------------------
(* The runner implements ReleaseGate.  A probe is a check of candidate 0.  *)

ProbeCheck(i) == [candidate |-> 0, scenario |-> 0, repetition |-> i]

AllChecks == [candidate : Nat, scenario : Nat, repetition : Nat]

Matrix ==
  IF invocation.dry_run THEN {}
  ELSE Cells \cup {ProbeCheck(i) : i \in 1 .. ProbesWanted}

Judged ==
  {records[i].cell : i \in DOMAIN records}
    \cup {ProbeCheck(i) : i \in DOMAIN probe_records}

Failed ==
  {records[i].cell : i \in {n \in DOMAIN records :
                              records[n].classification = "CRITICAL_FAILURE"}}
    \cup {ProbeCheck(i) : i \in {n \in DOMAIN probe_records :
                                   probe_records[n] = "CRITICAL_FAILURE"}}

Gate ==
  INSTANCE ReleaseGate WITH
    Checks <- AllChecks, matrix <- Matrix, judged <- Judged, failed <- Failed

\* The exit status is 0 only if every run and every probe of the matrix was
\* judged, once, and none was a critical failure.
ImplementsReleaseGate == Gate!Spec
=============================================================================
