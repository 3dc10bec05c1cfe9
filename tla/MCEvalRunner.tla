----------------------------- MODULE MCEvalRunner -----------------------------
(***************************************************************************)
(* Small invocations of the evaluation runner: matrices of up to four      *)
(* cells, in every shape, and each way a configuration can be refused.     *)
(***************************************************************************)
EXTENDS EvalRunner

MCMeasures == {[latency |-> 1, cost |-> None], [latency |-> 2, cost |-> 1]}

Alpha == [id |-> 1, provider |-> "groq"]
Beta  == [id |-> 2, provider |-> "openrouter"]
Gamma == [id |-> 2, provider |-> "groq"]

Typical ==
  [repetitions |-> 1, candidates |-> <<Alpha>>, loads |-> TRUE,
   scenario_ids |-> {}, dry_run |-> FALSE, skip_tool_probes |-> FALSE,
   keys |-> Providers]

\* Two candidates (the later id first), two scenarios, two repetitions: any
\* two of the three, and each kind of refusal.
MCInvocations ==
  { Typical,
    [Typical EXCEPT !.candidates = <<Beta, Alpha>>],
    [Typical EXCEPT !.candidates = <<Beta, Alpha>>, !.repetitions = 2,
                    !.scenario_ids = {2}, !.skip_tool_probes = TRUE],
    [Typical EXCEPT !.repetitions = 2],
    [Typical EXCEPT !.dry_run = TRUE],
    [Typical EXCEPT !.repetitions = 0],
    [Typical EXCEPT !.loads = FALSE],
    [Typical EXCEPT !.scenario_ids = {0, 1}],
    [Typical EXCEPT !.candidates = <<Beta, Gamma>>, !.skip_tool_probes = TRUE],
    [Typical EXCEPT !.candidates = <<[id |-> 3, provider |-> "other"]>>],
    [Typical EXCEPT !.keys = {"openrouter"}] }
=============================================================================
