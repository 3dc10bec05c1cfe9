----------------------------- MODULE ReleaseGate -----------------------------
(***************************************************************************)
(* What an evaluation promises to whoever reads its exit status            *)
(* (run_evals.py): every check of the requested matrix is judged once, and *)
(* the status is 0 only if all of them were judged and none failed.  An    *)
(* evaluation may be abandoned at any time, with another status.  A dry    *)
(* run asks for no check: its matrix is empty.                             *)
(***************************************************************************)
CONSTANTS
  None,
  Checks      \* a run of the agent on a scenario, or a probe of a tool

VARIABLES
  matrix,     \* the checks that were asked for
  judged,     \* those whose verdict is known
  failed,     \* those that failed
  status      \* the exit status, None while it runs

Init ==
  /\ matrix \in SUBSET Checks
  /\ judged = {} /\ failed = {} /\ status = None

Judge(check) ==
  /\ status = None
  /\ check \in matrix \ judged
  /\ judged' = judged \cup {check}
  /\ failed' \in {failed, failed \cup {check}}
  /\ UNCHANGED <<matrix, status>>

Conclude ==
  /\ status = None
  /\ judged = matrix
  /\ status' = IF failed = {} THEN 0 ELSE 1
  /\ UNCHANGED <<matrix, judged, failed>>

Abandon ==
  /\ status = None
  /\ status' \in {1, 2, 130}
  /\ UNCHANGED <<matrix, judged, failed>>

Next == (\E check \in matrix : Judge(check)) \/ Conclude \/ Abandon

Spec == Init /\ [][Next]_<<matrix, judged, failed, status>>
=============================================================================
