---------------------------- MODULE MCToolExecutor ----------------------------
(***************************************************************************)
(* ToolExecutor on the small catalogue, with every kind of malformed       *)
(* request, under a bound on the number of requests.                       *)
(***************************************************************************)
EXTENDS ToolExecutor, Catalogue

CONSTANT MaxHistory

MCCalls ==
  { Call("get_order_details", real, None), Call("get_order_details", ghost, None),
    Call("get_user_profile", None, "u1"), Call("get_user_profile", None, "u2"),
    Call("check_return_policy", real, "damaged"),
    Call("check_return_policy", real, "remorse"),
    Call("process_refund", real, "small"), Call("process_refund", real, "large"),
    Call("process_refund", None, "small"), Call("check_return_policy", real, "typo"),
    Call("unknown_tool", real, None),
    Malformed("check_return_policy", ghost, FALSE),
    Malformed("process_refund", None, TRUE) }

\* Bound: MaxHistory requests per session.
MCNext ==
  \/ /\ Len(tool_history) < MaxHistory
     /\ \E call \in Calls : Execute(call)
  \/ NewTurn

MCSpec == ExecutorInit /\ [][MCNext]_executorVars
=============================================================================
