---------------------------- MODULE MCToolDispatch ----------------------------
(* Values of the constants of ToolDispatch for TLC. *)
EXTENDS ToolDispatch, TLC

CONSTANTS w1, w2, j1, a1, a2

TwoWorkers == {w1, w2}
OneJob == {j1}
TwoActions == {a1, a2}

\* One source agent makes two tool calls at a time; the bridge runs each on a thread.
SharedJob == [w \in Worker |-> j1]
\* The calls are alike, and so are the actions.
Symmetry == Permutations(Worker) \union Permutations(TwoActions)

\* Bound: lost writes give back slots of the job and of the session, so the dispatches
\* of a run have no other limit.
FewDispatches == consumed[j1] <= 3
=============================================================================
