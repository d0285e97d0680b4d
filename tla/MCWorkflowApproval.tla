------------------------- MODULE MCWorkflowApproval -------------------------
(***************************************************************************)
(* Instances of WorkflowApproval.                                          *)
(***************************************************************************)
EXTENDS WorkflowApproval, TLC

OneTask == {1}
TwoTasks == {1, 2}
ThreeTasks == {1, 2, 3}

Symmetry == Permutations(Requests) \cup Permutations(Workers)
=============================================================================
