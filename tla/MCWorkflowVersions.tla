------------------------- MODULE MCWorkflowVersions -------------------------
(* Instances of WorkflowVersions for TLC: named workflows, organizations and *)
(* definitions.                                                              *)
EXTENDS WorkflowVersions, TLC

CONSTANTS w1, w2, o1, o2, d1, d2, bad

Workflows == {w1, w2}
Orgs == {o1, o2}
Definitions == {d1, d2, bad}
ValidOnes == {d1, d2}

Symmetry == Permutations(Workflow) \cup Permutations(Org) \cup Permutations(Valid)
=============================================================================
