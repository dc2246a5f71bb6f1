---------------------------- MODULE MCApprovals ----------------------------
(* Instances of Approvals for TLC. *)
EXTENDS Approvals, TLC

CONSTANTS o1, o2

\* All operations have the same policy scope, so that a grant covers them.
SharedScope == [op \in Ops |-> "scope"]
=============================================================================
