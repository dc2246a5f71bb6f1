--------------------------- MODULE MCEventBroker ---------------------------
(* Instances of EventBroker for TLC. *)
EXTENDS EventBroker, TLC

CONSTANTS r1, a1, s1, s2

\* One stream of the main run, one of the subagent's own run.
MainAndChild == (s1 :> r1) @@ (s2 :> a1)
=============================================================================
