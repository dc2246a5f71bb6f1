--------------------------- MODULE MCPromptQueue ---------------------------
(* Instances of PromptQueue for TLC. *)
EXTENDS PromptQueue, TLC

CONSTANTS d1, i1, i2

OneDaemon == {d1}

\* All sessions belong to the workspace of the one daemon.
HomeOfOne == [s \in Sessions |-> d1]
=============================================================================
