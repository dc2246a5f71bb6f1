------------------------- MODULE MCSubagentRuntime -------------------------
(* The scenarios in which the subagent runtime is checked: b is spawned by *)
(* a, and a and c by the main run.                                         *)
EXTENDS SubagentRuntime

CONSTANTS a, b, c

Budget(autoWake, spawns, stops, cancels, pauses, faults, crashes) ==
  [autoWake |-> autoWake, spawns |-> spawns, stops |-> stops,
   cancels |-> cancels, pauses |-> pauses, faults |-> faults,
   crashes |-> crashes]

\* One child, killed, failing and restarted; the same with a pause; a child
\* that delegates to another while one is killed; two that compete for the
\* slot and for the wake turn.
MCBudgets ==
  {Budget(TRUE, {a}, 1, 1, 0, 1, 1), Budget(TRUE, {a}, 1, 1, 1, 0, 0),
   Budget(TRUE, {a}, 0, 0, 1, 1, 0), Budget(FALSE, {a, b}, 0, 1, 0, 0, 0),
   Budget(TRUE, {a, c}, 1, 0, 0, 0, 0)}
=============================================================================
