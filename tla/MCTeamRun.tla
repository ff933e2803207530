----------------------------- MODULE MCTeamRun -----------------------------
(* Values of the constants of BoardViews, and of TeamRun in it, for TLC.   *)
EXTENDS BoardViews

CONSTANTS w1, none

\* A root, and one delegated task more than the budget allows.  One agent is
\* both the Lead and the worker.
MCTasks == 1 .. 4
MCAgents == {w1}
MCOrders == {<<w1>>}
MCOneEach == [a \in Agent |-> 1]
=============================================================================
