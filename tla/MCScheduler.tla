---------------------------- MODULE MCScheduler ----------------------------
(* Values of the constants of Scheduler for TLC.                           *)
EXTENDS Scheduler

CONSTANTS w1, w2, u1, none

\* u1 is registered without a driver.
MCAgents == {w1, w2, u1}
MCDrivers == {w1, w2}
MCOrders == {<<w1, u1, w2>>, <<w2, w1>>}
MCOneEach == [a \in Agent |-> 1]
MCTwoTasks == 1 .. 2
=============================================================================
