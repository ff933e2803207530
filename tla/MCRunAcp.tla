------------------------------ MODULE MCRunAcp ------------------------------
(* Values of the constants of RunAcp for TLC.                              *)
EXTENDS RunAcp, TLC

CONSTANTS a1, p1, p2, none, notask

MCAgents == {a1}
MCProcs == {p1, p2}
MCAgentOf == [p \in Proc |-> a1]
MCOneTask == 1 .. 1

\* The two processes are given the same agent.
MCSymmetry == Permutations(MCProcs)
=============================================================================
