--------------------------- MODULE MCAcpExecution ---------------------------
(* Values of the constants of AcpExecution for TLC.                        *)
EXTENDS AcpExecution

\* A result, one whose JSON does not fit the journal, and prose around one; a
\* plan that fits with two of its three steps; the options of a permission.
MCSays ==
  {[type |-> "text", json |-> TRUE, text |-> [len |-> 2, cost |-> 1]],
   [type |-> "text", json |-> TRUE, text |-> [len |-> 2, cost |-> 6]],
   [type |-> "text", json |-> FALSE, text |-> [len |-> 1, cost |-> 1]],
   [type |-> "plan", items |-> [i \in 1 .. 3 |-> [len |-> 2, cost |-> 1]]],
   [type |-> "tool"],
   [type |-> "permission", options |-> <<"allow", "reject">>],
   [type |-> "permission", options |-> <<"allow">>]}
=============================================================================
