---------------------------- MODULE MCCodexTurn ----------------------------
(* Values of the constants of CodexTurn for TLC.                           *)
EXTENDS CodexTurn

\* One of the server's ids is also the id of a client's `turn/start`.
MCAskIds == {3}

MCCandidates == {"agent"}

Final(text) == [phase |-> "final", says |-> text]
Visible(text) == [phase |-> "visible", says |-> text]
Async(text) == [phase |-> "async", says |-> text]

Work(target, objective) == [target |-> target, objective |-> objective]
File(task) == [task |-> task, path |-> 1, digest |-> TRUE]

\* Decisions followed by what is none; then replies that miss the contract in
\* one point each: nobody to do it, nothing to do, one task too many, an answer
\* too long, a task selected twice, a file of a task that is not selected.
MCSnapshots ==
  {<<Final(Delegate(<<Work("agent", 1)>>)), Visible(Prose)>>,
   <<Visible(CompleteWith(1, <<2>>, <<File(2)>>)), Async(FollowUp(Work(Anyone, 1)))>>,
   <<Async(FollowUp(Work(Anyone, 1)))>>,
   <<Visible(FollowUp(Work("nobody", 1)))>>,
   <<Visible(FollowUp(Work(Anyone, 0)))>>,
   <<Visible(Delegate(<<Work(Anyone, 1), Work(Anyone, 1), Work(Anyone, 1)>>))>>,
   <<Visible(CompleteWith(2, <<2>>, <<>>))>>,
   <<Visible(CompleteWith(1, <<2, 2>>, <<>>))>>,
   <<Visible(CompleteWith(1, <<2>>, <<File(3)>>))>>}
=============================================================================
