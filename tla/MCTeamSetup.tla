---------------------------- MODULE MCTeamSetup ----------------------------
(* Values of the constants of TeamSetup for TLC.                           *)
EXTENDS TeamSetup

Row(tier, kind, flaws) ==
  [tier |-> tier, kind |-> kind, program |-> TRUE, concurrency |-> 1, flaws |-> flaws]

\* A Lead of either Codex runtime, with options only one of its judges minds, a
\* reasoner no run can be led by; workers of every kind; and a third agent that
\* is a second reasoner, a second worker or the optional utility.
MCRowsOf ==
  <<{Row("reasoner", "codex-app-server", f) :
       f \in {{}, {"timeout"}, {"short_prompt"}}}
      \cup {Row("reasoner", "codex-exec", f) :
              f \in {{"timeout"}, {"events"}, {"schema"}}}
      \cup {Row("reasoner", "acp", {})},
    {Row("worker", k, {}) : k \in {"native"}}
      \cup {Row("worker", "acp", f) : f \in {{}, {"path"}, {"shape"}, {"events"}}}
      \cup {Row("worker", "claude-cli", f) : f \in {{"no_schema"}}}
      \cup {[Row("worker", "acp", {}) EXCEPT !.program = FALSE],
            [Row("worker", "acp", {}) EXCEPT !.concurrency = 0]},
    {Row("reasoner", "codex-exec", {}), Row("worker", "claude-cli", {}),
     Row("utility", "acp", {}), Row("utility", "codex-exec", {"schema"})}>>
=============================================================================
