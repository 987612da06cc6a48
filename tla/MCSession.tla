----------------------------- MODULE MCSession -----------------------------
(* Instances of EngineeringSession for TLC.                                *)
EXTENDS EngineeringSession, TLC

Both == {"cloud", "premium"}

\* A budget of one priced answer; a latency limit and one cloud backend; private
\* work; work that may not use the local model.
MCPolicies ==
  { [providers |-> Providers, private |-> FALSE, clouds |-> Both,
     budget |-> 1, timed |-> FALSE],
    [providers |-> Providers, private |-> FALSE, clouds |-> {"premium"},
     budget |-> 0, timed |-> TRUE],
    [providers |-> Providers, private |-> TRUE, clouds |-> Both,
     budget |-> 0, timed |-> FALSE],
    [providers |-> {"openrouter"}, private |-> FALSE, clouds |-> Both,
     budget |-> 0, timed |-> FALSE] }

\* A cool-down of the local model, of the standard cloud model, or none.
MCBreakers == {{}, {"local"}, {"cloud"}}
=============================================================================
