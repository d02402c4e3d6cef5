---------------------------- MODULE EnginePlayMC ----------------------------
(* The scenarios TLC checks: the messages and events a behaviour draws on, *)
(* and the move limit of its games.                                        *)
EXTENDS EnginePlay

Scenario(limit, ms) == [moves |-> limit, messages |-> ms]

MCScenarios ==
  {Scenario(2, m) : m \in {
     {"play", "undo", "navigate", "players", "genmove"},
     {"play", "analysis", "players", "params"},
     {"play", "analysis", "gone", "genmove", "release"},
     {"genmove", "load", "raw", "close"},
     {"final_score", "load", "raw", "crash"},
     {"play", "undo", "resign", "final_score", "release"}}}
  \cup
  {Scenario(1, m) : m \in {
     {"play", "players", "select", "duplicate", "new"},
     {"genmove", "select", "new", "delete"},
     {"players", "duplicate", "delete"},
     {"analysis", "duplicate", "delete"},
     {"play", "analysis", "delete"},
     {"play", "analysis", "duplicate"}}}

\* Self-play to the move limit or two passes, with users who never stop navigating.
MCSelfPlay == {Scenario(2, {"navigate", "players", "raw"})}
=============================================================================
