-------------------------- MODULE EngineClientsMC --------------------------
(* The instance TLC checks: two board settings, three positions (the empty *)
(* board, two moves away from it, and one move with another setting), an   *)
(* engine with every command and one with none, and for each protocol the  *)
(* troubles that can meet.                                                 *)
EXTENDS EngineClients

MCKeys      == {"k1", "k2"}
MCVertices  == {"a", "b"}
MCPositions == {[key |-> "k1", moves |-> <<>>], [key |-> "k1", moves |-> <<"a">>],
                [key |-> "k2", moves |-> <<"a">>]}
MCSkills    == {{}, {"undo", "rules", "param", "genmove_analyze", "analyze"}}
MCIds       == 1 .. 3

MCTokens    == 1 .. 2

MCBehaviours ==
  [protocol : {"gtp"}, trouble : {{"close", "cancel"}, {"hangup"}, {"stall"}, {"stray"}}]
  \cup [protocol : {"handol", "analysis"},
        trouble  : {{"close", "cancel"}, {"hangup"}, {"stall", "stray"}}]
=============================================================================
