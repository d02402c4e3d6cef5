---------------------------- MODULE GameRecordMC ----------------------------
(* The instance TLC checks: a 3 x 3 board, under every rule set, from a    *)
(* position with a ko in the corner and three empty points, on which one   *)
(* stone can capture two chains and a stone can kill its own.              *)
EXTENDS GameRecord

Stones(blacks, whites) ==
  [p \in Points |-> IF p \in blacks THEN Black ELSE IF p \in whites THEN White ELSE Empty]

MCRules  == {[ko |-> "simple", suicide |-> FALSE]}
            \cup [ko : {"positional", "situational"}, suicide : BOOLEAN]
MCSetups ==
  {[stones |-> Stones({<<1, 0>>, <<0, 1>>, <<0, 2>>}, {<<2, 0>>, <<1, 1>>, <<2, 1>>}), first |-> White]}
=============================================================================
