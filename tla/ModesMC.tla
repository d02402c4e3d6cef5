------------------------------ MODULE ModesMC ------------------------------
(* The instance TLC checks.  Local mode: three names for set-aside copies, *)
(* two saves, two crashes.  Server mode: three sign-ins against the        *)
(* throttle, from two addresses and for two names; or two sign-ins while   *)
(* the operator makes two changes, with what happens to the signed-in.     *)
(* The throttle mixes differ in the budget that is reached first.          *)
EXTENDS Modes

MCMixes ==
  { [requests |-> 1 .. 3, names |-> {"ann", "bob"}, words |-> {"w1"}, clients |-> {"c1", "c2"},
     admin |-> 0, ticks |-> 2, fails |-> TRUE, sessions |-> FALSE, perName |-> 1],
    [requests |-> 1 .. 3, names |-> {"ann"}, words |-> {"w1", "w2"}, clients |-> {"c1", "c2"},
     admin |-> 0, ticks |-> 1, fails |-> FALSE, sessions |-> FALSE, perName |-> 2],
    [requests |-> 1 .. 2, names |-> {"ann"}, words |-> {"w1", "w2"}, clients |-> {"c1"},
     admin |-> 2, ticks |-> 0, fails |-> FALSE, sessions |-> TRUE, perName |-> 2] }
=============================================================================
