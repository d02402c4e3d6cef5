----------------------------- MODULE EngineSlot -----------------------------
(***************************************************************************)
(* What a space promises its browser tabs about the engine, with none of   *)
(* the machinery: one slot that is disconnected, connecting or connected,  *)
(* until the space shuts down.  A slot becomes connected only through a    *)
(* connect that is still the wanted one, and a connect always comes to an  *)
(* end.  EngineLifecycle is shown to implement this specification.         *)
(***************************************************************************)

VARIABLE shown

Shown == {"disconnected", "connecting", "connected", "closed"}

TypeOK == shown \in Shown

Init == shown = "disconnected"

\* A connect is accepted; whatever engine the slot held is released.
Ask == /\ shown \in {"disconnected", "connected"}
       /\ shown' = "connecting"

\* The pending connect ends: it succeeded, failed, or was withdrawn.
Settle == /\ shown = "connecting"
          /\ shown' \in {"connected", "disconnected"}

\* The engine is released or its connection is lost.
Lose == /\ shown = "connected"
        /\ shown' = "disconnected"

\* The space shuts down, for good.
Shut == /\ shown # "closed"
        /\ shown' = "closed"

Next == Ask \/ Settle \/ Lose \/ Shut

Spec == Init /\ [][Next]_shown /\ WF_shown(Settle)
=============================================================================
