-------------------------- MODULE SpaceRegistryMC --------------------------
(* The mixes TLC checks.                                                   *)
EXTENDS SpaceRegistry

CONSTANTS t1, t2, r1

\* two tabs and an upload; two tabs that the hub may drop, one of which the cap refuses
MCMixes == {[visitors |-> {t1, t2, r1}, changes |-> 2, cap |-> 2, drops |-> FALSE],
            [visitors |-> {t1, t2}, changes |-> 1, cap |-> 1, drops |-> TRUE]}

\* one tab and its engine, one change
MCOneTab == {[visitors |-> {t1}, changes |-> 1, cap |-> 1, drops |-> FALSE]}

\* a tab that the hub drops, and another
MCDrops == {[visitors |-> {t1, t2}, changes |-> 2, cap |-> 2, drops |-> TRUE]}
=============================================================================
