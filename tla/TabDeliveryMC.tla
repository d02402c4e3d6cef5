--------------------------- MODULE TabDeliveryMC ---------------------------
(* The workloads TLC checks. *)
EXTENDS TabDelivery

Workload(edits, lines, errors) == [edits |-> edits, lines |-> lines, errors |-> errors]

\* A queue that fills with lines and errors; boards that change while states wait.
MCWorkloads   == {Workload(1, 3, 1), Workload(3, 0, 0)}
MCTwoChanges  == {Workload(2, 0, 0)}
=============================================================================
