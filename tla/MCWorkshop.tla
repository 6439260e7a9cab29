---------------------------- MODULE MCWorkshop ----------------------------
(* A small catalog and small instances of Workshop for TLC.                *)
EXTENDS Workshop, TLC

\* A catalog with a state of each kind: one that takes jobs and requests, one that
\* takes neither, and the two ends.
ShortWoStates == {"in_progress", "qc_pending", "closed", "cancelled"}
ShortWoGraph == {<<"in_progress", "qc_pending">>, <<"qc_pending", "in_progress">>,
                 <<"qc_pending", "closed">>, <<"in_progress", "cancelled">>}
ShortJobStates == {"planned", "in_progress", "paused", "completed"}
ShortJobGraph == {<<"planned", "in_progress">>, <<"in_progress", "paused">>,
                  <<"paused", "in_progress">>, <<"in_progress", "completed">>}

Symmetric == Permutations(Sessions) \cup Permutations(Assignments) \cup Permutations(Technicians)
             \cup Permutations(WorkOrders) \cup Permutations(Inspections)
=============================================================================
