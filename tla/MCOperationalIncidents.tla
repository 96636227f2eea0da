----------------------- MODULE MCOperationalIncidents -----------------------
(* Small instances of OperationalIncidents for TLC. *)
EXTENDS OperationalIncidents, TLC

CONSTANTS w1, w2, i1, i2, i3

OneWorker  == {w1}
TwoWorkers == {w1, w2}

\* An incident that is open, pending or about to be opened, and the one whose notice each
\* process still holds.
TwoIncidents   == {i1, i2}
ThreeIncidents == {i1, i2, i3}

AnyOrder == Permutations(ThreeIncidents) \cup Permutations(TwoWorkers)
=============================================================================
