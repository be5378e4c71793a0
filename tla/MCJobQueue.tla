----------------------------- MODULE MCJobQueue -----------------------------
(* Instances of JobQueue for TLC. *)
EXTENDS JobQueue, TLC

CONSTANTS f1, f2, c1, c2

OneFile == {f1}
TwoFiles == {f1, f2}
NoClients == {}
OneClient == {c1}
\* The kinds of priority that matter: equal ones and different ones.
OnePriority == {100}
QuickAndFull == {90, 110}

ClientSymmetry == Permutations(Clients)
=============================================================================
