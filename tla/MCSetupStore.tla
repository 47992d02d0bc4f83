---------------------------- MODULE MCSetupStore ----------------------------
(* Two processes, an id of uuid4 and one that manifests to import carry,   *)
(* one project, two names and two revisions.                               *)
EXTENDS SetupStore, TLC

CONSTANTS p1, p2, p3, i1, i2, i3, d1, n1, n2, v1, v2

Procs == {p1, p2}
Ids == {i1, i2, i3}
CarriedIds == {i3}
Projects == {d1}
Names == {n1, n2}
ProjectNames == [d \in Projects |-> n1]
Revs == {v1, v2}

Symmetric == Permutations({i1, i2}) \cup Permutations(Procs) \cup Permutations(Revs)
=============================================================================
