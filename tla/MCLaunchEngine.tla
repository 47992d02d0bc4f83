--------------------------- MODULE MCLaunchEngine ---------------------------
(* Small instances of LaunchEngine: three resources under every acyclic    *)
(* dependency graph; the first is retried once, the second is probed, the  *)
(* last may fail validation.                                               *)
EXTENDS LaunchEngine

Resource2 == 1..2
Resource3 == 1..3

AcyclicGraph == {g \in [Resource -> SUBSET Resource] : Acyclic(g)}

RetriedOnce == [r \in Resource |-> IF r = 1 THEN 2 ELSE 1]

Probed12 == {1, 2}

LastInvalid == {{}, {3}}
NoneInvalid == {{}}
=============================================================================
