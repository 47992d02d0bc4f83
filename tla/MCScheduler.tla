---------------------------- MODULE MCScheduler ----------------------------
(* Small instances of Scheduler: every graph over a few resources, and     *)
(* every acyclic one.                                                      *)
EXTENDS Scheduler

Resource3 == 1..3
AnyGraph == [Resource -> SUBSET Resource]

AcyclicGraph == {g \in AnyGraph : Acyclic(g)}
=============================================================================
