----------------------------- MODULE LaunchOrder -----------------------------
(***************************************************************************)
(* What a launch promises about order, with no waves, queues or semaphore: *)
(* a resource starts only when its dependencies allow it and a slot is     *)
(* free; a resource whose dependency went wrong is blocked, never started; *)
(* and the launch ends, completed or aborted.  Scheduler.tla implements    *)
(* it.                                                                     *)
(***************************************************************************)
EXTENDS Integers, FiniteSets

CONSTANTS Resource, Graph, Limit

VARIABLES deps,     \* the dependencies of each resource, fixed for a launch
          override, \* dependents run even if a dependency failed; fixed too
          status,   \* what has become of each resource
          outcome   \* what has become of the launch as a whole

orderVars == <<deps, override, status, outcome>>

Settled == {"ready", "failed", "blocked"}

Status == {"waiting", "running", "cancelled"} \cup Settled

InState(s) == {r \in Resource : status[r] = s}

OrderTypeOK ==
    /\ deps \in Graph
    /\ override \in BOOLEAN
    /\ status \in [Resource -> Status]
    /\ outcome \in {"open", "complete", "aborted"}

OrderInit ==
    /\ deps \in Graph
    /\ override \in BOOLEAN
    /\ status = [r \in Resource |-> "waiting"]
    /\ outcome = "open"

(* The dependencies of r let it start. *)
Admissible(r) ==
    \A d \in deps[r] : status[d] = "ready" \/ (override /\ status[d] \in Settled)

OrderStart(r) ==
    /\ outcome = "open" /\ status[r] = "waiting"
    /\ Admissible(r)
    /\ Cardinality(InState("running")) < Limit
    /\ status' = [status EXCEPT ![r] = "running"]
    /\ UNCHANGED <<deps, override, outcome>>

OrderFinish(r, s) ==
    /\ outcome = "open" /\ status[r] = "running"
    /\ status' = [status EXCEPT ![r] = s]
    /\ UNCHANGED <<deps, override, outcome>>

(* The launch is given up: what has not ended is dropped. *)
OrderCancel(r) ==
    /\ outcome = "open" /\ status[r] \in {"waiting", "running"}
    /\ status' = [status EXCEPT ![r] = "cancelled"]
    /\ UNCHANGED <<deps, override, outcome>>

(* Blocking is decided for several resources at once; each has a           *)
(* dependency that failed or is itself blocked.                            *)
OrderBlock(B) ==
    /\ outcome = "open" /\ ~override
    /\ \A r \in B : /\ status[r] = "waiting"
                    /\ \E d \in deps[r] : status[d] \in {"failed", "blocked"}
    /\ status' = [r \in Resource |-> IF r \in B THEN "blocked" ELSE status[r]]
    /\ UNCHANGED <<deps, override, outcome>>

OrderComplete ==
    /\ outcome = "open"
    /\ \A r \in Resource : status[r] \in Settled
    /\ outcome' = "complete"
    /\ UNCHANGED <<deps, override, status>>

OrderAbort ==
    /\ outcome = "open" /\ InState("running") = {}
    /\ outcome' = "aborted"
    /\ UNCHANGED <<deps, override, status>>

OrderNext ==
    \/ \E r \in Resource : \/ OrderStart(r)
                           \/ \E s \in {"ready", "failed"} : OrderFinish(r, s)
                           \/ OrderCancel(r)
    \/ \E B \in SUBSET Resource : OrderBlock(B)
    \/ OrderComplete
    \/ OrderAbort

OrderSpec == OrderInit /\ [][OrderNext]_orderVars

(* The launch ends. *)
OrderEnds == <>(outcome # "open")
==============================================================================
