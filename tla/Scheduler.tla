------------------------------ MODULE Scheduler ------------------------------
(***************************************************************************)
(* application/scheduler.py: run_scheduled.  One asyncio task walks the    *)
(* graph in passes; each pass marks what is blocked, starts one task per   *)
(* resource that may run, and waits for all of them (asyncio.gather)       *)
(* before the next pass.  The tasks compete for the permits of a           *)
(* semaphore.  What run_resource does inside a task is left open here: it  *)
(* returns READY or FAILED, or raises; LaunchEngine.tla fills it in.       *)
(*                                                                         *)
(* Code between two awaits runs without interruption, so a pass is one     *)
(* action.  An exception out of gather does not stop the other tasks: they *)
(* go on until asyncio.run cancels them ("aborting").                      *)
(***************************************************************************)
EXTENDS Integers, FiniteSets

CONSTANTS Resource,          \* resource ids; < is the order of sorted()
          Graph,             \* the dependency graphs a launch may be given
          Concurrency        \* the concurrency argument

ASSUME ResourceAssumption == Resource \in SUBSET Nat /\ IsFiniteSet(Resource)
ASSUME GraphAssumption == Graph \subseteq [Resource -> SUBSET Resource]
ASSUME ConcurrencyAssumption == Concurrency \in Int

VARIABLES deps,       \* graph.dependencies, never changed
          override,   \* continue_on_dependency_failure, never changed
          remaining,  \* the local of that name
          results,    \* the local dict; "none" stands for a missing key
          readyIds,   \* the local ready_ids of the current pass
          task,       \* the asyncio task of each resource
          pc          \* where run_scheduled itself is

vars == <<deps, override, remaining, results, readyIds, task, pc>>

Limit == IF Concurrency > 1 THEN Concurrency ELSE 1

(* Every nonempty set of resources has a member with no dependency in it:  *)
(* over a finite set, that there is no cycle.                              *)
Acyclic(g) == \A S \in SUBSET Resource : S # {} => \E r \in S : g[r] \cap S = {}

InTask(s) == {r \in Resource : task[r] = s}

TypeOK ==
    /\ deps \in Graph
    /\ override \in BOOLEAN
    /\ remaining \subseteq Resource
    /\ results \in [Resource -> {"none", "ready", "failed", "blocked"}]
    /\ readyIds \subseteq Resource
    /\ task \in [Resource -> {"idle", "queued", "running", "ended", "dead"}]
    /\ pc \in {"pass", "gather", "aborting", "done", "stalled", "aborted"}

Init ==
    /\ deps \in Graph
    /\ override \in BOOLEAN
    /\ remaining = Resource
    /\ results = [r \in Resource |-> "none"]
    /\ readyIds = {}
    /\ task = [r \in Resource |-> "idle"]
    /\ pc = "pass"

------------------------------------------------------------------------------
(* The pass over sorted(remaining). *)

Decided == {r \in remaining : \A d \in deps[r] : results[d] # "none"}

\* Mutants: any() for all(), with and without the case of no dependency.
MayRun_AnyReady ==
    {r \in Decided : deps[r] = {} \/ \E d \in deps[r] : results[d] = "ready"}
MayRun_NoRoots == {r \in Decided : \E d \in deps[r] : results[d] = "ready"}

MayRun == {r \in Decided : override \/ \A d \in deps[r] : results[d] = "ready"}

MustBlock == Decided \ MayRun

MarkBlocked ==
    /\ results' = [r \in Resource |-> IF r \in MustBlock THEN "blocked" ELSE results[r]]
    /\ remaining' = remaining \ MustBlock

(* Something may run: block what must be, create the tasks, and gather. *)
Dispatch ==
    /\ pc = "pass" /\ MayRun # {}
    /\ MarkBlocked
    /\ readyIds' = MayRun
    /\ task' = [r \in Resource |-> IF r \in MayRun THEN "queued" ELSE task[r]]
    /\ pc' = "gather"
    /\ UNCHANGED <<deps, override>>

\* Mutant: break instead of continue.
BlockOnly_Break ==
    /\ pc = "pass" /\ MayRun = {} /\ MustBlock # {}
    /\ MarkBlocked
    /\ pc' = "done"
    /\ UNCHANGED <<deps, override, readyIds, task>>

(* Nothing may run but something was blocked: go round again. *)
BlockOnly ==
    /\ pc = "pass" /\ MayRun = {} /\ MustBlock # {}
    /\ MarkBlocked
    /\ readyIds' = {}
    /\ UNCHANGED <<deps, override, task, pc>>

(* Neither: RuntimeError("Scheduler stalled ..."). *)
Stall ==
    /\ pc = "pass" /\ remaining # {} /\ Decided = {}
    /\ pc' = "stalled"
    /\ readyIds' = {}
    /\ UNCHANGED <<deps, override, remaining, results, task>>

(* The while condition is false: return results. *)
Return ==
    /\ pc = "pass" /\ remaining = {}
    /\ pc' = "done"
    /\ UNCHANGED <<deps, override, remaining, results, readyIds, task>>

------------------------------------------------------------------------------
(* The tasks of the current gather. *)

\* Mutant: no semaphore.
Start_Unbounded(r) ==
    /\ pc \in {"gather", "aborting"}
    /\ task[r] = "queued"
    /\ task' = [task EXCEPT ![r] = "running"]
    /\ UNCHANGED <<deps, override, remaining, results, readyIds, pc>>

(* run_one acquires the semaphore, whose waiters are served in the order   *)
(* they came, which is that of sorted(remaining).                          *)
Start(r) ==
    /\ pc \in {"gather", "aborting"}
    /\ task[r] = "queued"
    /\ \A q \in InTask("queued") : r <= q
    /\ Cardinality(InTask("running")) < Limit
    /\ task' = [task EXCEPT ![r] = "running"]
    /\ UNCHANGED <<deps, override, remaining, results, readyIds, pc>>

\* Mutant: the status is not stored.
Finish_Lost(r, s) ==
    /\ pc \in {"gather", "aborting"}
    /\ task[r] = "running"
    /\ task' = [task EXCEPT ![r] = "ended"]
    /\ UNCHANGED <<deps, override, remaining, results, readyIds, pc>>

(* run_resource returns s. *)
Finish(r, s) ==
    /\ pc \in {"gather", "aborting"}
    /\ task[r] = "running"
    /\ results' = [results EXCEPT ![r] = s]
    /\ task' = [task EXCEPT ![r] = "ended"]
    /\ UNCHANGED <<deps, override, remaining, readyIds, pc>>

\* Mutant: gather(return_exceptions=True), the exception kept as a result.
Raise_Collected(r) ==
    /\ pc \in {"gather", "aborting"}
    /\ task[r] = "running"
    /\ results' = [results EXCEPT ![r] = "raised"]
    /\ task' = [task EXCEPT ![r] = "ended"]
    /\ UNCHANGED <<deps, override, remaining, readyIds, pc>>

(* run_resource raises: gather passes the first exception on at once. *)
Raise(r) ==
    /\ pc \in {"gather", "aborting"}
    /\ task[r] = "running"
    /\ task' = [task EXCEPT ![r] = "dead"]
    /\ pc' = "aborting"
    /\ UNCHANGED <<deps, override, remaining, results, readyIds>>

\* Mutants: nothing leaves remaining; the wait ends with the first task.
Gathered_Forgets ==
    /\ pc = "gather"
    /\ \A r \in readyIds : task[r] = "ended"
    /\ pc' = "pass"
    /\ UNCHANGED <<deps, override, remaining, results, readyIds, task>>
Gathered_First ==
    /\ pc = "gather"
    /\ \E r \in readyIds : task[r] = "ended"
    /\ remaining' = remaining \ readyIds
    /\ pc' = "pass"
    /\ UNCHANGED <<deps, override, results, readyIds, task>>

(* gather returns: every task of the pass has ended. *)
Gathered ==
    /\ pc = "gather"
    /\ \A r \in readyIds : task[r] = "ended"
    /\ remaining' = remaining \ readyIds
    /\ pc' = "pass"
    /\ UNCHANGED <<deps, override, results, readyIds, task>>

(* Ctrl-C: asyncio.run cancels the main task, hence the gather. *)
Interrupt ==
    /\ pc = "gather"
    /\ pc' = "aborting"
    /\ UNCHANGED <<deps, override, remaining, results, readyIds, task>>

(* asyncio.run cancels a task that is still there; no result is recorded. *)
Cancel(r) ==
    /\ pc = "aborting"
    /\ task[r] \in {"queued", "running"}
    /\ task' = [task EXCEPT ![r] = "dead"]
    /\ UNCHANGED <<deps, override, remaining, results, readyIds, pc>>

(* All tasks are gone: the exception leaves asyncio.run. *)
Unwound ==
    /\ pc = "aborting"
    /\ InTask("queued") \cup InTask("running") = {}
    /\ pc' = "aborted"
    /\ UNCHANGED <<deps, override, remaining, results, readyIds, task>>

Ended == pc \in {"done", "stalled", "aborted"}

(* A step of run_scheduled itself, and of one of its tasks. *)
MainStep ==
    \/ Dispatch
    \/ BlockOnly
    \/ Stall
    \/ Return
    \/ Gathered
    \/ Unwound

TaskStep(r) ==
    \/ Start(r)
    \/ \E s \in {"ready", "failed"} : Finish(r, s)
    \/ Raise(r)
    \/ Cancel(r)

Next ==
    \/ MainStep
    \/ \E r \in Resource : TaskStep(r)
    \/ Interrupt

Spec == Init /\ [][Next]_vars

(* The event loop never idles while a task can move, and run_resource      *)
(* always comes back: each of its attempts runs under wait_for and their   *)
(* number is bounded.                                                      *)
FairSpec == Spec /\ WF_vars(Next)

------------------------------------------------------------------------------
(* Properties. *)

(* How the locals of run_scheduled hang together: a task has ended exactly *)
(* when it left a result; what left remaining has a result and no live     *)
(* task; what is still in remaining was not blocked and has a task only if *)
(* the current gather waits for it; a task dies only in a launch that is   *)
(* aborting.                                                               *)
Bookkeeping ==
    /\ \A r \in Resource :
          /\ task[r] = "ended" <=> results[r] \in {"ready", "failed"}
          /\ r \notin remaining => results[r] # "none" /\ task[r] \in {"idle", "ended"}
          /\ r \in remaining => results[r] # "blocked"
          /\ r \in remaining /\ task[r] # "idle" =>
                r \in readyIds /\ pc \in {"gather", "aborting", "aborted"}
          /\ task[r] = "dead" => pc \in {"aborting", "aborted"}
    /\ pc \in {"gather", "aborting", "aborted"} =>
          readyIds \subseteq {r \in remaining : task[r] # "idle"}
    /\ pc = "aborted" => InTask("queued") \cup InTask("running") = {}
    /\ pc = "done" => remaining = {}

(* A task exists only for a resource all of whose dependencies became      *)
(* ready, or merely ended under continue_on_dependency_failure; whatever   *)
(* happens to the launch afterwards.                                       *)
DependenciesFirst ==
    \A r \in Resource : task[r] # "idle" =>
        \A d \in deps[r] : \/ results[d] = "ready"
                           \/ override /\ results[d] # "none"

(* A resource is blocked only without the override, with a dependency that *)
(* failed or is blocked, and it was never given a task.                    *)
BlockedForCause ==
    \A r \in Resource : results[r] = "blocked" =>
        /\ ~override
        /\ task[r] = "idle"
        /\ \E d \in deps[r] : results[d] \in {"failed", "blocked"}

(* Blocking starts from a real failure: with no failed resource, nothing   *)
(* is blocked.  _aggregate_status reports FAILED on the strength of it.    *)
BlockedNeedsFailure ==
    (\E r \in Resource : results[r] = "blocked")
        => \E r \in Resource : results[r] = "failed"

(* At most max(1, concurrency) resources are inside run_resource, also     *)
(* while a failed launch unwinds.                                          *)
ConcurrencyBound == Cardinality(InTask("running")) <= Limit

(* When run_scheduled returns, every resource has an entry, no task is     *)
(* left, and the entry is BLOCKED exactly for those that could not run.    *)
ReturnIsComplete ==
    pc = "done" => \A r \in Resource :
        /\ results[r] # "none"
        /\ task[r] \in {"idle", "ended"}
        /\ results[r] = "blocked" <=>
               ~override /\ \E d \in deps[r] : results[d] # "ready"

(* The RuntimeError is raised for no acyclic graph ... *)
NoStall == Acyclic(deps) => pc # "stalled"

(* ... and only over resources that wait for each other. *)
StallMeansCycle ==
    pc = "stalled" => /\ remaining # {}
                      /\ \A r \in remaining : deps[r] \cap remaining # {}

(* The entry of a resource is written once, and once run_scheduled is out  *)
(* nothing changes any more.                                               *)
ResultsAreFinal ==
    [][/\ \A r \in Resource : results[r] # "none" => results'[r] = results[r]
       /\ Ended => UNCHANGED <<results, task>>]_vars

------------------------------------------------------------------------------
(* The abstract order of a launch, which run_scheduled implements. *)

MappedStatus ==
    [r \in Resource |->
       IF results[r] # "none" THEN results[r]
       ELSE IF task[r] = "running" THEN "running"
       ELSE IF task[r] = "dead" THEN "cancelled"
       ELSE "waiting"]

MappedOutcome ==
    IF pc = "done" THEN "complete"
    ELSE IF pc \in {"stalled", "aborted"} THEN "aborted"
    ELSE "open"

Order == INSTANCE LaunchOrder WITH status <- MappedStatus, outcome <- MappedOutcome

(* run_scheduled's steps are steps of LaunchOrder. *)
ImplementsOrder == Order!OrderSpec

(* And it ends: by returning, by the RuntimeError or by unwinding. *)
Terminates == Order!OrderEnds
==============================================================================
