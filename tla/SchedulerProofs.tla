--------------------------- MODULE SchedulerProofs ---------------------------
(***************************************************************************)
(* Theorems about run_scheduled, for every finite set of resources, every  *)
(* set of dependency graphs over it, every concurrency and both settings   *)
(* of continue_on_dependency_failure.                                      *)
(*                                                                         *)
(* The inductive invariant is the type, the bookkeeping of the locals and  *)
(* the safety invariants together; each has a lemma that a step preserves  *)
(* it, which names the others it needs.                                    *)
(***************************************************************************)
EXTENDS Scheduler, FiniteSetTheorems, TLAPS

IInv ==
    /\ TypeOK
    /\ Bookkeeping
    /\ DependenciesFirst
    /\ BlockedForCause
    /\ BlockedNeedsFailure
    /\ StallMeansCycle
    /\ ConcurrencyBound

------------------------------------------------------------------------------

(* The graph in use maps each resource to resources. *)
LEMMA DepsType ==
    ASSUME TypeOK, NEW r \in Resource
    PROVE  deps[r] \subseteq Resource
BY GraphAssumption DEF TypeOK

(* What a pass decides lies in remaining. *)
LEMMA PassSets ==
    ASSUME TypeOK
    PROVE  /\ MayRun \subseteq remaining
           /\ MustBlock \subseteq remaining
           /\ MayRun \cap MustBlock = {}
BY DEF TypeOK, MayRun, MustBlock, Decided

(* Every action of the scheduler respects the types. *)
LEMMA TypeStep ==
    ASSUME TypeOK, [Next]_vars
    PROVE  TypeOK'
<1>1. CASE Dispatch
  BY <1>1, PassSets DEF TypeOK, Dispatch, MarkBlocked
<1>2. CASE BlockOnly
  BY <1>2, PassSets DEF TypeOK, BlockOnly, MarkBlocked
<1>3. CASE Stall
  BY <1>3 DEF TypeOK, Stall
<1>4. CASE Return
  BY <1>4 DEF TypeOK, Return
<1>5. ASSUME NEW r \in Resource, TaskStep(r)
      PROVE  TypeOK'
  BY <1>5 DEF TypeOK, TaskStep, Start, Finish, Raise, Cancel
<1>6. CASE Gathered
  BY <1>6 DEF TypeOK, Gathered
<1>7. CASE Interrupt
  BY <1>7 DEF TypeOK, Interrupt
<1>8. CASE Unwound
  BY <1>8 DEF TypeOK, Unwound
<1>9. CASE UNCHANGED vars
  BY <1>9 DEF TypeOK, vars
<1>10. QED
  BY <1>1, <1>2, <1>3, <1>4, <1>5, <1>6, <1>7, <1>8, <1>9 DEF Next, MainStep

(* A result that is there stays, and is of the same kind after any step.   *)
(* The entries a pass adds are new ones, all "blocked".                    *)
LEMMA ResultsStay ==
    ASSUME TypeOK, Bookkeeping, [Next]_vars, NEW r \in Resource, results[r] # "none"
    PROVE  results'[r] = results[r]
<1>1. CASE Dispatch \/ BlockOnly
  <2>1. pc = "pass"
    BY <1>1 DEF Dispatch, BlockOnly
  <2>2. r \notin remaining
    BY <2>1 DEF Bookkeeping, TypeOK
  <2>3. r \notin MustBlock
    BY <2>2, PassSets
  <2>4. QED
    BY <1>1, <2>3 DEF Dispatch, BlockOnly, MarkBlocked
<1>2. ASSUME NEW q \in Resource, TaskStep(q)
      PROVE  results'[r] = results[r]
  BY <1>2 DEF TaskStep, Start, Finish, Raise, Cancel, TypeOK, Bookkeeping
<1>3. CASE Stall \/ Return \/ Gathered \/ Interrupt \/ Unwound \/ UNCHANGED vars
  BY <1>3 DEF Stall, Return, Gathered, Interrupt, Unwound, vars
<1>4. QED
  BY <1>1, <1>2, <1>3 DEF Next, MainStep

(* The locals of run_scheduled stay consistent. *)
LEMMA BookkeepingStep ==
    ASSUME TypeOK, Bookkeeping, [Next]_vars
    PROVE  Bookkeeping'
<1>1. CASE Dispatch
  <2>1. \A r \in remaining : task[r] = "idle" /\ results[r] = "none"
    BY <1>1 DEF Dispatch, Bookkeeping, TypeOK
  <2>2. QED
    BY <1>1, <2>1, PassSets DEF TypeOK, Dispatch, MarkBlocked, Bookkeeping
<1>2. CASE BlockOnly
  <2>1. \A r \in remaining : task[r] = "idle" /\ results[r] = "none"
    BY <1>2 DEF BlockOnly, Bookkeeping, TypeOK
  <2>2. QED
    BY <1>2, <2>1, PassSets DEF TypeOK, BlockOnly, MarkBlocked, Bookkeeping
<1>3. CASE Stall
  BY <1>3 DEF TypeOK, Stall, Bookkeeping
<1>4. CASE Return
  BY <1>4 DEF TypeOK, Return, Bookkeeping
<1>5. ASSUME NEW r \in Resource, TaskStep(r)
      PROVE  Bookkeeping'
  <2>1. CASE Start(r)
    BY <2>1 DEF TypeOK, Start, Bookkeeping, InTask
  <2>2. ASSUME NEW s \in {"ready", "failed"}, Finish(r, s)
        PROVE  Bookkeeping'
    BY <2>2 DEF TypeOK, Finish, Bookkeeping, InTask
  <2>3. CASE Raise(r)
    BY <2>3 DEF TypeOK, Raise, Bookkeeping, InTask
  <2>4. CASE Cancel(r)
    BY <2>4 DEF TypeOK, Cancel, Bookkeeping, InTask
  <2>5. QED
    BY <1>5, <2>1, <2>2, <2>3, <2>4 DEF TaskStep
<1>6. CASE Gathered
  BY <1>6 DEF TypeOK, Gathered, Bookkeeping
<1>7. CASE Interrupt
  BY <1>7 DEF TypeOK, Interrupt, Bookkeeping
<1>8. CASE Unwound
  BY <1>8 DEF TypeOK, Unwound, Bookkeeping, InTask
<1>9. CASE UNCHANGED vars
  BY <1>9 DEF Bookkeeping, vars, InTask
<1>10. QED
  BY <1>1, <1>2, <1>3, <1>4, <1>5, <1>6, <1>7, <1>8, <1>9 DEF Next, MainStep

(* The graph never changes, and a task appears only in a pass that found   *)
(* its dependencies in order.                                              *)
LEMMA TasksAppear ==
    ASSUME TypeOK, [Next]_vars
    PROVE  /\ deps' = deps /\ override' = override
           /\ \A r \in Resource : task[r] = "idle" /\ task'[r] # "idle" => r \in MayRun
<1>1. CASE Dispatch
  BY <1>1 DEF Dispatch
<1>2. ASSUME NEW q \in Resource, TaskStep(q)
      PROVE  /\ deps' = deps /\ override' = override
             /\ \A r \in Resource : task[r] = "idle" => task'[r] = "idle"
  BY <1>2 DEF TaskStep, Start, Finish, Raise, Cancel, TypeOK
<1>3. CASE BlockOnly \/ Stall \/ Return \/ Gathered \/ Interrupt \/ Unwound \/ UNCHANGED vars
  BY <1>3 DEF BlockOnly, Stall, Return, Gathered, Interrupt, Unwound, vars
<1>4. QED
  BY <1>1, <1>2, <1>3 DEF Next, MainStep

(* No step gives a task to a resource whose dependencies do not allow it. *)
LEMMA DependenciesStep ==
    ASSUME TypeOK, Bookkeeping, DependenciesFirst, [Next]_vars
    PROVE  DependenciesFirst'
<1> SUFFICES ASSUME NEW r \in Resource, task'[r] # "idle", NEW d \in deps[r]
             PROVE  results'[d] = "ready" \/ (override' /\ results'[d] # "none")
  BY TasksAppear DEF DependenciesFirst
<1>1. d \in Resource
  BY DepsType
<1>2. results[d] = "ready" \/ (override /\ results[d] # "none")
  <2>1. CASE task[r] # "idle"
    BY <2>1 DEF DependenciesFirst
  <2>2. CASE task[r] = "idle"
    BY <2>2, TasksAppear DEF MayRun, Decided
  <2>3. QED
    BY <2>1, <2>2
<1>3. results'[d] = results[d]
  BY <1>1, <1>2, ResultsStay
<1>4. QED
  BY <1>2, <1>3, TasksAppear

(* An entry that a step turns into "blocked" is one the pass decided. *)
LEMMA BlocksAppear ==
    ASSUME TypeOK, [Next]_vars,
           NEW r \in Resource, results[r] # "blocked", results'[r] = "blocked"
    PROVE  r \in MustBlock /\ task'[r] = task[r]
<1>1. CASE Dispatch
  <2>1. r \in MustBlock
    BY <1>1 DEF Dispatch, MarkBlocked
  <2>2. r \notin MayRun
    BY <2>1, PassSets
  <2>3. QED
    BY <1>1, <2>1, <2>2 DEF Dispatch
<1>2. CASE BlockOnly
  BY <1>2 DEF BlockOnly, MarkBlocked
<1>3. ASSUME NEW q \in Resource, TaskStep(q)
      PROVE  results'[r] # "blocked"
  BY <1>3 DEF TaskStep, Start, Finish, Raise, Cancel, TypeOK
<1>4. CASE Stall \/ Return \/ Gathered \/ Interrupt \/ Unwound \/ UNCHANGED vars
  BY <1>4 DEF Stall, Return, Gathered, Interrupt, Unwound, vars
<1>5. QED
  BY <1>1, <1>2, <1>3, <1>4 DEF Next, MainStep

(* What a pass blocks has a dependency that failed or is blocked. *)
LEMMA BlockCause ==
    ASSUME TypeOK, NEW r \in MustBlock
    PROVE  ~override /\ \E d \in deps[r] : results[d] \in {"failed", "blocked"}
<1>1. r \in Resource /\ r \in Decided /\ r \notin MayRun
  BY DEF MustBlock, Decided, TypeOK
<1>2. ~override
  BY <1>1 DEF MayRun
<1>3. PICK d \in deps[r] : results[d] # "ready"
  BY <1>1 DEF MayRun
<1>4. results[d] # "none"
  BY <1>1 DEF Decided
<1>5. results[d] \in {"none", "ready", "failed", "blocked"}
  BY <1>1, DepsType DEF TypeOK
<1>6. QED
  BY <1>2, <1>3, <1>4, <1>5

(* Blocking keeps its cause, and its first cause. *)
LEMMA BlockedStep ==
    ASSUME TypeOK, Bookkeeping, BlockedForCause, BlockedNeedsFailure, [Next]_vars
    PROVE  BlockedForCause' /\ BlockedNeedsFailure'
<1>1. ASSUME NEW r \in Resource, results'[r] = "blocked"
      PROVE  /\ ~override
             /\ task'[r] = "idle"
             /\ \E d \in deps[r] : results[d] \in {"failed", "blocked"}
  <2>1. CASE results[r] = "blocked"
    <3>1. task[r] = "idle" /\ r \notin remaining
      BY <2>1 DEF BlockedForCause, Bookkeeping
    <3>2. task'[r] = "idle"
      BY <3>1, TasksAppear, PassSets
    <3>3. QED
      BY <2>1, <3>2 DEF BlockedForCause
  <2>2. CASE results[r] # "blocked"
    <3>1. r \in MustBlock /\ task'[r] = task[r]
      BY <1>1, <2>2, BlocksAppear
    <3>2. pc = "pass" /\ r \in remaining
      <4>1. Dispatch \/ BlockOnly
        <5>1. ASSUME NEW q \in Resource, TaskStep(q)
              PROVE  results'[r] # "blocked"
          BY <2>2, <5>1 DEF TaskStep, Start, Finish, Raise, Cancel, TypeOK
        <5>2. CASE Stall \/ Return \/ Gathered \/ Interrupt \/ Unwound \/ UNCHANGED vars
          BY <1>1, <2>2, <5>2 DEF Stall, Return, Gathered, Interrupt, Unwound, vars
        <5>3. QED
          BY <1>1, <5>1, <5>2 DEF Next, MainStep
      <4>2. QED
        BY <3>1, <4>1, PassSets DEF Dispatch, BlockOnly
    <3>3. task[r] = "idle"
      BY <3>2 DEF Bookkeeping
    <3>4. QED
      BY <3>1, <3>3, BlockCause
  <2>3. QED
    BY <2>1, <2>2
<1>2. \A r \in Resource : \A d \in deps[r] :
        results[d] \in {"failed", "blocked"} => results'[d] = results[d]
  BY DepsType, ResultsStay
<1>3. BlockedForCause'
  BY <1>1, <1>2, TasksAppear DEF BlockedForCause
<1>4. BlockedNeedsFailure'
  <2> SUFFICES ASSUME NEW r \in Resource, results'[r] = "blocked"
               PROVE  \E q \in Resource : results'[q] = "failed"
    BY DEF BlockedNeedsFailure
  <2>1. PICK d \in deps[r] : results[d] \in {"failed", "blocked"}
    BY <1>1
  <2>2. d \in Resource
    BY DepsType
  <2>3. PICK q \in Resource : results[q] = "failed"
    BY <2>1, <2>2 DEF BlockedNeedsFailure
  <2>4. QED
    BY <2>3, ResultsStay
<1>5. QED
  BY <1>3, <1>4

(* The scheduler gives up only on resources that wait for each other. *)
LEMMA StallStep ==
    ASSUME TypeOK, Bookkeeping, StallMeansCycle, [Next]_vars
    PROVE  StallMeansCycle'
<1>1. CASE Stall
  <2>1. ASSUME NEW r \in remaining
        PROVE  deps[r] \cap remaining # {}
    <3>1. r \in Resource /\ r \notin Decided
      BY <1>1 DEF Stall, TypeOK
    <3>2. PICK d \in deps[r] : results[d] = "none"
      BY <3>1 DEF Decided
    <3>3. d \in remaining
      BY <3>1, <3>2, DepsType DEF Bookkeeping
    <3>4. QED
      BY <3>3
  <2>2. QED
    BY <1>1, <2>1 DEF Stall, StallMeansCycle
<1>2. CASE Dispatch \/ BlockOnly \/ Return \/ Gathered \/ Interrupt \/ Unwound
  BY <1>2 DEF Dispatch, BlockOnly, Return, Gathered, Interrupt, Unwound, StallMeansCycle
<1>3. ASSUME NEW q \in Resource, TaskStep(q)
      PROVE  StallMeansCycle'
  BY <1>3 DEF TaskStep, Start, Finish, Raise, Cancel, StallMeansCycle
<1>4. CASE UNCHANGED vars
  BY <1>4 DEF vars, StallMeansCycle
<1>5. QED
  BY <1>1, <1>2, <1>3, <1>4 DEF Next, MainStep

(* The permits of the semaphore are enough for the tasks that run. *)
LEMMA BoundStep ==
    ASSUME TypeOK, Bookkeeping, ConcurrencyBound, [Next]_vars
    PROVE  ConcurrencyBound'
<1> DEFINE Running == InTask("running")
<1>1. IsFiniteSet(Running) /\ IsFiniteSet(Running') /\ Cardinality(Running) \in Nat
  <2>1. Running \in SUBSET Resource /\ Running' \in SUBSET Resource
    BY DEF InTask
  <2>2. QED
    BY <2>1, ResourceAssumption, FS_Subset, FS_CardinalityType
<1>2. Limit \in Nat
  BY ConcurrencyAssumption DEF Limit
<1>3. ASSUME NEW r \in Resource, Start(r)
      PROVE  ConcurrencyBound'
  <2>1. Running' = Running \cup {r}
    BY <1>3 DEF Start, InTask, TypeOK
  <2>2. r \notin Running
    BY <1>3 DEF Start, InTask
  <2>3. Cardinality(Running') = Cardinality(Running) + 1
    BY <1>1, <2>1, <2>2, FS_AddElement
  <2>4. Cardinality(Running) < Limit
    BY <1>3 DEF Start
  <2>5. Cardinality(Running') <= Limit
    BY <1>1, <1>2, <2>3, <2>4
  <2>6. QED
    BY <2>5 DEF ConcurrencyBound, InTask, Limit
<1>4. ASSUME Running' \subseteq Running
      PROVE  ConcurrencyBound'
  <2>1. Cardinality(Running') <= Cardinality(Running) /\ Cardinality(Running') \in Nat
    BY <1>1, <1>4, FS_Subset, FS_CardinalityType
  <2>2. Cardinality(Running') <= Limit
    BY <1>1, <1>2, <2>1 DEF ConcurrencyBound
  <2>3. QED
    BY <2>2 DEF ConcurrencyBound, InTask, Limit
<1>5. ASSUME NEW r \in Resource, TaskStep(r), ~Start(r)
      PROVE  Running' \subseteq Running
  BY <1>5 DEF TaskStep, Finish, Raise, Cancel, InTask, TypeOK
<1>6. ASSUME Dispatch
      PROVE  Running' \subseteq Running
  BY <1>6 DEF Dispatch, InTask
<1>7. ASSUME BlockOnly \/ Stall \/ Return \/ Gathered \/ Interrupt \/ Unwound \/ UNCHANGED vars
      PROVE  Running' \subseteq Running
  BY <1>7 DEF BlockOnly, Stall, Return, Gathered, Interrupt, Unwound, vars, InTask
<1>8. QED
  <2>1. Running' \subseteq Running => ConcurrencyBound'
    BY <1>4
  <2> HIDE DEF Running
  <2>2. QED
    BY <2>1, <1>3, <1>5, <1>6, <1>7 DEF Next, MainStep

------------------------------------------------------------------------------

(* A step preserves their conjunction ... *)
LEMMA InductiveStep ==
    ASSUME IInv, [Next]_vars
    PROVE  IInv'
BY TypeStep, BookkeepingStep, DependenciesStep, BlockedStep, StallStep, BoundStep DEF IInv

(* ... which holds initially ... *)
LEMMA InitIInv ==
    ASSUME Init
    PROVE  IInv
<1>1. TypeOK
  BY DEF Init, TypeOK
<1>2. Bookkeeping /\ DependenciesFirst /\ BlockedForCause /\ BlockedNeedsFailure /\ StallMeansCycle
  BY DEF Init, Bookkeeping, DependenciesFirst, BlockedForCause, BlockedNeedsFailure,
         StallMeansCycle, InTask
<1>3. ConcurrencyBound
  <2>1. InTask("running") = {}
    BY DEF Init, InTask
  <2>2. Limit \in Nat /\ 0 <= Limit
    BY ConcurrencyAssumption DEF Limit
  <2>3. QED
    BY <2>1, <2>2, FS_EmptySet DEF ConcurrencyBound
<1>4. QED
  BY <1>1, <1>2, <1>3 DEF IInv

(* ... and is therefore an invariant. *)
THEOREM Inductive == Spec => []IInv
BY InitIInv, InductiveStep, PTL DEF Spec

(* The values of the locals have the types the code gives them. *)
THEOREM TypeCorrect == Spec => []TypeOK
BY Inductive, PTL DEF IInv

(* A task is only ever created once the dependencies allow it, for any     *)
(* graph and also in a launch that is being aborted.                       *)
THEOREM DependenciesComeFirst == Spec => []DependenciesFirst
BY Inductive, PTL DEF IInv

(* At most max(1, concurrency) resources run at once. *)
THEOREM ConcurrencyIsBounded == Spec => []ConcurrencyBound
BY Inductive, PTL DEF IInv

(* A resource is blocked for a cause, and only if some resource failed. *)
THEOREM BlockedIsCaused == Spec => [](BlockedForCause /\ BlockedNeedsFailure)
BY Inductive, PTL DEF IInv

(* For an acyclic graph the RuntimeError of the scheduler is never raised. *)
THEOREM NeverStalls == Spec => []NoStall
<1>1. IInv => NoStall
  <2> SUFFICES ASSUME IInv, Acyclic(deps), pc = "stalled"
               PROVE  FALSE
    BY DEF NoStall
  <2>1. remaining # {} /\ \A r \in remaining : deps[r] \cap remaining # {}
    BY DEF IInv, StallMeansCycle
  <2>2. remaining \in SUBSET Resource
    BY DEF IInv, TypeOK
  <2>3. QED
    BY <2>1, <2>2 DEF Acyclic
<1>2. QED
  BY <1>1, Inductive, PTL

(* When run_scheduled returns, its result has an entry for every resource, *)
(* and "blocked" is the entry of exactly those that could not run.         *)
THEOREM ReturnsComplete == Spec => []ReturnIsComplete
<1>1. IInv => ReturnIsComplete
  <2> SUFFICES ASSUME IInv, pc = "done", NEW r \in Resource
               PROVE  /\ results[r] # "none"
                      /\ task[r] \in {"idle", "ended"}
                      /\ results[r] = "blocked" <=>
                            ~override /\ \E d \in deps[r] : results[d] # "ready"
    BY DEF ReturnIsComplete
  <2>1. results[r] # "none" /\ task[r] \in {"idle", "ended"}
    BY DEF IInv, Bookkeeping
  <2>2. results[r] = "blocked" =>
           ~override /\ \E d \in deps[r] : results[d] # "ready"
    BY DEF IInv, BlockedForCause
  <2>3. ASSUME results[r] # "blocked", ~override
        PROVE  \A d \in deps[r] : results[d] = "ready"
    <3>1. task[r] = "ended"
      BY <2>1, <2>3 DEF IInv, Bookkeeping, TypeOK
    <3>2. QED
      BY <2>3, <3>1 DEF IInv, DependenciesFirst
  <2>4. QED
    BY <2>1, <2>2, <2>3
<1>2. QED
  BY <1>1, Inductive, PTL

(* An entry is written once, and nothing moves after the end. *)
THEOREM ResultsNeverChange == Spec => ResultsAreFinal
<1> DEFINE Final == /\ \A r \in Resource : results[r] # "none" => results'[r] = results[r]
                    /\ Ended => UNCHANGED <<results, task>>
<1>1. IInv /\ [Next]_vars => Final
  <2> SUFFICES ASSUME IInv, [Next]_vars PROVE Final
    OBVIOUS
  <2>1. \A r \in Resource : results[r] # "none" => results'[r] = results[r]
    BY ResultsStay DEF IInv
  <2>2. Ended => UNCHANGED <<results, task>>
    BY DEF Ended, Next, MainStep, Dispatch, BlockOnly, Stall, Return, TaskStep, Start, Finish, Raise,
           Cancel, Gathered, Interrupt, Unwound, vars
  <2>3. QED
    BY <2>1, <2>2
<1>2. IInv /\ [Next]_vars => [Final]_vars
  BY <1>1
<1> HIDE DEF Final
<1>3. Spec => [][Final]_vars
  BY <1>2, Inductive, PTL DEF Spec
<1>4. QED
  BY <1>3 DEF ResultsAreFinal, Final

------------------------------------------------------------------------------
(* run_scheduled implements LaunchOrder. *)

(* A step that leaves the mapped state alone is a stutter. *)
LEMMA Stutter ==
    ASSUME deps' = deps, override' = override,
           MappedStatus' = MappedStatus, MappedOutcome' = MappedOutcome
    PROVE  [Order!OrderNext]_(Order!orderVars)
BY DEF Order!orderVars, MappedStatus, MappedOutcome

(* The abstract launch runs the resources whose task is running. *)
LEMMA MappedRunning ==
    ASSUME IInv
    PROVE  Order!InState("running") = InTask("running")
BY DEF IInv, TypeOK, Bookkeeping, Order!InState, InTask, MappedStatus

(* The instance of LaunchOrder counts the way this module does. *)
LEMMA SameCardinality ==
    ASSUME NEW S
    PROVE  Order!Cardinality(S) = Cardinality(S)
BY DEF Order!Cardinality, Cardinality

(* A pass blocks a set of resources, each with a cause, and touches nothing *)
(* else that the abstract order sees.                                       *)
LEMMA PassMaps ==
    ASSUME IInv, pc = "pass", pc' \in {"pass", "gather"}, MarkBlocked,
           deps' = deps, override' = override,
           \A r \in Resource : task'[r] = task[r] \/ (r \in MayRun /\ task'[r] = "queued")
    PROVE  [Order!OrderNext]_(Order!orderVars)
<1>1. MustBlock \subseteq Resource /\ \A r \in remaining : task[r] = "idle" /\ results[r] = "none"
  BY PassSets DEF IInv, TypeOK, Bookkeeping
<1>2. MappedStatus' = [r \in Resource |-> IF r \in MustBlock THEN "blocked" ELSE MappedStatus[r]]
  BY <1>1, PassSets DEF IInv, TypeOK, MappedStatus, MarkBlocked
<1>3. MappedOutcome = "open" /\ MappedOutcome' = "open"
  BY DEF MappedOutcome
<1>4. CASE MustBlock = {}
  BY <1>2, <1>3, <1>4, Stutter DEF MappedStatus
<1>5. CASE MustBlock # {}
  <2>1. ~override
    BY <1>5, BlockCause DEF IInv
  <2>2. \A r \in MustBlock : MappedStatus[r] = "waiting"
    BY <1>1, PassSets DEF MappedStatus, IInv
  <2>3. \A r \in MustBlock : \E d \in deps[r] : MappedStatus[d] \in {"failed", "blocked"}
    BY <1>1, BlockCause, DepsType DEF MappedStatus, IInv
  <2>4. PICK B \in SUBSET Resource : B = MustBlock
    BY <1>1
  <2>5. Order!OrderBlock(B)
    BY <1>2, <1>3, <2>1, <2>2, <2>3, <2>4 DEF Order!OrderBlock, MappedStatus, MappedOutcome
  <2>6. QED
    BY <2>5 DEF Order!OrderNext
<1>6. QED
  BY <1>4, <1>5

(* A step of one task is a start, an end or a cancellation. *)
LEMMA TaskMaps ==
    ASSUME IInv, NEW r \in Resource, TaskStep(r)
    PROVE  [Order!OrderNext]_(Order!orderVars)
<1>1. CASE Start(r)
  <2>1. results[r] = "none"
    BY <1>1 DEF Start, IInv, TypeOK, Bookkeeping
  <2>2. MappedStatus[r] = "waiting" /\ MappedStatus' = [MappedStatus EXCEPT ![r] = "running"]
    BY <1>1, <2>1 DEF Start, MappedStatus, IInv, TypeOK
  <2>3. MappedOutcome = "open" /\ MappedOutcome' = "open"
    BY <1>1 DEF Start, MappedOutcome
  <2>4. \A d \in deps[r] : MappedStatus[d] = "ready"
                           \/ (override /\ MappedStatus[d] \in {"ready", "failed", "blocked"})
    BY <1>1, DepsType DEF Start, IInv, TypeOK, DependenciesFirst, MappedStatus
  <2>5. Order!Admissible(r)
    BY <2>4 DEF Order!Admissible, Order!Settled, MappedStatus
  <2>6. Order!Cardinality(Order!InState("running")) < Limit
    BY <1>1, MappedRunning, SameCardinality DEF Start
  <2>7. Order!OrderStart(r)
    BY <1>1, <2>2, <2>3, <2>5, <2>6 DEF Order!OrderStart, MappedStatus, MappedOutcome, Start
  <2>8. QED
    BY <2>7 DEF Order!OrderNext
<1>2. ASSUME NEW s \in {"ready", "failed"}, Finish(r, s)
      PROVE  [Order!OrderNext]_(Order!orderVars)
  <2>1. results[r] = "none"
    BY <1>2 DEF Finish, IInv, TypeOK, Bookkeeping
  <2>2. MappedStatus[r] = "running" /\ MappedStatus' = [MappedStatus EXCEPT ![r] = s]
    BY <1>2, <2>1 DEF Finish, MappedStatus, IInv, TypeOK
  <2>3. MappedOutcome = "open" /\ MappedOutcome' = "open"
    BY <1>2 DEF Finish, MappedOutcome
  <2>4. Order!OrderFinish(r, s)
    BY <1>2, <2>2, <2>3 DEF Order!OrderFinish, MappedStatus, MappedOutcome, Finish
  <2>5. QED
    BY <2>4 DEF Order!OrderNext
<1>3. CASE Raise(r) \/ Cancel(r)
  <2>1. results[r] = "none"
    BY <1>3 DEF Raise, Cancel, IInv, TypeOK, Bookkeeping
  <2>2. /\ MappedStatus[r] \in {"waiting", "running"}
        /\ MappedStatus' = [MappedStatus EXCEPT ![r] = "cancelled"]
    BY <1>3, <2>1 DEF Raise, Cancel, MappedStatus, IInv, TypeOK
  <2>3. MappedOutcome = "open" /\ MappedOutcome' = "open"
    BY <1>3 DEF Raise, Cancel, MappedOutcome
  <2>4. Order!OrderCancel(r)
    BY <1>3, <2>2, <2>3 DEF Order!OrderCancel, MappedStatus, MappedOutcome, Raise, Cancel
  <2>5. QED
    BY <2>4 DEF Order!OrderNext
<1>4. QED
  BY <1>1, <1>2, <1>3 DEF TaskStep

(* Every step of run_scheduled is a step of LaunchOrder or a stutter. *)
LEMMA StepMaps ==
    ASSUME IInv, [Next]_vars
    PROVE  [Order!OrderNext]_(Order!orderVars)
<1>1. CASE Dispatch
  BY <1>1, PassMaps DEF Dispatch, IInv, TypeOK
<1>2. CASE BlockOnly
  BY <1>2, PassMaps DEF BlockOnly
<1>3. CASE Stall \/ Unwound
  <2>1. Order!InState("running") = {}
    BY <1>3, MappedRunning DEF Stall, Unwound, IInv, TypeOK, Bookkeeping, InTask
  <2>2. Order!OrderAbort
    BY <1>3, <2>1 DEF Stall, Unwound, Order!OrderAbort, MappedStatus, MappedOutcome
  <2>3. QED
    BY <2>2 DEF Order!OrderNext
<1>4. CASE Return
  <2>1. \A r \in Resource : results[r] \in {"ready", "failed", "blocked"}
    BY <1>4 DEF Return, IInv, TypeOK, Bookkeeping
  <2>2. Order!OrderComplete
    BY <1>4, <2>1 DEF Return, Order!OrderComplete, Order!Settled, MappedStatus, MappedOutcome
  <2>3. QED
    BY <2>2 DEF Order!OrderNext
<1>5. ASSUME NEW r \in Resource, TaskStep(r)
      PROVE  [Order!OrderNext]_(Order!orderVars)
  BY <1>5, TaskMaps
<1>6. CASE Gathered \/ Interrupt \/ UNCHANGED vars
  BY <1>6, Stutter DEF Gathered, Interrupt, vars, MappedStatus, MappedOutcome
<1>7. QED
  BY <1>1, <1>2, <1>3, <1>4, <1>5, <1>6 DEF Next, MainStep

(* The waves, the queue, the semaphore and the unwinding of run_scheduled  *)
(* are one way of keeping the promise of LaunchOrder.                      *)
THEOREM SchedulerImplementsOrder == Spec => ImplementsOrder
<1>1. Init => Order!OrderInit
  BY DEF Init, Order!OrderInit, MappedStatus, MappedOutcome
<1>2. IInv /\ [Next]_vars => [Order!OrderNext]_(Order!orderVars)
  BY StepMaps
<1>3. QED
  BY <1>1, <1>2, Inductive, PTL DEF Spec, ImplementsOrder, Order!OrderSpec
==============================================================================
