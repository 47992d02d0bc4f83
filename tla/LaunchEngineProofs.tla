------------------------- MODULE LaunchEngineProofs -------------------------
(***************************************************************************)
(* Theorems about a launch, for any finite set of resources, any graphs,   *)
(* any numbers of attempts and any validation errors.                      *)
(*                                                                         *)
(* A step of the engine is a step of the scheduler or leaves the scheduler *)
(* alone; so what is proved of the scheduler holds in the engine, and the  *)
(* engine's invariant only has to tie steps, rows and processes to it.     *)
(***************************************************************************)
EXTENDS LaunchEngine, SchedulerProofs

(* Where each run_resource is, against the task it runs in. *)
StepsMatchTasks ==
    \A r \in Resource :
        /\ task[r] \in {"idle", "queued"} => step[r] = "none"
        /\ task[r] = "running" <=> step[r] \in {"invalid", "launch", "probe", "backoff"}
        /\ step[r] = "none" => attempt[r] = 0 /\ result[r] = {}
        /\ step[r] = "invalid" => r \in invalid
        /\ step[r] \in {"launch", "probe", "backoff"} => r \notin invalid /\ attempt[r] \in 1..Attempts[r]
        /\ step[r] = "backoff" => attempt[r] < Attempts[r]
        /\ step[r] = "probe" => \E pid : result[r] = {pid}
        /\ \A pid \in result[r] : pid # 0 => pid = attempt[r] /\ <<r, pid>> \in procs

(* A process belongs to an attempt that was made for a valid resource.     *)
ProcsMatchSteps ==
    \A p \in procs :
        /\ step[p[1]] # "none" /\ p[1] \notin invalid
        /\ p[2] <= attempt[p[1]]

(* The phases of launch, against the scheduler and the recorder. *)
PhaseMatches ==
    /\ ~override
    /\ phase = "create" => recordIds = {}
    /\ phase \in {"create", "rows"} => \A r \in Resource : task[r] = "idle"
    /\ phase \in {"run", "finalize", "returned"} => recordIds = Resource
    /\ (\E r \in Resource : step[r] # "none") => recordIds = Resource
    /\ phase \in {"finalize", "returned"} => pc = "done"

(* The rows, against the recorder and the results. *)
RowsMatch ==
    /\ launchRow # "absent" => setupRow
    /\ setupRow => /\ phase \in {"rows", "run", "finalize", "returned"} \/ recordIds # {}
                         => launchRow # "absent"
                   /\ \A r \in Resource : r \notin recordIds => rows[r] = "absent"
    /\ RowsMatchResults
    /\ ReadyNamesLastProcess

(* A final status is the aggregate of the results. *)
StatusMatches ==
    launchRow \in {"running", "partial", "failed"} =>
        phase = "returned" /\ launchRow = Aggregate(results)

EngineInv ==
    /\ IInv
    /\ EngineTypeOK
    /\ StepsMatchTasks
    /\ ProcsMatchSteps
    /\ PhaseMatches
    /\ RowsMatch
    /\ StatusMatches

------------------------------------------------------------------------------


(* Every step of the engine is one of the scheduler, or leaves it alone. *)
LEMMA EngineStepIsSchedulerStep ==
    ASSUME [EngineNext]_engineVars
    PROVE  [Next]_vars
<1>1. ASSUME NEW r \in Resource, NEW s \in {"ready", "failed"}, NEW pid, Record(r, s, pid)
      PROVE  Next
  BY <1>1 DEF Record, RecordAndReturn, RecordRaises, Next, TaskStep
<1>2. ASSUME NEW r \in Resource, ResourceStep(r)
      PROVE  [Next]_vars
  <2>1. CASE StartTask(r)
    BY <2>1 DEF StartTask, Next, TaskStep
  <2>2. CASE RecordInvalid(r)
    BY <2>2, <1>1 DEF RecordInvalid
  <2>3. CASE AdapterReturns(r)
    <3>1. CASE r \in Probed
      BY <2>3, <3>1 DEF AdapterReturns
    <3>2. CASE r \notin Probed
      <4>1. PICK pid \in {0, attempt[r]} : Record(r, "ready", pid)
        BY <2>3, <3>2 DEF AdapterReturns
      <4> QED
        BY <4>1, <1>1
    <3> QED
      BY <3>1, <3>2
  <2>4. CASE ProbeSucceeds(r)
    <3>1. PICK pid \in result[r] : Record(r, "ready", pid)
      BY <2>4 DEF ProbeSucceeds
    <3> QED
      BY <3>1, <1>1
  <2>5. CASE AttemptFails(r)
    BY <2>5, <1>1 DEF AttemptFails
  <2>6. CASE NextAttempt(r)
    BY <2>6 DEF NextAttempt
  <2>7. CASE CancelTask(r)
    BY <2>7 DEF CancelTask, Next, TaskStep
  <2>8. CASE AdapterStarts(r)
    BY <2>8 DEF AdapterStarts
  <2>9. QED
    BY <1>2, <2>1, <2>2, <2>3, <2>4, <2>5, <2>6, <2>7, <2>8 DEF ResourceStep
<1>3. CASE ScheduleStep \/ CtrlC
  BY <1>3 DEF ScheduleStep, CtrlC, Next
<1>4. CASE \/ CreateLaunch \/ (\E r \in Resource : CreateRow(r)) \/ RowsCreated \/ WriteFails
           \/ ScheduleReturns \/ ScheduleRaises \/ FinalizeLaunch \/ DeleteSetup \/ Kill
           \/ UNCHANGED engineVars
  BY <1>4 DEF CreateLaunch, CreateRow, RowsCreated, WriteFails, ScheduleReturns, ScheduleRaises,
              FinalizeLaunch, DeleteSetup, Kill, engineVars
<1>5. QED
  BY <1>2, <1>3, <1>4 DEF EngineNext, ServiceStep

(* The engine runs its resources the way run_scheduled does, so everything *)
(* proved of the scheduler holds of a launch.                              *)
THEOREM EngineImplementsScheduler == EngineSpec => ImplementsScheduler
<1>1. EngineInit => Init
  BY DEF EngineInit
<1>2. [EngineNext]_engineVars => [Next]_vars
  BY EngineStepIsSchedulerStep
<1>3. QED
  BY <1>1, <1>2, PTL DEF EngineSpec, Spec, ImplementsScheduler

------------------------------------------------------------------------------
(* The engine's own invariant. *)

(* What a step of run_scheduled itself may touch: it creates tasks and     *)
(* turns missing results into "blocked", nothing else.                     *)
LEMMA MainStepShape ==
    ASSUME IInv, MainStep
    PROVE  /\ override' = override
           /\ pc' # "done" => pc # "done"
           /\ pc # "done"
           /\ \A r \in Resource :
                /\ task'[r] = task[r] \/ (task[r] = "idle" /\ task'[r] = "queued")
                /\ results'[r] = results[r] \/ (results[r] = "none" /\ results'[r] = "blocked")
<1>1. CASE Dispatch
  <2>1. \A r \in remaining : task[r] = "idle" /\ results[r] = "none"
    BY <1>1 DEF Dispatch, IInv, Bookkeeping, TypeOK
  <2>2. QED
    BY <1>1, <2>1, PassSets DEF Dispatch, MarkBlocked, IInv, TypeOK
<1>2. CASE BlockOnly
  <2>1. \A r \in remaining : results[r] = "none"
    BY <1>2 DEF BlockOnly, IInv, Bookkeeping, TypeOK
  <2>2. QED
    BY <1>2, <2>1, PassSets DEF BlockOnly, MarkBlocked, IInv, TypeOK
<1>3. CASE Stall \/ Return \/ Gathered \/ Unwound
  BY <1>3 DEF Stall, Return, Gathered, Unwound
<1>4. QED
  BY <1>1, <1>2, <1>3 DEF MainStep

(* The types of the engine are kept. *)
LEMMA EngineTypeStep ==
    ASSUME IInv, EngineTypeOK, [EngineNext]_engineVars
    PROVE  EngineTypeOK'
<1>0. TypeOK'
  BY EngineStepIsSchedulerStep, InductiveStep DEF IInv
<1>1. ASSUME NEW r \in Resource, NEW s \in {"ready", "failed"}, NEW pid \in Nat, Record(r, s, pid)
      PROVE  /\ UNCHANGED <<invalid, phase, attempt, recordIds, setupRow, launchRow>>
             /\ step' \in [Resource -> {"none", "invalid", "launch", "probe", "backoff", "over"}]
             /\ rows' \in [Resource -> {"absent", "pending", "ready", "failed"}]
             /\ rowPid' \in [Resource -> Nat]
  BY <1>1 DEF Record, RecordAndReturn, RecordRaises, EngineTypeOK, dbVars
<1>2. ASSUME NEW r \in Resource, ResourceStep(r)
      PROVE  EngineTypeOK'
  <2>1. CASE StartTask(r)
    BY <2>1, <1>0 DEF StartTask, EngineTypeOK, dbVars
  <2>2. CASE RecordInvalid(r)
    BY <2>2, <1>0, <1>1 DEF RecordInvalid, EngineTypeOK
  <2>3. CASE AdapterReturns(r)
    <3>1. PICK pid \in {0, attempt[r]} :
             /\ result' = [result EXCEPT ![r] = {pid}]
             /\ r \notin Probed => Record(r, "ready", pid)
      BY <2>3 DEF AdapterReturns
    <3>2. pid \in Nat /\ procs' = procs
      BY <2>3 DEF EngineTypeOK, AdapterReturns
    <3>5. result' \in [Resource -> SUBSET Nat]
      BY <3>1, <3>2 DEF EngineTypeOK
    <3>3. CASE r \in Probed
      BY <2>3, <3>5, <3>3, <1>0 DEF AdapterReturns, EngineTypeOK, dbVars
    <3>4. CASE r \notin Probed
      <4>1. Record(r, "ready", pid)
        BY <3>1, <3>4
      <4>2. QED
        BY <4>1, <3>2, <3>5, <1>0, <1>1 DEF EngineTypeOK
    <3> QED
      BY <3>3, <3>4
  <2>4. CASE ProbeSucceeds(r)
    <3>1. PICK pid \in result[r] : Record(r, "ready", pid)
      BY <2>4 DEF ProbeSucceeds
    <3>2. pid \in Nat /\ UNCHANGED <<result, procs>>
      BY <2>4, <3>1 DEF ProbeSucceeds, EngineTypeOK
    <3>3. QED
      BY <3>1, <3>2, <1>0, <1>1 DEF EngineTypeOK
  <2>5. CASE AttemptFails(r)
    <3>1. CASE Record(r, "failed", 0)
      BY <2>5, <3>1, <1>0, <1>1 DEF AttemptFails, EngineTypeOK
    <3>2. CASE ~Record(r, "failed", 0)
      BY <2>5, <3>2, <1>0 DEF AttemptFails, EngineTypeOK, dbVars
    <3>3. QED
      BY <3>1, <3>2
  <2>6. CASE NextAttempt(r)
    BY <2>6, <1>0 DEF NextAttempt, EngineTypeOK, dbVars
  <2>7. CASE CancelTask(r)
    BY <2>7, <1>0 DEF CancelTask, EngineTypeOK, dbVars
  <2>8. CASE AdapterStarts(r)
    <3>1. procs' \subseteq Resource \X Nat
      BY <2>8 DEF AdapterStarts, EngineTypeOK
    <3> QED
      BY <2>8, <3>1, <1>0 DEF AdapterStarts, EngineTypeOK, serviceVars, dbVars
  <2>9. QED
    BY <1>2, <2>1, <2>2, <2>3, <2>4, <2>5, <2>6, <2>7, <2>8 DEF ResourceStep
<1>3. CASE ScheduleStep \/ CtrlC \/ UNCHANGED engineVars
  BY <1>0, <1>3 DEF ScheduleStep, CtrlC, serviceVars, dbVars, engineVars, EngineTypeOK
<1>4. CASE \/ CreateLaunch \/ (\E r \in Resource : CreateRow(r)) \/ RowsCreated \/ WriteFails
  BY <1>0, <1>4 DEF CreateLaunch, CreateRow, RowsCreated, WriteFails, dbVars, EngineTypeOK,
                    LaunchStatus
<1>5. CASE ScheduleReturns \/ ScheduleRaises \/ Kill
  BY <1>0, <1>5 DEF ScheduleReturns, ScheduleRaises, Kill, dbVars, EngineTypeOK
<1>6. CASE FinalizeLaunch
  <2>1. Aggregate(results) \in LaunchStatus
    BY DEF Aggregate, LaunchStatus
  <2>2. QED
    BY <1>0, <1>6, <2>1 DEF FinalizeLaunch, EngineTypeOK
<1>7. CASE DeleteSetup
  <2>1. setupRow' \in BOOLEAN
    BY <1>7 DEF DeleteSetup
  <2>2. QED
    BY <1>0, <1>7, <2>1 DEF DeleteSetup, serviceVars, EngineTypeOK
<1>8. QED
  BY <1>2, <1>3, <1>4, <1>5, <1>6, <1>7 DEF EngineNext, ServiceStep

(* A resource step, whatever it is, happens in phase "run", inside a live  *)
(* task, and ends the task or leaves it running.                           *)
LEMMA ResourceStepShape ==
    ASSUME IInv, EngineTypeOK, StepsMatchTasks, NEW r \in Resource, ResourceStep(r)
    PROVE  /\ phase = "run" /\ UNCHANGED <<invalid, phase, recordIds, override, setupRow, launchRow>>
           /\ pc \in {"gather", "aborting"} /\ pc' # "done"
           /\ task[r] \in {"queued", "running"}
           /\ task' = [task EXCEPT ![r] = task'[r]]
           /\ step' = [step EXCEPT ![r] = step'[r]]
           /\ results' = [results EXCEPT ![r] = results'[r]]
           /\ step'[r] # "none"
           /\ \A q \in Resource : q # r => attempt'[q] = attempt[q] /\ result'[q] = result[q]
           /\ procs \subseteq procs' /\ procs' \subseteq procs \cup {<<r, attempt[r]>>}
<1>1. ASSUME NEW s \in {"ready", "failed"}, NEW pid, Record(r, s, pid), phase = "run"
      PROVE  /\ UNCHANGED <<invalid, phase, attempt, recordIds, override, setupRow, launchRow>>
             /\ pc \in {"gather", "aborting"} /\ pc' # "done" /\ task[r] = "running"
             /\ task' = [task EXCEPT ![r] = task'[r]]
             /\ step' = [step EXCEPT ![r] = step'[r]]
             /\ results' = [results EXCEPT ![r] = results'[r]]
             /\ step'[r] # "none"
  BY <1>1 DEF Record, RecordAndReturn, RecordRaises, Finish, Raise, EngineTypeOK, dbVars, IInv, TypeOK
<1>2. task[r] = "running" => pc \in {"gather", "aborting", "aborted"} /\ pc # "aborted"
  BY DEF IInv, Bookkeeping, TypeOK, InTask
<1>3. CASE StartTask(r)
  BY <1>3 DEF StartTask, Start, EngineTypeOK, dbVars, IInv, TypeOK
<1>4. CASE RecordInvalid(r)
  BY <1>4, <1>1 DEF RecordInvalid, InStep
<1>5. CASE AdapterReturns(r)
  <2>1. PICK pid \in {0, attempt[r]} :
           /\ result' = [result EXCEPT ![r] = {pid}]
           /\ r \notin Probed => Record(r, "ready", pid)
    BY <1>5 DEF AdapterReturns
  <2>2. phase = "run" /\ procs' = procs /\ \A q \in Resource : q # r => result'[q] = result[q]
    BY <1>5, <2>1 DEF AdapterReturns, InStep, EngineTypeOK
  <2>3. CASE r \in Probed
    BY <1>5, <1>2, <2>2, <2>3 DEF AdapterReturns, InStep, EngineTypeOK, vars, dbVars, IInv, TypeOK
  <2>4. CASE r \notin Probed
    <3>1. Record(r, "ready", pid)
      BY <2>1, <2>4
    <3> QED
      BY <1>1, <2>2, <3>1
  <2>5. QED
    BY <2>3, <2>4
<1>6. CASE ProbeSucceeds(r)
  <2>1. PICK pid \in result[r] : Record(r, "ready", pid)
    BY <1>6 DEF ProbeSucceeds
  <2> QED
    BY <1>6, <1>1, <2>1 DEF ProbeSucceeds, InStep
<1>7. CASE AttemptFails(r)
  <2>1. CASE Record(r, "failed", 0)
    BY <1>7, <1>1, <2>1 DEF AttemptFails, InStep
  <2>2. CASE ~Record(r, "failed", 0)
    BY <1>7, <1>2, <2>2 DEF AttemptFails, InStep, EngineTypeOK, vars, dbVars, IInv, TypeOK
  <2>3. QED
    BY <2>1, <2>2
<1>8. CASE NextAttempt(r)
  BY <1>8, <1>2 DEF NextAttempt, InStep, EngineTypeOK, vars, dbVars, IInv, TypeOK
<1>9. CASE CancelTask(r)
  BY <1>9 DEF CancelTask, Cancel, EngineTypeOK, dbVars, IInv, TypeOK
<1>10. CASE AdapterStarts(r)
  BY <1>10, <1>2 DEF AdapterStarts, InStep, EngineTypeOK, vars, serviceVars, dbVars, IInv, TypeOK
<1>11. QED
  BY <1>3, <1>4, <1>5, <1>6, <1>7, <1>8, <1>9, <1>10 DEF ResourceStep

(* The actions that leave tasks and steps of run_resource alone. *)
LEMMA OuterStepShape ==
    ASSUME IInv, [EngineNext]_engineVars,
           ~(\E r \in Resource : ResourceStep(r))
    PROVE  /\ UNCHANGED <<invalid, step, attempt, result, procs>>
           /\ override' = override
           /\ \A r \in Resource :
                /\ task'[r] = task[r] \/ (task[r] = "idle" /\ task'[r] = "queued")
                /\ results'[r] = results[r] \/ (results[r] = "none" /\ results'[r] = "blocked")
           /\ ScheduleStep \/ UNCHANGED task
           /\ ScheduleStep \/ UNCHANGED results
<1>1. CASE ScheduleStep
  BY <1>1, MainStepShape DEF ScheduleStep, serviceVars
<1>2. CASE CtrlC
  BY <1>2 DEF CtrlC, Interrupt, serviceVars
<1>3. CASE \/ CreateLaunch \/ (\E r \in Resource : CreateRow(r)) \/ RowsCreated \/ WriteFails
           \/ ScheduleReturns \/ ScheduleRaises \/ FinalizeLaunch \/ DeleteSetup \/ Kill
           \/ UNCHANGED engineVars
  BY <1>3 DEF CreateLaunch, CreateRow, RowsCreated, WriteFails, ScheduleReturns, ScheduleRaises,
              FinalizeLaunch, DeleteSetup, Kill, engineVars, vars, serviceVars
<1>4. QED
  BY <1>1, <1>2, <1>3 DEF EngineNext, ServiceStep

(* Steps keep matching tasks. *)
LEMMA StepsMatchTasksStep ==
    ASSUME EngineInv, [EngineNext]_engineVars
    PROVE  StepsMatchTasks'
<1>1. ASSUME NEW r \in Resource, ResourceStep(r)
      PROVE  StepsMatchTasks'
  <2>0. /\ IInv /\ EngineTypeOK /\ StepsMatchTasks
        /\ attempt \in [Resource -> Nat] /\ Attempts[r] \in Nat /\ Attempts[r] >= 1
    BY AttemptsAssumption DEF EngineInv, EngineTypeOK
  <2>1. \A q \in Resource : q # r =>
           /\ task'[q] = task[q] /\ step'[q] = step[q] /\ attempt'[q] = attempt[q]
           /\ result'[q] = result[q] /\ procs \subseteq procs' /\ invalid' = invalid
    <3>1. /\ task' = [task EXCEPT ![r] = task'[r]]
          /\ step' = [step EXCEPT ![r] = step'[r]]
          /\ \A q \in Resource : q # r => attempt'[q] = attempt[q] /\ result'[q] = result[q]
          /\ procs \subseteq procs' /\ invalid' = invalid
      BY <1>1, <2>0, ResourceStepShape
    <3>2. DOMAIN task = Resource /\ DOMAIN step = Resource
      BY <2>0 DEF EngineTypeOK, TypeOK
    <3>3. \A q \in Resource : q # r => task'[q] = task[q]
      BY <3>1, <3>2
    <3>4. \A q \in Resource : q # r => step'[q] = step[q]
      BY <3>1, <3>2
    <3>5. QED
      BY <3>1, <3>3, <3>4
  <2> DEFINE Match(q) ==
        /\ task'[q] \in {"idle", "queued"} => step'[q] = "none"
        /\ task'[q] = "running" <=> step'[q] \in {"invalid", "launch", "probe", "backoff"}
        /\ step'[q] = "none" => attempt'[q] = 0 /\ result'[q] = {}
        /\ step'[q] = "invalid" => q \in invalid'
        /\ step'[q] \in {"launch", "probe", "backoff"} => q \notin invalid' /\ attempt'[q] \in 1..Attempts[q]
        /\ step'[q] = "backoff" => attempt'[q] < Attempts[q]
        /\ step'[q] = "probe" => \E pid : result'[q] = {pid}
        /\ \A pid \in result'[q] : pid # 0 => pid = attempt'[q] /\ <<q, pid>> \in procs'
  <2>2. \A q \in Resource : q # r => Match(q)
    BY <2>0, <2>1 DEF StepsMatchTasks
  <2>3. ASSUME NEW s \in {"ready", "failed"}, NEW pid, Record(r, s, pid),
               \A p \in result'[r] : p # 0 => p = attempt[r] /\ <<r, p>> \in procs'
        PROVE  Match(r)
    <3>1. /\ task'[r] \notin {"idle", "queued", "running"} /\ step'[r] = "over" /\ attempt' = attempt
      BY <2>0, <2>3 DEF Record, RecordAndReturn, RecordRaises, Finish, Raise, IInv, TypeOK, EngineTypeOK
    <3> QED
      BY <2>3, <3>1
  <2>6. result \in [Resource -> SUBSET Nat]
        /\ \A p \in result[r] : p # 0 => p = attempt[r] /\ <<r, p>> \in procs
    BY <2>0 DEF StepsMatchTasks, EngineTypeOK
  <2>4. Match(r)
    <3>1. CASE StartTask(r)
      <4>1. step[r] = "none" /\ result[r] = {} /\ result' = result /\ procs' = procs
        BY <2>0, <3>1 DEF StartTask, Start, StepsMatchTasks
      <4> QED
        BY <2>0, <3>1, <4>1 DEF StartTask, Start, IInv, TypeOK, EngineTypeOK
    <3>2. CASE RecordInvalid(r)
      BY <2>3, <2>6, <3>2 DEF RecordInvalid
    <3>3. CASE AdapterReturns(r)
      <4>1. PICK pid \in {0, attempt[r]} :
               /\ pid = 0 \/ <<r, pid>> \in procs
               /\ result' = [result EXCEPT ![r] = {pid}]
               /\ r \notin Probed => Record(r, "ready", pid)
        BY <3>3 DEF AdapterReturns
      <4>2. result'[r] = {pid} /\ procs' = procs
        BY <2>6, <3>3, <4>1 DEF AdapterReturns
      <4>3. CASE r \in Probed
        <5>1. /\ task' = task /\ step'[r] = "probe" /\ attempt' = attempt /\ invalid' = invalid
              /\ task[r] = "running" /\ step[r] = "launch"
          BY <2>0, <3>3, <4>3 DEF AdapterReturns, InStep, vars, EngineTypeOK
        <5>2. r \notin invalid /\ attempt[r] \in 1..Attempts[r]
          BY <2>0, <5>1 DEF StepsMatchTasks
        <5> QED
          BY <4>1, <4>2, <5>1, <5>2
      <4>4. CASE r \notin Probed
        BY <2>3, <4>1, <4>2, <4>4
      <4> QED
        BY <4>3, <4>4
    <3>4. CASE ProbeSucceeds(r)
      <4>1. PICK pid \in result[r] : Record(r, "ready", pid)
        BY <3>4 DEF ProbeSucceeds
      <4>2. result' = result /\ procs' = procs
        BY <3>4 DEF ProbeSucceeds
      <4> QED
        BY <2>3, <2>6, <4>1, <4>2
    <3>5. CASE AttemptFails(r)
      <4>1. result' = result /\ procs' = procs /\ step[r] \in {"launch", "probe"} /\ task[r] = "running"
        BY <3>5 DEF AttemptFails, InStep
      <4>2. r \notin invalid /\ attempt[r] \in 1..Attempts[r]
        BY <2>0, <4>1 DEF StepsMatchTasks
      <4>3. CASE Record(r, "failed", 0)
        BY <2>3, <2>6, <4>1, <4>3
      <4>4. CASE ~Record(r, "failed", 0)
        <5>1. /\ attempt[r] < Attempts[r] /\ step'[r] = "backoff"
              /\ task' = task /\ attempt' = attempt /\ invalid' = invalid
          BY <2>0, <3>5, <4>4 DEF AttemptFails, vars, EngineTypeOK
        <5> QED
          BY <2>6, <4>1, <4>2, <5>1
      <4> QED
        BY <4>3, <4>4
    <3>6. CASE NextAttempt(r)
      <4>1. /\ task' = task /\ invalid' = invalid /\ procs' = procs
            /\ task[r] = "running" /\ step[r] = "backoff"
            /\ step'[r] = "launch" /\ attempt'[r] = attempt[r] + 1
            /\ result'[r] = {}
        BY <2>0, <3>6 DEF NextAttempt, InStep, vars, EngineTypeOK
      <4>2. r \notin invalid /\ attempt[r] \in Nat /\ attempt[r] < Attempts[r]
        BY <2>0, <4>1 DEF StepsMatchTasks
      <4>3. attempt'[r] \in 1..Attempts[r]
        BY <2>0, <4>1, <4>2
      <4>4. QED
        BY <4>1, <4>2, <4>3
    <3>7. CASE CancelTask(r)
      <4>1. UNCHANGED <<attempt, result, procs>> /\ step'[r] = "over"
            /\ task'[r] \notin {"idle", "queued", "running"}
        BY <2>0, <3>7 DEF CancelTask, Cancel, IInv, TypeOK, EngineTypeOK
      <4> QED
        BY <2>6, <4>1
    <3>8. CASE AdapterStarts(r)
      <4>1. UNCHANGED <<task, step, attempt, result, invalid>> /\ procs \subseteq procs'
        BY <3>8 DEF AdapterStarts, vars, serviceVars
      <4> QED
        BY <2>0, <4>1 DEF StepsMatchTasks
    <3>9. QED
      BY <1>1, <3>1, <3>2, <3>3, <3>4, <3>5, <3>6, <3>7, <3>8 DEF ResourceStep
  <2>5. QED
    BY <2>2, <2>4 DEF StepsMatchTasks
<1>2. CASE ~(\E r \in Resource : ResourceStep(r))
  <2>1. IInv /\ StepsMatchTasks
    BY DEF EngineInv
  <2>2. QED
    BY <1>2, <2>1, OuterStepShape DEF StepsMatchTasks
<1>3. QED
  BY <1>1, <1>2

(* A resource step begins the attempts, goes on to the next one, or starts *)
(* what the attempt of a valid resource starts.                            *)
LEMMA ResourceStepAttempt ==
    ASSUME EngineInv, NEW r \in Resource, ResourceStep(r)
    PROVE  /\ \/ step[r] = "none"
              \/ attempt'[r] = attempt[r] + 1
              \/ attempt'[r] = attempt[r]
           /\ procs' # procs => attempt'[r] = attempt[r] /\ r \notin invalid
<1>0. IInv /\ TypeOK /\ EngineTypeOK /\ StepsMatchTasks
  BY DEF EngineInv, IInv
<1>1. ASSUME NEW s, NEW pid, Record(r, s, pid)
      PROVE  attempt' = attempt
  BY <1>1 DEF Record, RecordAndReturn, RecordRaises
<1>2. CASE StartTask(r)
  BY <1>0, <1>2 DEF StartTask, Start, StepsMatchTasks
<1>3. CASE RecordInvalid(r)
  BY <1>1, <1>3 DEF RecordInvalid
<1>4. CASE AdapterReturns(r)
  BY <1>1, <1>4 DEF AdapterReturns
<1>5. CASE ProbeSucceeds(r)
  BY <1>1, <1>5 DEF ProbeSucceeds
<1>6. CASE AttemptFails(r)
  BY <1>1, <1>6 DEF AttemptFails
<1>7. CASE NextAttempt(r)
  BY <1>0, <1>7 DEF NextAttempt, EngineTypeOK
<1>8. CASE CancelTask(r)
  BY <1>8 DEF CancelTask
<1>9. CASE AdapterStarts(r)
  BY <1>0, <1>9 DEF AdapterStarts, InStep, StepsMatchTasks, serviceVars
<1> QED
  BY <1>2, <1>3, <1>4, <1>5, <1>6, <1>7, <1>8, <1>9 DEF ResourceStep

(* Processes keep belonging to attempts of valid resources. *)
LEMMA ProcsMatchStepsStep ==
    ASSUME EngineInv, [EngineNext]_engineVars
    PROVE  ProcsMatchSteps'
<1>1. IInv /\ EngineTypeOK /\ StepsMatchTasks /\ ProcsMatchSteps
  BY DEF EngineInv
<1>2. ASSUME NEW r \in Resource, ResourceStep(r)
      PROVE  ProcsMatchSteps'
  <2>1. /\ step'[r] # "none" /\ step' = [step EXCEPT ![r] = step'[r]] /\ invalid' = invalid
        /\ \A q \in Resource : q # r => attempt'[q] = attempt[q]
        /\ procs \subseteq procs' /\ procs' \subseteq procs \cup {<<r, attempt[r]>>}
    BY <1>1, <1>2, ResourceStepShape
  <2>2. \A q \in Resource : q # r => step'[q] = step[q] /\ attempt'[q] = attempt[q]
    BY <1>1, <2>1 DEF EngineTypeOK
  <2>3. attempt[r] \in Nat /\ \A p \in procs : p[1] \in Resource /\ p[2] \in Nat
    BY <1>1 DEF EngineTypeOK
  <2>4. SUFFICES ASSUME NEW p \in procs'
                 PROVE  /\ step'[p[1]] # "none" /\ p[1] \notin invalid'
                        /\ p[2] <= attempt'[p[1]]
    BY DEF ProcsMatchSteps
  <2>5. CASE p \in procs
    <3>1. CASE p[1] # r
      BY <1>1, <2>1, <2>2, <2>3, <2>5, <3>1 DEF ProcsMatchSteps
    <3>2. CASE p[1] = r
      <4>1. step[r] # "none" /\ r \notin invalid /\ p[2] <= attempt[r]
        BY <1>1, <2>5, <3>2 DEF ProcsMatchSteps
      <4> QED
        BY <1>2, <2>1, <2>3, <2>5, <3>2, <4>1, ResourceStepAttempt
    <3> QED
      BY <3>1, <3>2
  <2>6. CASE p \notin procs
    <3>1. p = <<r, attempt[r]>> /\ procs' # procs
      BY <2>1, <2>6
    <3>2. attempt'[r] = attempt[r] /\ r \notin invalid
      BY <1>2, <3>1, ResourceStepAttempt
    <3> QED
      BY <2>1, <2>3, <3>1, <3>2
  <2> QED
    BY <2>5, <2>6
<1>3. CASE ~(\E r \in Resource : ResourceStep(r))
  BY <1>1, <1>3, OuterStepShape DEF ProcsMatchSteps
<1>4. QED
  BY <1>2, <1>3

(* The phases keep matching. *)
LEMMA PhaseMatchesStep ==
    ASSUME EngineInv, [EngineNext]_engineVars
    PROVE  PhaseMatches'
<1>1. IInv /\ EngineTypeOK /\ StepsMatchTasks /\ PhaseMatches
  BY DEF EngineInv
<1>2. ASSUME NEW r \in Resource, ResourceStep(r)
      PROVE  PhaseMatches'
  BY <1>1, <1>2, ResourceStepShape DEF PhaseMatches
<1>3. CASE ~(\E r \in Resource : ResourceStep(r))
  <2>1. /\ UNCHANGED step /\ override' = override
        /\ ScheduleStep \/ UNCHANGED task
    BY <1>1, <1>3, OuterStepShape
  <2>2. CASE ScheduleStep
    BY <1>1, <2>1, <2>2 DEF ScheduleStep, PhaseMatches, serviceVars
  <2>3. CASE CtrlC
    BY <1>1, <2>1, <2>3 DEF CtrlC, Interrupt, PhaseMatches, serviceVars
  <2>4. CASE CreateLaunch \/ RowsCreated \/ WriteFails \/ ScheduleReturns \/ ScheduleRaises
             \/ FinalizeLaunch \/ DeleteSetup \/ Kill \/ UNCHANGED engineVars
    BY <1>1, <2>4 DEF CreateLaunch, RowsCreated, WriteFails, ScheduleReturns, ScheduleRaises,
              FinalizeLaunch, DeleteSetup, Kill, engineVars, vars, serviceVars, PhaseMatches
  <2>5. ASSUME NEW r \in Resource, CreateRow(r)
        PROVE  PhaseMatches'
    <3>1. \A q \in Resource : step[q] = "none"
      BY <1>1, <2>5 DEF CreateRow, PhaseMatches, StepsMatchTasks
    <3>2. QED
      BY <1>1, <2>5, <3>1 DEF CreateRow, PhaseMatches, vars
  <2>6. QED
    BY <1>3, <2>2, <2>3, <2>4, <2>5 DEF EngineNext, ServiceStep
<1>4. QED
  BY <1>2, <1>3

(* A resource step writes the row of r, and then it is what Finish leaves  *)
(* behind; or it touches neither rows nor results.                         *)
LEMMA ResourceStepWrites ==
    ASSUME EngineInv, NEW r \in Resource, ResourceStep(r)
    PROVE  \/ UNCHANGED <<rows, rowPid, results>>
           \/ RecordAndReturn(r, "failed", 0)
           \/ \E pid : RecordAndReturn(r, "ready", pid) /\ result'[r] = {pid}
<1>1. ASSUME NEW s \in {"ready", "failed"}, NEW pid, Record(r, s, pid)
      PROVE  UNCHANGED <<rows, rowPid, results>> \/ RecordAndReturn(r, s, pid)
  BY <1>1 DEF Record, RecordRaises, Raise, dbVars
<1>2. StepsMatchTasks /\ EngineTypeOK
  BY DEF EngineInv
<1>3. CASE StartTask(r) \/ NextAttempt(r) \/ CancelTask(r) \/ AdapterStarts(r)
  BY <1>3 DEF StartTask, NextAttempt, CancelTask, AdapterStarts, Start, Cancel, vars, dbVars
<1>4. CASE RecordInvalid(r)
  BY <1>4, <1>1 DEF RecordInvalid
<1>5. CASE AdapterReturns(r)
  <2>1. PICK pid \in {0, attempt[r]} :
           /\ result' = [result EXCEPT ![r] = {pid}]
           /\ r \notin Probed => Record(r, "ready", pid)
    BY <1>5 DEF AdapterReturns
  <2>2. CASE r \in Probed
    BY <1>5, <2>2 DEF AdapterReturns, vars, dbVars
  <2>3. CASE r \notin Probed
    <3>1. result'[r] = {pid}
      BY <1>2, <2>1 DEF EngineTypeOK
    <3> QED
      BY <1>1, <2>1, <2>3, <3>1
  <2>4. QED
    BY <2>2, <2>3
<1>6. CASE ProbeSucceeds(r)
  <2>1. PICK pid \in result[r] : Record(r, "ready", pid)
    BY <1>6 DEF ProbeSucceeds
  <2>2. result'[r] = {pid}
    <3>1. step[r] = "probe" /\ result' = result
      BY <1>6 DEF ProbeSucceeds, InStep
    <3>2. \E p : result[r] = {p}
      BY <1>2, <3>1 DEF StepsMatchTasks
    <3> QED
      BY <2>1, <3>1, <3>2
  <2> QED
    BY <1>1, <2>1, <2>2
<1>7. CASE AttemptFails(r)
  <2>1. CASE Record(r, "failed", 0)
    BY <1>1, <2>1
  <2>2. CASE ~Record(r, "failed", 0)
    BY <1>7, <2>2 DEF AttemptFails, vars, dbVars
  <2>3. QED
    BY <2>1, <2>2
<1>8. QED
  BY <1>3, <1>4, <1>5, <1>6, <1>7 DEF ResourceStep

(* The rows keep matching under the steps of the resources ... *)
LEMMA RowsMatchResourceStep ==
    ASSUME EngineInv, NEW r \in Resource, ResourceStep(r)
    PROVE  RowsMatch'
<1>1. IInv /\ TypeOK /\ Bookkeeping /\ EngineTypeOK /\ StepsMatchTasks /\ PhaseMatches /\ RowsMatch
  BY DEF EngineInv, IInv
<1>2. /\ phase = "run" /\ UNCHANGED <<phase, recordIds, setupRow, launchRow>>
      /\ task[r] \in {"queued", "running"}
      /\ \A q \in Resource : q # r => attempt'[q] = attempt[q] /\ result'[q] = result[q]
      /\ procs \subseteq procs'
  BY <1>1, ResourceStepShape
<1>3. recordIds = Resource
  BY <1>1, <1>2 DEF PhaseMatches
<1>4. results[r] \notin {"ready", "failed"}
  BY <1>1, <1>2 DEF Bookkeeping
<1>5. setupRow => rows[r] = "pending" /\ rowPid[r] = 0
  BY <1>1, <1>3, <1>4 DEF RowsMatch, RowsMatchResults, ReadyNamesLastProcess
<1>6. CASE UNCHANGED <<rows, rowPid, results>>
  <2>1. RowsMatchResults'
    BY <1>1, <1>2, <1>6 DEF RowsMatch, RowsMatchResults
  <2>2. ReadyNamesLastProcess'
    BY <1>1, <1>2, <1>5, <1>6 DEF RowsMatch, ReadyNamesLastProcess
  <2>3. QED
    BY <1>1, <1>2, <1>6, <2>1, <2>2 DEF RowsMatch
<1>7. ASSUME NEW s \in {"ready", "failed"}, NEW pid, RecordAndReturn(r, s, pid),
             IF s = "ready" THEN result'[r] = {pid} ELSE pid = 0
      PROVE  RowsMatch'
  <2>1. /\ attempt' = attempt
        /\ rows'[r] = s /\ results'[r] = s
        /\ rowPid'[r] = IF pid # 0 THEN pid ELSE rowPid[r]
        /\ \A q \in Resource : q # r =>
              rows'[q] = rows[q] /\ results'[q] = results[q] /\ rowPid'[q] = rowPid[q]
    BY <1>1, <1>7 DEF RecordAndReturn, Finish, TypeOK, EngineTypeOK
  <2>2. RowsMatchResults'
    BY <1>1, <1>2, <1>3, <2>1 DEF RowsMatch, RowsMatchResults
  <2>3. ReadyNamesLastProcess'
    <3>1. SUFFICES ASSUME setupRow, NEW q \in Resource
                   PROVE  /\ rows'[q] = "ready" => result'[q] = {rowPid'[q]}
                          /\ rowPid'[q] # 0 => /\ rows'[q] = "ready"
                                              /\ rowPid'[q] = attempt'[q]
                                              /\ <<q, rowPid'[q]>> \in procs'
      BY <1>2 DEF ReadyNamesLastProcess
    <3>2. CASE q = r
      <4>1. StepsMatchTasks'
        BY StepsMatchTasksStep DEF EngineNext, ServiceStep
      <4>2. \A p \in result'[r] : p # 0 => p = attempt'[r] /\ <<r, p>> \in procs'
        BY <4>1 DEF StepsMatchTasks
      <4>3. rowPid'[r] = pid
        BY <1>5, <2>1, <3>1
      <4>4. pid # 0 => s = "ready" /\ result'[r] = {pid}
        BY <1>7
      <4> QED
        BY <1>7, <2>1, <3>2, <4>2, <4>3, <4>4
    <3>3. CASE q # r
      BY <1>1, <1>2, <2>1, <3>1, <3>3 DEF RowsMatch, ReadyNamesLastProcess
    <3>4. QED
      BY <3>2, <3>3
  <2>4. QED
    BY <1>1, <1>2, <1>3, <2>2, <2>3 DEF RowsMatch
<1>8. QED
  <2>1. CASE RecordAndReturn(r, "failed", 0)
    BY <1>7, <2>1
  <2>2. CASE \E pid : RecordAndReturn(r, "ready", pid) /\ result'[r] = {pid}
    BY <1>7, <2>2
  <2>3. QED
    BY <1>6, <2>1, <2>2, ResourceStepWrites

(* ... and under all others. *)
LEMMA RowsMatchOuterStep ==
    ASSUME EngineInv, [EngineNext]_engineVars, ~(\E r \in Resource : ResourceStep(r))
    PROVE  RowsMatch'
<1>1. IInv /\ TypeOK /\ Bookkeeping /\ EngineTypeOK /\ StepsMatchTasks /\ PhaseMatches /\ RowsMatch
  BY DEF EngineInv, IInv
<1>2. /\ UNCHANGED <<attempt, result, procs>>
      /\ \A r \in Resource :
            results'[r] = results[r] \/ (results[r] = "none" /\ results'[r] = "blocked")
  BY <1>1, OuterStepShape
<1>3. ASSUME UNCHANGED <<recordIds, setupRow, rows, rowPid>>
      PROVE  RowsMatchResults' /\ ReadyNamesLastProcess'
  <2>1. recordIds \subseteq Resource
    BY <1>1 DEF EngineTypeOK
  <2>2. RowsMatchResults'
    BY <1>1, <1>2, <1>3, <2>1 DEF RowsMatch, RowsMatchResults
  <2>3. ReadyNamesLastProcess'
    BY <1>1, <1>2, <1>3 DEF RowsMatch, ReadyNamesLastProcess
  <2>4. QED
    BY <2>2, <2>3
<1>4. CASE ScheduleStep \/ CtrlC
  BY <1>1, <1>3, <1>4 DEF ScheduleStep, CtrlC, serviceVars, dbVars, RowsMatch
<1>5. CASE RowsCreated \/ WriteFails \/ ScheduleReturns \/ ScheduleRaises \/ Kill \/ UNCHANGED engineVars
  BY <1>1, <1>3, <1>5 DEF RowsCreated, WriteFails, ScheduleReturns, ScheduleRaises, Kill,
                          engineVars, serviceVars, dbVars, RowsMatch, PhaseMatches
<1>6. CASE CreateLaunch
  BY <1>1, <1>3, <1>6 DEF CreateLaunch, RowsMatch, PhaseMatches
<1>7. CASE FinalizeLaunch
  <2>1. launchRow' # "absent"
    BY <1>7 DEF FinalizeLaunch, Aggregate
  <2>2. QED
    BY <1>1, <1>3, <1>7, <2>1 DEF FinalizeLaunch, RowsMatch, PhaseMatches
<1>8. CASE DeleteSetup
  BY <1>8 DEF DeleteSetup, RowsMatch, RowsMatchResults, ReadyNamesLastProcess
<1>9. ASSUME NEW r \in Resource, CreateRow(r)
      PROVE  RowsMatch'
  <2>1. /\ UNCHANGED <<phase, setupRow, launchRow, rowPid>>
        /\ phase = "rows" /\ launchRow # "absent" /\ UNCHANGED vars
        /\ recordIds' = recordIds \cup {r}
        /\ rows' = [rows EXCEPT ![r] = "pending"]
        /\ r \notin recordIds
    BY <1>9 DEF CreateRow
  <2>2. \A q \in Resource : results'[q] \notin {"ready", "failed"}
    BY <1>1, <2>1 DEF PhaseMatches, Bookkeeping, vars
  <2>3. \A q \in Resource : rows'[q] = IF q = r THEN "pending" ELSE rows[q]
    BY <1>1, <2>1 DEF EngineTypeOK
  <2>4. RowsMatchResults'
    BY <1>1, <2>1, <2>2, <2>3 DEF RowsMatch, RowsMatchResults, vars, EngineTypeOK
  <2>5. ReadyNamesLastProcess'
    BY <1>1, <1>2, <2>1, <2>3 DEF RowsMatch, ReadyNamesLastProcess
  <2>6. QED
    BY <1>1, <2>1, <2>3, <2>4, <2>5 DEF RowsMatch
<1>10. QED
  BY <1>4, <1>5, <1>6, <1>7, <1>8, <1>9 DEF EngineNext, ServiceStep

(* A final status stays the aggregate of the results: nothing changes them *)
(* once launch has returned.                                               *)
LEMMA StatusMatchesStep ==
    ASSUME EngineInv, [EngineNext]_engineVars
    PROVE  StatusMatches'
<1>1. IInv /\ EngineTypeOK /\ StepsMatchTasks /\ PhaseMatches /\ StatusMatches
  BY DEF EngineInv
<1>2. launchRow \in {"running", "partial", "failed"} => phase = "returned" /\ pc = "done"
  BY <1>1 DEF StatusMatches, PhaseMatches
<1>3. ASSUME NEW r \in Resource, ResourceStep(r)
      PROVE  StatusMatches'
  <2>1. phase = "run" /\ launchRow' = launchRow
    BY <1>1, <1>3, ResourceStepShape
  <2>2. QED
    BY <1>2, <2>1 DEF StatusMatches
<1>4. CASE ScheduleStep \/ CtrlC
  BY <1>2, <1>4 DEF ScheduleStep, CtrlC, dbVars, StatusMatches
<1>5. CASE CreateLaunch
  BY <1>5 DEF CreateLaunch, StatusMatches
<1>6. CASE FinalizeLaunch
  BY <1>6 DEF FinalizeLaunch, vars, StatusMatches, Aggregate
<1>7. CASE DeleteSetup
  BY <1>7 DEF DeleteSetup, StatusMatches
<1>8. CASE \/ (\E r \in Resource : CreateRow(r)) \/ RowsCreated \/ WriteFails
           \/ ScheduleReturns \/ ScheduleRaises \/ Kill \/ UNCHANGED engineVars
  <2>1. launchRow' = launchRow /\ results' = results
    BY <1>8 DEF CreateRow, RowsCreated, WriteFails, ScheduleReturns, ScheduleRaises, Kill,
                engineVars, vars, dbVars
  <2>2. phase = "returned" => phase' = "returned"
    BY <1>8 DEF CreateRow, RowsCreated, WriteFails, ScheduleReturns, ScheduleRaises, Kill,
                engineVars, serviceVars, OverPhase
  <2>3. QED
    BY <1>1, <2>1, <2>2 DEF StatusMatches, Aggregate
<1>9. QED
  BY <1>3, <1>4, <1>5, <1>6, <1>7, <1>8 DEF EngineNext, ServiceStep

(* The engine's invariant holds in every state of every launch. *)
THEOREM EngineInductive == EngineSpec => []EngineInv
<1>1. EngineInit => EngineInv
  <2> SUFFICES ASSUME EngineInit
                 PROVE  EngineInv
    OBVIOUS
  <2>2. IInv
    BY InitIInv DEF EngineInit
  <2>3. EngineTypeOK
    BY <2>2 DEF EngineInit, EngineTypeOK, IInv, LaunchStatus
  <2>4. StepsMatchTasks /\ ProcsMatchSteps /\ PhaseMatches
    BY DEF EngineInit, Init, StepsMatchTasks, ProcsMatchSteps, PhaseMatches
  <2>5. RowsMatch /\ StatusMatches
    BY DEF EngineInit, Init, RowsMatch, RowsMatchResults, ReadyNamesLastProcess, StatusMatches
  <2>6. QED
    BY <2>2, <2>3, <2>4, <2>5 DEF EngineInv
<1>2. EngineInv /\ [EngineNext]_engineVars => EngineInv'
  <2> SUFFICES ASSUME EngineInv, [EngineNext]_engineVars
                 PROVE  EngineInv'
    OBVIOUS
  <2>2. IInv'
    BY EngineStepIsSchedulerStep, InductiveStep DEF EngineInv
  <2>3. EngineTypeOK'
    BY EngineTypeStep DEF EngineInv
  <2>4. RowsMatch'
    BY RowsMatchResourceStep, RowsMatchOuterStep
  <2>5. QED
    BY <2>2, <2>3, <2>4, StepsMatchTasksStep, ProcsMatchStepsStep, PhaseMatchesStep,
       StatusMatchesStep DEF EngineInv
<1>3. QED
  BY <1>1, <1>2, PTL DEF EngineSpec

------------------------------------------------------------------------------
(* What follows from it. *)

(* The variables of a launch have the types the code gives them. *)
THEOREM EngineTypeCorrect == EngineSpec => []EngineTypeOK
BY EngineInductive, PTL DEF EngineInv

(* Nothing is begun, started or left behind that is not in the database.   *)
LEMMA LaunchPersistsFirst == EngineSpec => []PersistedBeforeStart
<1>1. EngineInv => PersistedBeforeStart
  <2>1. SUFFICES ASSUME EngineInv, setupRow, NEW r \in Resource,
                        step[r] # "none" \/ (\E a \in 1..Attempts[r] : <<r, a>> \in procs)
                 PROVE  launchRow # "absent" /\ \A q \in Resource : rows[q] # "absent"
    BY DEF PersistedBeforeStart
  <2>2. step[r] # "none"
    BY <2>1 DEF EngineInv, ProcsMatchSteps
  <2>3. recordIds = Resource /\ recordIds # {}
    BY <2>1, <2>2 DEF EngineInv, PhaseMatches
  <2>4. QED
    BY <2>1, <2>3 DEF EngineInv, RowsMatch, RowsMatchResults
<1>2. QED
  BY <1>1, EngineInductive, PTL

(* The rows and the results of the scheduler say the same. *)
THEOREM RowsAgreeWithResults == EngineSpec => []RowsMatchResults
BY EngineInductive, PTL DEF EngineInv, RowsMatch

(* Only valid resources whose dependencies are READY on disk are started.  *)
LEMMA StartsAfterDiskReady == EngineSpec => []StartsOnDiskReady
<1>1. EngineInv => StartsOnDiskReady
  <2>1. SUFFICES ASSUME EngineInv, NEW r \in Resource, NEW a \in 1..Attempts[r], <<r, a>> \in procs
                 PROVE  /\ r \notin invalid /\ results[r] # "blocked"
                        /\ setupRow => \A d \in deps[r] : rows[d] = "ready"
    BY DEF StartsOnDiskReady
  <2>2. step[r] # "none" /\ r \notin invalid
    BY <2>1 DEF EngineInv, ProcsMatchSteps
  <2>3. task[r] \notin {"idle", "queued"}
    BY <2>1, <2>2 DEF EngineInv, StepsMatchTasks
  <2>4. results[r] # "blocked"
    BY <2>1, <2>3 DEF EngineInv, IInv, BlockedForCause
  <2>5. recordIds = Resource /\ ~override
    BY <2>1, <2>2 DEF EngineInv, PhaseMatches
  <2>6. \A d \in deps[r] : d \in Resource /\ results[d] = "ready"
    BY <2>1, <2>3, <2>5, DepsType DEF EngineInv, IInv, DependenciesFirst
  <2>7. QED
    BY <2>1, <2>2, <2>4, <2>5, <2>6 DEF EngineInv, RowsMatch, RowsMatchResults
<1>2. QED
  BY <1>1, EngineInductive, PTL

(* What is started is on record, and so is that it may be. *)
THEOREM StartsFollowRows == EngineSpec => []StartsAreRecorded
BY LaunchPersistsFirst, StartsAfterDiskReady, PTL DEF StartsAreRecorded

(* The row of a ready resource names what the adapter returned in its last *)
(* attempt, the process started then or none, and no other row names any.  *)
THEOREM RowsNameProcesses == EngineSpec => []ReadyNamesLastProcess
BY EngineInductive, PTL DEF EngineInv, RowsMatch

(* The final status of a launch agrees with its rows.  It takes what is    *)
(* proved of the scheduler: after the return every entry is there, and a   *)
(* blocked one is never without a failed one.                              *)
THEOREM StatusFitsRows == EngineSpec => []StatusAgreesWithRows
<1>1. EngineInv => StatusAgreesWithRows
  <2> DEFINE readyRows == {r \in Resource : rows[r] = "ready"}
  <2>1. SUFFICES ASSUME EngineInv, setupRow, launchRow \in {"running", "partial", "failed"}
                 PROVE  /\ launchRow = "running" <=> readyRows = Resource
                        /\ launchRow = "failed" => readyRows = {}
                        /\ launchRow = "partial" => readyRows # {}
                        /\ launchRow # "running" => \E r \in Resource : rows[r] = "failed"
    BY DEF StatusAgreesWithRows
  <2>2. phase = "returned" /\ launchRow = Aggregate(results)
    BY <2>1 DEF EngineInv, StatusMatches
  <2>3. recordIds = Resource /\ pc = "done"
    BY <2>1, <2>2 DEF EngineInv, PhaseMatches
  <2>4. \A r \in Resource : results[r] \in {"ready", "failed", "blocked"}
    BY <2>1, <2>3 DEF EngineInv, IInv, TypeOK, Bookkeeping
  <2>5. \A r \in Resource : /\ rows[r] = "ready" <=> results[r] = "ready"
                            /\ rows[r] = "failed" <=> results[r] = "failed"
    BY <2>1, <2>3 DEF EngineInv, RowsMatch, RowsMatchResults
  <2>6. (\A r \in Resource : results[r] = "ready") <=> readyRows = Resource
    BY <2>5
  <2>7. (\E r \in Resource : results[r] = "ready") <=> readyRows # {}
    BY <2>5
  <2>8. ~(\A r \in Resource : results[r] = "ready") => \E r \in Resource : rows[r] = "failed"
    BY <2>1, <2>4, <2>5 DEF EngineInv, IInv, BlockedNeedsFailure
  <2>9. launchRow = IF readyRows = Resource THEN "running"
                    ELSE IF readyRows # {} THEN "partial" ELSE "failed"
    BY <2>2, <2>6, <2>7 DEF Aggregate
  <2>10. readyRows = Resource => ~(\E r \in Resource : rows[r] = "failed")
    OBVIOUS
  <2>11. QED
    BY <2>6, <2>8, <2>9
<1>2. QED
  BY <1>1, EngineInductive, PTL

(* Rows and launches keep their final state as long as the setup is there. *)
THEOREM HistoryStays == EngineSpec => HistoryIsFinal
<1> DEFINE Kept ==
      /\ setupRow' =>
             /\ \A r \in Resource : rows[r] \in {"ready", "failed"} => rows'[r] = rows[r]
             /\ launchRow \in {"running", "partial", "failed"} => launchRow' = launchRow
      /\ phase \in OverPhase =>
             /\ procs' = procs
             /\ setupRow' => UNCHANGED <<launchRow, rows, rowPid>>
<1>1. EngineInv /\ [EngineNext]_engineVars => Kept
  <2> SUFFICES ASSUME EngineInv, [EngineNext]_engineVars
               PROVE  Kept
    OBVIOUS
  <2>1. IInv /\ EngineTypeOK /\ StepsMatchTasks /\ PhaseMatches /\ RowsMatch /\ StatusMatches
    BY DEF EngineInv
  <2>2. ASSUME NEW r \in Resource, ResourceStep(r)
        PROVE  Kept
    <3>1. /\ phase = "run" /\ launchRow' = launchRow /\ setupRow' = setupRow
          /\ task[r] \in {"queued", "running"}
      BY <2>1, <2>2, ResourceStepShape
    <3>2. recordIds = Resource /\ results[r] \notin {"ready", "failed"}
      BY <2>1, <3>1 DEF PhaseMatches, IInv, Bookkeeping
    <3>3. setupRow => rows[r] = "pending"
      BY <2>1, <3>2 DEF RowsMatch, RowsMatchResults
    <3>4. \A q \in Resource : q # r => rows'[q] = rows[q]
      <4>1. \/ rows' = rows
            \/ rows' = [rows EXCEPT ![r] = "failed"]
            \/ rows' = [rows EXCEPT ![r] = "ready"]
        BY <2>2, ResourceStepWrites DEF RecordAndReturn
      <4>2. DOMAIN rows = Resource
        BY <2>1 DEF EngineTypeOK
      <4>3. QED
        BY <4>1, <4>2
    <3>5. QED
      BY <3>1, <3>3, <3>4 DEF OverPhase
  <2>3. ASSUME NEW r \in Resource, CreateRow(r)
        PROVE  Kept
    <3>1. /\ phase = "rows" /\ launchRow' = launchRow /\ setupRow' = setupRow
          /\ r \notin recordIds /\ rows' = [rows EXCEPT ![r] = "pending"]
      BY <2>3 DEF CreateRow
    <3>2. setupRow => rows[r] = "absent"
      BY <2>1, <3>1 DEF RowsMatch
    <3>3. QED
      BY <2>1, <3>1, <3>2 DEF OverPhase, EngineTypeOK
  <2>4. CASE FinalizeLaunch \/ CreateLaunch
    BY <2>1, <2>4 DEF FinalizeLaunch, CreateLaunch, StatusMatches, OverPhase
  <2>5. CASE ScheduleStep \/ CtrlC
    BY <2>5 DEF ScheduleStep, CtrlC, dbVars
  <2>6. CASE DeleteSetup
    BY <2>6 DEF DeleteSetup
  <2>7. CASE RowsCreated \/ WriteFails \/ ScheduleReturns \/ ScheduleRaises \/ Kill
             \/ UNCHANGED engineVars
    BY <2>7 DEF RowsCreated, WriteFails, ScheduleReturns, ScheduleRaises, Kill, engineVars, dbVars
  <2>8. QED
    BY <2>2, <2>3, <2>4, <2>5, <2>6, <2>7 DEF EngineNext, ServiceStep
<1>2. EngineInv /\ [EngineNext]_engineVars => [Kept]_engineVars
  BY <1>1
<1> HIDE DEF Kept
<1>3. EngineSpec => [][Kept]_engineVars
  BY <1>2, EngineInductive, PTL DEF EngineSpec
<1>4. QED
  BY <1>3 DEF HistoryIsFinal, Kept


------------------------------------------------------------------------------
(* The promise of ResourceRun, for each resource. *)

LEMMA RunInitially ==
    ASSUME EngineInit, NEW r \in Resource
    PROVE  Run(r)!RunInit
<1>1. Attempts[r] \in Nat \ {0}
  BY AttemptsAssumption
<1>2. RunAt(r) = "launch" /\ RunAttempt(r) = 1 /\ RunOutcome(r) = "none" /\ result[r] = {}
  BY DEF EngineInit, Init, RunAt, RunAttempt, RunOutcome
<1> QED
  BY <1>1, <1>2 DEF Run!RunInit

(* A run of r ends by the record of an outcome, or by the error of that    *)
(* record.                                                                 *)
LEMMA RecordEndsRun ==
    ASSUME IInv, EngineTypeOK, NEW r \in Resource, NEW s \in {"ready", "failed"}, NEW pid,
           Record(r, s, pid), results[r] \notin {"ready", "failed"}
    PROVE  /\ RunAt(r)' = "over" /\ RunOutcome(r)' \in {s, "none"}
           /\ RunAttempt(r)' = RunAttempt(r)
<1>1. step'[r] = "over" /\ attempt' = attempt /\ results'[r] \in {s, results[r]}
  BY DEF Record, RecordAndReturn, RecordRaises, Finish, Raise, EngineTypeOK, IInv, TypeOK
<1> QED
  BY <1>1 DEF RunAt, RunAttempt, RunOutcome

(* The steps of r are steps of its run. *)
LEMMA OwnRunStep ==
    ASSUME EngineInv, NEW r \in Resource, ResourceStep(r)
    PROVE  [Run(r)!RunNext]_(Run(r)!runVars)
<1>0. IInv /\ TypeOK /\ Bookkeeping /\ EngineTypeOK /\ StepsMatchTasks /\ ProcsMatchSteps
  BY DEF EngineInv, IInv
<1>1. task[r] \in {"queued", "running"} /\ attempt[r] \in Nat
  BY <1>0, ResourceStepShape DEF EngineTypeOK
<1>2. results[r] \notin {"ready", "failed"} /\ RunOutcome(r) = "none"
  BY <1>0, <1>1 DEF Bookkeeping, RunOutcome
<1>3. step[r] \in {"launch", "probe", "backoff"} => attempt[r] >= 1
  <2>1. Attempts[r] \in Nat
    BY AttemptsAssumption
  <2>2. step[r] \in {"launch", "probe", "backoff"} => attempt[r] \in 1..Attempts[r]
    BY <1>0 DEF StepsMatchTasks
  <2> QED
    BY <2>1, <2>2
<1>4. CASE StartTask(r)
  <2>1. /\ step[r] = "none" /\ attempt[r] = 0 /\ UNCHANGED <<result, results>>
        /\ step'[r] \in {"invalid", "launch"} /\ attempt'[r] \in {0, 1}
    BY <1>0, <1>4 DEF StartTask, Start, StepsMatchTasks, EngineTypeOK
  <2>2. RunAt(r)' = RunAt(r) /\ RunAttempt(r)' = RunAttempt(r) /\ RunOutcome(r)' = RunOutcome(r)
    BY <2>1 DEF RunAt, RunAttempt, RunOutcome
  <2> QED
    BY <2>1, <2>2 DEF Run!runVars
<1>5. CASE RecordInvalid(r)
  <2>1. RunAt(r) = "launch" /\ result' = result /\ Record(r, "failed", 0)
    BY <1>5 DEF RecordInvalid, InStep, RunAt
  <2>2. /\ RunAt(r)' = "over" /\ RunOutcome(r)' \in {"failed", "none"}
        /\ RunAttempt(r)' = RunAttempt(r)
    BY <1>0, <1>2, <2>1, RecordEndsRun
  <2> QED
    BY <2>1, <2>2 DEF Run!RunNext, Run!Fails, Run!Over
<1>6. CASE AdapterReturns(r)
  <2>0. PICK pid \in {0, attempt[r]} :
           /\ result' = [result EXCEPT ![r] = {pid}]
           /\ r \notin Probed => Record(r, "ready", pid)
    BY <1>6 DEF AdapterReturns
  <2>1. step[r] = "launch" /\ RunAt(r) = "launch" /\ result'[r] # {}
    BY <1>0, <1>6, <2>0 DEF AdapterReturns, InStep, RunAt, EngineTypeOK
  <2>2. CASE r \in Probed
    <3>1. step'[r] = "probe" /\ attempt' = attempt /\ results' = results
      BY <1>0, <1>6, <2>2 DEF AdapterReturns, EngineTypeOK, vars
    <3>2. RunAt(r)' = "probe" /\ RunAttempt(r)' = RunAttempt(r) /\ RunOutcome(r)' = RunOutcome(r)
      BY <3>1 DEF RunAt, RunAttempt, RunOutcome
    <3> QED
      BY <2>1, <2>2, <3>2 DEF Run!RunNext, Run!LaunchReturns
  <2>3. CASE r \notin Probed
    <3>1. Record(r, "ready", pid)
      BY <2>0, <2>3
    <3>2. /\ RunAt(r)' = "over" /\ RunOutcome(r)' \in {"ready", "none"}
          /\ RunAttempt(r)' = RunAttempt(r)
      BY <1>0, <1>2, <3>1, RecordEndsRun
    <3> QED
      BY <2>1, <2>3, <3>2 DEF Run!RunNext, Run!LaunchReturns, Run!Over
  <2> QED
    BY <2>2, <2>3
<1>7. CASE ProbeSucceeds(r)
  <2>0. PICK pid \in result[r] : Record(r, "ready", pid)
    BY <1>7 DEF ProbeSucceeds
  <2>1. RunAt(r) = "probe" /\ result' = result /\ Record(r, "ready", pid)
    BY <1>7, <2>0 DEF ProbeSucceeds, InStep, RunAt
  <2>2. /\ RunAt(r)' = "over" /\ RunOutcome(r)' \in {"ready", "none"}
        /\ RunAttempt(r)' = RunAttempt(r)
    BY <1>0, <1>2, <2>1, RecordEndsRun
  <2> QED
    BY <2>1, <2>2 DEF Run!RunNext, Run!TurnsReady, Run!Over
<1>8. CASE AttemptFails(r)
  <2>1. RunAt(r) \in {"launch", "probe"} /\ result' = result
    BY <1>8 DEF AttemptFails, InStep, RunAt
  <2>2. CASE Record(r, "failed", 0)
    <3>1. /\ RunAt(r)' = "over" /\ RunOutcome(r)' \in {"failed", "none"}
          /\ RunAttempt(r)' = RunAttempt(r)
      BY <1>0, <1>2, <2>2, RecordEndsRun
    <3> QED
      BY <2>1, <3>1 DEF Run!RunNext, Run!Fails, Run!Over
  <2>3. CASE ~Record(r, "failed", 0)
    <3>1. /\ attempt[r] < Attempts[r] /\ step'[r] = "backoff" /\ attempt' = attempt
          /\ results' = results /\ attempt[r] >= 1
      BY <1>0, <1>3, <1>8, <2>3 DEF AttemptFails, InStep, EngineTypeOK, vars
    <3>2. /\ RunAt(r)' = "backoff" /\ RunOutcome(r)' = RunOutcome(r)
          /\ RunAttempt(r) = attempt[r] /\ RunAttempt(r)' = RunAttempt(r)
      BY <3>1 DEF RunAt, RunAttempt, RunOutcome
    <3> QED
      BY <2>1, <3>1, <3>2 DEF Run!RunNext, Run!Fails
  <2> QED
    BY <2>2, <2>3
<1>9. CASE NextAttempt(r)
  <2>1. /\ step[r] = "backoff" /\ step'[r] = "launch" /\ attempt'[r] = attempt[r] + 1
        /\ attempt[r] >= 1 /\ results' = results /\ result'[r] = {}
    BY <1>0, <1>3, <1>9 DEF NextAttempt, InStep, EngineTypeOK, vars
  <2>2. /\ RunAt(r) = "backoff" /\ RunAt(r)' = "launch" /\ RunOutcome(r)' = RunOutcome(r)
        /\ RunAttempt(r) = attempt[r] /\ RunAttempt(r)' = attempt[r] + 1
    BY <1>1, <2>1 DEF RunAt, RunAttempt, RunOutcome
  <2> QED
    BY <2>1, <2>2 DEF Run!RunNext, Run!TriesAgain
<1>10. CASE CancelTask(r)
  <2>1. /\ step[r] # "over" /\ step'[r] = "over" /\ UNCHANGED <<result, attempt>>
        /\ results' = results
    BY <1>0, <1>1, <1>10 DEF CancelTask, Cancel, StepsMatchTasks, EngineTypeOK
  <2>2. /\ RunAt(r) # "over" /\ RunAt(r)' = "over" /\ RunOutcome(r)' = RunOutcome(r)
        /\ RunAttempt(r)' = RunAttempt(r)
    BY <2>1 DEF RunAt, RunAttempt, RunOutcome
  <2> QED
    BY <2>1, <2>2 DEF Run!RunNext, Run!Abandon
<1>11. CASE AdapterStarts(r)
  <2>1. UNCHANGED <<step, attempt, result, results>>
    BY <1>11 DEF AdapterStarts, vars, serviceVars
  <2>2. RunAt(r)' = RunAt(r) /\ RunAttempt(r)' = RunAttempt(r) /\ RunOutcome(r)' = RunOutcome(r)
    BY <2>1 DEF RunAt, RunAttempt, RunOutcome
  <2> QED
    BY <2>1, <2>2 DEF Run!runVars
<1> QED
  BY <1>4, <1>5, <1>6, <1>7, <1>8, <1>9, <1>10, <1>11 DEF ResourceStep

(* All others leave the run of r alone. *)
LEMMA OtherRunStep ==
    ASSUME EngineInv, [EngineNext]_engineVars, NEW r \in Resource, ~ResourceStep(r)
    PROVE  UNCHANGED (Run(r)!runVars)
<1>0. IInv /\ TypeOK /\ EngineTypeOK /\ StepsMatchTasks
  BY DEF EngineInv, IInv
<1>1. /\ step'[r] = step[r] /\ attempt'[r] = attempt[r]
      /\ results'[r] = results[r] \/ (results[r] = "none" /\ results'[r] = "blocked")
      /\ result'[r] = result[r]
  <2>1. CASE \E q \in Resource : ResourceStep(q)
    <3>1. PICK q \in Resource : ResourceStep(q)
      BY <2>1
    <3>2. q # r
      BY <3>1
    <3>3. /\ step' = [step EXCEPT ![q] = step'[q]] /\ results' = [results EXCEPT ![q] = results'[q]]
          /\ attempt'[r] = attempt[r] /\ result'[r] = result[r]
      BY <1>0, <3>1, <3>2, ResourceStepShape
    <3> QED
      BY <1>0, <3>2, <3>3 DEF TypeOK, EngineTypeOK
  <2>2. CASE ~(\E q \in Resource : ResourceStep(q))
    BY <1>0, <2>2, OuterStepShape
  <2> QED
    BY <2>1, <2>2
<1>2. RunAt(r)' = RunAt(r) /\ RunAttempt(r)' = RunAttempt(r) /\ RunOutcome(r)' = RunOutcome(r)
  BY <1>1 DEF RunAt, RunAttempt, RunOutcome
<1> QED
  BY <1>1, <1>2 DEF Run!runVars

(* Whatever else happens in a launch, the run of each resource keeps the   *)
(* promise of ResourceRun.                                                 *)
THEOREM EngineImplementsRuns == EngineSpec => ImplementsRuns
<1>1. ASSUME NEW r \in Resource
      PROVE  EngineSpec => Run(r)!RunSpec
  <2>1. EngineInit => Run(r)!RunInit
    BY RunInitially
  <2>2. EngineInv /\ [EngineNext]_engineVars => [Run(r)!RunNext]_(Run(r)!runVars)
    BY OwnRunStep, OtherRunStep
  <2> QED
    BY <2>1, <2>2, EngineInductive, PTL DEF EngineSpec, Run!RunSpec
<1> QED
  BY <1>1 DEF ImplementsRuns
==============================================================================
