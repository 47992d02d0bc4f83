---------------------------- MODULE LaunchEngine ----------------------------
(***************************************************************************)
(* One `setuper launch`: LaunchService.launch over the scheduler, the      *)
(* adapters, the retry policy and the launch recorder, with the rows the   *)
(* recorder writes to SQLite.  run_resource of Scheduler.tla becomes a     *)
(* coroutine of attempts; each of its outcomes is written to the database  *)
(* before the scheduler learns of it.                                      *)
(*                                                                         *)
(* Around the launching process: any write may fail, a `setuper delete` in *)
(* another process may remove the setup (and, by cascade, the rows of this *)
(* launch), Ctrl-C may interrupt, and the process may be killed.  What an  *)
(* adapter starts is a process in a session of its own, which survives     *)
(* all of that.                                                            *)
(***************************************************************************)
EXTENDS Scheduler

CONSTANTS Attempts,  \* total_attempts(spec.retry) of each resource
          Plans,     \* the sets of resources a plan may find invalid
          Probed     \* resources with a readiness condition

ASSUME AttemptsAssumption == Attempts \in [Resource -> Nat \ {0}]
ASSUME PlansAssumption == Plans \subseteq SUBSET Resource
ASSUME ProbedAssumption == Probed \subseteq Resource

VARIABLES invalid,    \* resources planned with a validation_error
          phase,      \* where LaunchService.launch is
          step,       \* where run_resource is, for each resource
          attempt,    \* the loop variable of run_with_retry; 0 before the loop
          result,     \* what the adapter has returned in this attempt: {} before, then
                      \* {LaunchResult.pid}, with 0 for None
          recordIds,  \* keys of LaunchRecorder._resource_record_ids
          setupRow,   \* the setup is still in the database
          launchRow,  \* launches.status of this launch, or "absent"
          rows,       \* resource_runs.status of each resource, or "absent"
          rowPid,     \* resource_runs.pid: the attempt it belongs to, 0 for NULL
          procs       \* <<r, a>>: attempt a of r has started a process

serviceVars == <<invalid, phase, step, attempt, result, recordIds>>
dbVars == <<setupRow, launchRow, rows, rowPid>>
engineVars == <<vars, serviceVars, dbVars, procs>>

LaunchStatus == {"starting", "running", "partial", "failed"}

EngineTypeOK ==
    /\ TypeOK
    /\ invalid \in Plans
    /\ phase \in {"create", "rows", "run", "finalize", "returned", "raised", "killed"}
    /\ step \in [Resource -> {"none", "invalid", "launch", "probe", "backoff", "over"}]
    /\ attempt \in [Resource -> Nat]
    /\ result \in [Resource -> SUBSET Nat]
    /\ recordIds \subseteq Resource
    /\ setupRow \in BOOLEAN
    /\ launchRow \in LaunchStatus \cup {"absent"}
    /\ rows \in [Resource -> {"absent", "pending", "ready", "failed"}]
    /\ rowPid \in [Resource -> Nat]
    /\ procs \subseteq Resource \X Nat

EngineInit ==
    /\ Init
    /\ ~override   \* launch leaves the default
    /\ invalid \in Plans
    /\ phase = "create"
    /\ step = [r \in Resource |-> "none"]
    /\ attempt = [r \in Resource |-> 0]
    /\ result = [r \in Resource |-> {}]
    /\ recordIds = {}
    /\ setupRow = TRUE
    /\ launchRow = "absent"
    /\ rows = [r \in Resource |-> "absent"]
    /\ rowPid = [r \in Resource |-> 0]
    /\ procs = {}

------------------------------------------------------------------------------
(* LaunchRecorder.start_launch: one transaction per row. *)

(* The foreign key refuses a launch of a setup that is gone. *)
CreateLaunch ==
    /\ phase = "create" /\ setupRow
    /\ launchRow' = "starting"
    /\ phase' = "rows"
    /\ UNCHANGED <<vars, invalid, step, attempt, result, recordIds, setupRow, rows, rowPid, procs>>

CreateRow(r) ==
    /\ phase = "rows" /\ r \notin recordIds /\ launchRow # "absent"
    /\ recordIds' = recordIds \cup {r}
    /\ rows' = [rows EXCEPT ![r] = "pending"]
    /\ UNCHANGED <<vars, invalid, phase, step, attempt, result, setupRow, launchRow, rowPid, procs>>

\* Mutant: the rows are left for later.
RowsCreated_Early ==
    /\ phase = "rows"
    /\ phase' = "run"
    /\ UNCHANGED <<vars, invalid, step, attempt, result, recordIds, dbVars, procs>>

RowsCreated ==
    /\ phase = "rows" /\ recordIds = Resource
    /\ phase' = "run"
    /\ UNCHANGED <<vars, invalid, step, attempt, result, recordIds, dbVars, procs>>

(* A write of start_launch or finalize_launch fails: DatabaseError leaves  *)
(* launch.                                                                 *)
WriteFails ==
    /\ \/ phase \in {"create", "finalize"}
       \/ phase = "rows" /\ recordIds # Resource
    /\ phase' = "raised"
    /\ UNCHANGED <<vars, invalid, step, attempt, result, recordIds, dbVars, procs>>

------------------------------------------------------------------------------
(* run_resource, in the task of r. *)

StartTask(r) ==
    /\ phase = "run" /\ Start(r)
    /\ step' = [step EXCEPT ![r] = IF r \in invalid THEN "invalid" ELSE "launch"]
    /\ attempt' = [attempt EXCEPT ![r] = IF r \in invalid THEN 0 ELSE 1]
    /\ UNCHANGED <<invalid, phase, result, recordIds, dbVars, procs>>

(* record_resource_outcome followed by the return of run_resource.  There  *)
(* is no await between the last step of an attempt and the write.          *)
RecordAndReturn(r, s, pid) ==
    /\ rows[r] # "absent"
    /\ rows' = [rows EXCEPT ![r] = s]
    /\ rowPid' = [rowPid EXCEPT ![r] = IF pid # 0 THEN pid ELSE @]
    /\ Finish(r, s)
    /\ step' = [step EXCEPT ![r] = "over"]
    /\ UNCHANGED <<invalid, phase, attempt, recordIds, setupRow, launchRow>>

\* Mutant: the error of the write is swallowed.
RecordRaises_Swallowed(r) ==
    /\ \E s \in {"ready", "failed"} : Finish(r, s)
    /\ step' = [step EXCEPT ![r] = "over"]
    /\ UNCHANGED <<invalid, phase, attempt, recordIds, dbVars>>

(* record_resource_outcome raises, because its row is gone or the write    *)
(* failed; nothing catches it inside the task.                             *)
RecordRaises(r) ==
    /\ Raise(r)
    /\ step' = [step EXCEPT ![r] = "over"]
    /\ UNCHANGED <<invalid, phase, attempt, recordIds, dbVars>>

Record(r, s, pid) == RecordAndReturn(r, s, pid) \/ RecordRaises(r)

\* Mutant: tasks that outlive the launch.
InStep_AnyPhase(r, S) == task[r] = "running" /\ step[r] \in S

InStep(r, S) == phase = "run" /\ task[r] = "running" /\ step[r] \in S

RecordInvalid(r) ==
    /\ InStep(r, {"invalid"})
    /\ Record(r, "failed", 0)
    /\ UNCHANGED <<result, procs>>

(* adapter.launch starts a process, if it starts one at all; what follows  *)
(* of the attempt, a failure, a timeout or a kill, finds it running.       *)
AdapterStarts(r) ==
    /\ InStep(r, {"launch"})
    /\ <<r, attempt[r]>> \notin procs
    /\ procs' = procs \cup {<<r, attempt[r]>>}
    /\ UNCHANGED <<vars, serviceVars, dbVars>>

(* adapter.launch returns the pid of what it started, or none, whether it  *)
(* started something or not.  With no readiness condition the attempt has  *)
(* succeeded; otherwise the probes begin.                                  *)
AdapterReturns(r) ==
    /\ InStep(r, {"launch"})
    /\ \E pid \in {0, attempt[r]} :
          /\ pid = 0 \/ <<r, pid>> \in procs
          /\ result' = [result EXCEPT ![r] = {pid}]
          /\ IF r \in Probed
             THEN /\ step' = [step EXCEPT ![r] = "probe"]
                  /\ UNCHANGED <<vars, invalid, phase, attempt, recordIds, dbVars>>
             ELSE Record(r, "ready", pid)
    /\ UNCHANGED procs

\* Mutant: the process of the first attempt is the one recorded.
ProbeSucceeds_FirstPid(r) ==
    /\ InStep(r, {"probe"})
    /\ Record(r, "ready", 1)
    /\ UNCHANGED <<result, procs>>

(* wait_until_ready returns, and the result of the launch is recorded.     *)
ProbeSucceeds(r) ==
    /\ InStep(r, {"probe"})
    /\ \E pid \in result[r] : Record(r, "ready", pid)
    /\ UNCHANGED <<result, procs>>

(* The attempt ends by an exception or by the timeout of wait_for.  What   *)
(* it started is left alone, and its result is lost.  After the last       *)
(* attempt, or when the delay before the next one overflows, _run_one      *)
(* records the failure.                                                    *)
AttemptFails(r) ==
    /\ InStep(r, {"launch", "probe"})
    /\ \/ /\ attempt[r] < Attempts[r]
          /\ step' = [step EXCEPT ![r] = "backoff"]
          /\ UNCHANGED <<vars, invalid, phase, attempt, recordIds, dbVars>>
       \/ Record(r, "failed", 0)
    /\ UNCHANGED <<result, procs>>

\* Mutant: attempts are not counted.
NextAttempt_Uncounted(r) ==
    /\ InStep(r, {"backoff"})
    /\ step' = [step EXCEPT ![r] = "launch"]
    /\ UNCHANGED <<vars, invalid, phase, attempt, result, recordIds, dbVars, procs>>

(* The sleep of the retry policy is over. *)
NextAttempt(r) ==
    /\ InStep(r, {"backoff"})
    /\ step' = [step EXCEPT ![r] = "launch"]
    /\ attempt' = [attempt EXCEPT ![r] = @ + 1]
    /\ result' = [result EXCEPT ![r] = {}]
    /\ UNCHANGED <<vars, invalid, phase, recordIds, dbVars, procs>>

(* The cancellation lands at an await; recording an invalid resource has   *)
(* none.                                                                   *)
CancelTask(r) ==
    /\ phase = "run" /\ step[r] # "invalid"
    /\ Cancel(r)
    /\ step' = [step EXCEPT ![r] = "over"]
    /\ UNCHANGED <<invalid, phase, attempt, result, recordIds, dbVars, procs>>

ResourceStep(r) ==
    \/ StartTask(r)
    \/ RecordInvalid(r)
    \/ AdapterStarts(r)
    \/ AdapterReturns(r)
    \/ ProbeSucceeds(r)
    \/ AttemptFails(r)
    \/ NextAttempt(r)
    \/ CancelTask(r)

------------------------------------------------------------------------------
(* launch around run_scheduled. *)

ScheduleStep ==
    /\ phase = "run" /\ MainStep
    /\ UNCHANGED <<serviceVars, dbVars, procs>>

ScheduleReturns ==
    /\ phase = "run" /\ pc = "done"
    /\ phase' = "finalize"
    /\ UNCHANGED <<vars, invalid, step, attempt, result, recordIds, dbVars, procs>>

ScheduleRaises ==
    /\ phase = "run" /\ pc \in {"stalled", "aborted"}
    /\ phase' = "raised"
    /\ UNCHANGED <<vars, invalid, step, attempt, result, recordIds, dbVars, procs>>

\* Mutants: any() for all(); a resource status for a launch status.
Aggregate_AnyReady(res) ==
    IF \E r \in Resource : res[r] = "ready" THEN "running" ELSE "failed"
Aggregate_WrongEnum(res) ==
    IF \A r \in Resource : res[r] = "ready" THEN "ready"
    ELSE IF \E r \in Resource : res[r] = "ready" THEN "partial"
    ELSE "failed"

(* _aggregate_status. *)
Aggregate(res) ==
    IF \A r \in Resource : res[r] = "ready" THEN "running"
    ELSE IF \E r \in Resource : res[r] = "ready" THEN "partial"
    ELSE "failed"

FinalizeLaunch ==
    /\ phase = "finalize" /\ launchRow # "absent"
    /\ launchRow' = Aggregate(results)
    /\ phase' = "returned"
    /\ UNCHANGED <<vars, invalid, step, attempt, result, recordIds, setupRow, rows, rowPid, procs>>

------------------------------------------------------------------------------
(* What happens to the launch from outside. *)

OverPhase == {"returned", "raised", "killed"}

(* `setuper delete` in another process: ON DELETE CASCADE takes the        *)
(* launch and its rows along.                                              *)
DeleteSetup ==
    /\ setupRow
    /\ setupRow' = FALSE
    /\ launchRow' = "absent"
    /\ rows' = [r \in Resource |-> "absent"]
    /\ rowPid' = [r \in Resource |-> 0]
    /\ UNCHANGED <<vars, serviceVars, procs>>

CtrlC ==
    /\ phase = "run" /\ Interrupt
    /\ UNCHANGED <<serviceVars, dbVars, procs>>

Kill ==
    /\ phase \notin OverPhase
    /\ phase' = "killed"
    /\ UNCHANGED <<vars, invalid, step, attempt, result, recordIds, dbVars, procs>>

------------------------------------------------------------------------------

ServiceStep ==
    \/ CreateLaunch
    \/ \E r \in Resource : CreateRow(r)
    \/ RowsCreated
    \/ WriteFails
    \/ \E r \in Resource : ResourceStep(r)
    \/ ScheduleStep
    \/ ScheduleReturns
    \/ ScheduleRaises
    \/ FinalizeLaunch

EngineNext == ServiceStep \/ DeleteSetup \/ CtrlC \/ Kill

EngineSpec == EngineInit /\ [][EngineNext]_engineVars

(* The launching process keeps running, and its attempts come back: each   *)
(* is under wait_for.                                                      *)
EngineFair == EngineSpec /\ WF_engineVars(ServiceStep)

------------------------------------------------------------------------------
(* Properties. *)

(* state-management.md's "persist launch record before starting            *)
(* resources" and "persist a resource run before invoking its adapter":    *)
(* whatever a task has begun, started or left behind is in the database,   *)
(* unless the setup was deleted meanwhile.                                 *)
PersistedBeforeStart ==
    setupRow => \A r \in Resource :
        step[r] # "none" \/ (\E a \in 1..Attempts[r] : <<r, a>> \in procs) =>
            launchRow # "absent" /\ \A q \in Resource : rows[q] # "absent"

(* The database never runs ahead of the scheduler nor behind it: as long   *)
(* as the setup is there, a row is terminal exactly when the in-memory     *)
(* result is, and says the same; a crash at any point loses nothing.       *)
RowsMatchResults ==
    setupRow => \A r \in recordIds :
        rows[r] = IF results[r] \in {"ready", "failed"} THEN results[r] ELSE "pending"

(* Something is started only for a resource that passed validation and is  *)
(* not blocked, and only when the READY of each of its dependencies is on  *)
(* disk already.                                                           *)
StartsOnDiskReady ==
    \A r \in Resource : \A a \in 1..Attempts[r] : <<r, a>> \in procs =>
        /\ r \notin invalid /\ results[r] # "blocked"
        /\ setupRow => \A d \in deps[r] : rows[d] = "ready"

(* Both: what is started has its own row, and its dependencies have theirs *)
(* with READY in it, before it is started.                                 *)
StartsAreRecorded == PersistedBeforeStart /\ StartsOnDiskReady

(* The row of a ready resource names what the adapter returned in its last *)
(* attempt: the process it started then, or none if it reported none.  No  *)
(* other row names a process, and none names that of an earlier attempt.   *)
ReadyNamesLastProcess ==
    setupRow => \A r \in Resource :
        /\ rows[r] = "ready" => result[r] = {rowPid[r]}
        /\ rowPid[r] # 0 => /\ rows[r] = "ready"
                            /\ rowPid[r] = attempt[r] /\ <<r, rowPid[r]>> \in procs

(* The final status of the launch agrees with its rows: running when all   *)
(* of them are ready, failed when none is, partial otherwise; and a failed *)
(* or partial launch has a row that failed, not merely one left pending.   *)
StatusAgreesWithRows ==
    setupRow /\ launchRow \in {"running", "partial", "failed"} =>
        LET readyRows == {r \in Resource : rows[r] = "ready"} IN
        /\ launchRow = "running" <=> readyRows = Resource
        /\ launchRow = "failed" => readyRows = {}
        /\ launchRow = "partial" => readyRows # {}
        /\ launchRow # "running" => \E r \in Resource : rows[r] = "failed"

(* Rows and launches leave their final state only by the deletion of the   *)
(* setup, and once launch has returned, raised or been killed it starts    *)
(* nothing and writes nothing.                                             *)
HistoryIsFinal ==
    [][/\ setupRow' =>
             /\ \A r \in Resource : rows[r] \in {"ready", "failed"} => rows'[r] = rows[r]
             /\ launchRow \in {"running", "partial", "failed"} => launchRow' = launchRow
       /\ phase \in OverPhase =>
             /\ procs' = procs
             /\ setupRow' => UNCHANGED <<launchRow, rows, rowPid>>]_engineVars

(* The engine runs its resources the way run_scheduled does. *)
ImplementsScheduler == Spec

(* The run of r as ResourceRun sees it: what has not begun is at its first *)
(* attempt, and only a result that came out of run_resource is an outcome. *)
RunAt(r) == IF step[r] \in {"none", "invalid"} THEN "launch" ELSE step[r]

RunAttempt(r) == IF attempt[r] = 0 THEN 1 ELSE attempt[r]

RunOutcome(r) == IF results[r] \in {"ready", "failed"} THEN results[r] ELSE "none"

Run(r) == INSTANCE ResourceRun WITH
    total <- Attempts[r], probed <- (r \in Probed), at <- RunAt(r), attempt <- RunAttempt(r),
    launched <- (result[r] # {}), outcome <- RunOutcome(r)

(* In a launch, with failing writes, deletions and interrupts, the run of  *)
(* each resource keeps the promise of ResourceRun.                         *)
ImplementsRuns == \A r \in Resource : Run(r)!RunSpec

(* A launch that is not killed returns or raises, even with failing        *)
(* writes, a deletion or Ctrl-C at any point.                              *)
LaunchEnds == <>(phase \in OverPhase)

(* state-management.md: "A blocked dependent uses `blocked` and records    *)
(* the failed dependency."                                                 *)
BlockedIsPersisted ==
    phase = "returned" /\ setupRow =>
        \A r \in Resource : results[r] = "blocked" => rows[r] = "blocked"

(* specs.md: "Record process IDs and ownership metadata."  The process ID  *)
(* that the adapter returned in the last attempt of a resource is in the   *)
(* row of the resource when launch has returned.                           *)
ProcessesAreRecorded ==
    phase = "returned" /\ setupRow =>
        \A r \in Resource : \A pid \in result[r] : rowPid[r] = pid
==============================================================================
