--------------------------- MODULE RetryReadiness ---------------------------
(***************************************************************************)
(* One call of LaunchService._run_one against the clock: the attempts of   *)
(* infrastructure/retry.py, each under a timeout, each launching the       *)
(* resource and then polling infrastructure/readiness_checks.py under a    *)
(* timeout of its own, with the delays of domain/policies.py between them. *)
(*                                                                         *)
(* HTTP and command probes run in threads, which a cancelled attempt leaves*)
(* behind.  Time is an integer; the event loop is prompt: time passes only *)
(* when nothing is due, and what is due at once happens in any order.      *)
(***************************************************************************)
EXTENDS Naturals

CONSTANTS Policies,       \* what a resource may ask for, see PolicyAssumption
          Power(_, _),    \* the power of a backoff
          MaxFloat,       \* a power above it raises OverflowError
          PollInterval,   \* DEFAULT_POLL_INTERVAL_SECONDS
          ProbeTimeout,   \* DEFAULT_PROBE_TIMEOUT_SECONDS
          MaxTurns,       \* bound on changes of the service
          None

(* probe: the kind of ready_when, or None.  No retry policy is one attempt.*)
ASSUME PolicyAssumption ==
    \A p \in Policies :
        /\ p.attempts \in Nat \ {0} /\ p.timeout \in Nat \ {0}
        /\ p.initial \in Nat /\ p.maximum \in Nat /\ p.backoff \in Nat \ {0}
        /\ p.probe \in {"tcp", "http", "command", None}
        /\ \A n \in 1..p.attempts : Power(p.backoff, n - 1) \in Nat
ASSUME TimeAssumption == PollInterval \in Nat \ {0} /\ ProbeTimeout \in Nat \ {0} /\ MaxFloat \in Nat

Answer == {"yes", "no", "raises"}

(* The call of a probe, and the ResourceOutcome that is recorded; by is a  *)
(* ghost: the probe that answered for READY.                               *)
Probe == [attempt : Nat, begun : Nat, answer : Answer \cup {None}]
Outcome == [status : {"READY", "FAILED"}, attempt : Nat, at : Nat, by : Probe \cup {None}]

ASSUME NoneAssumption ==
    None \notin Answer /\ None \notin Probe /\ None \notin Outcome

VARIABLES policy,    \* retry, timeout_seconds and ready_when of the resource
          now,       \* the clock of the event loop
          service,   \* what a probe meets: down, starting or up
          turns,     \* number of changes of the service
          step,      \* where the attempt is
          attempt,   \* run_with_retry: attempt
          due,       \* when the timeout of wait_for ends the attempt
          deadline,  \* wait_until_ready: deadline
          wake,      \* when the current sleep is over
          probe,     \* the probe awaited, or None
          threads,   \* probes whose attempt was cancelled
          launched,  \* ghost: the attempt whose launch has returned, and when
          outcome    \* the ResourceOutcome recorded, or None

vars == <<policy, now, service, turns, step, attempt, due, deadline, wake, probe, threads,
          launched, outcome>>

Init ==
    /\ policy \in Policies
    /\ now = 0 /\ service = "down" /\ turns = 0
    /\ step = "begin" /\ attempt = 1
    /\ due = 0 /\ deadline = 0 /\ wake = 0
    /\ probe = None /\ threads = {}
    /\ launched = [attempt |-> 0, at |-> 0]
    /\ outcome = None

Running == step \in {"launching", "probing", "polling"}

------------------------------------------------------------------------------
(* The resource, which nobody here controls. *)

ServiceTurns == \E s \in {"down", "starting", "up"} :
    /\ outcome = None /\ turns < MaxTurns /\ s # service
    /\ service' = s /\ turns' = turns + 1
    /\ UNCHANGED <<policy, now, step, attempt, due, deadline, wake, probe, threads, launched, outcome>>

------------------------------------------------------------------------------
(* run_with_retry. *)

BeginAttempt ==
    /\ step = "begin"
    /\ step' = "launching" /\ due' = now + policy.timeout
    /\ UNCHANGED <<policy, now, service, turns, attempt, deadline, wake, probe, threads, launched, outcome>>

Overflows == Power(policy.backoff, attempt - 1) > MaxFloat

\* Mutant: the delay has no maximum.
Delay_Uncapped == policy.initial * Power(policy.backoff, attempt - 1)

(* compute_retry_delay. *)
Delay ==
    LET delay == policy.initial * Power(policy.backoff, attempt - 1)
    IN  IF delay < policy.maximum THEN delay ELSE policy.maximum

Recorded(status, by) ==
    /\ outcome' = [status |-> status, attempt |-> attempt, at |-> now, by |-> by]
    /\ step' = "done"
    /\ UNCHANGED <<attempt, wake>>

\* Mutant: one attempt too many.
AttemptFails_OneMore ==
    IF attempt > policy.attempts \/ Overflows
    THEN Recorded("FAILED", None)
    ELSE /\ step' = "backoff" /\ wake' = now + Delay
         /\ UNCHANGED <<attempt, outcome>>

(* The last failure leaves run_with_retry; so does an OverflowError from   *)
(* the delay, whatever attempts are left.                                  *)
AttemptFails ==
    IF attempt = policy.attempts \/ Overflows
    THEN Recorded("FAILED", None)
    ELSE /\ step' = "backoff" /\ wake' = now + Delay
         /\ UNCHANGED <<attempt, outcome>>

\* Mutant: only the wait for readiness is under a timeout.
TimesOut_ReadinessOnly ==
    /\ step \in {"probing", "polling"} /\ now >= due
    /\ threads' = threads \cup {p \in {probe} \ {None} : p.answer = None /\ policy.probe # "tcp"}
    /\ probe' = None
    /\ AttemptFails
    /\ UNCHANGED <<policy, now, service, turns, due, deadline, launched>>

(* wait_for cancels the attempt; a thread it waited for goes on.           *)
TimesOut ==
    /\ Running /\ now >= due
    /\ threads' = threads \cup {p \in {probe} \ {None} : p.answer = None /\ policy.probe # "tcp"}
    /\ probe' = None
    /\ AttemptFails
    /\ UNCHANGED <<policy, now, service, turns, due, deadline, launched>>

BackoffEnds ==
    /\ step = "backoff" /\ now >= wake
    /\ attempt' = attempt + 1 /\ step' = "begin"
    /\ UNCHANGED <<policy, now, service, turns, due, deadline, wake, probe, threads, launched, outcome>>

------------------------------------------------------------------------------
(* The attempt: launch, then wait_until_ready. *)

NewProbe == [attempt |-> attempt, begun |-> now, answer |-> None]

(* The adapter returns, at any time or never; the deadline of readiness is *)
(* counted from here.                                                      *)
AdapterReturns ==
    /\ step = "launching"
    /\ launched' = [attempt |-> attempt, at |-> now]
    /\ IF policy.probe = None
       THEN Recorded("READY", None) /\ UNCHANGED <<deadline, probe>>
       ELSE /\ step' = "probing" /\ deadline' = now + policy.timeout /\ probe' = NewProbe
            /\ UNCHANGED <<attempt, wake, outcome>>
    /\ UNCHANGED <<policy, now, service, turns, due, threads>>

AdapterRaises ==
    /\ step = "launching"
    /\ AttemptFails
    /\ UNCHANGED <<policy, now, service, turns, due, deadline, probe, threads, launched>>

(* What a probe may find.  A server that is starting refuses, or answers   *)
(* something that is not HTTP; a command may print what is not text: both  *)
(* are exceptions that nobody catches.                                     *)
Finds(answer) ==
    \/ answer = "yes" /\ service = "up"
    \/ answer = "no" /\ service # "up"
    \/ answer = "raises" /\ service = "starting" /\ policy.probe = "http"
    \/ answer = "raises" /\ policy.probe = "command"

Answered(answer) ==
    /\ step = "probing" /\ probe.answer = None
    /\ probe' = [probe EXCEPT !.answer = answer]
    /\ UNCHANGED <<policy, now, service, turns, step, attempt, due, deadline, wake, threads,
                   launched, outcome>>

Overdue == step = "probing" /\ probe.answer = None /\ now >= probe.begun + ProbeTimeout

(* A probe ends with what the service is then, or with its timeout; a slow *)
(* HTTP answer need not end at all, as each read has the timeout anew.     *)
ProbeAnswers == \E answer \in Answer :
    /\ Finds(answer) \/ (answer = "no" /\ policy.probe = "http" /\ Overdue)
    /\ Answered(answer)

ProbeTimesOut == policy.probe # "http" /\ Overdue /\ Answered("no")

ThreadEnds == \E p \in threads :
    /\ threads' = threads \ {p}
    /\ UNCHANGED <<policy, now, service, turns, step, attempt, due, deadline, wake, probe,
                   launched, outcome>>

\* Mutant: a thread left behind by an earlier attempt answers for this one.
Ready_AnyThread == step = "probing" /\ (probe.answer = "yes" \/ (threads # {} /\ service = "up"))

Ready == step = "probing" /\ probe.answer = "yes"

BecomesReady ==
    /\ Ready
    /\ Recorded("READY", IF probe.answer = "yes" THEN probe ELSE CHOOSE p \in threads : TRUE)
    /\ probe' = None
    /\ UNCHANGED <<policy, now, service, turns, due, deadline, threads, launched>>

ProbeRaises ==
    /\ step = "probing" /\ probe.answer = "raises"
    /\ probe' = None
    /\ AttemptFails
    /\ UNCHANGED <<policy, now, service, turns, due, deadline, threads, launched>>

NotReady ==
    /\ step = "probing" /\ probe.answer = "no"
    /\ probe' = None
    /\ \/ now >= deadline /\ AttemptFails
       \/ /\ now < deadline /\ step' = "polling"
          /\ wake' = IF now + PollInterval < deadline THEN now + PollInterval ELSE deadline
          /\ UNCHANGED <<attempt, outcome>>
    /\ UNCHANGED <<policy, now, service, turns, due, deadline, threads, launched>>

PollAgain ==
    /\ step = "polling" /\ now >= wake
    /\ step' = "probing" /\ probe' = NewProbe
    /\ UNCHANGED <<policy, now, service, turns, attempt, due, deadline, wake, threads, launched, outcome>>

------------------------------------------------------------------------------
Urgent ==
    \/ step = "begin"
    \/ Running /\ now >= due
    \/ step \in {"backoff", "polling"} /\ now >= wake
    \/ /\ step = "probing"
       /\ probe.answer # None \/ (policy.probe # "http" /\ Overdue)

Tick ==
    /\ outcome = None /\ ~Urgent
    /\ now' = now + 1
    /\ UNCHANGED <<policy, service, turns, step, attempt, due, deadline, wake, probe, threads,
                   launched, outcome>>

Loop ==
    \/ BeginAttempt \/ TimesOut \/ BackoffEnds
    \/ ProbeTimesOut \/ BecomesReady \/ ProbeRaises \/ NotReady \/ PollAgain

Outside == ServiceTurns \/ AdapterReturns \/ AdapterRaises \/ ProbeAnswers \/ ThreadEnds

Next == Loop \/ Outside \/ Tick

(* The loop runs what is due and the clock goes on; nothing is promised of *)
(* adapters, probes and the service.                                       *)
Spec == Init /\ [][Next]_vars /\ WF_vars(Loop) /\ WF_vars(Tick)

------------------------------------------------------------------------------
(* Types, and what is there at which step. *)
TypeOK ==
    /\ policy \in Policies
    /\ now \in Nat /\ due \in Nat /\ deadline \in Nat /\ wake \in Nat /\ turns \in Nat
    /\ service \in {"down", "starting", "up"}
    /\ step \in {"begin", "launching", "probing", "polling", "backoff", "done"}
    /\ attempt \in 1..policy.attempts
    /\ probe \in Probe \cup {None} /\ (probe # None <=> step = "probing")
    /\ threads \subseteq Probe
    /\ launched \in [attempt : Nat, at : Nat]
    /\ outcome \in Outcome \cup {None} /\ (outcome # None <=> step = "done")

(* READY is due to this attempt: its own launch returned, a probe it began *)
(* after that succeeded, before its timeout; no thread of an attempt given *)
(* up, and no instance an earlier attempt launched, speaks for it.  FAILED *)
(* means that every attempt was made, or that the delay before the next    *)
(* could not be computed.  Code: run_with_retry around _run_one.attempt.   *)
OutcomeIsEarned ==
    outcome # None =>
        IF outcome.status = "READY"
        THEN /\ launched.attempt = attempt /\ outcome.at <= due
             /\ policy.probe # None =>
                    /\ outcome.by.attempt = attempt /\ outcome.by.answer = "yes"
                    /\ outcome.by.begun >= launched.at
        ELSE attempt = policy.attempts \/ Overflows

(* The budget: however adapters and probes hang, an outcome is due before  *)
(* every attempt has used its timeout and every delay its maximum.  Code:  *)
(* wait_for and sleep in run_with_retry; the readiness deadline inside an  *)
(* attempt starts later than wait_for's and adds nothing.                  *)
EndsInTime == now <= policy.attempts * policy.timeout + (policy.attempts - 1) * policy.maximum

(* An outcome is recorded, whatever never answers.  Code: as above.        *)
Ends == <>(outcome # None)

(* What a run is doing, without the clock. *)
RunAt ==
    CASE step \in {"begin", "launching"} -> "launch"
      [] step \in {"probing", "polling"} -> "probe"
      [] step = "backoff" -> "backoff"
      [] step = "done" -> "over"

RunOutcome ==
    IF outcome = None THEN "none" ELSE IF outcome.status = "READY" THEN "ready" ELSE "failed"

Run == INSTANCE ResourceRun WITH
    total <- policy.attempts, probed <- (policy.probe # None), at <- RunAt,
    launched <- (launched.attempt = attempt), outcome <- RunOutcome

(* Against the clock, and with probes left behind in threads, a run keeps  *)
(* the promise of ResourceRun.                                             *)
ImplementsRun == Run!RunSpec
==============================================================================
