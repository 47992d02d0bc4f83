------------------------- MODULE RetryReadinessProofs -------------------------
(***************************************************************************)
(* What RetryReadiness.tla promises for every policy.  The inductive       *)
(* invariant keeps, for each step an attempt can be at, the time it may    *)
(* still take (Clock) and whose launch and whose probe it is waiting for   *)
(* (Belongs).                                                              *)
(***************************************************************************)
EXTENDS RetryReadiness, TLAPS

(* Every try has used at most its timeout, every wait at most the maximum. *)
Budget(tries, waits) == tries * policy.timeout + waits * policy.maximum

Clock ==
    /\ step = "begin" => now <= Budget(attempt - 1, attempt - 1)
    /\ Running => now <= due /\ due <= Budget(attempt, attempt - 1)
    /\ step = "backoff" =>
           attempt < policy.attempts /\ now <= wake /\ wake <= Budget(attempt, attempt)
    /\ step = "done" => now <= Budget(attempt, attempt - 1)

Belongs ==
    /\ launched.attempt <= attempt
    /\ step \in {"begin", "launching"} => launched.attempt < attempt
    /\ step \in {"probing", "polling"} => launched.attempt = attempt /\ launched.at <= now
    /\ step = "probing" => probe.attempt = attempt /\ probe.begun >= launched.at

IInv == TypeOK /\ Clock /\ Belongs /\ OutcomeIsEarned

------------------------------------------------------------------------------
(* Arithmetic *)

LEMMA ProductType == \A a \in Nat, b \in Nat : a * b \in Nat
OBVIOUS

LEMMA OneMore == \A a \in Nat, b \in Nat : (a + 1) * b = a * b + b
OBVIOUS

LEMMA Monotone == \A a \in Nat, b \in Nat, c \in Nat : a <= b => a * c <= b * c
<1> SUFFICES ASSUME NEW a \in Nat, NEW b \in Nat, NEW c \in Nat, a <= b
             PROVE  a * c <= b * c
  OBVIOUS
<1>1. PICK d \in Nat : b = a + d
  <2>1. b - a \in Nat /\ b = a + (b - a)
    OBVIOUS
  <2> QED
    BY <2>1
<1>2. b * c = a * c + d * c
  BY <1>1
<1>3. a * c \in Nat /\ d * c \in Nat
  BY ProductType
<1> QED
  BY <1>2, <1>3

(* The fields of a policy, and the numbers of an attempt. *)
LEMMA PolicyType ==
    ASSUME TypeOK
    PROVE  /\ policy.attempts \in Nat \ {0} /\ policy.timeout \in Nat \ {0}
           /\ policy.maximum \in Nat /\ policy.initial \in Nat
           /\ attempt \in Nat \ {0} /\ attempt <= policy.attempts
           /\ Power(policy.backoff, attempt - 1) \in Nat
<1>1. policy \in Policies /\ attempt \in 1..policy.attempts
  BY DEF TypeOK
<1> QED
  BY <1>1, PolicyAssumption

LEMMA DelayType ==
    ASSUME TypeOK
    PROVE  Delay \in Nat /\ Delay <= policy.maximum
<1>1. policy.initial * Power(policy.backoff, attempt - 1) \in Nat
  BY PolicyType, ProductType
<1> QED
  BY <1>1, PolicyType DEF Delay

LEMMA BudgetType ==
    ASSUME TypeOK, NEW a \in Nat, NEW b \in Nat
    PROVE  Budget(a, b) \in Nat
<1>1. a * policy.timeout \in Nat /\ b * policy.maximum \in Nat
  BY PolicyType, ProductType
<1> QED
  BY <1>1 DEF Budget

(* Another try, another wait. *)
LEMMA BudgetGrows ==
    ASSUME TypeOK, NEW a \in Nat, NEW b \in Nat
    PROVE  /\ Budget(a + 1, b) = Budget(a, b) + policy.timeout
           /\ Budget(a, b + 1) = Budget(a, b) + policy.maximum
<1>1. a * policy.timeout \in Nat /\ b * policy.maximum \in Nat
  BY PolicyType, ProductType
<1>2. (a + 1) * policy.timeout = a * policy.timeout + policy.timeout
  BY PolicyType, OneMore
<1>3. (b + 1) * policy.maximum = b * policy.maximum + policy.maximum
  BY PolicyType, OneMore
<1> QED
  BY <1>1, <1>2, <1>3, PolicyType DEF Budget

(* A budget at most that of the whole policy. *)
LEMMA BudgetBound ==
    ASSUME TypeOK, NEW a \in Nat \ {0}, a <= policy.attempts
    PROVE  Budget(a, a - 1) <= Budget(policy.attempts, policy.attempts - 1)
<1>1. a * policy.timeout <= policy.attempts * policy.timeout
  BY PolicyType, Monotone
<1>2. (a - 1) * policy.maximum <= (policy.attempts - 1) * policy.maximum
  <2>1. a - 1 \in Nat /\ policy.attempts - 1 \in Nat /\ a - 1 <= policy.attempts - 1
    BY PolicyType
  <2> QED
    BY <2>1, PolicyType, Monotone
<1>3. /\ a * policy.timeout \in Nat /\ policy.attempts * policy.timeout \in Nat
      /\ (a - 1) * policy.maximum \in Nat /\ (policy.attempts - 1) * policy.maximum \in Nat
  BY PolicyType, ProductType
<1> QED
  BY <1>1, <1>2, <1>3 DEF Budget

------------------------------------------------------------------------------
(* The steps *)

LEMMA InitInv == Init => IInv
<1> SUFFICES ASSUME Init PROVE IInv
  OBVIOUS
<1>1. policy \in Policies /\ policy.attempts \in Nat \ {0}
  BY PolicyAssumption DEF Init
<1>2. TypeOK
  BY <1>1 DEF Init, TypeOK
<1>3. Budget(0, 0) \in Nat /\ now = 0 /\ attempt = 1 /\ step = "begin"
  BY <1>2, BudgetType DEF Init
<1>4. Clock /\ Belongs /\ OutcomeIsEarned
  BY <1>3 DEF Init, Clock, Belongs, OutcomeIsEarned, Running
<1> QED
  BY <1>2, <1>4 DEF IInv

(* As long as nothing is recorded there is nothing to earn. *)
LEMMA Unfinished ==
    ASSUME TypeOK', step' # "done"
    PROVE  OutcomeIsEarned'
BY DEF TypeOK, OutcomeIsEarned

(* The two ways a failure goes. *)
LEMMA FailureShape ==
    ASSUME TypeOK, AttemptFails
    PROVE  \/ /\ step' = "done" /\ attempt' = attempt
              /\ outcome' \in Outcome /\ outcome'.status = "FAILED"
              /\ attempt = policy.attempts \/ Overflows
           \/ /\ step' = "backoff" /\ attempt < policy.attempts
              /\ wake' = now + Delay /\ attempt' = attempt /\ outcome' = outcome
<1>1. CASE attempt = policy.attempts \/ Overflows
  <2> DEFINE o == [status |-> "FAILED", attempt |-> attempt, at |-> now, by |-> None]
  <2>1. o \in Outcome /\ o.status = "FAILED"
    BY PolicyType DEF Outcome, TypeOK
  <2>2. outcome' = o /\ step' = "done" /\ attempt' = attempt
    BY <1>1 DEF AttemptFails, Recorded
  <2> QED
    BY <1>1, <2>1, <2>2
<1>2. CASE ~(attempt = policy.attempts \/ Overflows)
  BY <1>2, PolicyType DEF AttemptFails
<1> QED
  BY <1>1, <1>2

(* An attempt fails: it raised, or its timeout was over. *)
LEMMA FailureStep ==
    ASSUME IInv, Running, AttemptFails, probe' = None, threads' \subseteq Probe,
           wake' \in Nat,
           UNCHANGED <<policy, now, service, turns, due, deadline, launched>>
    PROVE  IInv'
<1>0. TypeOK /\ Clock /\ Belongs /\ OutcomeIsEarned
  BY DEF IInv
<1>1. now <= due /\ due <= Budget(attempt, attempt - 1) /\ step # "done" /\ outcome = None
  BY <1>0 DEF Clock, Running, TypeOK
<1>2. attempt' = attempt /\ step' \in {"done", "backoff"}
  BY <1>0, FailureShape
<1>3. TypeOK'
  <2>1. outcome' \in Outcome \cup {None} /\ (outcome' # None <=> step' = "done")
    BY <1>0, <1>1, FailureShape, NoneAssumption
  <2> QED
    BY <1>0, <1>2, <2>1 DEF TypeOK
<1>4. /\ attempt \in Nat \ {0} /\ attempt - 1 \in Nat /\ now \in Nat /\ due \in Nat
      /\ Budget(attempt, attempt - 1) \in Nat /\ Budget(attempt, attempt) \in Nat
      /\ Budget(attempt, attempt) = Budget(attempt, attempt - 1) + policy.maximum
  <2>1. attempt \in Nat \ {0} /\ attempt - 1 \in Nat /\ (attempt - 1) + 1 = attempt
    BY <1>0, PolicyType
  <2> QED
    BY <1>0, <2>1, BudgetType, BudgetGrows DEF TypeOK
<1>5. \A a \in Nat, b \in Nat : Budget(a, b)' = Budget(a, b)
  BY DEF Budget
<1>6. Clock'
  <2>1. CASE step' = "done"
    BY <1>1, <1>2, <1>4, <1>5, <2>1 DEF Clock, Running
  <2>2. CASE step' = "backoff"
    <3>1. attempt < policy.attempts /\ wake' = now + Delay
      BY <1>0, <2>2, FailureShape
    <3>2. Delay \in Nat /\ Delay <= policy.maximum /\ policy.maximum \in Nat
      BY <1>0, DelayType, PolicyType
    <3>3. now <= wake' /\ wake' <= Budget(attempt, attempt)
      BY <1>1, <1>4, <3>1, <3>2
    <3> QED
      BY <1>2, <1>4, <1>5, <2>2, <3>1, <3>3 DEF Clock, Running
  <2> QED
    BY <1>2, <2>1, <2>2
<1>7. Belongs'
  BY <1>0, <1>2 DEF Belongs
<1>8. OutcomeIsEarned'
  <2>1. CASE step' = "done"
    <3>1. outcome'.status = "FAILED" /\ (attempt = policy.attempts \/ Overflows)
      BY <1>0, <2>1, FailureShape
    <3>2. attempt' = policy'.attempts \/ Overflows'
      BY <1>2, <3>1 DEF Overflows
    <3> QED
      BY <3>1, <3>2 DEF OutcomeIsEarned
  <2>2. CASE step' # "done"
    BY <1>3, <2>2, Unfinished
  <2> QED
    BY <2>1, <2>2
<1> QED
  BY <1>3, <1>6, <1>7, <1>8 DEF IInv

(* ... for one of these reasons. *)
LEMMA FailingStep ==
    ASSUME IInv, TimesOut \/ AdapterRaises \/ ProbeRaises \/ (NotReady /\ AttemptFails)
    PROVE  IInv'
<1>0. TypeOK
  BY DEF IInv
<1>1. Running /\ AttemptFails /\ UNCHANGED <<policy, now, service, turns, due, deadline, launched>>
  BY DEF TimesOut, AdapterRaises, ProbeRaises, NotReady, Running
<1>2. probe' = None
  BY <1>0 DEF TypeOK, TimesOut, AdapterRaises, ProbeRaises, NotReady
<1>3. threads' \subseteq Probe
  BY <1>0 DEF TypeOK, TimesOut, AdapterRaises, ProbeRaises, NotReady
<1>4. wake' \in Nat
  BY <1>0, <1>1, DelayType DEF AttemptFails, Recorded, TypeOK
<1> QED
  BY <1>1, <1>2, <1>3, <1>4, FailureStep

(* What leaves the attempt alone. *)
LEMMA ElsewhereStep ==
    ASSUME IInv, ServiceTurns \/ ThreadEnds \/ UNCHANGED vars
    PROVE  IInv'
<1>0. TypeOK /\ Clock /\ Belongs /\ OutcomeIsEarned
  BY DEF IInv
<1>1. UNCHANGED <<policy, now, step, attempt, due, deadline, wake, probe, launched, outcome>>
  BY DEF ServiceTurns, ThreadEnds, vars
<1>2. TypeOK'
  BY <1>0, <1>1 DEF TypeOK, ServiceTurns, ThreadEnds, vars
<1>3. Clock' /\ Belongs'
  BY <1>0, <1>1 DEF Clock, Belongs, Running, Budget
<1>4. OutcomeIsEarned'
  BY <1>0, <1>1 DEF OutcomeIsEarned, Overflows
<1> QED
  BY <1>2, <1>3, <1>4 DEF IInv

(* run_with_retry goes into an attempt, and out of a wait. *)
LEMMA LoopStep ==
    ASSUME IInv, BeginAttempt \/ BackoffEnds
    PROVE  IInv'
<1>0. TypeOK /\ Clock /\ Belongs /\ now \in Nat
  BY DEF IInv, TypeOK
<1>1. /\ attempt \in Nat \ {0} /\ attempt - 1 \in Nat /\ (attempt - 1) + 1 = attempt
      /\ attempt <= policy.attempts /\ policy.attempts \in Nat
      /\ policy.timeout \in Nat \ {0} /\ (attempt + 1) - 1 = attempt
  BY <1>0, PolicyType
<1>2. \A a \in Nat, b \in Nat : Budget(a, b)' = Budget(a, b)
  BY DEF BeginAttempt, BackoffEnds, Budget
<1>3. CASE BeginAttempt
  <2>1. step = "begin" /\ step' = "launching" /\ due' = now + policy.timeout
        /\ UNCHANGED <<policy, now, turns, service, attempt, deadline, wake, probe, threads,
                       launched, outcome>>
    BY <1>3 DEF BeginAttempt
  <2>2. due' \in Nat /\ now <= due'
    BY <1>0, <1>1, <2>1
  <2>3. TypeOK'
    BY <1>0, <2>1, <2>2 DEF TypeOK
  <2>4. due' <= Budget(attempt, attempt - 1)
    <3>1. now <= Budget(attempt - 1, attempt - 1)
      BY <1>0, <2>1 DEF Clock
    <3>2. Budget(attempt, attempt - 1) = Budget(attempt - 1, attempt - 1) + policy.timeout
      BY <1>0, <1>1, BudgetGrows
    <3>3. Budget(attempt - 1, attempt - 1) \in Nat
      BY <1>0, <1>1, BudgetType
    <3> QED
      BY <1>0, <1>1, <2>1, <3>1, <3>2, <3>3
  <2>5. Clock'
    BY <1>1, <1>2, <2>1, <2>2, <2>4 DEF Clock, Running
  <2>6. Belongs'
    BY <1>0, <2>1 DEF Belongs
  <2> QED
    BY <2>1, <2>3, <2>5, <2>6, Unfinished DEF IInv
<1>4. CASE BackoffEnds
  <2>1. step = "backoff" /\ now >= wake /\ step' = "begin" /\ attempt' = attempt + 1
        /\ UNCHANGED <<policy, now, turns, service, due, deadline, wake, probe, threads,
                       launched, outcome>>
    BY <1>4 DEF BackoffEnds
  <2>2. attempt < policy.attempts /\ now <= Budget(attempt, attempt)
    <3>1. attempt < policy.attempts /\ now <= wake /\ wake <= Budget(attempt, attempt)
      BY <1>0, <2>1 DEF Clock
    <3>2. wake \in Nat /\ Budget(attempt, attempt) \in Nat
      BY <1>0, <1>1, BudgetType DEF TypeOK
    <3> QED
      BY <1>0, <3>1, <3>2
  <2>3. attempt' \in 1..policy.attempts
    BY <1>1, <2>1, <2>2
  <2>4. TypeOK'
    BY <1>0, <2>1, <2>3 DEF TypeOK
  <2>5. Clock'
    BY <1>1, <1>2, <2>1, <2>2 DEF Clock, Running
  <2>6. Belongs'
    <3>1. launched.attempt \in Nat /\ launched.attempt <= attempt
      BY <1>0 DEF Belongs, TypeOK
    <3> QED
      BY <1>1, <2>1, <3>1 DEF Belongs
  <2> QED
    BY <2>1, <2>4, <2>5, <2>6, Unfinished DEF IInv
<1> QED
  BY <1>3, <1>4

(* The attempt goes on: it launches no more, polls, or polls again. *)
LEMMA GoesOnStep ==
    ASSUME IInv, step \in {"launching", "probing", "polling"}, step' \in {"probing", "polling"},
           UNCHANGED <<policy, now, service, turns, attempt, due, threads, outcome>>,
           launched' \in [attempt : Nat, at : Nat], deadline' \in Nat, wake' \in Nat,
           launched'.attempt = attempt, launched'.at <= now,
           probe' \in Probe \cup {None}, probe' # None <=> step' = "probing",
           step' = "probing" => probe'.attempt = attempt /\ probe'.begun >= launched'.at
    PROVE  IInv'
<1>0. TypeOK /\ Clock /\ attempt \in Nat \ {0}
  BY PolicyType DEF IInv
<1>1. TypeOK'
  BY <1>0 DEF TypeOK
<1>2. Clock'
  BY <1>0 DEF Clock, Running, Budget
<1>3. Belongs'
  BY DEF Belongs
<1> QED
  BY <1>1, <1>2, <1>3, Unfinished DEF IInv

(* The attempt succeeds. *)
LEMMA SuccessStep ==
    ASSUME IInv, Running, NEW by \in Probe \cup {None}, Recorded("READY", by), probe' = None,
           UNCHANGED <<policy, now, service, turns, due, threads>>,
           launched' \in [attempt : Nat, at : Nat], deadline' \in Nat,
           launched'.attempt = attempt,
           policy.probe # None =>
               /\ by.attempt = attempt /\ by.answer = "yes" /\ by.begun >= launched'.at
    PROVE  IInv'
<1>0. TypeOK /\ Clock /\ attempt \in Nat \ {0} /\ now \in Nat /\ due \in Nat
  BY PolicyType DEF IInv, TypeOK
<1> DEFINE o == [status |-> "READY", attempt |-> attempt, at |-> now, by |-> by]
<1>1. o \in Outcome /\ o.status = "READY" /\ o.at = now /\ o.by = by
  BY <1>0 DEF Outcome
<1>2. outcome' = o /\ step' = "done" /\ UNCHANGED <<attempt, wake>>
  BY DEF Recorded
<1> HIDE DEF o
<1>3. TypeOK'
  BY <1>0, <1>1, <1>2, NoneAssumption DEF TypeOK
<1>4. now <= due /\ due <= Budget(attempt, attempt - 1)
  BY <1>0 DEF Clock
<1>5. Budget(attempt, attempt - 1) \in Nat /\ Budget(attempt, attempt - 1)' = Budget(attempt, attempt - 1)
  <2>1. attempt \in Nat /\ attempt - 1 \in Nat
    BY <1>0
  <2> QED
    BY <1>0, <1>2, <2>1, BudgetType DEF Budget
<1>6. Clock'
  BY <1>0, <1>2, <1>4, <1>5 DEF Clock, Running
<1>7. Belongs'
  BY <1>2 DEF Belongs
<1>8. OutcomeIsEarned'
  BY <1>1, <1>2, <1>4 DEF OutcomeIsEarned
<1> QED
  BY <1>3, <1>6, <1>7, <1>8 DEF IInv

(* A probe that begins now. *)
LEMMA NewProbeType ==
    ASSUME TypeOK
    PROVE  NewProbe \in Probe /\ NewProbe # None /\ NewProbe.attempt = attempt /\ NewProbe.begun = now
<1>1. attempt \in Nat /\ now \in Nat
  BY PolicyType DEF TypeOK
<1>2. NewProbe \in Probe
  BY <1>1 DEF NewProbe, Probe
<1> QED
  BY <1>2, NoneAssumption DEF NewProbe

(* The adapter has launched. *)
LEMMA AdapterStep ==
    ASSUME IInv, AdapterReturns
    PROVE  IInv'
<1>0. TypeOK /\ attempt \in Nat \ {0} /\ now \in Nat /\ policy.timeout \in Nat
  BY PolicyType DEF IInv, TypeOK
<1> DEFINE l == [attempt |-> attempt, at |-> now]
<1>1. l \in [attempt : Nat, at : Nat] /\ l.attempt = attempt /\ l.at = now
  BY <1>0
<1>2. launched' = l /\ step = "launching" /\ UNCHANGED <<policy, now, service, turns, due, threads>>
  BY DEF AdapterReturns
<1> HIDE DEF l
<1>3. CASE policy.probe = None
  <2>1. Recorded("READY", None) /\ UNCHANGED <<deadline, probe>>
    BY <1>3 DEF AdapterReturns
  <2>2. probe' = None /\ deadline' \in Nat
    BY <1>0, <1>2, <2>1 DEF TypeOK
  <2> QED
    BY <1>1, <1>2, <1>3, <2>1, <2>2, SuccessStep DEF Running
<1>4. CASE policy.probe # None
  <2>1. step' = "probing" /\ deadline' = now + policy.timeout /\ probe' = NewProbe
        /\ UNCHANGED <<attempt, wake, outcome>>
    BY <1>4 DEF AdapterReturns
  <2>2. deadline' \in Nat /\ wake' \in Nat
    BY <1>0, <2>1 DEF TypeOK
  <2> QED
    BY <1>0, <1>1, <1>2, <2>1, <2>2, NewProbeType, GoesOnStep
<1> QED
  BY <1>3, <1>4

(* A probe answers; its answer is heard. *)
LEMMA ProbeStep ==
    ASSUME IInv, ProbeAnswers \/ ProbeTimesOut
    PROVE  IInv'
<1>0. TypeOK /\ Belongs
  BY DEF IInv
<1>1. PICK answer \in Answer : Answered(answer)
  BY DEF ProbeAnswers, ProbeTimesOut, Answer
<1> DEFINE p == [probe EXCEPT !.answer = answer]
<1>2. step = "probing" /\ probe \in Probe
  BY <1>0, <1>1 DEF Answered, TypeOK
<1>3. p \in Probe /\ p.attempt = probe.attempt /\ p.begun = probe.begun
  BY <1>2 DEF Probe
<1>4. probe' = p /\ UNCHANGED <<policy, now, service, turns, step, attempt, due, deadline, wake,
                               threads, launched, outcome>>
  BY <1>1 DEF Answered
<1> HIDE DEF p
<1>5. p # None
  BY <1>3, NoneAssumption
<1> QED
  BY <1>0, <1>2, <1>3, <1>4, <1>5, GoesOnStep DEF TypeOK, Belongs

LEMMA ReadyStep ==
    ASSUME IInv, BecomesReady
    PROVE  IInv'
<1>0. TypeOK /\ Belongs
  BY DEF IInv
<1>1. step = "probing" /\ probe.answer = "yes" /\ Recorded("READY", probe) /\ probe' = None
      /\ UNCHANGED <<policy, now, service, turns, due, deadline, threads, launched>>
  BY DEF BecomesReady, Ready
<1>2. probe \in Probe \cup {None} /\ launched \in [attempt : Nat, at : Nat] /\ deadline \in Nat
  BY <1>0 DEF TypeOK
<1>3. launched.attempt = attempt /\ probe.attempt = attempt /\ probe.begun >= launched.at
  BY <1>0, <1>1 DEF Belongs
<1> QED
  BY <1>1, <1>2, <1>3, SuccessStep DEF Running

(* The service is not ready: another poll, sooner or later. *)
LEMMA PollStep ==
    ASSUME IInv, (NotReady /\ ~AttemptFails) \/ PollAgain
    PROVE  IInv'
<1>0. TypeOK /\ Belongs /\ now \in Nat /\ deadline \in Nat /\ wake \in Nat
      /\ launched \in [attempt : Nat, at : Nat]
  BY DEF IInv, TypeOK
<1>1. CASE NotReady /\ ~AttemptFails
  <2>1. /\ step = "probing" /\ probe' = None /\ step' = "polling"
        /\ wake' = IF now + PollInterval < deadline THEN now + PollInterval ELSE deadline
        /\ UNCHANGED <<attempt, outcome, policy, now, service, turns, due, deadline, threads, launched>>
    BY <1>1 DEF NotReady
  <2>2. wake' \in Nat
    BY <1>0, <2>1, TimeAssumption
  <2> QED
    BY <1>0, <2>1, <2>2, GoesOnStep DEF Belongs
<1>2. CASE PollAgain
  <2>1. /\ step = "polling" /\ step' = "probing" /\ probe' = NewProbe
        /\ UNCHANGED <<policy, now, service, turns, attempt, due, deadline, wake, threads,
                       launched, outcome>>
    BY <1>2 DEF PollAgain
  <2> QED
    BY <1>0, <2>1, NewProbeType, GoesOnStep DEF Belongs
<1> QED
  BY <1>1, <1>2

(* Time passes only when nothing is due. *)
LEMMA TickStep ==
    ASSUME IInv, Tick
    PROVE  IInv'
<1>0. TypeOK /\ Clock /\ Belongs
  BY DEF IInv
<1>1. now' = now + 1 /\ step \notin {"begin", "done"}
      /\ UNCHANGED <<policy, service, turns, step, attempt, due, deadline, wake, probe, threads,
                     launched, outcome>>
  BY <1>0 DEF Tick, Urgent, TypeOK
<1>2. now \in Nat /\ due \in Nat /\ wake \in Nat /\ launched.at \in Nat
  BY <1>0 DEF TypeOK
<1>3. (Running => now < due) /\ (step = "backoff" => now < wake)
  BY <1>2 DEF Tick, Urgent
<1>4. TypeOK'
  BY <1>0, <1>1, <1>2 DEF TypeOK
<1>5. Clock'
  <2>1. \A a \in Nat, b \in Nat : Budget(a, b)' = Budget(a, b)
    BY <1>1 DEF Budget
  <2>2. attempt \in Nat \ {0} /\ attempt - 1 \in Nat
    BY <1>0, PolicyType
  <2> QED
    BY <1>0, <1>1, <1>2, <1>3, <2>1, <2>2 DEF Clock, Running
<1>6. Belongs'
  BY <1>0, <1>1, <1>2 DEF Belongs
<1> QED
  BY <1>1, <1>4, <1>5, <1>6, Unfinished DEF IInv

LEMMA Invariant == Spec => []IInv
<1>1. IInv /\ [Next]_vars => IInv'
  BY FailingStep, ElsewhereStep, LoopStep, AdapterStep, ProbeStep, ReadyStep, PollStep, TickStep
  DEF Next, Loop, Outside
<1> QED
  BY <1>1, InitInv, PTL DEF Spec

------------------------------------------------------------------------------

(* The variables of a resource's launch keep their types. *)
THEOREM TypeCorrect == Spec => []TypeOK
BY Invariant, PTL DEF IInv

(* READY is due to the attempt that is recorded, FAILED to the last one or *)
(* to a delay that could not be computed, for any policy.                  *)
THEOREM OutcomesAreEarned == Spec => []OutcomeIsEarned
BY Invariant, PTL DEF IInv

(* No launch of a resource takes longer than its policy allows. *)
THEOREM AttemptsEndInTime == Spec => []EndsInTime
<1>1. IInv => EndsInTime
  <2> SUFFICES ASSUME IInv PROVE EndsInTime
    OBVIOUS
  <2>0. TypeOK /\ Clock /\ now \in Nat /\ due \in Nat /\ wake \in Nat
    BY DEF IInv, TypeOK
  <2>1. /\ attempt \in Nat \ {0} /\ attempt - 1 \in Nat /\ attempt + 1 \in Nat
        /\ attempt <= policy.attempts /\ policy.attempts \in Nat \ {0}
        /\ policy.timeout \in Nat /\ policy.maximum \in Nat
        /\ (attempt - 1) + 1 = attempt /\ (attempt + 1) - 1 = attempt
    BY <2>0, PolicyType
  <2>2. /\ Budget(attempt, attempt - 1) \in Nat /\ Budget(attempt, attempt) \in Nat
        /\ Budget(attempt - 1, attempt - 1) \in Nat
        /\ Budget(policy.attempts, policy.attempts - 1) \in Nat
    <3>1. policy.attempts \in Nat /\ policy.attempts - 1 \in Nat /\ attempt \in Nat
      BY <2>1
    <3> QED
      BY <2>0, <2>1, <3>1, BudgetType
  <2>3. Budget(attempt, attempt - 1) <= Budget(policy.attempts, policy.attempts - 1)
    BY <2>0, <2>1, BudgetBound
  <2>4. Budget(attempt, attempt - 1) = Budget(attempt - 1, attempt - 1) + policy.timeout
    BY <2>0, <2>1, BudgetGrows
  <2>5. step = "backoff" => Budget(attempt, attempt) <= Budget(policy.attempts, policy.attempts - 1)
    <3>1. Budget(attempt + 1, attempt) = Budget(attempt, attempt) + policy.timeout
      BY <2>0, <2>1, BudgetGrows
    <3>2. step = "backoff" =>
            Budget(attempt + 1, (attempt + 1) - 1) <= Budget(policy.attempts, policy.attempts - 1)
      BY <2>0, <2>1, BudgetBound DEF Clock
    <3>3. step = "backoff" =>
            Budget(attempt + 1, attempt) <= Budget(policy.attempts, policy.attempts - 1)
      BY <2>1, <3>2
    <3> QED
      BY <2>1, <2>2, <3>1, <3>3
  <2>6. now <= Budget(policy.attempts, policy.attempts - 1)
    <3>1. CASE step = "begin"
      BY <2>0, <2>1, <2>2, <2>3, <2>4, <3>1 DEF Clock
    <3>2. CASE Running
      BY <2>0, <2>1, <2>2, <2>3, <3>2 DEF Clock
    <3>3. CASE step = "backoff"
      BY <2>0, <2>2, <2>5, <3>3 DEF Clock
    <3>4. CASE step = "done"
      BY <2>0, <2>2, <2>3, <3>4 DEF Clock
    <3> QED
      BY <2>0, <3>1, <3>2, <3>3, <3>4 DEF TypeOK, Running
  <2> QED
    BY <2>6 DEF Budget, EndsInTime
<1> QED
  BY <1>1, Invariant, PTL

------------------------------------------------------------------------------
(* The promise of ResourceRun, step by step. *)

(* A failure, as ResourceRun sees it. *)
LEMMA FailureIsRunFails ==
    ASSUME IInv, Running, AttemptFails, UNCHANGED <<policy, launched>>
    PROVE  Run!Fails
<1>0. TypeOK /\ outcome = None /\ step # "done"
  BY DEF IInv, TypeOK, Running
<1>1. RunAt \in {"launch", "probe"} /\ RunOutcome = "none"
  BY <1>0 DEF RunAt, RunOutcome, Running
<1>2. attempt' = attempt
  BY <1>0, FailureShape
<1>3. UNCHANGED <<policy.attempts, (policy.probe # None), attempt, (launched.attempt = attempt)>>
  BY <1>2
<1>4. CASE step' = "done"
  <2>1. outcome' \in Outcome /\ outcome'.status = "FAILED"
    BY <1>0, <1>4, FailureShape
  <2>2. outcome' # None
    BY <2>1, NoneAssumption
  <2>3. RunAt' = "over" /\ RunOutcome' = "failed"
    BY <1>4, <2>1, <2>2 DEF RunAt, RunOutcome
  <2> QED
    BY <1>1, <1>3, <2>3 DEF Run!Fails, Run!Over
<1>5. CASE step' # "done"
  <2>1. step' = "backoff" /\ attempt < policy.attempts /\ outcome' = outcome
    BY <1>0, <1>5, FailureShape
  <2>2. RunAt' = "backoff" /\ RunOutcome' = RunOutcome
    BY <2>1 DEF RunAt, RunOutcome
  <2> QED
    BY <1>1, <1>3, <2>1, <2>2 DEF Run!Fails
<1> QED
  BY <1>4, <1>5

(* A success, as ResourceRun sees it. *)
LEMMA SuccessIsReady ==
    ASSUME NEW by, Recorded("READY", by), TypeOK, now \in Nat, attempt \in Nat, by \in Probe \cup {None}
    PROVE  RunAt' = "over" /\ RunOutcome' = "ready" /\ attempt' = attempt
<1> DEFINE o == [status |-> "READY", attempt |-> attempt, at |-> now, by |-> by]
<1>1. o \in Outcome /\ o.status = "READY"
  BY DEF Outcome
<1>2. outcome' = o /\ step' = "done" /\ attempt' = attempt
  BY DEF Recorded
<1>3. o # None
  BY <1>1, NoneAssumption
<1> HIDE DEF o
<1> QED
  BY <1>1, <1>2, <1>3 DEF RunAt, RunOutcome

(* Every step is a step of ResourceRun, or none of its business. *)
LEMMA RunStep ==
    ASSUME IInv, [Next]_vars
    PROVE  [Run!RunNext]_(Run!runVars)
<1>0. TypeOK /\ Belongs /\ now \in Nat /\ attempt \in Nat /\ launched.attempt \in Nat
  BY PolicyType DEF IInv, TypeOK
<1>1. CASE TimesOut \/ AdapterRaises \/ ProbeRaises \/ (NotReady /\ AttemptFails)
  <2>1. Running /\ AttemptFails /\ UNCHANGED <<policy, launched>>
    BY <1>1 DEF TimesOut, AdapterRaises, ProbeRaises, NotReady, Running
  <2> QED
    BY <2>1, FailureIsRunFails DEF Run!RunNext
<1>2. CASE AdapterReturns
  <2>1. /\ step = "launching" /\ launched' = [attempt |-> attempt, at |-> now] /\ policy' = policy
        /\ outcome = None
    BY <1>0, <1>2 DEF AdapterReturns, TypeOK
  <2>2. RunAt = "launch" /\ RunOutcome = "none"
    BY <2>1 DEF RunAt, RunOutcome
  <2>3. CASE policy.probe = None
    <3>1. Recorded("READY", None)
      BY <1>2, <2>3 DEF AdapterReturns
    <3>2. RunAt' = "over" /\ RunOutcome' = "ready" /\ attempt' = attempt
      BY <1>0, <3>1, SuccessIsReady
    <3> QED
      BY <2>1, <2>2, <2>3, <3>2 DEF Run!RunNext, Run!LaunchReturns, Run!Over
  <2>4. CASE policy.probe # None
    <3>1. step' = "probing" /\ attempt' = attempt /\ outcome' = outcome
      BY <1>2, <2>4 DEF AdapterReturns
    <3>2. RunAt' = "probe" /\ RunOutcome' = RunOutcome
      BY <3>1 DEF RunAt, RunOutcome
    <3> QED
      BY <2>1, <2>2, <2>4, <3>1, <3>2 DEF Run!RunNext, Run!LaunchReturns
  <2> QED
    BY <2>3, <2>4
<1>3. CASE BecomesReady
  <2>1. /\ step = "probing" /\ probe.answer = "yes" /\ Recorded("READY", probe)
        /\ UNCHANGED <<policy, launched>> /\ probe \in Probe \cup {None}
    BY <1>0, <1>3 DEF BecomesReady, Ready, TypeOK
  <2>2. RunAt = "probe"
    BY <2>1 DEF RunAt
  <2>3. RunAt' = "over" /\ RunOutcome' = "ready" /\ attempt' = attempt
    BY <1>0, <2>1, SuccessIsReady
  <2> QED
    BY <2>1, <2>2, <2>3 DEF Run!RunNext, Run!TurnsReady, Run!Over
<1>4. CASE BackoffEnds
  <2>1. /\ step = "backoff" /\ step' = "begin" /\ attempt' = attempt + 1
        /\ UNCHANGED <<policy, launched, outcome>>
    BY <1>4 DEF BackoffEnds
  <2>2. RunAt = "backoff" /\ RunAt' = "launch" /\ RunOutcome' = RunOutcome
    BY <2>1 DEF RunAt, RunOutcome
  <2>3. (launched.attempt = attempt)' = FALSE
    BY <1>0, <2>1 DEF Belongs
  <2> QED
    BY <2>1, <2>2, <2>3 DEF Run!RunNext, Run!TriesAgain
<1>5. CASE \/ BeginAttempt \/ ProbeTimesOut \/ (NotReady /\ ~AttemptFails) \/ PollAgain
           \/ ServiceTurns \/ ProbeAnswers \/ ThreadEnds \/ Tick \/ UNCHANGED vars
  <2>1. UNCHANGED <<policy, attempt, launched, outcome>>
    BY <1>5 DEF BeginAttempt, ProbeTimesOut, NotReady, PollAgain, ServiceTurns, ProbeAnswers,
                Answered, ThreadEnds, Tick, vars
  <2>2. \/ step' = step
        \/ step = "begin" /\ step' = "launching"
        \/ step \in {"probing", "polling"} /\ step' \in {"probing", "polling"}
    BY <1>5 DEF BeginAttempt, ProbeTimesOut, NotReady, PollAgain, ServiceTurns, ProbeAnswers,
                Answered, ThreadEnds, Tick, vars
  <2>3. RunAt' = RunAt /\ RunOutcome' = RunOutcome
    BY <2>1, <2>2 DEF RunAt, RunOutcome
  <2> QED
    BY <2>1, <2>3 DEF Run!runVars
<1> QED
  BY <1>1, <1>2, <1>3, <1>4, <1>5 DEF Next, Loop, Outside

(* However adapters, probes and clock interleave, the run keeps the        *)
(* promise of ResourceRun: attempts in turn, none beyond the last, READY   *)
(* out of the attempt under way, one outcome.                              *)
THEOREM RunIsImplemented == Spec => ImplementsRun
<1>1. Init => Run!RunInit
  <2> SUFFICES ASSUME Init PROVE Run!RunInit
    OBVIOUS
  <2>1. policy.attempts \in Nat \ {0}
    BY PolicyAssumption DEF Init
  <2> QED
    BY <2>1 DEF Init, Run!RunInit, RunAt, RunOutcome
<1>2. IInv /\ [Next]_vars => [Run!RunNext]_(Run!runVars)
  BY RunStep
<1> QED
  BY <1>1, <1>2, Invariant, PTL DEF Spec, ImplementsRun, Run!RunSpec
==============================================================================
