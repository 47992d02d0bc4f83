-------------------------- MODULE MigrationsProofs --------------------------
(***************************************************************************)
(* Theorems about run_migrations, for any number of processes of any       *)
(* releases.                                                               *)
(*                                                                         *)
(* What makes the safety properties inductive is what a process knows: the *)
(* versions it has read stay in the history, and so does everything before *)
(* the migration its loop is at, because the loop passes one only when it  *)
(* was read or when the process itself has committed it.                   *)
(***************************************************************************)
EXTENDS Migrations, TLAPS

LoopIsInOrder ==
    \A p \in Process :
        /\ seen[p] \subseteq history
        /\ pc[p] \in {"loop", "apply"} => at[p] >= 1
        /\ pc[p] \in {"loop", "apply"} => \A v \in Version : v < at[p] => v \in history
        /\ pc[p] = "apply" => at[p] \in Version

IInv ==
    /\ TypeOK
    /\ HistoryIsExact
    /\ HistoryIsPrefix
    /\ StartedIsMigrated
    /\ LoopIsInOrder

------------------------------------------------------------------------------

LEMMA InitInv == Init => IInv
BY VersionAssumption, StatementsAssumption
DEF Init, IInv, TypeOK, HistoryIsExact, HistoryIsPrefix, StartedIsMigrated, LoopIsInOrder,
    Version

(* A release knows a version. *)
LEMMA KnownType ==
    ASSUME NEW p \in Process
    PROVE  Known[p] \in Version /\ Known[p] \in Nat
BY VersionAssumption DEF Version

(* The types are kept. *)
LEMMA TypeStep ==
    ASSUME IInv, [Next]_vars
    PROVE  TypeOK'
<1> USE DEF TypeOK
<1>0. TypeOK /\ LoopIsInOrder
  BY DEF IInv
<1>1. ASSUME NEW p \in Process, Step(p) \/ Restart(p)
      PROVE  TypeOK'
  <2>1. CASE ReadHistory(p)
    BY <1>0, <2>1 DEF ReadHistory
  <2>2. CASE ReadFails(p) \/ Busy(p) \/ Fails(p) \/ Return(p) \/ Restart(p)
    BY <1>0, <2>2 DEF ReadFails, Busy, Fails, Return, Restart
  <2>3. CASE Skip(p)
    BY <1>0, <2>3 DEF Skip
  <2>4. CASE Begin(p)
    BY <1>0, <2>4, StatementsAssumption DEF Begin
  <2>5. CASE Execute(p)
    BY <1>0, <2>5, StatementsAssumption DEF Execute
  <2>6. CASE Commit(p)
    <3>1. at[p] \in Version
      BY <1>0, <2>6 DEF Commit, LoopIsInOrder
    <3> QED
      BY <1>0, <2>6, <3>1 DEF Commit
  <2> QED
    BY <1>1, <2>1, <2>2, <2>3, <2>4, <2>5, <2>6 DEF Step
<1>2. CASE UNCHANGED vars
  BY <1>0, <1>2 DEF vars
<1> QED
  BY <1>1, <1>2 DEF Next

(* Only a commit touches the database, and only of the next migration. *)
LEMMA CommitStep ==
    ASSUME IInv, NEW p \in Process, Commit(p)
    PROVE  /\ at[p] \in Version /\ at[p] \notin history
           /\ history' = history \cup {at[p]}
           /\ \A v \in Version : v < at[p] => v \in history
           /\ \A v \in Version, i \in 1..Statements :
                 effects'[v][i] = IF v = at[p] THEN effects[v][i] + 1 ELSE effects[v][i]
<1>1. at[p] \in Version /\ TypeOK
  BY DEF IInv, LoopIsInOrder, Commit
<1> QED
  BY <1>1 DEF IInv, LoopIsInOrder, Commit, TypeOK

LEMMA OtherSteps ==
    ASSUME [Next]_vars
    PROVE  (UNCHANGED <<history, effects>>) \/ \E p \in Process : Commit(p)
BY DEF Next, Step, ReadHistory, ReadFails, Skip, Begin, Busy, Execute, Fails, Return, Restart, vars

(* The history and the schema go together. *)
LEMMA ExactStep ==
    ASSUME IInv, [Next]_vars
    PROVE  HistoryIsExact'
<1>0. HistoryIsExact
  BY DEF IInv
<1>1. ASSUME NEW p \in Process, Commit(p)
      PROVE  HistoryIsExact'
  BY <1>0, <1>1, CommitStep DEF HistoryIsExact
<1>2. CASE UNCHANGED <<history, effects>>
  BY <1>0, <1>2 DEF HistoryIsExact
<1> QED
  BY <1>1, <1>2, OtherSteps

(* No version is left out. *)
LEMMA PrefixStep ==
    ASSUME IInv, [Next]_vars
    PROVE  HistoryIsPrefix'
<1>0. HistoryIsPrefix /\ history \subseteq Version
  BY DEF IInv, TypeOK
<1>1. ASSUME NEW p \in Process, Commit(p)
      PROVE  HistoryIsPrefix'
  <2>1. \A v \in 1..at[p] : v \in Version /\ (v < at[p] \/ v = at[p])
    BY <1>1, CommitStep, VersionAssumption DEF Version
  <2>2. 1..at[p] \subseteq history'
    BY <1>1, <2>1, CommitStep
  <2> QED
    BY <1>0, <1>1, <2>2, CommitStep DEF HistoryIsPrefix
<1>2. CASE UNCHANGED history
  BY <1>0, <1>2 DEF HistoryIsPrefix
<1> QED
  BY <1>1, <1>2, OtherSteps

(* What is recorded stays recorded. *)
LEMMA HistoryGrows ==
    ASSUME IInv, [Next]_vars
    PROVE  history \subseteq history'
BY OtherSteps, CommitStep

(* A step of one process leaves the locals of the others alone. *)
LEMMA OthersStay ==
    ASSUME TypeOK, NEW p \in Process, Step(p) \/ Restart(p), NEW q \in Process, q # p
    PROVE  seen'[q] = seen[q] /\ at'[q] = at[q] /\ pc'[q] = pc[q]
<1> USE DEF TypeOK
<1>1. CASE ReadHistory(p)
  BY <1>1 DEF ReadHistory
<1>2. CASE ReadFails(p) \/ Busy(p) \/ Fails(p) \/ Return(p) \/ Restart(p)
  BY <1>2 DEF ReadFails, Busy, Fails, Return, Restart
<1>3. CASE Skip(p)
  BY <1>3 DEF Skip
<1>4. CASE Begin(p) \/ Execute(p)
  BY <1>4 DEF Begin, Execute
<1>5. CASE Commit(p)
  BY <1>5 DEF Commit
<1> QED
  BY <1>1, <1>2, <1>3, <1>4, <1>5 DEF Step

(* What one process knows, and why it still does after a step of its own. *)
Knows(p) ==
    /\ seen[p] \subseteq history
    /\ pc[p] \in {"loop", "apply"} => at[p] >= 1
    /\ pc[p] \in {"loop", "apply"} => \A v \in Version : v < at[p] => v \in history
    /\ pc[p] = "apply" => at[p] \in Version

LEMMA KnowsDef == LoopIsInOrder <=> \A p \in Process : Knows(p)
BY DEF LoopIsInOrder, Knows

(* The loop goes on from a version that is in the history. *)
LEMMA Passes ==
    ASSUME IInv, NEW p \in Process, pc[p] \in {"loop", "apply"},
           at[p] \in history', at'[p] = at[p] + 1, pc'[p] = "loop",
           seen'[p] = seen[p], history \subseteq history'
    PROVE  Knows(p)'
<1>1. at[p] \in Nat /\ Knows(p)
  BY KnowsDef DEF IInv, TypeOK
<1>2. ASSUME NEW v \in Version, v < at[p] + 1
      PROVE  v \in history'
  <2>1. v < at[p] \/ v = at[p]
    BY <1>1, <1>2, VersionAssumption DEF Version
  <2> QED
    BY <1>1, <2>1 DEF Knows
<1>3. at'[p] >= 1
  BY <1>1
<1>4. seen'[p] \subseteq history'
  BY <1>1 DEF Knows
<1>5. \A v \in Version : v < at'[p] => v \in history'
  BY <1>2
<1> QED
  BY <1>3, <1>4, <1>5 DEF Knows

LEMMA LoopStep ==
    ASSUME IInv, [Next]_vars
    PROVE  LoopIsInOrder'
<1>0. TypeOK /\ history \subseteq history' /\ \A p \in Process : Knows(p)
  BY HistoryGrows, KnowsDef DEF IInv
<1>1. ASSUME NEW p \in Process, Step(p) \/ Restart(p), NEW q \in Process, q # p
      PROVE  Knows(q)'
  BY <1>0, <1>1, OthersStay DEF Knows
<1>2. ASSUME NEW p \in Process, Step(p) \/ Restart(p)
      PROVE  Knows(p)'
  <2>0. Knows(p) /\ p \in DOMAIN pc /\ p \in DOMAIN at /\ p \in DOMAIN seen /\ at[p] \in Nat
    BY <1>0 DEF TypeOK
  <2>1. CASE ReadHistory(p)
    <3>1. history' = history /\ seen'[p] = history /\ at'[p] = 1 /\ pc'[p] = "loop"
      BY <2>0, <2>1 DEF ReadHistory
    <3>2. \A v \in Version : ~(v < 1)
      BY VersionAssumption DEF Version
    <3> QED
      BY <3>1, <3>2 DEF Knows
  <2>2. CASE ReadFails(p) \/ Busy(p) \/ Fails(p) \/ Return(p) \/ Restart(p)
    <3>1. seen' = seen /\ history' = history /\ pc'[p] \notin {"loop", "apply"}
      BY <2>0, <2>2 DEF ReadFails, Busy, Fails, Return, Restart
    <3> QED
      BY <2>0, <3>1 DEF Knows
  <2>3. CASE Skip(p)
    <3>1. pc[p] = "loop" /\ pc'[p] = "loop" /\ at'[p] = at[p] + 1 /\ seen'[p] = seen[p]
      BY <2>0, <2>3 DEF Skip, InLoop
    <3>2. at[p] \in history'
      BY <1>0, <2>0, <2>3 DEF Skip, Knows
    <3> QED
      BY <1>0, <3>1, <3>2, Passes
  <2>4. CASE Begin(p)
    <3>1. pc[p] = "loop" /\ at[p] <= Known[p] /\ pc'[p] = "apply"
          /\ UNCHANGED <<at, seen, history>>
      BY <2>0, <2>4 DEF Begin, InLoop
    <3>2. at[p] \in Version
      BY <2>0, <3>1, KnownType, VersionAssumption DEF Knows, Version
    <3> QED
      BY <2>0, <3>1, <3>2 DEF Knows
  <2>5. CASE Execute(p)
    BY <2>0, <2>5 DEF Execute, Knows
  <2>6. CASE Commit(p)
    <3>1. pc[p] = "apply" /\ pc'[p] = "loop" /\ at'[p] = at[p] + 1 /\ seen'[p] = seen[p]
          /\ at[p] \in history'
      BY <2>0, <2>6 DEF Commit
    <3> QED
      BY <1>0, <3>1, Passes
  <2> QED
    BY <1>2, <2>1, <2>2, <2>3, <2>4, <2>5, <2>6 DEF Step
<1>3. CASE UNCHANGED vars
  BY <1>0, <1>3 DEF vars, Knows, LoopIsInOrder
<1>4. ASSUME NEW p \in Process, Step(p) \/ Restart(p)
      PROVE  LoopIsInOrder'
  BY <1>1, <1>2, <1>4 DEF LoopIsInOrder, Knows
<1> QED
  BY <1>3, <1>4 DEF Next

(* A process returns only past its last migration. *)
LEMMA StartedStep ==
    ASSUME IInv, [Next]_vars
    PROVE  StartedIsMigrated'
<1>0. TypeOK /\ LoopIsInOrder /\ StartedIsMigrated /\ history \subseteq history'
  BY HistoryGrows DEF IInv
<1>1. ASSUME NEW p \in Process, pc'[p] = "started", pc[p] # "started"
      PROVE  1..Known[p] \subseteq history'
  <2>1. Return(p)
    BY <1>0, <1>1
    DEF Next, Step, ReadHistory, ReadFails, Skip, Begin, Busy, Execute, Commit, Fails, Return,
        Restart, vars, TypeOK
  <2>2. \A v \in 1..Known[p] : v \in Version /\ v < at[p]
    BY <1>0, <2>1, KnownType, VersionAssumption DEF Return, Version, TypeOK
  <2> QED
    BY <1>0, <2>1, <2>2 DEF Return, LoopIsInOrder
<1> QED
  BY <1>0, <1>1 DEF StartedIsMigrated

LEMMA Invariant == Spec => []IInv
<1>1. IInv /\ [Next]_vars => IInv'
  BY TypeStep, ExactStep, PrefixStep, LoopStep, StartedStep DEF IInv
<1> QED
  BY <1>1, InitInv, PTL DEF Spec

------------------------------------------------------------------------------

(* The database and the locals keep their types. *)
THEOREM MigrationTypes == Spec => []TypeOK
BY Invariant, PTL DEF IInv

(* A migration on record has taken effect once and whole, after those      *)
(* before it, and others not at all.                                       *)
THEOREM HistoryMatchesSchema == Spec => []HistoryIsSound
BY Invariant, PTL DEF IInv, HistoryIsSound

(* A command that goes on has its schema. *)
THEOREM StartsMigrated == Spec => []StartedIsMigrated
BY Invariant, PTL DEF IInv
=============================================================================
