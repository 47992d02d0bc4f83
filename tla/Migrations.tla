----------------------------- MODULE Migrations -----------------------------
(***************************************************************************)
(* infrastructure/database.py: run_migrations, which every command calls   *)
(* before it uses the database. Several setuper processes may start at     *)
(* once, and not all of the same release: Known[p] is the last migration   *)
(* that the release of p has, and migrations are numbered from 1. SQLite   *)
(* holds what was committed; a transaction begun with BEGIN IMMEDIATE      *)
(* keeps other writers out, but not readers.                               *)
(***************************************************************************)
EXTENDS Integers

CONSTANTS Process,
          MaxVersion,  \* the last migration of any release
          Known,       \* the last migration of each process's release
          Statements   \* how many statements a migration has

Version == 1..MaxVersion

ASSUME VersionAssumption == MaxVersion \in Nat /\ Known \in [Process -> Version]
ASSUME StatementsAssumption == Statements \in Nat \ {0}

VARIABLES history,   \* schema_migrations, as committed
          effects,   \* how often each statement of a migration took effect
          writers,   \* the process inside BEGIN IMMEDIATE, if any
          pc,        \* where run_migrations is in each process
          seen,      \* its local applied_versions
          at,        \* the migration its loop is at
          executed   \* the statements of it that its transaction holds

vars == <<history, effects, writers, pc, seen, at, executed>>

Init ==
    /\ history = {}
    /\ effects = [v \in Version |-> [i \in 1..Statements |-> 0]]
    /\ writers = {}
    /\ pc = [p \in Process |-> "idle"]
    /\ seen = [p \in Process |-> {}]
    /\ at = [p \in Process |-> 1]
    /\ executed = [p \in Process |-> 0]

(* A command starts.  Creating schema_migrations if it is not there        *)
(* changes nothing else; the versions are read without a lock.             *)
ReadHistory(p) ==
    /\ pc[p] = "idle"
    /\ pc' = [pc EXCEPT ![p] = "loop"]
    /\ seen' = [seen EXCEPT ![p] = history]
    /\ at' = [at EXCEPT ![p] = 1]
    /\ UNCHANGED <<history, effects, writers, executed>>

(* The table cannot be created or read. *)
ReadFails(p) ==
    /\ pc[p] = "idle"
    /\ pc' = [pc EXCEPT ![p] = "failed"]
    /\ UNCHANGED <<history, effects, writers, seen, at, executed>>

InLoop(p) == pc[p] = "loop" /\ at[p] <= Known[p]

Skip(p) ==
    /\ InLoop(p) /\ at[p] \in seen[p]
    /\ at' = [at EXCEPT ![p] = @ + 1]
    /\ UNCHANGED <<history, effects, writers, pc, seen, executed>>

(* BEGIN IMMEDIATE. *)
Begin(p) ==
    /\ InLoop(p) /\ at[p] \notin seen[p]
    /\ writers = {}
    /\ writers' = {p}
    /\ pc' = [pc EXCEPT ![p] = "apply"]
    /\ executed' = [executed EXCEPT ![p] = 0]
    /\ UNCHANGED <<history, effects, seen, at>>

\* Mutant: a database that is busy is left to the other process.
Busy_Ignored(p) ==
    /\ InLoop(p) /\ at[p] \notin seen[p] /\ writers \ {p} # {}
    /\ at' = [at EXCEPT ![p] = @ + 1]
    /\ UNCHANGED <<history, effects, writers, pc, seen, executed>>

\* Mutant: no busy_timeout.
Busy_Waits(p) ==
    /\ InLoop(p) /\ at[p] \notin seen[p] /\ writers \ {p} # {}
    /\ UNCHANGED vars

(* Somebody else writes for longer than busy_timeout. *)
Busy(p) ==
    /\ InLoop(p) /\ at[p] \notin seen[p] /\ writers \ {p} # {}
    /\ pc' = [pc EXCEPT ![p] = "failed"]
    /\ UNCHANGED <<history, effects, writers, seen, at, executed>>

\* Mutant: one statement too many.
Execute_OneMore(p) ==
    /\ pc[p] = "apply" /\ executed[p] <= Statements
    /\ executed' = [executed EXCEPT ![p] = @ + 1]
    /\ UNCHANGED <<history, effects, writers, pc, seen, at>>

(* The next statement.  One that creates what another process has created  *)
(* meanwhile fails (Fails); one that does not care is executed again.      *)
Execute(p) ==
    /\ pc[p] = "apply" /\ executed[p] < Statements
    /\ executed' = [executed EXCEPT ![p] = @ + 1]
    /\ UNCHANGED <<history, effects, writers, pc, seen, at>>

\* Mutant: INSERT OR REPLACE.
Commit_Replace(p) ==
    /\ pc[p] = "apply" /\ executed[p] = Statements
    /\ history' = history \cup {at[p]}
    /\ effects' = [effects EXCEPT ![at[p]] =
          [i \in 1..Statements |-> IF i <= executed[p] THEN @[i] + 1 ELSE @[i]]]
    /\ writers' = writers \ {p}
    /\ pc' = [pc EXCEPT ![p] = "loop"]
    /\ at' = [at EXCEPT ![p] = @ + 1]
    /\ UNCHANGED <<seen, executed>>

(* The history row, whose primary key is the version, and the commit. *)
Commit(p) ==
    /\ pc[p] = "apply" /\ executed[p] = Statements
    /\ at[p] \notin history
    /\ history' = history \cup {at[p]}
    /\ effects' = [effects EXCEPT ![at[p]] =
          [i \in 1..Statements |-> IF i <= executed[p] THEN @[i] + 1 ELSE @[i]]]
    /\ writers' = writers \ {p}
    /\ pc' = [pc EXCEPT ![p] = "loop"]
    /\ at' = [at EXCEPT ![p] = @ + 1]
    /\ UNCHANGED <<seen, executed>>

(* sqlite3.Error from a statement, the history row or the commit: rollback *)
(* and DatabaseMigrationError.  Once another process has applied the       *)
(* migration there is no other way out.                                    *)
Fails(p) ==
    /\ pc[p] = "apply"
    /\ writers' = writers \ {p}
    /\ pc' = [pc EXCEPT ![p] = "failed"]
    /\ UNCHANGED <<history, effects, seen, at, executed>>

(* The loop is through; the command goes on. *)
Return(p) ==
    /\ pc[p] = "loop" /\ at[p] > Known[p]
    /\ pc' = [pc EXCEPT ![p] = "started"]
    /\ UNCHANGED <<history, effects, writers, seen, at, executed>>

(* The process is killed (SQLite undoes an open transaction), or its       *)
(* command is over; then comes another command.                            *)
Restart(p) ==
    /\ pc[p] # "idle"
    /\ pc' = [pc EXCEPT ![p] = "idle"]
    /\ writers' = writers \ {p}
    /\ UNCHANGED <<history, effects, seen, at, executed>>

Step(p) ==
    \/ ReadHistory(p) \/ ReadFails(p) \/ Skip(p) \/ Begin(p) \/ Busy(p)
    \/ Execute(p) \/ Commit(p) \/ Fails(p) \/ Return(p)

Next == \E p \in Process : Step(p) \/ Restart(p)

Spec == Init /\ [][Next]_vars

(* A process that runs goes on; nobody need start or kill one. *)
FairSpec == Spec /\ \A p \in Process : WF_vars(pc[p] # "idle" /\ Step(p))

------------------------------------------------------------------------------
(* Properties *)

(* The types of the database and of the locals. *)
TypeOK ==
    /\ history \in SUBSET Version
    /\ effects \in [Version -> [1..Statements -> Nat]]
    /\ writers \in SUBSET Process
    /\ pc \in [Process -> {"idle", "loop", "apply", "started", "failed"}]
    /\ seen \in [Process -> SUBSET Version]
    /\ at \in [Process -> Nat]
    /\ executed \in [Process -> 0..Statements]

(* A migration on record has taken effect once and as a whole, any other   *)
(* not at all.                                                             *)
HistoryIsExact ==
    \A v \in Version, i \in 1..Statements :
        effects[v][i] = IF v \in history THEN 1 ELSE 0

(* No migration is on record without those before it. *)
HistoryIsPrefix == \A v \in history : 1..v \subseteq history

(* schema_migrations and the schema say the same, in the order of the      *)
(* migrations, whatever overlaps, fails or is killed and also when an old  *)
(* and a new release start together.                                       *)
HistoryIsSound == HistoryIsExact /\ HistoryIsPrefix

(* A command that goes on finds every migration its release knows.         *)
StartedIsMigrated == \A p \in Process : pc[p] = "started" => 1..Known[p] \subseteq history

(* run_migrations returns or raises; no process waits for ever for another *)
(* one's transaction.                                                      *)
StartEnds ==
    \A p \in Process : pc[p] \in {"loop", "apply"} ~> pc[p] \in {"started", "failed", "idle"}
=============================================================================
