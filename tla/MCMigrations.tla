---------------------------- MODULE MCMigrations ----------------------------
(* A small instance of Migrations: three processes, one of an old release. *)
EXTENDS Migrations

Process3 == {"old", "new1", "new2"}
OneIsOld == [p \in Process |-> IF p = "old" THEN 1 ELSE 2]
=============================================================================
