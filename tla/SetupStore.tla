----------------------------- MODULE SetupStore -----------------------------
(***************************************************************************)
(* application/setup_service.py over infrastructure/manifests.py and       *)
(* infrastructure/setup_repository.py: where a setup lives.  Its manifest  *)
(* is a file, its metadata a row of SQLite with the hash of that file, and *)
(* nothing spans the two: every command reads, writes, hashes and stores   *)
(* in steps of its own.  Commands of several `setuper` processes           *)
(* interleave at those steps; any write may fail, and any process may be   *)
(* killed between two steps.                                               *)
(*                                                                         *)
(* A manifest is its id, its name and a revision of the rest; its hash is  *)
(* the manifest itself.  os.replace makes a file change all at once.       *)
(* Commands that only read (list, show, diff, export to elsewhere) do not  *)
(* appear, except launch, which records what it read.                      *)
(***************************************************************************)
EXTENDS FiniteSets

CONSTANTS Proc,         \* the `setuper` processes, one command each
          Id,           \* setup ids
          Carried,      \* ids that manifests to import carry; uuid4 yields the others
          Project,      \* project directories
          Name,
          ProjectName,  \* the name of each project directory
          Rev,
          None          \* no row, no file, nothing yet

Loc == Id \cup Project   \* manifest paths: <id>.yaml in managed storage, or a project's
Content == [id : Id, name : Name, rev : Rev]
Source == {"local", "project", "imported"}
Row == [loc : Loc, name : Name, hash : Content, source : Source]

ASSUME IdAssumption == Carried \subseteq Id /\ Id \cap Project = {}
ASSUME NameAssumption == ProjectName \in [Project -> Name]
ASSUME NoneAssumption == None \notin Loc \cup Content \cup Row

VARIABLES rows,      \* table setups: Id -> Row, or None
          files,     \* the manifest at each path, or None
          used,      \* ids uuid4 has yielded
          cmd,       \* the command each process runs
          launched,  \* the last row of table launches: revision recorded and launched
          excuses    \* ghost: <<path, why>> for what may leave file and row apart

vars == <<rows, files, used, cmd, launched, excuses>>

Creating == {"save", "clone", "import", "init"}
Changing == {"edit", "update", "rename"}

Idle == [op |-> "none", at |-> "idle", id |-> None, loc |-> None,
         rec |-> None, old |-> None, new |-> None, hash |-> None]

Command == [op : Creating \cup Changing \cup {"delete", "launch", "none"},
            at : {"idle", "exit", "load", "name", "id", "path", "write", "hash", "store",
                  "undo", "row", "unlink", "record"},
            id : Id \cup {None},          \* the setup
            loc : Loc \cup {None},        \* the path of its manifest
            rec : Row \cup {None},        \* the row get_by_name returned
            old : Content \cup {None},    \* the manifest load_manifest returned
            new : Content \cup {None},    \* the manifest to be saved
            hash : Content \cup {None}]   \* what hash_manifest returned

Launch == [id : Id, loc : Loc, recorded : Content, content : Content]

TypeOK ==
    /\ rows \in [Id -> Row \cup {None}]
    /\ files \in [Loc -> Content \cup {None}]
    /\ used \subseteq Id
    /\ cmd \in [Proc -> Command]
    /\ launched \in Launch \cup {None}
    /\ excuses \subseteq Loc \X {"overlap", "read", "failure"}

(* Any store in which files and rows agree. *)
Init ==
    /\ \E where \in [Id -> Loc \cup {None}], name \in [Id -> Name], v \in Rev,
          source \in [Id -> Source] :
         LET There == {i \in Id : where[i] # None}
             Manifest(i) == [id |-> i, name |-> name[i], rev |-> v]
         IN  /\ \A i \in There : /\ where[i] \in {i} \cup Project
                                 /\ where[i] \in Project <=> source[i] = "project"
             /\ \A i, j \in There : i # j => name[i] # name[j] /\ where[i] # where[j]
             /\ rows = [i \in Id |-> IF i \in There
                                    THEN [loc |-> where[i], name |-> name[i],
                                          hash |-> Manifest(i), source |-> source[i]]
                                    ELSE None]
             /\ files = [l \in Loc |-> IF \E i \in There : where[i] = l
                                      THEN Manifest(CHOOSE i \in There : where[i] = l)
                                      ELSE None]
             /\ used = There \ Carried
    /\ cmd = [p \in Proc |-> Idle]
    /\ launched = None
    /\ excuses = {}

------------------------------------------------------------------------------

Fresh == Id \ (Carried \cup used)

NameTaken(n) == \E i \in Id : rows[i] # None /\ rows[i].name = n

(* The constraints of table setups on a row for id i. *)
Refused(i, n) == \E j \in Id \ {i} : rows[j] # None /\ rows[j].name = n

(* The commands at the setup that p is about to take up.                   *)
Meets(p, c) ==
    {q \in Proc \ {p} : \/ c.id # None /\ cmd[q].id = c.id
                        \/ c.loc # None /\ cmd[q].loc = c.loc}

(* The excuses that come of it. *)
Collisions(p, c) ==
    {e \in Loc \X {"overlap", "read"} : \E q \in Meets(p, c) :
        /\ e[1] \in {c.loc, cmd[q].loc}
        /\ e[2] = IF "launch" \in {c.op, cmd[q].op} THEN "read" ELSE "overlap"}

Begin(p, c) ==
    /\ cmd[p] = Idle
    /\ cmd' = [cmd EXCEPT ![p] = c]
    /\ excuses' = excuses \cup Collisions(p, c)
    /\ UNCHANGED <<rows, files, launched>>

GoTo(p, step) == cmd' = [cmd EXCEPT ![p].at = step]

(* The command returns or raises, and the process exits. *)
End(p) == cmd' = [cmd EXCEPT ![p] = [Idle EXCEPT !.at = "exit"]]

(* It ends with the file and the row possibly apart.                       *)
EndApart(p) ==
    /\ End(p)
    /\ excuses' = excuses \cup {<<cmd[p].loc, "failure">>}

At(p, step) == cmd[p].at = step

------------------------------------------------------------------------------
(* How a command begins. *)

(* save_setup: uuid4 yields the id of the captured manifest. *)
BeginSave(p) == \E i \in Fresh, n \in Name, v \in Rev :
    /\ Begin(p, [Idle EXCEPT !.op = "save", !.at = "name", !.id = i, !.loc = i,
                             !.new = [id |-> i, name |-> n, rev |-> v]])
    /\ used' = used \cup {i}

(* import_setup: the id is the manifest's, if it has one. *)
BeginImport(p) == \E i \in Fresh \cup Carried, n \in Name, v \in Rev :
    /\ Begin(p, [Idle EXCEPT !.op = "import", !.at = "name", !.id = i, !.loc = i,
                             !.new = [id |-> i, name |-> n, rev |-> v]])
    /\ used' = used \cup ({i} \ Carried)

(* init_project does not look at the names that are taken. *)
BeginInit(p) == \E i \in Fresh, d \in Project, v \in Rev :
    /\ Begin(p, [Idle EXCEPT !.op = "init", !.at = "path", !.id = i, !.loc = d,
                             !.new = [id |-> i, name |-> ProjectName[d], rev |-> v]])
    /\ used' = used \cup {i}

(* The commands on a stored setup start with get_by_name. *)
BeginOnStored(p) == \E op \in Changing \cup {"clone", "delete", "launch"}, i \in Id :
    /\ rows[i] # None
    /\ Begin(p, [Idle EXCEPT !.op = op, !.at = IF op = "delete" THEN "row" ELSE "load",
                             !.rec = rows[i],
                             !.id = IF op = "clone" THEN None ELSE i,
                             !.loc = IF op = "clone" THEN None ELSE rows[i].loc])
    /\ UNCHANGED used

------------------------------------------------------------------------------
(* Reading. *)

(* load_manifest raises, the file being gone or invalid, or _verify_trust. *)
LoadFails(p) ==
    /\ At(p, "load")
    /\ End(p)
    /\ UNCHANGED <<rows, files, used, launched, excuses>>

(* load_manifest returns what the row's file holds, and the command makes  *)
(* c of it.                                                                *)
Loads(p, ops, c) ==
    /\ At(p, "load") /\ cmd[p].op \in ops
    /\ files[cmd[p].rec.loc] # None
    /\ cmd' = [cmd EXCEPT ![p] = c]
    /\ UNCHANGED <<rows, files, launched, excuses>>

Loaded(p) == files[cmd[p].rec.loc]

(* edit_setup with the editor's new text, whose id and name it compares    *)
(* with the ones loaded here; update_setup with new resources.             *)
LoadToChange(p) == \E v \in Rev :
    /\ Loads(p, {"edit", "update"}, [cmd[p] EXCEPT !.at = "write", !.old = Loaded(p),
                                                  !.new = [Loaded(p) EXCEPT !.rev = v]])
    /\ UNCHANGED used

LoadToRename(p) == \E n \in Name :
    /\ Loads(p, {"rename"}, [cmd[p] EXCEPT !.at = "name", !.old = Loaded(p),
                                          !.new = [Loaded(p) EXCEPT !.name = n]])
    /\ UNCHANGED used

LoadToClone(p) == \E i \in Fresh, n \in Name :
    /\ Loads(p, {"clone"}, [cmd[p] EXCEPT !.at = "name", !.id = i, !.loc = i, !.old = Loaded(p),
                                         !.new = [id |-> i, name |-> n, rev |-> Loaded(p).rev]])
    /\ used' = used \cup {i}

(* _verify_trust lets an imported setup pass only with an approval, and no *)
(* command gives one.                                                      *)
LoadToLaunch(p) ==
    /\ Loads(p, {"launch"}, [cmd[p] EXCEPT !.at = "record", !.old = Loaded(p)])
    /\ cmd[p].rec.source # "imported"
    /\ UNCHANGED used

(* _require_available_name. *)
CheckName(p) ==
    /\ At(p, "name")
    /\ IF NameTaken(cmd[p].new.name) THEN End(p)
       ELSE GoTo(p, IF cmd[p].op = "rename" THEN "write"
                    ELSE IF cmd[p].op = "import" THEN "id" ELSE "path")
    /\ UNCHANGED <<rows, files, used, launched, excuses>>

(* _require_available_id. *)
CheckId(p) ==
    /\ At(p, "id")
    /\ IF rows[cmd[p].id] # None THEN End(p) ELSE GoTo(p, "path")
    /\ UNCHANGED <<rows, files, used, launched, excuses>>

(* os.path.lexists. *)
CheckPath(p) ==
    /\ At(p, "path")
    /\ IF files[cmd[p].loc] # None THEN End(p) ELSE GoTo(p, "write")
    /\ UNCHANGED <<rows, files, used, launched, excuses>>

------------------------------------------------------------------------------
(* The file. *)

(* save_manifest. *)
Write(p) ==
    /\ At(p, "write")
    /\ files' = [files EXCEPT ![cmd[p].loc] = cmd[p].new]
    /\ GoTo(p, "hash")
    /\ UNCHANGED <<rows, used, launched, excuses>>

(* The new manifest is invalid, or ManifestIOError is raised: before       *)
(* os.replace, or after it by the fsync of the directory, and then no      *)
(* caller undoes the write.                                                *)
WriteFails(p) ==
    /\ At(p, "write")
    /\ \/ End(p) /\ UNCHANGED <<files, excuses>>
       \/ EndApart(p) /\ files' = [files EXCEPT ![cmd[p].loc] = cmd[p].new]
    /\ UNCHANGED <<rows, used, launched>>

(* hash_manifest reads the file again. *)
Hash(p) ==
    /\ At(p, "hash")
    /\ files[cmd[p].loc] # None
    /\ cmd' = [cmd EXCEPT ![p].at = "store", ![p].hash = files[cmd[p].loc]]
    /\ UNCHANGED <<rows, files, used, launched, excuses>>

\* Mutant: a file that cannot be read has no hash.
HashFails_Swallowed(p) ==
    /\ At(p, "hash")
    /\ GoTo(p, "store")
    /\ UNCHANGED <<rows, files, used, launched, excuses>>

(* The file is gone or cannot be read.  No caller undoes the write.        *)
HashFails(p) ==
    /\ At(p, "hash")
    /\ EndApart(p)
    /\ UNCHANGED <<rows, files, used, launched>>

------------------------------------------------------------------------------
(* The row. *)

NewRow(c) == [loc |-> c.loc, name |-> c.new.name, hash |-> c.hash,
              source |-> IF c.op = "import" THEN "imported"
                         ELSE IF c.op = "init" THEN "project" ELSE "local"]

\* Mutant: the hash is not renewed.
ChangedRow_OldHash(c) ==
    [c.rec EXCEPT !.name = IF c.op = "rename" THEN c.new.name ELSE @]

(* dataclasses.replace of the record that get_by_name returned. *)
ChangedRow(c) ==
    [c.rec EXCEPT !.name = IF c.op = "rename" THEN c.new.name ELSE @, !.hash = c.hash]

(* SetupRepository.create *)
Insert(p) ==
    /\ At(p, "store") /\ cmd[p].op \in Creating
    /\ rows[cmd[p].id] = None /\ ~Refused(cmd[p].id, cmd[p].new.name)
    /\ rows' = [rows EXCEPT ![cmd[p].id] = NewRow(cmd[p])]
    /\ End(p)
    /\ UNCHANGED <<files, used, launched, excuses>>

(* SetupRepository.update *)
Store(p) ==
    /\ At(p, "store") /\ cmd[p].op \in Changing
    /\ rows[cmd[p].id] # None /\ ~Refused(cmd[p].id, ChangedRow(cmd[p]).name)
    /\ rows' = [rows EXCEPT ![cmd[p].id] = ChangedRow(cmd[p])]
    /\ End(p)
    /\ UNCHANGED <<files, used, launched, excuses>>

(* No row with this id: SetupNotFoundError, which nobody handles.          *)
StoreFindsNothing(p) ==
    /\ At(p, "store") /\ cmd[p].op \in Changing
    /\ rows[cmd[p].id] = None
    /\ EndApart(p)
    /\ UNCHANGED <<rows, files, used, launched>>

\* Mutant: no command undoes its write.
StoreFails_NoUndo(p) ==
    /\ At(p, "store") /\ cmd[p].op \notin {"init", "edit"}
    /\ End(p)
    /\ UNCHANGED <<rows, files, used, launched, excuses>>

(* DatabaseError, from a constraint or anything else: save, clone, import, *)
(* rename and update undo what they wrote ...                              *)
StoreFails(p) ==
    /\ At(p, "store") /\ cmd[p].op \notin {"init", "edit"}
    /\ GoTo(p, "undo")
    /\ UNCHANGED <<rows, files, used, launched, excuses>>

(* ... init leaves its file, and says so ... *)
InitStoreFails(p) ==
    /\ At(p, "store") /\ cmd[p].op = "init"
    /\ End(p)
    /\ UNCHANGED <<rows, files, used, launched, excuses>>

(* ... and edit leaves the edited one, and says so. *)
EditStoreFails(p) ==
    /\ At(p, "store") /\ cmd[p].op = "edit"
    /\ EndApart(p)
    /\ UNCHANGED <<rows, files, used, launched>>

(* _rollback_managed_manifest unlinks; rename and update write the         *)
(* manifest back that they had loaded.                                     *)
Undo(p) ==
    /\ At(p, "undo")
    /\ files' = [files EXCEPT ![cmd[p].loc] = IF cmd[p].op \in Creating THEN None ELSE cmd[p].old]
    /\ End(p)
    /\ UNCHANGED <<rows, used, launched, excuses>>

UndoFails(p) ==
    /\ At(p, "undo")
    /\ EndApart(p)
    /\ UNCHANGED <<rows, files, used, launched>>

------------------------------------------------------------------------------
(* delete_setup and the launch command. *)

\* Mutants: project manifests are deleted too; the file first, the row later.
DeleteRow_AnySource(p) ==
    /\ At(p, "row")
    /\ rows' = [rows EXCEPT ![cmd[p].id] = None]
    /\ launched' = None
    /\ GoTo(p, "unlink")
    /\ UNCHANGED <<files, used, excuses>>
DeleteRow_FileFirst(p) ==
    /\ At(p, "row")
    /\ IF files[cmd[p].loc] # None
       THEN files' = [files EXCEPT ![cmd[p].loc] = None] /\ UNCHANGED <<rows, cmd>>
       ELSE rows' = [rows EXCEPT ![cmd[p].id] = None] /\ End(p) /\ UNCHANGED files
    /\ UNCHANGED <<used, launched, excuses>>

(* The row goes by the id read before, and its launches with it; then the  *)
(* manifest, if it is a managed one.                                       *)
DeleteRow(p) ==
    /\ At(p, "row")
    /\ rows' = [rows EXCEPT ![cmd[p].id] = None]
    /\ launched' = IF launched # None /\ launched.id = cmd[p].id THEN None ELSE launched
    /\ IF cmd[p].rec.source = "project" THEN End(p) ELSE GoTo(p, "unlink")
    /\ UNCHANGED <<files, used, excuses>>

DeleteRowFails(p) ==
    /\ At(p, "row")
    /\ End(p)
    /\ UNCHANGED <<rows, files, used, launched, excuses>>

Unlink(p) ==
    /\ At(p, "unlink")
    /\ files' = [files EXCEPT ![cmd[p].loc] = None]
    /\ End(p)
    /\ UNCHANGED <<rows, used, launched, excuses>>

UnlinkFails(p) ==
    /\ At(p, "unlink")
    /\ EndApart(p)
    /\ UNCHANGED <<rows, files, used, launched>>

(* start_launch records the hash of the row that was read; what runs is    *)
(* the manifest that was loaded.                                           *)
RecordLaunch(p) ==
    /\ At(p, "record")
    /\ launched' = IF rows[cmd[p].id] = None THEN launched
                   ELSE [id |-> cmd[p].id, loc |-> cmd[p].loc,
                         recorded |-> cmd[p].rec.hash, content |-> cmd[p].old]
    /\ End(p)
    /\ UNCHANGED <<rows, files, used, excuses>>

(* The process is killed.  From the write to the end, file and row may be  *)
(* left apart.                                                             *)
Kill(p) ==
    /\ cmd[p].at \notin {"idle", "exit"}
    /\ IF cmd[p].at \in {"hash", "store", "undo", "unlink"} THEN EndApart(p)
       ELSE End(p) /\ UNCHANGED excuses
    /\ UNCHANGED <<rows, files, used, launched>>

------------------------------------------------------------------------------

ProcStep(p) ==
    \/ BeginSave(p) \/ BeginImport(p) \/ BeginInit(p) \/ BeginOnStored(p)
    \/ LoadFails(p) \/ LoadToChange(p) \/ LoadToRename(p) \/ LoadToClone(p) \/ LoadToLaunch(p)
    \/ CheckName(p) \/ CheckId(p) \/ CheckPath(p)
    \/ Write(p) \/ WriteFails(p) \/ Hash(p) \/ HashFails(p)
    \/ Insert(p) \/ Store(p) \/ StoreFindsNothing(p)
    \/ StoreFails(p) \/ InitStoreFails(p) \/ EditStoreFails(p)
    \/ Undo(p) \/ UndoFails(p)
    \/ DeleteRow(p) \/ DeleteRowFails(p) \/ Unlink(p) \/ UnlinkFails(p)
    \/ RecordLaunch(p)
    \/ Kill(p)

Next == \E p \in Proc : ProcStep(p)

Spec == Init /\ [][Next]_vars

------------------------------------------------------------------------------
(* Properties. *)

Registered(l) == {i \in Id : rows[i] # None /\ rows[i].loc = l}

(* A row holds the name and the hash of the manifest at its path, which    *)
(* carries its id, and a managed manifest without a row does not exist.    *)
Agree(l) ==
    /\ \A i \in Registered(l) : /\ files[l] = rows[i].hash
                               /\ files[l].name = rows[i].name
                               /\ files[l].id = i
    /\ l \in Id /\ Registered(l) = {} => files[l] = None

(* Nothing has happened at the path that may leave file and row apart.     *)
Clean(l) == {<<l, "overlap">>, <<l, "failure">>} \cap excuses = {}

(* File and row agree on every path no command is at: unless two commands  *)
(* that write were at that path together, or one was killed or could not   *)
(* finish there, a row holds the name and the hash of the manifest at its  *)
(* path, which carries its id, and a managed manifest without a row does   *)
(* not exist.  Commands on different setups that compete for one name      *)
(* never excuse anything: the loser leaves no trace.                       *)
FilesMatchRows ==
    \A l \in Loc : Clean(l) /\ (\A p \in Proc : cmd[p].loc # l) => Agree(l)

(* A registered setup whose id only this machine gave out has a manifest,  *)
(* whatever commands overlap, fail or are killed: rows come after files    *)
(* and go before them.                                                     *)
RowHasFile ==
    \A i \in Id \ Carried : rows[i] # None => files[rows[i].loc] # None

(* No command removes a project's manifest, and none but init creates one. *)
ProjectFilesStay ==
    [][\A d \in Project :
         /\ files[d] # None => files'[d] # None
         /\ files[d] = None /\ files'[d] # None =>
                \E p \in Proc : cmd[p].op = "init" /\ cmd[p].loc = d]_vars

(* What a launch ran is the revision its row names, unless a command that  *)
(* writes was at that path with it, or something had failed there before.  *)
LaunchIsExact ==
    launched # None /\ launched.recorded # launched.content =>
        \E e \in excuses : e[1] = launched.loc

(* _rollback_managed_manifest: "Remove an unregistered managed manifest".  *)
RollbackIsUnregistered ==
    \A p \in Proc : At(p, "undo") /\ cmd[p].op \in Creating => rows[cmd[p].id] = None
==============================================================================
