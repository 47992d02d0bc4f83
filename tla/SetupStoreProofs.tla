-------------------------- MODULE SetupStoreProofs --------------------------
(***************************************************************************)
(* Theorems about the setup store, for any processes, ids, projects, names *)
(* and revisions, whatever overlaps, fails or is killed.                   *)
(***************************************************************************)
EXTENDS SetupStore, TLAPS

(* What a command knows at each of its steps. *)
Shape(c) ==
    /\ c.at \in {"idle", "exit"} <=> c.op = "none"
    /\ c.op = "none" => c.id = None /\ c.loc = None
    /\ c.op \in Creating =>
         IF c.at = "load" THEN c.op = "clone" /\ c.id = None /\ c.loc = None /\ c.rec # None
         ELSE /\ c.at \in {"name", "id", "path", "write", "hash", "store", "undo"}
              /\ c.id # None /\ c.new # None
              /\ IF c.op = "init" THEN c.loc \in Project /\ c.at # "undo" ELSE c.loc = c.id
    /\ c.op \in Changing \cup {"delete", "launch"} =>
         /\ c.id # None /\ c.rec # None /\ c.loc = c.rec.loc
         /\ IF c.rec.source = "project" THEN c.loc \in Project ELSE c.loc = c.id
    /\ c.op \in Changing =>
         /\ c.at \in {"load", "name", "write", "hash", "store", "undo"}
         /\ c.at # "load" => c.old # None /\ c.new # None
         /\ c.at = "name" => c.op = "rename"
    /\ c.op = "delete" => c.at \in {"row", "unlink"}
    /\ c.op = "launch" => c.at \in {"load", "record"}
    /\ c.at = "store" => c.hash # None
    /\ c.at = "unlink" => c.loc = c.id
    /\ c.at = "record" => c.old # None

Shapes == \A p \in Proc : Shape(cmd[p])

(* A row points to a project's manifest or to the managed one of its id.   *)
RowsPlaced ==
    \A i \in Id : rows[i] # None =>
        IF rows[i].source = "project" THEN rows[i].loc \in Project ELSE rows[i].loc = i

(* An id of uuid4 belongs to the command that drew it until that registers *)
(* it or gives up, and to the row from then on; when the row is deleted,   *)
(* the id is gone for good.                                                *)
IdsOwned ==
    \A i \in Id \ Carried :
        /\ rows[i] # None => i \in used
        /\ \A p \in Proc : cmd[p].id = i =>
             /\ i \in used
             /\ cmd[p].op \in Creating => rows[i] = None /\ \A q \in Proc \ {p} : cmd[q].id # i
             /\ cmd[p].op \notin Creating /\ rows[i] # None => cmd[p].loc = rows[i].loc
             /\ cmd[p].at = "unlink" => rows[i] = None
             /\ cmd[p].op \in Creating /\ cmd[p].at \in {"hash", "store"} => files[cmd[p].loc] # None

(* A project's manifest that a command has loaded is still there. *)
LoadedStays ==
    \A p \in Proc : cmd[p].op \in Changing /\ cmd[p].at # "load" /\ cmd[p].loc \in Project =>
        files[cmd[p].loc] # None

StoreInv == TypeOK /\ Shapes /\ RowsPlaced /\ IdsOwned /\ LoadedStays /\ RowHasFile

------------------------------------------------------------------------------
(* A step of p leaves the other commands alone.                            *)
LEMMA OthersStay ==
    ASSUME TypeOK, NEW p \in Proc, ProcStep(p)
    PROVE  cmd' = [cmd EXCEPT ![p] = cmd'[p]]
<1> USE DEF TypeOK
<1>1. CASE BeginSave(p) \/ BeginImport(p) \/ BeginInit(p) \/ BeginOnStored(p)
  BY <1>1 DEF BeginSave, BeginImport, BeginInit, BeginOnStored, Begin
<1>2. CASE LoadFails(p) \/ LoadToChange(p) \/ LoadToRename(p) \/ LoadToClone(p) \/ LoadToLaunch(p)
  BY <1>2 DEF LoadFails, LoadToChange, LoadToRename, LoadToClone, LoadToLaunch, Loads, End
<1>3. CASE CheckName(p) \/ CheckId(p) \/ CheckPath(p)
  BY <1>3 DEF CheckName, CheckId, CheckPath, End, GoTo
<1>4. CASE Write(p) \/ WriteFails(p) \/ Hash(p) \/ HashFails(p)
  BY <1>4 DEF Write, WriteFails, Hash, HashFails, End, EndApart, GoTo
<1>5. CASE Insert(p) \/ Store(p) \/ StoreFindsNothing(p) \/ StoreFails(p) \/ InitStoreFails(p)
           \/ EditStoreFails(p)
  BY <1>5 DEF Insert, Store, StoreFindsNothing, StoreFails, InitStoreFails, EditStoreFails,
              End, EndApart, GoTo
<1>6. CASE Undo(p) \/ UndoFails(p) \/ DeleteRow(p) \/ DeleteRowFails(p) \/ Unlink(p)
           \/ UnlinkFails(p) \/ RecordLaunch(p) \/ Kill(p)
  BY <1>6 DEF Undo, UndoFails, DeleteRow, DeleteRowFails, Unlink, UnlinkFails, RecordLaunch, Kill,
              End, EndApart, GoTo
<1>7. QED
  BY <1>1, <1>2, <1>3, <1>4, <1>5, <1>6 DEF ProcStep

(* What the three ways to move p leave in cmd[p]. *)
LEMMA BeginMoves ==
    ASSUME TypeOK, NEW p \in Proc, NEW c, Begin(p, c)
    PROVE  cmd'[p] = c /\ cmd[p] = Idle
BY DEF Begin, TypeOK

LEMMA LoadMoves ==
    ASSUME TypeOK, NEW p \in Proc, NEW c, NEW ops, Loads(p, ops, c)
    PROVE  cmd'[p] = c
BY DEF Loads, TypeOK

LEMMA GoToMoves ==
    ASSUME TypeOK, NEW p \in Proc, NEW step, GoTo(p, step)
    PROVE  cmd'[p] = [cmd[p] EXCEPT !.at = step]
BY DEF GoTo, TypeOK

(* A command that ends has the shape of one that has ended. *)
LEMMA EndShape ==
    ASSUME TypeOK, NEW p \in Proc, End(p)
    PROVE  cmd'[p] \in Command /\ Shape(cmd'[p]) /\ cmd'[p].id = None /\ cmd'[p].op = "none"
BY DEF End, Idle, Command, Shape, TypeOK, Creating, Changing

(* A step of p keeps the types of what it touches and the shape of p.      *)
LEMMA ShapeStep ==
    ASSUME TypeOK, Shapes, RowsPlaced, NEW p \in Proc, ProcStep(p)
    PROVE  cmd'[p] \in Command /\ Shape(cmd'[p])
<1>0. cmd[p] \in Command /\ Shape(cmd[p])
  BY DEF TypeOK, Shapes
<1>1. CASE BeginSave(p)
  <2>1. PICK i \in Fresh, n \in Name, v \in Rev :
          cmd'[p] = [Idle EXCEPT !.op = "save", !.at = "name", !.id = i, !.loc = i,
                                 !.new = [id |-> i, name |-> n, rev |-> v]]
    BY <1>1, BeginMoves DEF BeginSave
  <2>2. i \in Id /\ [id |-> i, name |-> n, rev |-> v] \in Content
    BY DEF Fresh, Content
  <2>3. None \notin Loc \cup Content
    BY NoneAssumption
  <2>4. cmd'[p] \in Command
    BY <2>1, <2>2 DEF Idle, Command, Creating, Changing, Loc
  <2>5. /\ cmd'[p].op = "save" /\ cmd'[p].at = "name" /\ cmd'[p].id = i /\ cmd'[p].loc = i
        /\ cmd'[p].new # None
    BY <2>1, <2>2, <2>3 DEF Idle
  <2>6. QED
    BY <2>2, <2>3, <2>4, <2>5 DEF Shape, Creating, Changing, Loc
<1>2. CASE BeginImport(p)
  <2>1. PICK i \in Fresh \cup Carried, n \in Name, v \in Rev :
          cmd'[p] = [Idle EXCEPT !.op = "import", !.at = "name", !.id = i, !.loc = i,
                                 !.new = [id |-> i, name |-> n, rev |-> v]]
    BY <1>2, BeginMoves DEF BeginImport
  <2>2. i \in Id /\ [id |-> i, name |-> n, rev |-> v] \in Content
    BY IdAssumption DEF Fresh, Content
  <2>3. None \notin Loc \cup Content
    BY NoneAssumption
  <2>4. cmd'[p] \in Command
    BY <2>1, <2>2 DEF Idle, Command, Creating, Changing, Loc
  <2>5. /\ cmd'[p].op = "import" /\ cmd'[p].at = "name" /\ cmd'[p].id = i /\ cmd'[p].loc = i
        /\ cmd'[p].new # None
    BY <2>1, <2>2, <2>3 DEF Idle
  <2>6. QED
    BY <2>2, <2>3, <2>4, <2>5 DEF Shape, Creating, Changing, Loc
<1>3. CASE BeginInit(p)
  <2>0. PICK i \in Fresh, d \in Project, v \in Rev :
          Begin(p, [Idle EXCEPT !.op = "init", !.at = "path", !.id = i, !.loc = d,
                                !.new = [id |-> i, name |-> ProjectName[d], rev |-> v]])
    BY <1>3 DEF BeginInit
  <2> DEFINE m == [id |-> i, name |-> ProjectName[d], rev |-> v]
             c == [Idle EXCEPT !.op = "init", !.at = "path", !.id = i, !.loc = d, !.new = m]
  <2>1. cmd'[p] = c
    <3>1. Begin(p, c)
      BY <2>0
    <3> HIDE DEF c
    <3>2. QED
      BY <3>1, BeginMoves
  <2>2. i \in Id /\ [id |-> i, name |-> ProjectName[d], rev |-> v] \in Content
    BY NameAssumption DEF Fresh, Content
  <2>3. None \notin Loc \cup Content
    BY NoneAssumption
  <2>4. cmd'[p] \in Command
    BY <2>1, <2>2 DEF Idle, Command, Creating, Changing, Loc
  <2>5. /\ cmd'[p].op = "init" /\ cmd'[p].at = "path" /\ cmd'[p].id = i /\ cmd'[p].loc = d
        /\ cmd'[p].new # None
    BY <2>1, <2>2, <2>3 DEF Idle
  <2>6. QED
    BY <2>2, <2>3, <2>4, <2>5 DEF Shape, Creating, Changing, Loc
<1>4. CASE BeginOnStored(p)
  <2>0. PICK op \in Changing \cup {"clone", "delete", "launch"}, i \in Id :
          /\ rows[i] # None
          /\ Begin(p, [Idle EXCEPT !.op = op, !.at = IF op = "delete" THEN "row" ELSE "load",
                                   !.rec = rows[i],
                                   !.id = IF op = "clone" THEN None ELSE i,
                                   !.loc = IF op = "clone" THEN None ELSE rows[i].loc])
    BY <1>4 DEF BeginOnStored
  <2>1. /\ rows[i] # None
        /\ cmd'[p] = [Idle EXCEPT !.op = op, !.at = IF op = "delete" THEN "row" ELSE "load",
                                  !.rec = rows[i],
                                  !.id = IF op = "clone" THEN None ELSE i,
                                  !.loc = IF op = "clone" THEN None ELSE rows[i].loc]
    BY <2>0, BeginMoves
  <2>2. rows[i] \in Row /\ rows[i].loc \in Loc
    BY <2>1 DEF TypeOK, Row
  <2>3. None \notin Loc \cup Content \cup Row
    BY NoneAssumption
  <2>4. IF rows[i].source = "project" THEN rows[i].loc \in Project ELSE rows[i].loc = i
    BY <2>1 DEF RowsPlaced
  <2>5. /\ cmd'[p].op = op /\ cmd'[p].at = (IF op = "delete" THEN "row" ELSE "load")
        /\ cmd'[p].rec = rows[i] /\ cmd'[p].id = (IF op = "clone" THEN None ELSE i)
        /\ cmd'[p].loc = (IF op = "clone" THEN None ELSE rows[i].loc)
    BY <2>1 DEF Idle
  <2>6. cmd'[p] \in Command
    <3>1. CASE op = "clone"
      BY <2>1, <2>2, <3>1 DEF Idle, Command, Creating
    <3>2. CASE op = "delete"
      BY <2>1, <2>2, <3>2 DEF Idle, Command
    <3>3. CASE op \in Changing \cup {"launch"}
      <4>1. op # "clone" /\ op # "delete"
        BY <3>3 DEF Changing
      <4>2. cmd'[p] = [Idle EXCEPT !.op = op, !.at = "load", !.rec = rows[i], !.id = i,
                                   !.loc = rows[i].loc]
        BY <2>1, <4>1
      <4>3. QED
        BY <2>1, <2>2, <3>3, <4>2 DEF Idle, Command
    <3>4. QED
      BY <3>1, <3>2, <3>3
  <2>7. CASE op = "clone"
    BY <2>1, <2>3, <2>5, <2>6, <2>7 DEF Shape, Creating, Changing
  <2>8. CASE op \in Changing
    BY <2>1, <2>2, <2>3, <2>4, <2>5, <2>6, <2>8 DEF Shape, Creating, Changing, Loc
  <2>9. CASE op \in {"delete", "launch"}
    BY <2>1, <2>2, <2>3, <2>4, <2>5, <2>6, <2>9 DEF Shape, Creating, Changing, Loc
  <2>10. QED
    BY <2>7, <2>8, <2>9
<1>5. CASE LoadToChange(p) \/ LoadToRename(p) \/ LoadToClone(p) \/ LoadToLaunch(p)
  <2>1. cmd[p].at = "load" /\ Loaded(p) # None /\ cmd[p].rec # None
    BY <1>0, <1>5 DEF LoadToChange, LoadToRename, LoadToClone, LoadToLaunch, Loads, Loaded, At,
                      Shape, Creating, Changing
  <2>2. Loaded(p) \in Content
    BY <1>0, <2>1 DEF Loaded, TypeOK, Command, Row
  <2>3. None \notin Loc \cup Content
    BY NoneAssumption
  <2>4. CASE LoadToChange(p)
    <3>1. PICK v \in Rev : cmd'[p] = [cmd[p] EXCEPT !.at = "write", !.old = Loaded(p),
                                                    !.new = [Loaded(p) EXCEPT !.rev = v]]
      BY <2>4, LoadMoves DEF LoadToChange
    <3>2. [Loaded(p) EXCEPT !.rev = v] \in Content /\ cmd[p].op \in {"edit", "update"}
      BY <2>2, <2>4 DEF Content, LoadToChange, Loads
    <3>3. /\ cmd'[p].at = "write" /\ cmd'[p].old # None /\ cmd'[p].new # None
          /\ cmd'[p].op = cmd[p].op /\ cmd'[p].id = cmd[p].id /\ cmd'[p].loc = cmd[p].loc
          /\ cmd'[p].rec = cmd[p].rec
      BY <1>0, <2>1, <2>2, <2>3, <3>1, <3>2 DEF Command
    <3>4. cmd'[p] \in Command
      BY <1>0, <2>2, <3>1, <3>2 DEF Command
    <3>5. QED
      BY <1>0, <2>1, <3>2, <3>3, <3>4 DEF Shape, Creating, Changing
  <2>5. CASE LoadToRename(p)
    <3>1. PICK n \in Name : cmd'[p] = [cmd[p] EXCEPT !.at = "name", !.old = Loaded(p),
                                                     !.new = [Loaded(p) EXCEPT !.name = n]]
      BY <2>5, LoadMoves DEF LoadToRename
    <3>2. [Loaded(p) EXCEPT !.name = n] \in Content /\ cmd[p].op = "rename"
      BY <2>2, <2>5 DEF Content, LoadToRename, Loads
    <3>3. /\ cmd'[p].at = "name" /\ cmd'[p].old # None /\ cmd'[p].new # None
          /\ cmd'[p].op = cmd[p].op /\ cmd'[p].id = cmd[p].id /\ cmd'[p].loc = cmd[p].loc
          /\ cmd'[p].rec = cmd[p].rec
      BY <1>0, <2>1, <2>2, <2>3, <3>1, <3>2 DEF Command
    <3>4. cmd'[p] \in Command
      BY <1>0, <2>2, <3>1, <3>2 DEF Command
    <3>5. QED
      BY <1>0, <2>1, <3>2, <3>3, <3>4 DEF Shape, Creating, Changing
  <2>6. CASE LoadToClone(p)
    <3>1. PICK i \in Fresh, n \in Name :
            cmd'[p] = [cmd[p] EXCEPT !.at = "name", !.id = i, !.loc = i, !.old = Loaded(p),
                                     !.new = [id |-> i, name |-> n, rev |-> Loaded(p).rev]]
      BY <2>6, LoadMoves DEF LoadToClone
    <3>2. [id |-> i, name |-> n, rev |-> Loaded(p).rev] \in Content /\ cmd[p].op = "clone" /\ i \in Id
      BY <2>2, <2>6 DEF Content, LoadToClone, Loads, Fresh
    <3>3. /\ cmd'[p].at = "name" /\ cmd'[p].new # None /\ cmd'[p].op = "clone"
          /\ cmd'[p].id = i /\ cmd'[p].loc = i
      BY <1>0, <2>3, <3>1, <3>2 DEF Command
    <3>4. cmd'[p] \in Command
      BY <1>0, <2>2, <3>1, <3>2 DEF Command, Loc
    <3>5. QED
      BY <2>3, <3>2, <3>3, <3>4 DEF Shape, Creating, Changing, Loc
  <2>7. CASE LoadToLaunch(p)
    <3>1. cmd'[p] = [cmd[p] EXCEPT !.at = "record", !.old = Loaded(p)] /\ cmd[p].op = "launch"
      BY <2>7, LoadMoves DEF LoadToLaunch, Loads
    <3>2. QED
      BY <1>0, <2>1, <2>2, <2>3, <3>1 DEF Command, Shape, Creating, Changing
  <2>8. QED
    BY <1>5, <2>4, <2>5, <2>6, <2>7
<1>6. CASE End(p)
  BY <1>6, EndShape
<1>7. CASE /\ CheckName(p) \/ CheckId(p) \/ CheckPath(p)
           /\ ~End(p)
  <2>1. PICK step \in {"id", "path", "write"} :
          GoTo(p, step) /\ (step = "write" \/ cmd[p].op \in Creating)
    <3>1. CASE CheckName(p)
      <4>1. cmd[p].at = "name" /\ cmd[p].op \in Creating \cup Changing
        BY <1>0, <3>1 DEF CheckName, At, Shape, Creating, Changing, Command
      <4>2. CASE cmd[p].op = "rename"
        BY <1>7, <3>1, <4>2 DEF CheckName
      <4>3. CASE cmd[p].op = "import"
        BY <1>7, <3>1, <4>3 DEF CheckName, Creating
      <4>4. CASE cmd[p].op \notin {"rename", "import"}
        BY <1>7, <3>1, <4>1, <4>4, <1>0 DEF CheckName, Shape, Creating, Changing
      <4>5. QED
        BY <4>2, <4>3, <4>4
    <3>2. CASE CheckId(p)
      BY <1>0, <1>7, <3>2 DEF CheckId, At, Shape, Creating, Changing, Command
    <3>3. CASE CheckPath(p)
      BY <1>7, <3>3 DEF CheckPath
    <3>4. QED
      BY <1>7, <3>1, <3>2, <3>3
  <2>2. cmd[p].at \in {"name", "id", "path"} /\ cmd[p].op \in Creating \cup Changing
    BY <1>0, <1>7 DEF CheckName, CheckId, CheckPath, At, Shape, Creating, Changing, Command
  <2>3. cmd'[p] = [cmd[p] EXCEPT !.at = step]
    BY <2>1, GoToMoves
  <2>4. QED
    BY <1>0, <2>1, <2>2, <2>3 DEF Command, Shape, Creating, Changing
<1>8. CASE Write(p)
  <2>1. cmd'[p] = [cmd[p] EXCEPT !.at = "hash"] /\ cmd[p].at = "write"
    BY <1>8 DEF Write, GoTo, At, TypeOK
  <2>2. QED
    BY <1>0, <2>1 DEF Command, Shape, Creating, Changing
<1>9. CASE Hash(p)
  <2>1. /\ cmd'[p] = [cmd[p] EXCEPT !.at = "store", !.hash = files[cmd[p].loc]]
        /\ cmd[p].at = "hash" /\ files[cmd[p].loc] # None
    BY <1>9 DEF Hash, At, TypeOK
  <2>2. cmd[p].loc \in Loc
    BY <1>0, <2>1, NoneAssumption DEF Command, Shape, Creating, Changing, Row, Loc
  <2>3. files[cmd[p].loc] \in Content
    BY <2>1, <2>2 DEF TypeOK
  <2>4. QED
    BY <1>0, <2>1, <2>3 DEF Command, Shape, Creating, Changing
<1>10. CASE StoreFails(p)
  <2>1. /\ cmd'[p] = [cmd[p] EXCEPT !.at = "undo"]
        /\ cmd[p].at = "store" /\ cmd[p].op \notin {"init", "edit"}
    BY <1>10 DEF StoreFails, GoTo, At, TypeOK
  <2>2. QED
    BY <1>0, <2>1 DEF Command, Shape, Creating, Changing
<1>11. CASE DeleteRow(p) /\ ~End(p)
  <2>1. /\ cmd'[p] = [cmd[p] EXCEPT !.at = "unlink"]
        /\ cmd[p].at = "row" /\ cmd[p].rec.source # "project"
    BY <1>11 DEF DeleteRow, GoTo, At, TypeOK
  <2>2. QED
    BY <1>0, <2>1 DEF Command, Shape, Creating, Changing
<1>12. QED
  BY <1>1, <1>2, <1>3, <1>4, <1>5, <1>6, <1>7, <1>8, <1>9, <1>10, <1>11
     DEF ProcStep, LoadFails, WriteFails, HashFails, Insert, Store, StoreFindsNothing,
         InitStoreFails, EditStoreFails, Undo, UndoFails, DeleteRowFails, Unlink, UnlinkFails,
         RecordLaunch, Kill, EndApart

(* A command that has got to a path knows the path and the id. *)
LEMMA KnownPath ==
    ASSUME TypeOK, Shapes, NEW p \in Proc,
           cmd[p].at \in {"write", "hash", "store", "undo", "row", "unlink", "record"}
    PROVE  cmd[p].loc \in Loc /\ cmd[p].id \in Id
<1>1. cmd[p] \in Command /\ Shape(cmd[p])
  BY DEF TypeOK, Shapes
<1>2. cmd[p].id # None
  BY <1>1 DEF Shape, Command, Creating, Changing
<1>3. cmd[p].id \in Id /\ None \notin Loc
  BY <1>1, <1>2, NoneAssumption DEF Command
<1>4. cmd[p].loc # None
  BY <1>1, <1>2, <1>3 DEF Shape, Command, Creating, Changing, Loc
<1>5. QED
  BY <1>1, <1>3, <1>4 DEF Command

(* How rows move: one is inserted where there was none, changed in place,  *)
(* or deleted.                                                             *)
LEMMA RowsMove ==
    ASSUME TypeOK, Shapes, NEW p \in Proc, ProcStep(p)
    PROVE  /\ rows' \in [Id -> Row \cup {None}]
           /\ \A i \in Id : \/ rows'[i] = rows[i]
                            \/ rows'[i] = None /\ cmd[p].id = i /\ cmd[p].op = "delete"
                            \/ /\ cmd[p].id = i /\ cmd[p].op \in Creating /\ cmd[p].at = "store"
                               /\ rows[i] = None /\ rows'[i].loc = cmd[p].loc
                               /\ cmd[p].op = "init" <=> rows'[i].source = "project"
                               /\ files' = files /\ End(p)
                            \/ /\ cmd[p].id = i /\ cmd[p].op \in Changing
                               /\ rows[i] # None /\ rows'[i].loc = cmd[p].loc
                               /\ rows'[i].source = cmd[p].rec.source
                               /\ files' = files /\ End(p)
<1>0. cmd[p] \in Command /\ Shape(cmd[p]) /\ rows \in [Id -> Row \cup {None}]
  BY DEF TypeOK, Shapes
<1>1. CASE Insert(p)
  <2>1. cmd[p].at = "store" /\ cmd[p].op \in Creating
    BY <1>1 DEF Insert, At
  <2>2. cmd[p].loc \in Loc /\ cmd[p].id \in Id
    BY <2>1, KnownPath
  <2>3. cmd[p].new \in Content /\ cmd[p].hash \in Content
    BY <1>0, <2>1 DEF Shape, Command
  <2>4. /\ NewRow(cmd[p]) \in Row /\ NewRow(cmd[p]).loc = cmd[p].loc
        /\ cmd[p].op = "init" <=> NewRow(cmd[p]).source = "project"
    BY <2>2, <2>3 DEF NewRow, Row, Content, Source
  <2>5. QED
    BY <1>0, <1>1, <2>1, <2>2, <2>4 DEF Insert
<1>2. CASE Store(p)
  <2>1. cmd[p].at = "store" /\ cmd[p].op \in Changing
    BY <1>2 DEF Store, At
  <2>2. cmd[p].loc \in Loc /\ cmd[p].id \in Id
    BY <2>1, KnownPath
  <2>3. /\ cmd[p].new \in Content /\ cmd[p].hash \in Content /\ cmd[p].rec \in Row
        /\ cmd[p].loc = cmd[p].rec.loc
    BY <1>0, <2>1 DEF Shape, Command, Changing
  <2>4. /\ ChangedRow(cmd[p]) \in Row /\ ChangedRow(cmd[p]).loc = cmd[p].loc
        /\ ChangedRow(cmd[p]).source = cmd[p].rec.source
    BY <2>2, <2>3 DEF ChangedRow, Row, Content, Source
  <2>5. QED
    BY <1>0, <1>2, <2>1, <2>2, <2>4 DEF Store
<1>3. CASE DeleteRow(p)
  <2>1. cmd[p].at = "row"
    BY <1>3 DEF DeleteRow, At
  <2>2. cmd[p].op = "delete"
    BY <1>0, <2>1 DEF Shape, Command, Creating, Changing
  <2>3. QED
    BY <1>0, <1>3, <2>2 DEF DeleteRow
<1>4. CASE UNCHANGED rows
  BY <1>0, <1>4
<1>5. QED
  BY <1>1, <1>2, <1>3, <1>4
     DEF ProcStep, BeginSave, BeginImport, BeginInit, BeginOnStored, Begin,
         LoadFails, LoadToChange, LoadToRename, LoadToClone, LoadToLaunch, Loads,
         CheckName, CheckId, CheckPath, Write, WriteFails, Hash, HashFails, StoreFindsNothing,
         StoreFails, InitStoreFails, EditStoreFails, Undo, UndoFails, DeleteRowFails,
         Unlink, UnlinkFails, RecordLaunch, Kill

(* How files move: only the path of the command is written, and only a     *)
(* managed manifest is removed, by the command that made it or deleted its *)
(* row.                                                                    *)
LEMMA FilesMove ==
    ASSUME TypeOK, Shapes, NEW p \in Proc, ProcStep(p)
    PROVE  /\ files' \in [Loc -> Content \cup {None}]
           /\ \A l \in Loc : \/ files'[l] = files[l]
                             \/ /\ l = cmd[p].loc /\ files'[l] # None
                                /\ cmd[p].at \in {"write", "undo"}
                                /\ cmd[p].at = "undo" => cmd[p].op \in Changing
                             \/ /\ l = cmd[p].loc /\ l = cmd[p].id /\ End(p) /\ rows' = rows
                                /\ cmd[p].at = "unlink" \/ cmd[p].op \in Creating
<1>0. cmd[p] \in Command /\ Shape(cmd[p]) /\ files \in [Loc -> Content \cup {None}]
  BY DEF TypeOK, Shapes
<1>1. CASE Write(p) \/ WriteFails(p)
  <2>1. cmd[p].at = "write"
    BY <1>1 DEF Write, WriteFails, At
  <2>2. cmd[p].new # None
    BY <1>0, <2>1 DEF Shape, Creating, Changing, Command
  <2>3. cmd[p].new \in Content
    BY <1>0, <2>2 DEF Command
  <2>4. QED
    BY <1>0, <1>1, <2>1, <2>2, <2>3 DEF Write, WriteFails
<1>2. CASE Undo(p)
  <2>1. cmd[p].at = "undo"
    BY <1>2 DEF Undo, At
  <2>2. CASE cmd[p].op \in Creating
    <3>1. cmd[p].loc = cmd[p].id
      BY <1>0, <2>1, <2>2 DEF Shape
    <3>2. QED
      BY <1>0, <1>2, <2>2, <3>1 DEF Undo
  <2>3. CASE cmd[p].op \notin Creating
    <3>1. cmd[p].op \in Changing
      BY <1>0, <2>1, <2>3 DEF Shape, Command, Changing
    <3>2. cmd[p].old # None
      BY <1>0, <2>1, <3>1 DEF Shape
    <3>3. cmd[p].old \in Content
      BY <1>0, <3>2 DEF Command
    <3>4. QED
      BY <1>0, <1>2, <2>1, <2>3, <3>1, <3>2, <3>3 DEF Undo
  <2>4. QED
    BY <2>2, <2>3
<1>3. CASE Unlink(p)
  BY <1>0, <1>3 DEF Unlink, At, Shape
<1>4. CASE UNCHANGED files
  BY <1>0, <1>4
<1>5. QED
  BY <1>1, <1>2, <1>3, <1>4
     DEF ProcStep, BeginSave, BeginImport, BeginInit, BeginOnStored, Begin,
         LoadFails, LoadToChange, LoadToRename, LoadToClone, LoadToLaunch, Loads,
         CheckName, CheckId, CheckPath, Hash, HashFails, Insert, Store, StoreFindsNothing,
         StoreFails, InitStoreFails, EditStoreFails, UndoFails, DeleteRow, DeleteRowFails,
         UnlinkFails, RecordLaunch, Kill

(* How the id of a command comes about and what stays of it in a step of   *)
(* the command.                                                            *)
LEMMA IdsMove ==
    ASSUME TypeOK, Shapes, NEW p \in Proc, ProcStep(p), NEW i \in Id, cmd'[p].id = i
    PROVE  \/ /\ i \in Fresh /\ i \in used' /\ UNCHANGED <<rows, files>>
              /\ cmd'[p].op \in Creating /\ cmd'[p].at \in {"name", "path"}
           \/ i \in Carried /\ cmd'[p].op \in Creating
           \/ /\ rows[i] # None /\ UNCHANGED <<rows, files>> /\ cmd'[p].op \notin Creating
              /\ cmd'[p].at \in {"row", "load"} /\ cmd'[p].loc = rows[i].loc
           \/ /\ cmd[p].id = i /\ cmd'[p].op = cmd[p].op /\ cmd'[p].loc = cmd[p].loc
              /\ cmd[p].at = "load" => files[cmd[p].rec.loc] # None
              /\ cmd'[p].at = "unlink" => rows'[i] = None
              /\ cmd'[p].at = "hash" => files'[cmd[p].loc] # None
              /\ cmd'[p].at = "store" => files'[cmd[p].loc] # None
<1>0. cmd[p] \in Command /\ Shape(cmd[p]) /\ None \notin Id
  BY NoneAssumption DEF TypeOK, Shapes, Loc
<1>1. CASE BeginSave(p)
  <2>1. PICK j \in Fresh, n \in Name, v \in Rev :
          cmd'[p] = [Idle EXCEPT !.op = "save", !.at = "name", !.id = j, !.loc = j,
                                 !.new = [id |-> j, name |-> n, rev |-> v]]
          /\ used' = used \cup {j}
    BY <1>1, BeginMoves DEF BeginSave
  <2>2. QED
    BY <1>1, <2>1 DEF Idle, Creating, BeginSave, Begin
<1>2. CASE BeginImport(p)
  <2>1. PICK j \in Fresh \cup Carried, n \in Name, v \in Rev :
          cmd'[p] = [Idle EXCEPT !.op = "import", !.at = "name", !.id = j, !.loc = j,
                                 !.new = [id |-> j, name |-> n, rev |-> v]]
          /\ used' = used \cup ({j} \ Carried)
    BY <1>2, BeginMoves DEF BeginImport
  <2>2. QED
    BY <1>2, <2>1 DEF Idle, Creating, BeginImport, Begin
<1>3. CASE BeginInit(p)
  <2>0. PICK j \in Fresh, d \in Project, v \in Rev :
          Begin(p, [Idle EXCEPT !.op = "init", !.at = "path", !.id = j, !.loc = d,
                                !.new = [id |-> j, name |-> ProjectName[d], rev |-> v]])
          /\ used' = used \cup {j}
    BY <1>3 DEF BeginInit
  <2> DEFINE c == [Idle EXCEPT !.op = "init", !.at = "path", !.id = j, !.loc = d,
                               !.new = [id |-> j, name |-> ProjectName[d], rev |-> v]]
  <2>1. cmd'[p] = c
    <3>1. Begin(p, c)
      BY <2>0
    <3> HIDE DEF c
    <3>2. QED
      BY <3>1, BeginMoves
  <2>2. c.op = "init" /\ c.at = "path" /\ c.id = j
    BY DEF Idle
  <2> HIDE DEF c
  <2>3. UNCHANGED <<rows, files>>
    BY <1>3 DEF BeginInit, Begin
  <2>4. QED
    BY <2>0, <2>1, <2>2, <2>3 DEF Creating
<1>4. CASE BeginOnStored(p)
  <2>0. PICK op \in Changing \cup {"clone", "delete", "launch"}, j \in Id :
          /\ rows[j] # None
          /\ Begin(p, [Idle EXCEPT !.op = op, !.at = IF op = "delete" THEN "row" ELSE "load",
                                   !.rec = rows[j],
                                   !.id = IF op = "clone" THEN None ELSE j,
                                   !.loc = IF op = "clone" THEN None ELSE rows[j].loc])
    BY <1>4 DEF BeginOnStored
  <2>1. cmd'[p] = [Idle EXCEPT !.op = op, !.at = IF op = "delete" THEN "row" ELSE "load",
                               !.rec = rows[j],
                               !.id = IF op = "clone" THEN None ELSE j,
                               !.loc = IF op = "clone" THEN None ELSE rows[j].loc]
    BY <2>0, BeginMoves
  <2>2. /\ cmd'[p].op = op /\ cmd'[p].at = (IF op = "delete" THEN "row" ELSE "load")
        /\ cmd'[p].id = (IF op = "clone" THEN None ELSE j)
        /\ cmd'[p].loc = (IF op = "clone" THEN None ELSE rows[j].loc)
    BY <2>1 DEF Idle
  <2>3. UNCHANGED <<rows, files>>
    BY <1>4 DEF BeginOnStored, Begin
  <2>4. QED
    BY <1>0, <2>0, <2>2, <2>3 DEF Creating, Changing
<1>5. CASE LoadToClone(p)
  <2>1. PICK j \in Fresh, n \in Name :
          cmd'[p] = [cmd[p] EXCEPT !.at = "name", !.id = j, !.loc = j, !.old = Loaded(p),
                                   !.new = [id |-> j, name |-> n, rev |-> Loaded(p).rev]]
          /\ used' = used \cup {j}
    BY <1>5, LoadMoves DEF LoadToClone
  <2>2. cmd'[p].id = j /\ cmd'[p].op = cmd[p].op /\ cmd'[p].at = "name"
    BY <1>0, <2>1 DEF Command
  <2>3. QED
    BY <1>5, <2>1, <2>2 DEF LoadToClone, Loads, Creating
<1>6. CASE LoadToChange(p) \/ LoadToRename(p) \/ LoadToLaunch(p)
  <2>1. /\ cmd'[p].id = cmd[p].id /\ cmd'[p].op = cmd[p].op /\ cmd'[p].loc = cmd[p].loc
        /\ cmd'[p].at \in {"write", "name", "record"}
    <3>1. CASE LoadToChange(p)
      <4>1. PICK v \in Rev : cmd'[p] = [cmd[p] EXCEPT !.at = "write", !.old = Loaded(p),
                                                      !.new = [Loaded(p) EXCEPT !.rev = v]]
        BY <3>1, LoadMoves DEF LoadToChange
      <4>2. QED
        BY <1>0, <4>1 DEF Command
    <3>2. CASE LoadToRename(p)
      <4>1. PICK n \in Name : cmd'[p] = [cmd[p] EXCEPT !.at = "name", !.old = Loaded(p),
                                                       !.new = [Loaded(p) EXCEPT !.name = n]]
        BY <3>2, LoadMoves DEF LoadToRename
      <4>2. QED
        BY <1>0, <4>1 DEF Command
    <3>3. CASE LoadToLaunch(p)
      BY <1>0, <3>3, LoadMoves DEF LoadToLaunch, Command
    <3>4. QED
      BY <1>6, <3>1, <3>2, <3>3
  <2>2. files[cmd[p].rec.loc] # None
    BY <1>6 DEF LoadToChange, LoadToRename, LoadToLaunch, Loads
  <2>3. QED
    BY <2>1, <2>2
<1>7. CASE End(p)
  BY <1>0, <1>7, EndShape
<1>8. CASE (CheckName(p) \/ CheckId(p) \/ CheckPath(p) \/ StoreFails(p)) /\ ~End(p)
  <2>1. PICK step \in {"id", "path", "write", "undo"} : cmd'[p] = [cmd[p] EXCEPT !.at = step]
    BY <1>8, GoToMoves DEF CheckName, CheckId, CheckPath, StoreFails
  <2>2. cmd[p].at # "load"
    BY <1>8 DEF CheckName, CheckId, CheckPath, StoreFails, At
  <2>3. QED
    BY <1>0, <2>1, <2>2 DEF Command
<1>9. CASE Write(p)
  <2>1. cmd'[p] = [cmd[p] EXCEPT !.at = "hash"] /\ cmd[p].at = "write"
    BY <1>9, GoToMoves DEF Write, At
  <2>2. cmd[p].new # None /\ cmd[p].loc \in Loc
    BY <1>0, <2>1, KnownPath DEF Shape, Creating, Changing, Command
  <2>3. files'[cmd[p].loc] # None
    BY <1>9, <2>2 DEF Write, TypeOK
  <2>4. QED
    BY <1>0, <2>1, <2>3 DEF Command
<1>10. CASE Hash(p)
  <2>1. /\ cmd'[p] = [cmd[p] EXCEPT !.at = "store", !.hash = files[cmd[p].loc]]
        /\ files[cmd[p].loc] # None /\ files' = files /\ cmd[p].at # "load"
    BY <1>10 DEF Hash, At, TypeOK
  <2>2. QED
    BY <1>0, <2>1 DEF Command
<1>11. CASE DeleteRow(p) /\ ~End(p)
  <2>1. cmd'[p] = [cmd[p] EXCEPT !.at = "unlink"] /\ rows' = [rows EXCEPT ![cmd[p].id] = None]
        /\ cmd[p].at # "load"
    BY <1>11, GoToMoves DEF DeleteRow, At
  <2>2. QED
    BY <1>0, <2>1 DEF Command, TypeOK
<1>12. QED
  BY <1>1, <1>2, <1>3, <1>4, <1>5, <1>6, <1>7, <1>8, <1>9, <1>10, <1>11
     DEF ProcStep, LoadFails, WriteFails, HashFails, Insert, Store, StoreFindsNothing,
         InitStoreFails, EditStoreFails, Undo, UndoFails, DeleteRow, DeleteRowFails, Unlink,
         UnlinkFails, RecordLaunch, Kill, EndApart

(* The types of what is left. *)
LEMMA TypeStep ==
    ASSUME TypeOK, Shapes, RowsPlaced, NEW p \in Proc, ProcStep(p)
    PROVE  TypeOK' /\ used \subseteq used'
<1>0. cmd[p] \in Command /\ Shape(cmd[p])
  BY DEF TypeOK, Shapes
<1>1. rows' \in [Id -> Row \cup {None}] /\ files' \in [Loc -> Content \cup {None}]
  BY RowsMove, FilesMove
<1>2. cmd' \in [Proc -> Command]
  BY OthersStay, ShapeStep DEF TypeOK
<1>3. used' \subseteq Id /\ used \subseteq used'
  <2>1. CASE BeginSave(p) \/ BeginImport(p) \/ BeginInit(p) \/ LoadToClone(p)
    BY <2>1, IdAssumption DEF BeginSave, BeginImport, BeginInit, LoadToClone, Fresh, TypeOK
  <2>2. CASE UNCHANGED used
    BY <2>2 DEF TypeOK
  <2>3. QED
    BY <2>1, <2>2
       DEF ProcStep, BeginOnStored, LoadFails, LoadToChange, LoadToRename, LoadToLaunch,
           CheckName, CheckId, CheckPath, Write, WriteFails, Hash, HashFails, Insert, Store,
           StoreFindsNothing, StoreFails, InitStoreFails, EditStoreFails, Undo, UndoFails,
           DeleteRow, DeleteRowFails, Unlink, UnlinkFails, RecordLaunch, Kill
<1>4. launched' \in Launch \cup {None}
  <2>1. CASE RecordLaunch(p)
    <3>1. cmd[p].at = "record"
      BY <2>1 DEF RecordLaunch, At
    <3>2. /\ cmd[p].loc \in Loc /\ cmd[p].id \in Id /\ cmd[p].old \in Content
          /\ cmd[p].rec \in Row
      BY <1>0, <3>1, KnownPath DEF Shape, Command, Creating, Changing
    <3>3. QED
      BY <2>1, <3>2 DEF RecordLaunch, Launch, Row, TypeOK
  <2>2. CASE DeleteRow(p)
    BY <2>2 DEF DeleteRow, TypeOK
  <2>3. CASE UNCHANGED launched
    BY <2>3 DEF TypeOK
  <2>4. QED
    BY <2>1, <2>2, <2>3
       DEF ProcStep, BeginSave, BeginImport, BeginInit, BeginOnStored, Begin,
           LoadFails, LoadToChange, LoadToRename, LoadToClone, LoadToLaunch, Loads,
           CheckName, CheckId, CheckPath, Write, WriteFails, Hash, HashFails, Insert, Store,
           StoreFindsNothing, StoreFails, InitStoreFails, EditStoreFails, Undo, UndoFails,
           DeleteRowFails, Unlink, UnlinkFails, Kill
<1>5. excuses' \subseteq Loc \X {"overlap", "read", "failure"}
  <2>1. CASE BeginSave(p) \/ BeginImport(p) \/ BeginInit(p) \/ BeginOnStored(p)
    <3>1. \E c : excuses' = excuses \cup Collisions(p, c)
      BY <2>1 DEF BeginSave, BeginImport, BeginInit, BeginOnStored, Begin
    <3>2. \A c : Collisions(p, c) \subseteq Loc \X {"overlap", "read", "failure"}
      BY DEF Collisions
    <3>3. QED
      BY <3>1, <3>2 DEF TypeOK
  <2>2. CASE EndApart(p) /\ cmd[p].at \in {"write", "hash", "store", "undo", "unlink"}
    BY <2>2, KnownPath DEF EndApart, TypeOK
  <2>3. CASE UNCHANGED excuses
    BY <2>3 DEF TypeOK
  <2>4. QED
    BY <2>1, <2>2, <2>3
       DEF ProcStep, LoadFails, LoadToChange, LoadToRename, LoadToClone, LoadToLaunch, Loads, At,
           CheckName, CheckId, CheckPath, Write, WriteFails, Hash, HashFails, Insert, Store,
           StoreFindsNothing, StoreFails, InitStoreFails, EditStoreFails, Undo, UndoFails,
           DeleteRow, DeleteRowFails, Unlink, UnlinkFails, RecordLaunch, Kill
<1>6. QED
  BY <1>1, <1>2, <1>3, <1>4, <1>5 DEF TypeOK

------------------------------------------------------------------------------

(* A changing command that moves on at a project's path has a file there.  *)
LEMMA ChangingMoves ==
    ASSUME TypeOK, Shapes, RowsPlaced, LoadedStays, NEW p \in Proc, ProcStep(p),
           cmd'[p].op \in Changing, cmd'[p].at # "load", cmd'[p].loc \in Project
    PROVE  files[cmd'[p].loc] # None
<1>0. cmd[p] \in Command /\ Shape(cmd[p])
  BY DEF TypeOK, Shapes
<1>2. cmd'[p].id \in Id /\ cmd'[p].op \notin Creating
  <2>1. cmd'[p] \in Command /\ Shape(cmd'[p])
    BY ShapeStep
  <2>2. QED
    BY <2>1 DEF Shape, Command, Creating, Changing
<1>3. CASE cmd'[p].at = "row"
  BY <1>3, ShapeStep DEF Shape, Changing
<1>4. CASE /\ cmd'[p].op = cmd[p].op /\ cmd'[p].loc = cmd[p].loc
           /\ cmd[p].at = "load" => files[cmd[p].rec.loc] # None
  BY <1>0, <1>4 DEF LoadedStays, Shape
<1>5. QED
  BY <1>2, <1>3, <1>4, IdsMove

LEMMA StoreInit ==
    ASSUME Init
    PROVE  StoreInv
<1>1. PICK where \in [Id -> Loc \cup {None}], name \in [Id -> Name], v \in Rev,
           source \in [Id -> Source] :
        LET There == {i \in Id : where[i] # None}
            Manifest(i) == [id |-> i, name |-> name[i], rev |-> v]
        IN  /\ \A i \in There : /\ where[i] \in {i} \cup Project
                                /\ where[i] \in Project <=> source[i] = "project"
            /\ \A i, j \in There : i # j => name[i] # name[j] /\ where[i] # where[j]
            /\ rows = [i \in Id |-> IF i \in There
                                   THEN [loc |-> where[i], name |-> name[i],
                                         hash |-> Manifest(i), source |-> source[i]]
                                   ELSE None]
            /\ files = [l \in Loc |-> IF \E i \in There : where[i] = l
                                     THEN Manifest(CHOOSE i \in There : where[i] = l)
                                     ELSE None]
            /\ used = There \ Carried
  BY DEF Init
<1> DEFINE There == {i \in Id : where[i] # None}
           Manifest(i) == [id |-> i, name |-> name[i], rev |-> v]
<1>2. /\ \A i \in There : /\ where[i] \in {i} \cup Project
                          /\ where[i] \in Project <=> source[i] = "project"
      /\ rows = [i \in Id |-> IF i \in There
                             THEN [loc |-> where[i], name |-> name[i],
                                   hash |-> Manifest(i), source |-> source[i]]
                             ELSE None]
      /\ files = [l \in Loc |-> IF \E i \in There : where[i] = l
                               THEN Manifest(CHOOSE i \in There : where[i] = l)
                               ELSE None]
      /\ used = There \ Carried
  BY <1>1
<1>3. /\ \A i \in Id : Manifest(i) \in Content /\ Manifest(i) # None
      /\ \A i \in There : where[i] \in Loc
      /\ None \notin Id \cup Loc
  BY NoneAssumption DEF Content, Loc
<1>4. rows \in [Id -> Row \cup {None}]
  BY <1>2, <1>3 DEF Row, Content
<1>5. files \in [Loc -> Content \cup {None}]
  BY <1>2, <1>3
<1>6. Idle \in Command /\ Idle.at = "idle" /\ Idle.op = "none" /\ Idle.id = None /\ Idle.loc = None
  BY DEF Idle, Command
<1>7. \A p \in Proc : cmd[p] = Idle
  BY DEF Init
<1>8. TypeOK
  BY <1>2, <1>4, <1>5, <1>6 DEF Init, TypeOK
<1>9. Shapes
  BY <1>6, <1>7 DEF Shapes, Shape, Creating, Changing
<1>10. \A i \in Id : rows[i] # None =>
         i \in There /\ rows[i].loc = where[i] /\ rows[i].source = source[i]
  BY <1>2
<1>11. RowsPlaced
  BY <1>2, <1>10 DEF RowsPlaced
<1>12. IdsOwned
  BY <1>2, <1>3, <1>6, <1>7, <1>10 DEF IdsOwned
<1>13. LoadedStays
  BY <1>6, <1>7 DEF LoadedStays, Changing
<1>14. RowHasFile
  <2>1. SUFFICES ASSUME NEW i \in Id, rows[i] # None PROVE files[rows[i].loc] # None
    BY DEF RowHasFile
  <2>2. i \in There /\ rows[i].loc = where[i] /\ where[i] \in Loc
    BY <1>3, <1>10, <2>1
  <2>3. files[where[i]] = Manifest(CHOOSE j \in There : where[j] = where[i])
    BY <1>2, <2>2
  <2>4. (CHOOSE j \in There : where[j] = where[i]) \in Id
    BY <2>2
  <2>5. QED
    BY <1>3, <2>2, <2>3, <2>4
<1>15. QED
  BY <1>8, <1>9, <1>11, <1>12, <1>13, <1>14 DEF StoreInv

LEMMA StoreStep ==
    ASSUME StoreInv, NEW p \in Proc, ProcStep(p)
    PROVE  StoreInv'
<1> USE DEF StoreInv
<1>1. /\ TypeOK' /\ used \subseteq used'
      /\ \A q \in Proc \ {p} : cmd'[q] = cmd[q]
      /\ cmd' \in [Proc -> Command]
  <2>1. TypeOK' /\ used \subseteq used'
    BY TypeStep
  <2>2. cmd' = [cmd EXCEPT ![p] = cmd'[p]]
    BY OthersStay
  <2>3. QED
    BY <2>1, <2>2 DEF TypeOK
<1>2. Shapes'
  BY <1>1, ShapeStep DEF Shapes
<1>3. cmd[p] \in Command /\ Shape(cmd[p]) /\ None \notin Id \cup Project /\ Id \cap Project = {}
  BY NoneAssumption, IdAssumption DEF TypeOK, Shapes, Loc
(* What becomes of a row. *)
<1>4. \A i \in Id : \/ rows'[i] = rows[i]
                   \/ rows'[i] = None
                   \/ /\ cmd[p].id = i /\ cmd[p].op \in Creating /\ cmd[p].at = "store"
                      /\ rows[i] = None /\ rows'[i].loc = cmd[p].loc
                      /\ cmd[p].op = "init" <=> rows'[i].source = "project"
                      /\ files' = files /\ End(p)
                   \/ /\ cmd[p].id = i /\ cmd[p].op \in Changing
                      /\ rows[i] # None /\ rows'[i].loc = cmd[p].loc
                      /\ rows'[i].source = cmd[p].rec.source
                      /\ files' = files /\ End(p)
  BY RowsMove
(* What becomes of a file. *)
<1>5. \A l \in Loc : \/ files'[l] = files[l]
                    \/ files'[l] # None
                    \/ /\ l = cmd[p].loc /\ l = cmd[p].id /\ End(p) /\ rows' = rows
                       /\ cmd[p].at = "unlink" \/ cmd[p].op \in Creating
  BY FilesMove
<1>6. RowsPlaced'
  BY <1>3, <1>4 DEF RowsPlaced, Shape, Creating, Changing
<1>7. End(p) => cmd'[p].id = None /\ cmd'[p].op = "none"
  BY EndShape
(* The file of an id that a command or a row owns is not removed by others *)
<1>8. ASSUME NEW i \in Id \ Carried, NEW l \in Loc, l = i \/ l \in Project,
             files[l] # None, files'[l] = None
      PROVE  cmd[p].id = i /\ End(p) /\ rows[i] = None /\ rows' = rows
  <2>1. l = cmd[p].id /\ End(p) /\ rows' = rows /\ (cmd[p].at = "unlink" \/ cmd[p].op \in Creating)
    BY <1>5, <1>8
  <2>2. cmd[p].id = i
    BY <1>3, <1>8, <2>1 DEF TypeOK, Command
  <2>3. QED
    BY <2>1, <2>2 DEF IdsOwned
<1>9. IdsOwned'
  <2>1. SUFFICES ASSUME NEW i \in Id \ Carried
        PROVE  /\ rows'[i] # None => i \in used'
               /\ \A q \in Proc : cmd'[q].id = i =>
                    /\ i \in used'
                    /\ cmd'[q].op \in Creating =>
                         rows'[i] = None /\ \A r \in Proc \ {q} : cmd'[r].id # i
                    /\ cmd'[q].op \notin Creating /\ rows'[i] # None => cmd'[q].loc = rows'[i].loc
                    /\ cmd'[q].at = "unlink" => rows'[i] = None
                    /\ cmd'[q].op \in Creating /\ cmd'[q].at \in {"hash", "store"} =>
                         files'[cmd'[q].loc] # None
    BY DEF IdsOwned
  <2>2. rows'[i] # None => i \in used'
    BY <1>1, <1>4 DEF IdsOwned
  (* The command that has the id after the step. *)
  <2>3. cmd'[p].id = i =>
          \/ /\ i \in Fresh /\ i \in used' /\ UNCHANGED <<rows, files>>
             /\ cmd'[p].op \in Creating /\ cmd'[p].at \in {"name", "path"}
          \/ /\ rows[i] # None /\ UNCHANGED <<rows, files>> /\ cmd'[p].op \notin Creating
             /\ cmd'[p].at \in {"row", "load"} /\ cmd'[p].loc = rows[i].loc
          \/ /\ cmd[p].id = i /\ cmd'[p].op = cmd[p].op /\ cmd'[p].loc = cmd[p].loc
             /\ cmd'[p].at = "unlink" => rows'[i] = None
             /\ cmd'[p].at = "hash" => files'[cmd[p].loc] # None
             /\ cmd'[p].at = "store" => files'[cmd[p].loc] # None
    BY IdsMove
  <2>4. ASSUME cmd'[p].id = i
        PROVE  /\ i \in used'
               /\ cmd'[p].op \in Creating =>
                    rows'[i] = None /\ \A r \in Proc \ {p} : cmd'[r].id # i
               /\ cmd'[p].op \notin Creating /\ rows'[i] # None => cmd'[p].loc = rows'[i].loc
               /\ cmd'[p].at = "unlink" => rows'[i] = None
               /\ cmd'[p].op \in Creating /\ cmd'[p].at \in {"hash", "store"} =>
                    files'[cmd'[p].loc] # None
    <3>1. ~End(p)
      BY <1>3, <1>7, <2>4
    <3>2. rows'[i] = rows[i] \/ rows'[i] = None
      BY <1>4, <3>1
    <3>3. CASE i \in Fresh /\ i \in used' /\ UNCHANGED <<rows, files>>
               /\ cmd'[p].op \in Creating /\ cmd'[p].at \in {"name", "path"}
      BY <1>1, <3>3 DEF IdsOwned, Fresh
    <3>4. CASE rows[i] # None /\ UNCHANGED <<rows, files>> /\ cmd'[p].op \notin Creating
               /\ cmd'[p].at \in {"row", "load"} /\ cmd'[p].loc = rows[i].loc
      BY <1>1, <3>4 DEF IdsOwned
    <3>5. CASE /\ cmd[p].id = i /\ cmd'[p].op = cmd[p].op /\ cmd'[p].loc = cmd[p].loc
               /\ cmd'[p].at = "unlink" => rows'[i] = None
               /\ cmd'[p].at = "hash" => files'[cmd[p].loc] # None
               /\ cmd'[p].at = "store" => files'[cmd[p].loc] # None
      BY <1>1, <3>2, <3>5 DEF IdsOwned
    <3>6. QED
      BY <2>3, <2>4, <3>3, <3>4, <3>5
  <2>5. ASSUME NEW q \in Proc \ {p}, cmd[q].id = i
        PROVE  /\ i \in used'
               /\ cmd[q].op \in Creating =>
                    rows'[i] = None /\ \A r \in Proc \ {q} : cmd'[r].id # i
               /\ cmd[q].op \notin Creating /\ rows'[i] # None => cmd[q].loc = rows'[i].loc
               /\ cmd[q].at = "unlink" => rows'[i] = None
               /\ cmd[q].op \in Creating /\ cmd[q].at \in {"hash", "store"} =>
                    files'[cmd[q].loc] # None
    <3>1. i \in used /\ i \in used' /\ i \notin Fresh
      BY <1>1, <2>5 DEF IdsOwned, Fresh
    <3>2. cmd[p].id = i => cmd[p].op \notin Creating
      BY <2>5 DEF IdsOwned
    <3>3. \/ rows'[i] = rows[i] \/ rows'[i] = None
          \/ rows[i] # None /\ rows'[i].loc = rows[i].loc
      BY <1>4, <3>2 DEF IdsOwned, Creating, Changing
    <3>4. ASSUME cmd[q].op \in Creating
          PROVE  /\ rows'[i] = None /\ \A r \in Proc \ {q} : cmd'[r].id # i
                 /\ cmd[q].at \in {"hash", "store"} => files'[cmd[q].loc] # None
      <4>1. rows[i] = None /\ \A r \in Proc \ {q} : cmd[r].id # i
        BY <2>5, <3>4 DEF IdsOwned
      <4>2. rows'[i] = None
        BY <3>3, <4>1
      <4>3. cmd'[p].id # i
        BY <2>3, <3>1, <4>1
      <4>4. ASSUME cmd[q].at \in {"hash", "store"} PROVE files'[cmd[q].loc] # None
        <5>1. cmd[q].loc \in Loc /\ files[cmd[q].loc] # None
          BY <2>5, <3>4, <4>4, KnownPath DEF IdsOwned
        <5>2. cmd[q].loc = i \/ cmd[q].loc \in Project
          BY <2>5, <3>4, <4>4 DEF Shapes, Shape
        <5>3. QED
          BY <1>8, <4>1, <5>1, <5>2
      <4>5. QED
        BY <1>1, <4>1, <4>2, <4>3, <4>4
    <3>5. cmd[q].op \notin Creating /\ rows'[i] # None => cmd[q].loc = rows'[i].loc
      BY <2>5, <3>3 DEF IdsOwned
    <3>6. cmd[q].at = "unlink" => rows'[i] = None
      BY <2>5, <3>3 DEF IdsOwned
    <3>7. QED
      BY <3>1, <3>4, <3>5, <3>6
  <2>6. QED
    BY <1>1, <2>2, <2>4, <2>5
<1>10. LoadedStays'
  <2>1. SUFFICES ASSUME NEW q \in Proc, cmd'[q].op \in Changing, cmd'[q].at # "load",
                        cmd'[q].loc \in Project
        PROVE  files'[cmd'[q].loc] # None
    BY DEF LoadedStays
  <2>2. \A d \in Project : files[d] # None => files'[d] # None
    BY <1>3, <1>5 DEF Loc, TypeOK, Command
  <2>3. CASE q # p
    BY <1>1, <2>1, <2>2, <2>3 DEF LoadedStays
  <2>4. CASE q = p
    <3>1. files[cmd'[p].loc] # None
      BY <2>1, <2>4, ChangingMoves
    <3>2. QED
      BY <2>1, <2>2, <2>4, <3>1
  <2>5. QED
    BY <2>3, <2>4
<1>11. RowHasFile'
  <2>1. SUFFICES ASSUME NEW i \in Id \ Carried, rows'[i] # None PROVE files'[rows'[i].loc] # None
    BY DEF RowHasFile
  <2>2. CASE rows'[i] = rows[i]
    <3>1. rows[i].loc \in Loc /\ files[rows[i].loc] # None /\ (rows[i].loc = i \/ rows[i].loc \in Project)
      BY <2>1, <2>2 DEF TypeOK, Row, RowHasFile, RowsPlaced
    <3>2. QED
      BY <1>8, <2>1, <2>2, <3>1
  <2>3. CASE /\ cmd[p].id = i /\ cmd[p].op \in Creating /\ cmd[p].at = "store"
             /\ rows'[i].loc = cmd[p].loc /\ files' = files
    BY <2>3 DEF IdsOwned
  <2>4. CASE /\ cmd[p].id = i /\ cmd[p].op \in Changing
             /\ rows[i] # None /\ rows'[i].loc = cmd[p].loc /\ files' = files
    BY <2>4 DEF IdsOwned, RowHasFile, Creating, Changing
  <2>5. QED
    BY <1>4, <2>1, <2>2, <2>3, <2>4
<1>12. QED
  BY <1>1, <1>2, <1>6, <1>9, <1>10, <1>11

LEMMA StoreInductive == Spec => []StoreInv
<1>1. StoreInv /\ [Next]_vars => StoreInv'
  <2>1. CASE UNCHANGED vars
    BY <2>1 DEF vars, StoreInv, TypeOK, Shapes, RowsPlaced, IdsOwned, LoadedStays, RowHasFile
  <2>2. CASE Next
    BY <2>2, StoreStep DEF Next
  <2>3. QED
    BY <2>1, <2>2
<1>2. QED
  BY StoreInit, <1>1, PTL DEF Spec

(* Every variable stays in its type. *)
THEOREM StoreTypeCorrect == Spec => []TypeOK
<1>1. StoreInv => TypeOK
  BY DEF StoreInv
<1>2. QED
  BY StoreInductive, <1>1, PTL

(* A registered setup whose id uuid4 gave out has a manifest, however many *)
(* commands overlap, fail or are killed (setup_service.py: rows are        *)
(* inserted after the file is written and deleted before it is unlinked).  *)
THEOREM RowsHaveFiles == Spec => []RowHasFile
<1>1. StoreInv => RowHasFile
  BY DEF StoreInv
<1>2. QED
  BY StoreInductive, <1>1, PTL

(* No command removes a project's manifest, and only init creates one      *)
(* (setup_service.py: delete_setup spares project manifests).              *)
THEOREM ProjectFilesRemain == Spec => ProjectFilesStay
<1> DEFINE Step == \A d \in Project :
              /\ files[d] # None => files'[d] # None
              /\ files[d] = None /\ files'[d] # None =>
                   \E p \in Proc : cmd[p].op = "init" /\ cmd[p].loc = d
<1>1. StoreInv /\ [Next]_vars => [Step]_vars
  <2>1. SUFFICES ASSUME StoreInv, NEW p \in Proc, ProcStep(p), NEW d \in Project
        PROVE  /\ files[d] # None => files'[d] # None
               /\ files[d] = None /\ files'[d] # None => cmd[p].op = "init" /\ cmd[p].loc = d
    BY DEF Next
  <2>2. cmd[p] \in Command /\ Shape(cmd[p]) /\ None \notin Id \cup Project /\ Id \cap Project = {}
    BY <2>1, NoneAssumption, IdAssumption DEF StoreInv, TypeOK, Shapes, Loc
  <2>3. \/ files'[d] = files[d]
        \/ /\ d = cmd[p].loc /\ files'[d] # None /\ cmd[p].at \in {"write", "undo"}
           /\ cmd[p].at = "undo" => cmd[p].op \in Changing
        \/ d = cmd[p].loc /\ d = cmd[p].id
    BY <2>1, FilesMove DEF StoreInv, Loc
  <2>4. d # cmd[p].id
    BY <2>2 DEF Command
  <2>5. ASSUME files[d] = None, files'[d] # None
        PROVE  cmd[p].op = "init" /\ cmd[p].loc = d
    <3>1. d = cmd[p].loc /\ cmd[p].at \in {"write", "undo"}
      BY <2>3, <2>4, <2>5
    <3>2. cmd[p].op \notin Changing
      BY <2>1, <2>5, <3>1 DEF StoreInv, LoadedStays
    <3>3. QED
      BY <2>2, <2>4, <3>1, <3>2 DEF Shape, Command, Creating
  <2>6. QED
    BY <2>3, <2>4, <2>5
<1>2. QED
  BY StoreInductive, <1>1, PTL DEF Spec, ProjectFilesStay

------------------------------------------------------------------------------
(* Files and rows.  What follows is about the paths at which nothing is    *)
(* excused: there, a command that writes has the setup to itself.          *)

(* A command that may write, once it is at a path. *)
Writes(c) == c.op \notin {"none", "launch"} /\ c.loc # None

(* Two commands are at one setup. *)
Together(c, d) == \/ c.id # None /\ c.id = d.id
                  \/ c.loc # None /\ c.loc = d.loc

Excused(l) == \E e \in excuses : e[1] = l

(* Commands that have met are excused at their paths, whoever came first.  *)
MeetingsExcused ==
    \A p \in Proc : \A q \in Proc \ {p} : Together(cmd[p], cmd[q]) =>
        /\ Excused(cmd[p].loc)
        /\ Writes(cmd[p]) /\ Writes(cmd[q]) => ~Clean(cmd[p].loc)

(* The row a command changes or deletes has not moved to another path.     *)
RowsStayPut ==
    \A p \in Proc : /\ cmd[p].op \in Changing \cup {"delete"}
                    /\ rows[cmd[p].id] # None
                    /\ rows[cmd[p].id].loc # cmd[p].loc
        => ~Clean(rows[cmd[p].id].loc)

(* What a command that has its setup to itself knows of the file and the   *)
(* row: what it has checked, read or written is still so.                  *)
KnowsCreating(c) ==
    /\ c.new.id = c.id
    /\ c.op # "import" \/ c.at \notin {"name", "id"} => rows[c.id] = None
    /\ c.at \in {"write", "hash", "store", "undo"} => Registered(c.loc) = {}
    /\ c.at = "write" => files[c.loc] = None
    /\ c.at \in {"hash", "store"} => files[c.loc] = c.new
    /\ c.at = "store" => c.hash = c.new

KnowsChanging(c) ==
    /\ rows[c.id] = c.rec
    /\ c.at # "load" => /\ c.old = c.rec.hash /\ c.old.name = c.rec.name /\ c.old.id = c.id
                        /\ c.new.id = c.id
                        /\ c.op # "rename" => c.new.name = c.rec.name
    /\ c.at \in {"hash", "store", "undo"} => Registered(c.loc) \subseteq {c.id}
    /\ c.at \in {"hash", "store"} => files[c.loc] = c.new
    /\ c.at = "store" => c.hash = c.new

KnowsDeleting(c) ==
    /\ c.at = "row" => rows[c.id] = c.rec
    /\ c.at = "unlink" => Registered(c.loc) = {}

Knows(c) ==
    /\ c.op \in Creating => KnowsCreating(c)
    /\ c.op \in Changing => KnowsChanging(c)
    /\ c.op = "delete" => KnowsDeleting(c)

WritersKnow == \A p \in Proc : Writes(cmd[p]) /\ Clean(cmd[p].loc) => Knows(cmd[p])

(* Between its first write and its last, a command has file and row apart. *)
Middle == {"hash", "store", "undo", "unlink"}

Settled(l) == \A p \in Proc : cmd[p].loc = l => cmd[p].at \notin Middle

SettledAgree == \A l \in Loc : Clean(l) /\ Settled(l) => Agree(l)

(* What a launch that met nobody has read is one revision. *)
ReadersKnow ==
    \A p \in Proc : cmd[p].op = "launch" /\ ~Excused(cmd[p].loc) =>
        /\ cmd[p].at = "load" => files[cmd[p].loc] = cmd[p].rec.hash
        /\ cmd[p].at = "record" => cmd[p].old = cmd[p].rec.hash

SyncInv == MeetingsExcused /\ RowsStayPut /\ WritersKnow /\ SettledAgree /\ ReadersKnow /\ LaunchIsExact

------------------------------------------------------------------------------
(* Nothing that was excused is held against anybody again. *)
LEMMA ExcusesGrow ==
    ASSUME NEW p \in Proc, ProcStep(p)
    PROVE  /\ excuses \subseteq excuses'
           /\ \A l : Clean(l)' => Clean(l)
           /\ \A l : Excused(l) => Excused(l)'
<1>1. excuses \subseteq excuses'
  BY DEF ProcStep, BeginSave, BeginImport, BeginInit, BeginOnStored, Begin,
         LoadFails, LoadToChange, LoadToRename, LoadToClone, LoadToLaunch, Loads,
         CheckName, CheckId, CheckPath, Write, WriteFails, Hash, HashFails, Insert, Store,
         StoreFindsNothing, StoreFails, InitStoreFails, EditStoreFails, Undo, UndoFails,
         DeleteRow, DeleteRowFails, Unlink, UnlinkFails, RecordLaunch, Kill, EndApart
<1>2. QED
  BY <1>1 DEF Clean, Excused

(* A command stays at its setup until it ends, except that it takes one up *)
(* when it begins, and a clone when it has loaded its original.            *)
LEMMA PlaceMoves ==
    ASSUME TypeOK, Shapes, NEW p \in Proc, ProcStep(p)
    PROVE  \/ End(p)
           \/ /\ cmd'[p].op = cmd[p].op /\ cmd'[p].id = cmd[p].id
              /\ cmd'[p].loc = cmd[p].loc /\ cmd'[p].rec = cmd[p].rec
           \/ /\ Begin(p, cmd'[p])
              /\ cmd'[p].at \notin Middle
           \/ /\ cmd[p].op = "clone" /\ cmd'[p].op = "clone"
              /\ cmd[p].id = None /\ cmd[p].loc = None
              /\ cmd'[p].id \in Fresh /\ cmd'[p].loc = cmd'[p].id
              /\ cmd'[p].at \notin Middle
<1>0. cmd[p] \in Command /\ Shape(cmd[p])
  BY DEF TypeOK, Shapes
<1>1. CASE BeginSave(p)
  <2>1. PICK i \in Fresh, n \in Name, v \in Rev :
          Begin(p, [Idle EXCEPT !.op = "save", !.at = "name", !.id = i, !.loc = i,
                                !.new = [id |-> i, name |-> n, rev |-> v]])
    BY <1>1 DEF BeginSave
  <2> DEFINE c == [Idle EXCEPT !.op = "save", !.at = "name", !.id = i, !.loc = i,
                               !.new = [id |-> i, name |-> n, rev |-> v]]
  <2>2. Begin(p, c) /\ c.at \notin Middle
    BY <2>1 DEF Idle, Middle
  <2> HIDE DEF c
  <2>3. QED
    BY <2>2, BeginMoves
<1>2. CASE BeginImport(p)
  <2>1. PICK i \in Fresh \cup Carried, n \in Name, v \in Rev :
          Begin(p, [Idle EXCEPT !.op = "import", !.at = "name", !.id = i, !.loc = i,
                                !.new = [id |-> i, name |-> n, rev |-> v]])
    BY <1>2 DEF BeginImport
  <2> DEFINE c == [Idle EXCEPT !.op = "import", !.at = "name", !.id = i, !.loc = i,
                               !.new = [id |-> i, name |-> n, rev |-> v]]
  <2>2. Begin(p, c) /\ c.at \notin Middle
    BY <2>1 DEF Idle, Middle
  <2> HIDE DEF c
  <2>3. QED
    BY <2>2, BeginMoves
<1>3. CASE BeginInit(p)
  <2>1. PICK i \in Fresh, d \in Project, v \in Rev :
          Begin(p, [Idle EXCEPT !.op = "init", !.at = "path", !.id = i, !.loc = d,
                                !.new = [id |-> i, name |-> ProjectName[d], rev |-> v]])
    BY <1>3 DEF BeginInit
  <2> DEFINE c == [Idle EXCEPT !.op = "init", !.at = "path", !.id = i, !.loc = d,
                               !.new = [id |-> i, name |-> ProjectName[d], rev |-> v]]
  <2>2. Begin(p, c) /\ c.at \notin Middle
    BY <2>1 DEF Idle, Middle
  <2> HIDE DEF c
  <2>3. QED
    BY <2>2, BeginMoves
<1>4. CASE BeginOnStored(p)
  <2>1. PICK op \in Changing \cup {"clone", "delete", "launch"}, i \in Id :
          Begin(p, [Idle EXCEPT !.op = op, !.at = IF op = "delete" THEN "row" ELSE "load",
                                !.rec = rows[i],
                                !.id = IF op = "clone" THEN None ELSE i,
                                !.loc = IF op = "clone" THEN None ELSE rows[i].loc])
    BY <1>4 DEF BeginOnStored
  <2> DEFINE c == [Idle EXCEPT !.op = op, !.at = IF op = "delete" THEN "row" ELSE "load",
                               !.rec = rows[i],
                               !.id = IF op = "clone" THEN None ELSE i,
                               !.loc = IF op = "clone" THEN None ELSE rows[i].loc]
  <2>2. Begin(p, c) /\ c.at \notin Middle
    BY <2>1 DEF Idle, Middle
  <2> HIDE DEF c
  <2>3. QED
    BY <2>2, BeginMoves
<1>5. CASE LoadToClone(p)
  <2>1. PICK j \in Fresh, n \in Name :
          cmd'[p] = [cmd[p] EXCEPT !.at = "name", !.id = j, !.loc = j, !.old = Loaded(p),
                                   !.new = [id |-> j, name |-> n, rev |-> Loaded(p).rev]]
    BY <1>5, LoadMoves DEF LoadToClone
  <2>2. /\ cmd'[p].id = j /\ cmd'[p].loc = j /\ cmd'[p].op = cmd[p].op /\ cmd'[p].at = "name"
    BY <1>0, <2>1 DEF Command
  <2>3. cmd[p].op = "clone" /\ cmd[p].at = "load"
    BY <1>5 DEF LoadToClone, Loads, At
  <2>4. cmd[p].id = None /\ cmd[p].loc = None
    BY <1>0, <2>3 DEF Shape, Creating
  <2>5. QED
    BY <2>2, <2>3, <2>4 DEF Middle
<1>6. CASE LoadToChange(p) \/ LoadToRename(p) \/ LoadToLaunch(p)
  <2>1. \E old, new, step : cmd'[p] = [cmd[p] EXCEPT !.at = step, !.old = old, !.new = new]
    <3>1. CASE LoadToChange(p)
      BY <1>0, <3>1, LoadMoves DEF LoadToChange
    <3>2. CASE LoadToRename(p)
      BY <1>0, <3>2, LoadMoves DEF LoadToRename
    <3>3. CASE LoadToLaunch(p)
      <4>1. cmd'[p] = [cmd[p] EXCEPT !.at = "record", !.old = Loaded(p)]
        BY <3>3, LoadMoves DEF LoadToLaunch
      <4>2. cmd'[p] = [cmd[p] EXCEPT !.at = "record", !.old = Loaded(p), !.new = cmd[p].new]
        BY <1>0, <4>1 DEF Command
      <4>3. QED
        BY <4>2
    <3>4. QED
      BY <1>6, <3>1, <3>2, <3>3
  <2>2. QED
    BY <1>0, <2>1 DEF Command
<1>7. CASE \E step : GoTo(p, step)
  BY <1>0, <1>7, GoToMoves DEF Command
<1>8. CASE Hash(p)
  <2>1. cmd'[p] = [cmd[p] EXCEPT !.at = "store", !.hash = files[cmd[p].loc]]
    BY <1>8 DEF Hash, TypeOK
  <2>2. QED
    BY <1>0, <2>1 DEF Command
<1>9. QED
  BY <1>1, <1>2, <1>3, <1>4, <1>5, <1>6, <1>7, <1>8
     DEF ProcStep, LoadFails, CheckName, CheckId, CheckPath, Write, WriteFails, HashFails, Insert,
         Store, StoreFindsNothing, StoreFails, InitStoreFails, EditStoreFails, Undo, UndoFails,
         DeleteRow, DeleteRowFails, Unlink, UnlinkFails, RecordLaunch, Kill, EndApart

(* The one row and the one file that a step may touch.                     *)
LEMMA StepReaches ==
    ASSUME TypeOK, Shapes, NEW p \in Proc, ProcStep(p)
    PROVE  /\ \A i \in Id : rows'[i] # rows[i] =>
                /\ Writes(cmd[p]) /\ cmd[p].id = i
                /\ rows'[i] # None => rows'[i].loc = cmd[p].loc
                /\ rows[i] # None => cmd[p].op \in Changing \cup {"delete"}
           /\ \A l \in Loc : files'[l] # files[l] => Writes(cmd[p]) /\ cmd[p].loc = l
<1>0. cmd[p] \in Command /\ Shape(cmd[p]) /\ None \notin Id \cup Loc
  BY NoneAssumption DEF TypeOK, Shapes, Loc
<1>1. ASSUME NEW i \in Id, rows'[i] # rows[i]
      PROVE  /\ Writes(cmd[p]) /\ cmd[p].id = i
             /\ rows'[i] # None => rows'[i].loc = cmd[p].loc
             /\ rows[i] # None => cmd[p].op \in Changing \cup {"delete"}
  <2>1. /\ cmd[p].id = i
        /\ rows'[i] # None => rows'[i].loc = cmd[p].loc
        /\ rows[i] # None => cmd[p].op \in Changing \cup {"delete"}
        /\ cmd[p].op \in Creating \cup Changing \cup {"delete"}
    BY <1>1, RowsMove
  <2>2. cmd[p].loc \in Loc
    BY <1>0, <2>1 DEF Shape, Creating, Changing, Loc
  <2>3. QED
    BY <1>0, <2>1, <2>2 DEF Writes, Creating, Changing
<1>2. ASSUME NEW l \in Loc, files'[l] # files[l]
      PROVE  Writes(cmd[p]) /\ cmd[p].loc = l
  <2>1. cmd[p].loc = l /\ (cmd[p].at \in {"write", "undo", "unlink"} \/ cmd[p].op \in Creating)
    BY <1>2, FilesMove
  <2>2. cmd[p].op \notin {"none", "launch"}
    BY <1>0, <2>1 DEF Shape, Creating
  <2>3. QED
    BY <1>0, <2>1, <2>2 DEF Writes
<1>3. QED
  BY <1>1, <1>2

(* A path or id in common leads to a common path that is excused.          *)
LEMMA MeetingsStep ==
    ASSUME StoreInv, MeetingsExcused, NEW p \in Proc, ProcStep(p)
    PROVE  MeetingsExcused'
<1> USE DEF StoreInv
<1>0. /\ cmd[p] \in Command /\ Shape(cmd[p]) /\ None \notin Id \cup Loc /\ Id \cap Project = {}
      /\ \A q \in Proc : cmd[q] \in Command /\ Shape(cmd[q])
      /\ \A q \in Proc \ {p} : cmd'[q] = cmd[q]
  <2>1. cmd' = [cmd EXCEPT ![p] = cmd'[p]]
    BY OthersStay
  <2>2. QED
    BY <2>1, NoneAssumption, IdAssumption DEF TypeOK, Shapes, Loc
<1>1. SUFFICES ASSUME NEW q \in Proc, NEW r \in Proc \ {q}, Together(cmd'[q], cmd'[r])
      PROVE  /\ Excused(cmd[q].loc)'
             /\ Writes(cmd'[q]) /\ Writes(cmd'[r]) => ~Clean(cmd[q].loc)'
  BY DEF MeetingsExcused
(* Two commands that were together already.                                *)
<1>2. ASSUME Together(cmd[q], cmd[r]), cmd'[q].loc = cmd[q].loc,
             Writes(cmd'[q]) => Writes(cmd[q]), Writes(cmd'[r]) => Writes(cmd[r])
      PROVE  /\ Excused(cmd[q].loc)'
             /\ Writes(cmd'[q]) /\ Writes(cmd'[r]) => ~Clean(cmd[q].loc)'
  <2>1. /\ Excused(cmd[q].loc)
        /\ Writes(cmd[q]) /\ Writes(cmd[r]) => ~Clean(cmd[q].loc)
    BY <1>2 DEF MeetingsExcused
  <2>2. QED
    BY <1>2, <2>1, ExcusesGrow
<1>3. CASE q # p /\ r # p
  BY <1>0, <1>1, <1>2, <1>3
(* One of the two has just moved. *)
<1>4. CASE End(p)
  <2>1. cmd'[p].id = None /\ cmd'[p].loc = None
    BY <1>4, EndShape DEF Shape
  <2>2. q = p => FALSE
    BY <1>1, <2>1 DEF Together
  <2>3. r = p => FALSE
    BY <1>1, <2>1 DEF Together
  <2>4. QED
    BY <1>3, <2>2, <2>3
<1>5. CASE /\ cmd'[p].op = cmd[p].op /\ cmd'[p].id = cmd[p].id /\ cmd'[p].loc = cmd[p].loc
  <2>1. cmd'[q].op = cmd[q].op /\ cmd'[q].id = cmd[q].id /\ cmd'[q].loc = cmd[q].loc
    BY <1>0, <1>5
  <2>2. cmd'[r].op = cmd[r].op /\ cmd'[r].id = cmd[r].id /\ cmd'[r].loc = cmd[r].loc
    BY <1>0, <1>5
  <2>3. QED
    BY <1>1, <1>2, <2>1, <2>2 DEF Together, Writes
<1>6. ASSUME NEW o \in Proc \ {p}, Begin(p, cmd'[p]), Together(cmd'[p], cmd[o])
      PROVE  /\ Excused(cmd[p].loc)' /\ Excused(cmd[o].loc)'
             /\ Writes(cmd'[p]) /\ Writes(cmd[o]) => ~Clean(cmd[p].loc)' /\ ~Clean(cmd[o].loc)'
  <2> DEFINE c == cmd'[p]
             kind == IF "launch" \in {c.op, cmd[o].op} THEN "read" ELSE "overlap"
  <2>1. c \in Command /\ Shape(c)
    BY ShapeStep
  <2>2. c.loc \in Loc
    BY <1>0, <1>6, <2>1 DEF Together, Shape, Command, Creating, Changing, Loc
  <2>3. cmd[o].loc \in Loc
    BY <1>0, <1>6, <2>1 DEF Together, Shape, Command, Creating, Changing, Loc
  <2>4. o \in Meets(p, c)
    BY <1>6 DEF Meets, Together
  <2>5. <<c.loc, kind>> \in Collisions(p, c) /\ <<cmd[o].loc, kind>> \in Collisions(p, c)
    BY <2>2, <2>3, <2>4 DEF Collisions
  <2>6. <<c.loc, kind>> \in excuses' /\ <<cmd[o].loc, kind>> \in excuses'
    BY <1>6, <2>5 DEF Begin
  <2>7. Writes(c) /\ Writes(cmd[o]) => kind = "overlap"
    BY DEF Writes
  <2>8. Excused(cmd[p].loc)' /\ Excused(cmd[o].loc)'
    BY <1>0, <2>6 DEF Excused
  <2>9. QED
    BY <1>0, <2>6, <2>7, <2>8 DEF Clean
<1>7. CASE Begin(p, cmd'[p])
  <2>1. CASE q = p
    BY <1>0, <1>1, <1>6, <1>7, <2>1
  <2>2. CASE r = p
    <3>1. q \in Proc \ {p} /\ Together(cmd'[p], cmd[q])
      BY <1>0, <1>1, <2>2 DEF Together
    <3>2. QED
      BY <1>0, <1>6, <1>7, <2>2, <3>1
  <2>3. QED
    BY <1>3, <2>1, <2>2
<1>8. CASE cmd'[p].id \in Fresh /\ cmd'[p].loc = cmd'[p].id
  <2>1. ASSUME NEW o \in Proc \ {p}
        PROVE  cmd[o].id # cmd'[p].id /\ cmd[o].loc # cmd'[p].id
    <3>1. cmd'[p].id \in Id \ Carried /\ cmd'[p].id \notin used
      BY <1>8 DEF Fresh
    <3>2. cmd[o].id # cmd'[p].id
      BY <3>1 DEF IdsOwned
    <3>3. QED
      BY <1>0, <3>1, <3>2 DEF Shape, Command, Creating, Changing
  <2>2. q = p => FALSE
    BY <1>0, <1>1, <1>8, <2>1 DEF Together
  <2>3. r = p => FALSE
    BY <1>0, <1>1, <1>8, <2>1 DEF Together
  <2>4. QED
    BY <1>3, <2>2, <2>3
<1>9. QED
  BY <1>4, <1>5, <1>7, <1>8, PlaceMoves

(* No row moves away from a command that has its setup to itself.          *)
LEMMA RowsStayStep ==
    ASSUME StoreInv, MeetingsExcused, RowsStayPut, NEW p \in Proc, ProcStep(p)
    PROVE  RowsStayPut'
<1> USE DEF StoreInv
<1>0. /\ cmd[p] \in Command /\ Shape(cmd[p]) /\ None \notin Id \cup Loc
      /\ \A q \in Proc : cmd[q] \in Command /\ Shape(cmd[q])
      /\ \A q \in Proc \ {p} : cmd'[q] = cmd[q]
  <2>1. cmd' = [cmd EXCEPT ![p] = cmd'[p]]
    BY OthersStay
  <2>2. QED
    BY <2>1, NoneAssumption DEF TypeOK, Shapes, Loc
<1>1. SUFFICES ASSUME NEW q \in Proc, cmd'[q].op \in Changing \cup {"delete"},
                      rows'[cmd'[q].id] # None, rows'[cmd'[q].id].loc # cmd'[q].loc,
                      Clean(rows[cmd[q].id].loc)'
      PROVE  FALSE
  BY DEF RowsStayPut
<1>2. CASE q # p
  <2>1. cmd'[q] = cmd[q] /\ cmd[q].id \in Id
    BY <1>0, <1>1, <1>2 DEF Shape, Command, Changing
  <2>2. CASE rows'[cmd[q].id] = rows[cmd[q].id]
    BY <1>1, <2>1, <2>2, ExcusesGrow DEF RowsStayPut
  <2>3. CASE rows'[cmd[q].id] # rows[cmd[q].id]
    <3>1. Writes(cmd[p]) /\ cmd[p].id = cmd[q].id /\ rows'[cmd[q].id].loc = cmd[p].loc
      BY <1>1, <2>1, <2>3, StepReaches
    <3>2. Writes(cmd[q]) /\ Together(cmd[p], cmd[q])
      BY <1>0, <1>1, <2>1, <3>1 DEF Writes, Together, Shape, Changing, Command, Loc
    <3>3. ~Clean(cmd[p].loc)
      BY <1>2, <3>1, <3>2 DEF MeetingsExcused
    <3>4. QED
      BY <1>1, <2>1, <3>1, <3>3, ExcusesGrow
  <2>4. QED
    BY <2>2, <2>3
<1>3. CASE q = p
  <2>1. CASE Begin(p, cmd'[p])
    <3>1. UNCHANGED rows /\ cmd[p].op = "none"
      BY <2>1 DEF Begin, Idle
    <3>2. cmd'[p] \in Command /\ Shape(cmd'[p])
      BY ShapeStep
    <3>3. cmd'[p].loc = rows[cmd'[p].id].loc
      <4>1. cmd'[p].id \in Id /\ cmd'[p].id # cmd[p].id /\ cmd'[p].op \notin Creating
        BY <1>0, <1>1, <1>3, <3>1, <3>2 DEF Shape, Creating, Changing, Command
      <4>2. QED
        BY <3>1, <4>1, <1>0, <1>1, <1>3, IdsMove
    <3>4. QED
      BY <1>1, <1>3, <3>1, <3>3
  <2>2. CASE /\ cmd'[p].op = cmd[p].op /\ cmd'[p].id = cmd[p].id
             /\ cmd'[p].loc = cmd[p].loc
    <3>1. cmd[p].id \in Id
      BY <1>0, <1>1, <1>3, <2>2 DEF Shape, Command, Changing
    <3>2. rows'[cmd[p].id] = rows[cmd[p].id]
      BY <1>1, <1>3, <2>2, <3>1, StepReaches
    <3>3. QED
      BY <1>1, <1>3, <2>2, <3>2, ExcusesGrow DEF RowsStayPut
  <2>3. CASE End(p) \/ cmd'[p].op = "clone"
    BY <1>1, <1>3, <2>3, EndShape DEF Changing
  <2>4. QED
    BY <2>1, <2>2, <2>3, PlaceMoves
<1>4. QED
  BY <1>2, <1>3

(* Commands that write and share a setup have spoilt their path.           *)
LEMMA WritersApart ==
    ASSUME MeetingsExcused, NEW p \in Proc, NEW q \in Proc \ {p},
           Writes(cmd[p]), Writes(cmd[q]), Clean(cmd[q].loc)
    PROVE  cmd[p].loc # cmd[q].loc /\ (cmd[q].id # None => cmd[p].id # cmd[q].id)
BY DEF MeetingsExcused, Together, Writes

(* A step leaves the paths of other commands alone: where nothing is       *)
(* excused, neither the file nor any row of theirs changes, and no row     *)
(* comes to their path.                                                    *)
LEMMA ElsewhereStays ==
    ASSUME StoreInv, MeetingsExcused, RowsStayPut, NEW p \in Proc, ProcStep(p),
           NEW l \in Loc, cmd[p].loc # l, Clean(l)
    PROVE  /\ files'[l] = files[l]
           /\ Registered(l)' = Registered(l)
           /\ \A i \in Registered(l) : rows'[i] = rows[i]
<1> USE DEF StoreInv
<1>1. files'[l] = files[l]
  BY StepReaches
<1>2. \A i \in Registered(l) : rows'[i] = rows[i]
  <2>1. SUFFICES ASSUME NEW i \in Id, rows[i] # None, rows[i].loc = l, rows'[i] # rows[i]
        PROVE  FALSE
    BY DEF Registered
  <2>2. cmd[p].id = i /\ cmd[p].op \in Changing \cup {"delete"}
    BY <2>1, StepReaches
  <2>3. QED
    BY <2>1, <2>2 DEF RowsStayPut
<1>3. \A i \in Id : rows'[i] # None /\ rows'[i].loc = l => rows'[i] = rows[i]
  BY StepReaches
<1>4. QED
  BY <1>1, <1>2, <1>3 DEF Registered

(* What a command knows, no other command makes untrue. *)
LEMMA OthersKnow ==
    ASSUME StoreInv, SyncInv, NEW p \in Proc, ProcStep(p), NEW q \in Proc \ {p},
           Writes(cmd'[q]), Clean(cmd[q].loc)'
    PROVE  Knows(cmd[q])'
<1> USE DEF StoreInv, SyncInv
<1>0. /\ cmd[q] \in Command /\ Shape(cmd[q]) /\ None \notin Id \cup Loc
      /\ cmd'[q] = cmd[q]
  <2>1. cmd' = [cmd EXCEPT ![p] = cmd'[p]]
    BY OthersStay
  <2>2. QED
    BY <2>1, NoneAssumption DEF TypeOK, Shapes, Loc
<1>1. Writes(cmd[q]) /\ Clean(cmd[q].loc)
  BY <1>0, ExcusesGrow DEF Clean
<1>2. Knows(cmd[q])
  BY <1>1 DEF WritersKnow
<1>3. cmd[q].id \in Id /\ cmd[q].loc \in Loc
  BY <1>0, <1>1 DEF Writes, Shape, Command, Creating, Changing, Loc
<1>4. Writes(cmd[p]) => cmd[p].id # cmd[q].id /\ cmd[p].loc # cmd[q].loc
  BY <1>0, <1>1, <1>3, WritersApart
<1>5. /\ rows'[cmd[q].id] = rows[cmd[q].id]
      /\ files'[cmd[q].loc] = files[cmd[q].loc]
  BY <1>3, <1>4, StepReaches
<1>6. Registered(cmd[q].loc)' \subseteq Registered(cmd[q].loc)
  <2>1. SUFFICES ASSUME NEW i \in Id, rows'[i] # None, rows'[i].loc = cmd[q].loc
        PROVE  rows[i] # None /\ rows[i].loc = cmd[q].loc
    BY <1>0 DEF Registered
  <2>2. rows'[i] = rows[i]
    BY <1>4, <2>1, StepReaches
  <2>3. QED
    BY <2>1, <2>2
<1>7. CASE cmd[q].op \in Creating
  BY <1>0, <1>2, <1>5, <1>6, <1>7 DEF Knows, KnowsCreating, Creating, Changing
<1>8. CASE cmd[q].op \in Changing
  BY <1>0, <1>2, <1>5, <1>6, <1>8 DEF Knows, KnowsChanging, Creating, Changing
<1>9. CASE cmd[q].op = "delete"
  BY <1>0, <1>2, <1>5, <1>6, <1>9 DEF Knows, KnowsDeleting, Creating, Changing
<1>10. QED
  BY <1>0, <1>1, <1>7, <1>8, <1>9 DEF Writes, Command

(* A command that writes finds its path settled before it writes there.    *)
LEMMA WriterFindsSettled ==
    ASSUME StoreInv, SyncInv, NEW p \in Proc, Writes(cmd[p]), cmd[p].at \notin Middle,
           Clean(cmd[p].loc)
    PROVE  cmd[p].loc \in Loc /\ Agree(cmd[p].loc)
<1> USE DEF StoreInv, SyncInv
<1>1. /\ \A q \in Proc : cmd[q] \in Command /\ Shape(cmd[q])
      /\ None \notin Loc
  BY NoneAssumption DEF TypeOK, Shapes
<1>2. cmd[p].loc \in Loc
  BY <1>1 DEF Writes, Command
<1>3. Settled(cmd[p].loc)
  <2>1. SUFFICES ASSUME NEW q \in Proc \ {p}, cmd[q].loc = cmd[p].loc, cmd[q].at \in Middle
        PROVE  FALSE
    BY DEF Settled
  <2>2. Writes(cmd[q])
    BY <1>1, <1>2, <2>1 DEF Writes, Shape, Middle
  <2>3. QED
    BY <2>1, <2>2, WritersApart
<1>4. QED
  BY <1>2, <1>3 DEF SettledAgree

(* What a command knows when it begins. *)
LEMMA BeginKnows ==
    ASSUME StoreInv, NEW p \in Proc, Writes(cmd'[p]),
           BeginSave(p) \/ BeginImport(p) \/ BeginInit(p) \/ BeginOnStored(p)
    PROVE  Knows(cmd[p])'
<1> USE DEF StoreInv
<1>1. CASE BeginSave(p)
  <2>1. PICK i \in Fresh, n \in Name, v \in Rev :
          cmd'[p] = [Idle EXCEPT !.op = "save", !.at = "name", !.id = i, !.loc = i,
                                 !.new = [id |-> i, name |-> n, rev |-> v]]
    BY <1>1, BeginMoves DEF BeginSave
  <2>2. /\ cmd'[p].op = "save" /\ cmd'[p].at = "name" /\ cmd'[p].id = i
        /\ cmd'[p].new.id = i
    BY <2>1 DEF Idle
  <2>3. rows'[i] = None
    BY <1>1 DEF BeginSave, Begin, Fresh, IdsOwned
  <2>4. QED
    BY <2>2, <2>3 DEF Knows, KnowsCreating, Changing
<1>2. CASE BeginImport(p)
  <2>1. PICK i \in Fresh \cup Carried, n \in Name, v \in Rev :
          cmd'[p] = [Idle EXCEPT !.op = "import", !.at = "name", !.id = i, !.loc = i,
                                 !.new = [id |-> i, name |-> n, rev |-> v]]
    BY <1>2, BeginMoves DEF BeginImport
  <2>2. /\ cmd'[p].op = "import" /\ cmd'[p].at = "name" /\ cmd'[p].id = i
        /\ cmd'[p].new.id = i
    BY <2>1 DEF Idle
  <2>3. QED
    BY <2>2 DEF Knows, KnowsCreating, Changing
<1>3. CASE BeginInit(p)
  <2>1. PICK i \in Fresh, d \in Project, v \in Rev :
          Begin(p, [Idle EXCEPT !.op = "init", !.at = "path", !.id = i, !.loc = d,
                                !.new = [id |-> i, name |-> ProjectName[d], rev |-> v]])
    BY <1>3 DEF BeginInit
  <2> DEFINE c == [Idle EXCEPT !.op = "init", !.at = "path", !.id = i, !.loc = d,
                               !.new = [id |-> i, name |-> ProjectName[d], rev |-> v]]
  <2>2. c.op = "init" /\ c.at = "path" /\ c.id = i /\ c.new.id = i
    BY DEF Idle
  <2>3. Begin(p, c)
    BY <2>1
  <2> HIDE DEF c
  <2>4. cmd'[p] = c
    BY <2>3, BeginMoves
  <2>5. rows'[i] = None
    BY <2>3 DEF Begin, Fresh, IdsOwned
  <2>6. QED
    BY <2>2, <2>4, <2>5 DEF Knows, KnowsCreating, Changing
<1>4. CASE BeginOnStored(p)
  <2>1. PICK op \in Changing \cup {"clone", "delete", "launch"}, i \in Id :
          Begin(p, [Idle EXCEPT !.op = op, !.at = IF op = "delete" THEN "row" ELSE "load",
                                !.rec = rows[i],
                                !.id = IF op = "clone" THEN None ELSE i,
                                !.loc = IF op = "clone" THEN None ELSE rows[i].loc])
    BY <1>4 DEF BeginOnStored
  <2> DEFINE c == [Idle EXCEPT !.op = op, !.at = IF op = "delete" THEN "row" ELSE "load",
                               !.rec = rows[i],
                               !.id = IF op = "clone" THEN None ELSE i,
                               !.loc = IF op = "clone" THEN None ELSE rows[i].loc]
  <2>2. /\ c.op = op /\ c.at = (IF op = "delete" THEN "row" ELSE "load") /\ c.rec = rows[i]
        /\ c.id = (IF op = "clone" THEN None ELSE i)
        /\ c.loc = (IF op = "clone" THEN None ELSE rows[i].loc)
    BY DEF Idle
  <2>3. Begin(p, c)
    BY <2>1
  <2> HIDE DEF c
  <2>4. cmd'[p] = c /\ rows' = rows
    BY <2>3, BeginMoves DEF Begin
  <2>5. op # "clone"
    BY <2>2, <2>4 DEF Writes
  <2>6. QED
    BY <2>2, <2>4, <2>5 DEF Knows, KnowsChanging, KnowsDeleting, Creating, Changing
<1>5. QED
  BY <1>1, <1>2, <1>3, <1>4

(* What a command knows once it has loaded its manifest. *)
LEMMA LoadKnows ==
    ASSUME StoreInv, SyncInv, NEW p \in Proc, ProcStep(p),
           Writes(cmd'[p]), Clean(cmd[p].loc)',
           LoadToChange(p) \/ LoadToRename(p) \/ LoadToClone(p) \/ LoadToLaunch(p)
    PROVE  Knows(cmd[p])'
<1> USE DEF StoreInv, SyncInv
<1>0. cmd[p] \in Command /\ Shape(cmd[p]) /\ cmd[p].at = "load" /\ UNCHANGED <<rows, files>>
  BY DEF TypeOK, Shapes, LoadToChange, LoadToRename, LoadToClone, LoadToLaunch, Loads, At
<1>1. ASSUME cmd[p].op \in Changing, cmd'[p].loc = cmd[p].loc
      PROVE  /\ rows[cmd[p].id] = cmd[p].rec
             /\ Loaded(p) = cmd[p].rec.hash /\ Loaded(p).name = cmd[p].rec.name
             /\ Loaded(p).id = cmd[p].id
  <2>1. Clean(cmd[p].loc)
    BY <1>1, ExcusesGrow DEF Clean
  <2>2. /\ Writes(cmd[p]) /\ cmd[p].at \notin Middle
        /\ cmd[p].loc = cmd[p].rec.loc /\ cmd[p].id \in Id /\ cmd[p].rec # None
    <3>1. cmd[p].loc # None
      BY <1>0, <1>1, NoneAssumption DEF Shape, Changing, Loc, Command
    <3>2. QED
      BY <1>0, <1>1, <3>1 DEF Writes, Middle, Shape, Changing, Command
  <2>3. Agree(cmd[p].loc)
    BY <2>1, <2>2, WriterFindsSettled
  <2>4. rows[cmd[p].id] = cmd[p].rec
    BY <1>1, <2>1, <2>2 DEF WritersKnow, Knows, KnowsChanging
  <2>5. cmd[p].id \in Registered(cmd[p].loc)
    BY <2>2, <2>4 DEF Registered
  <2>6. QED
    BY <2>2, <2>3, <2>4, <2>5 DEF Agree, Loaded
<1>2. CASE LoadToChange(p)
  <2>1. PICK v \in Rev : cmd'[p] = [cmd[p] EXCEPT !.at = "write", !.old = Loaded(p),
                                                  !.new = [Loaded(p) EXCEPT !.rev = v]]
    BY <1>2, LoadMoves DEF LoadToChange
  <2>2. cmd[p].op \in {"edit", "update"} /\ Loaded(p) # None
    BY <1>2 DEF LoadToChange, Loads, Loaded
  <2>3. Loaded(p) \in Content
    BY <1>0, <2>2 DEF Loaded, TypeOK, Shape, Command, Row, Changing
  <2>4. /\ cmd'[p].op = cmd[p].op /\ cmd'[p].at = "write" /\ cmd'[p].id = cmd[p].id
        /\ cmd'[p].loc = cmd[p].loc /\ cmd'[p].rec = cmd[p].rec /\ cmd'[p].old = Loaded(p)
        /\ cmd'[p].new.id = Loaded(p).id /\ cmd'[p].new.name = Loaded(p).name
    BY <1>0, <2>1, <2>3 DEF Command, Content
  <2>5. QED
    BY <1>0, <1>1, <2>2, <2>4 DEF Knows, KnowsChanging, Creating, Changing
<1>3. CASE LoadToRename(p)
  <2>1. PICK n \in Name : cmd'[p] = [cmd[p] EXCEPT !.at = "name", !.old = Loaded(p),
                                                   !.new = [Loaded(p) EXCEPT !.name = n]]
    BY <1>3, LoadMoves DEF LoadToRename
  <2>2. cmd[p].op = "rename" /\ Loaded(p) # None
    BY <1>3 DEF LoadToRename, Loads, Loaded
  <2>3. Loaded(p) \in Content
    BY <1>0, <2>2 DEF Loaded, TypeOK, Shape, Command, Row, Changing
  <2>4. /\ cmd'[p].op = cmd[p].op /\ cmd'[p].at = "name" /\ cmd'[p].id = cmd[p].id
        /\ cmd'[p].loc = cmd[p].loc /\ cmd'[p].rec = cmd[p].rec /\ cmd'[p].old = Loaded(p)
        /\ cmd'[p].new.id = Loaded(p).id
    BY <1>0, <2>1, <2>3 DEF Command, Content
  <2>5. /\ rows[cmd[p].id] = cmd[p].rec /\ Loaded(p) = cmd[p].rec.hash
        /\ Loaded(p).name = cmd[p].rec.name /\ Loaded(p).id = cmd[p].id
    BY <1>1, <2>2, <2>4 DEF Changing
  <2>6. KnowsChanging(cmd[p])'
    BY <1>0, <2>2, <2>4, <2>5 DEF KnowsChanging
  <2>7. QED
    BY <2>2, <2>4, <2>6 DEF Knows, Creating, Changing
<1>4. CASE LoadToClone(p)
  <2>1. PICK j \in Fresh, n \in Name :
          cmd'[p] = [cmd[p] EXCEPT !.at = "name", !.id = j, !.loc = j, !.old = Loaded(p),
                                   !.new = [id |-> j, name |-> n, rev |-> Loaded(p).rev]]
    BY <1>4, LoadMoves DEF LoadToClone
  <2>2. /\ cmd'[p].id = j /\ cmd'[p].op = cmd[p].op /\ cmd'[p].at = "name"
        /\ cmd'[p].new.id = j
    BY <1>0, <2>1 DEF Command
  <2>3. cmd[p].op = "clone"
    BY <1>4 DEF LoadToClone, Loads
  <2>4. rows'[j] = None
    BY <1>0 DEF Fresh, IdsOwned
  <2>5. QED
    BY <2>2, <2>3, <2>4 DEF Knows, KnowsCreating, Changing
<1>5. CASE LoadToLaunch(p)
  <2>1. cmd[p].op = "launch" /\ cmd'[p] = [cmd[p] EXCEPT !.at = "record", !.old = Loaded(p)]
    BY <1>5, LoadMoves DEF LoadToLaunch, Loads
  <2>2. cmd'[p].op = "launch"
    BY <1>0, <2>1 DEF Command
  <2>3. QED
    BY <2>2 DEF Writes
<1>6. QED
  BY <1>2, <1>3, <1>4, <1>5

(* What a command knows after each check, write and undo. *)
LEMMA OwnKnows ==
    ASSUME StoreInv, SyncInv, NEW p \in Proc, ProcStep(p), Writes(cmd'[p]), Clean(cmd[p].loc)'
    PROVE  Knows(cmd[p])'
<1> USE DEF StoreInv, SyncInv
<1>0. cmd[p] \in Command /\ Shape(cmd[p]) /\ None \notin Id \cup Loc /\ Id \cap Project = {}
  BY NoneAssumption, IdAssumption DEF TypeOK, Shapes, Loc
<1>1. CASE BeginSave(p) \/ BeginImport(p) \/ BeginInit(p) \/ BeginOnStored(p)
  BY <1>1, BeginKnows
<1>2. CASE LoadToChange(p) \/ LoadToRename(p) \/ LoadToClone(p) \/ LoadToLaunch(p)
  BY <1>2, LoadKnows
<1>3. CASE End(p)
  BY <1>3, EndShape DEF Writes
<1>4. ASSUME cmd'[p].op = cmd[p].op, cmd'[p].loc = cmd[p].loc
      PROVE  /\ Writes(cmd[p]) /\ Clean(cmd[p].loc) /\ Knows(cmd[p])
             /\ cmd[p].at \notin Middle => Agree(cmd[p].loc)
  <2>1. Writes(cmd[p])
    BY <1>4 DEF Writes
  <2>2. Clean(cmd[p].loc)
    BY <1>4, ExcusesGrow DEF Clean
  <2>3. QED
    BY <2>1, <2>2, WriterFindsSettled DEF WritersKnow
<1>5. CASE CheckName(p) /\ ~End(p)
  <2>1. PICK step \in {"id", "path", "write"} :
          /\ cmd'[p] = [cmd[p] EXCEPT !.at = step]
          /\ step = "id" => cmd[p].op = "import"
          /\ step = "path" => cmd[p].op # "import"
          /\ step = "write" => cmd[p].op = "rename"
    BY <1>5, GoToMoves DEF CheckName
  <2>2. cmd[p].at = "name" /\ UNCHANGED <<rows, files>>
    BY <1>5 DEF CheckName, At
  <2>3. /\ cmd'[p].at = step /\ cmd'[p].op = cmd[p].op /\ cmd'[p].loc = cmd[p].loc
        /\ cmd'[p].id = cmd[p].id /\ cmd'[p].rec = cmd[p].rec /\ cmd'[p].old = cmd[p].old
        /\ cmd'[p].new = cmd[p].new
    BY <1>0, <2>1 DEF Command
  <2>4. Knows(cmd[p])
    BY <1>4, <2>3
  <2>5. CASE cmd[p].op \in Creating
    BY <1>0, <2>1, <2>2, <2>3, <2>4, <2>5 DEF Knows, KnowsCreating, Creating, Changing
  <2>6. CASE cmd[p].op \in Changing
    BY <1>0, <2>1, <2>2, <2>3, <2>4, <2>6 DEF Knows, KnowsChanging, Creating, Changing
  <2>7. QED
    BY <1>0, <2>2, <2>5, <2>6 DEF Shape, Command, Changing
<1>6. CASE CheckId(p) /\ ~End(p)
  <2>1. cmd'[p] = [cmd[p] EXCEPT !.at = "path"] /\ rows[cmd[p].id] = None
    BY <1>6, GoToMoves DEF CheckId
  <2>2. cmd[p].at = "id" /\ UNCHANGED <<rows, files>>
    BY <1>6 DEF CheckId, At
  <2>3. /\ cmd'[p].at = "path" /\ cmd'[p].op = cmd[p].op /\ cmd'[p].loc = cmd[p].loc
        /\ cmd'[p].id = cmd[p].id /\ cmd'[p].new = cmd[p].new
    BY <1>0, <2>1 DEF Command
  <2>4. Knows(cmd[p]) /\ cmd[p].op \in Creating
    BY <1>0, <1>4, <2>2, <2>3 DEF Shape, Command, Changing
  <2>5. QED
    BY <2>1, <2>2, <2>3, <2>4 DEF Knows, KnowsCreating, Creating, Changing
<1>7. CASE CheckPath(p) /\ ~End(p)
  <2>1. cmd'[p] = [cmd[p] EXCEPT !.at = "write"] /\ files[cmd[p].loc] = None
    BY <1>7, GoToMoves DEF CheckPath
  <2>2. cmd[p].at = "path" /\ UNCHANGED <<rows, files>>
    BY <1>7 DEF CheckPath, At
  <2>3. /\ cmd'[p].at = "write" /\ cmd'[p].op = cmd[p].op /\ cmd'[p].loc = cmd[p].loc
        /\ cmd'[p].id = cmd[p].id /\ cmd'[p].new = cmd[p].new
    BY <1>0, <2>1 DEF Command
  <2>4. Knows(cmd[p]) /\ cmd[p].op \in Creating /\ Agree(cmd[p].loc)
    BY <1>0, <1>4, <2>2, <2>3 DEF Shape, Command, Changing, Middle
  <2>5. Registered(cmd[p].loc) = {}
    <3>1. SUFFICES ASSUME NEW i \in Registered(cmd[p].loc) PROVE FALSE
      OBVIOUS
    <3>2. rows[i] \in Row /\ rows[i].hash = None
      BY <2>1, <2>4 DEF Agree, Registered, TypeOK
    <3>3. QED
      BY <3>2, NoneAssumption DEF Row
  <2>6. QED
    BY <2>1, <2>2, <2>3, <2>4, <2>5 DEF Knows, KnowsCreating, Registered, Creating, Changing
<1>8. CASE Write(p)
  <2>1. cmd'[p] = [cmd[p] EXCEPT !.at = "hash"] /\ cmd[p].at = "write" /\ rows' = rows
    BY <1>8, GoToMoves DEF Write, At
  <2>2. files'[cmd[p].loc] = cmd[p].new
    BY <1>8, <2>1, KnownPath DEF Write, TypeOK
  <2>3. /\ cmd'[p].at = "hash" /\ cmd'[p].op = cmd[p].op /\ cmd'[p].loc = cmd[p].loc
        /\ cmd'[p].id = cmd[p].id /\ cmd'[p].rec = cmd[p].rec /\ cmd'[p].old = cmd[p].old
        /\ cmd'[p].new = cmd[p].new
    BY <1>0, <2>1 DEF Command
  <2>4. Knows(cmd[p]) /\ Agree(cmd[p].loc)
    BY <1>4, <2>1, <2>3 DEF Middle
  <2>5. CASE cmd[p].op \in Creating
    BY <2>1, <2>2, <2>3, <2>4, <2>5 DEF Knows, KnowsCreating, Registered, Creating, Changing
  <2>6. CASE cmd[p].op \in Changing
    <3>1. KnowsChanging(cmd[p])
      BY <2>4, <2>6 DEF Knows
    <3>2. cmd[p].id \in Registered(cmd[p].loc)
      BY <1>0, <2>6, <3>1 DEF KnowsChanging, Registered, Shape, Command, Changing
    <3>3. Registered(cmd[p].loc) \subseteq {cmd[p].id}
      BY <2>4, <3>2 DEF Agree
    <3>4. Registered(cmd[p].loc)' \subseteq {cmd[p].id}
      BY <2>1, <2>3, <3>3 DEF Registered
    <3>5. KnowsChanging(cmd[p])'
      BY <2>1, <2>2, <2>3, <3>1, <3>4 DEF KnowsChanging
    <3>6. QED
      BY <2>3, <2>6, <3>5 DEF Knows, Creating, Changing
  <2>7. QED
    BY <1>0, <2>1, <2>5, <2>6 DEF Shape, Command, Changing
<1>9. CASE Hash(p)
  <2>1. /\ cmd'[p] = [cmd[p] EXCEPT !.at = "store", !.hash = files[cmd[p].loc]]
        /\ cmd[p].at = "hash" /\ UNCHANGED <<rows, files>>
    BY <1>9 DEF Hash, At, TypeOK
  <2>2. /\ cmd'[p].at = "store" /\ cmd'[p].op = cmd[p].op /\ cmd'[p].loc = cmd[p].loc
        /\ cmd'[p].id = cmd[p].id /\ cmd'[p].rec = cmd[p].rec /\ cmd'[p].old = cmd[p].old
        /\ cmd'[p].new = cmd[p].new /\ cmd'[p].hash = files[cmd[p].loc]
    BY <1>0, <2>1 DEF Command
  <2>3. Knows(cmd[p])
    BY <1>4, <2>2
  <2>4. CASE cmd[p].op \in Creating
    BY <2>1, <2>2, <2>3, <2>4 DEF Knows, KnowsCreating, Registered, Creating, Changing
  <2>5. CASE cmd[p].op \in Changing
    BY <2>1, <2>2, <2>3, <2>5 DEF Knows, KnowsChanging, Registered, Creating, Changing
  <2>6. QED
    BY <1>0, <2>1, <2>4, <2>5 DEF Shape, Command, Changing
<1>10. CASE StoreFails(p)
  <2>1. /\ cmd'[p] = [cmd[p] EXCEPT !.at = "undo"] /\ cmd[p].at = "store"
        /\ UNCHANGED <<rows, files>>
    BY <1>10, GoToMoves DEF StoreFails, At
  <2>2. /\ cmd'[p].at = "undo" /\ cmd'[p].op = cmd[p].op /\ cmd'[p].loc = cmd[p].loc
        /\ cmd'[p].id = cmd[p].id /\ cmd'[p].rec = cmd[p].rec /\ cmd'[p].old = cmd[p].old
        /\ cmd'[p].new = cmd[p].new
    BY <1>0, <2>1 DEF Command
  <2>3. Knows(cmd[p])
    BY <1>4, <2>2
  <2>4. CASE cmd[p].op \in Creating
    BY <2>1, <2>2, <2>3, <2>4 DEF Knows, KnowsCreating, Registered, Creating, Changing
  <2>5. CASE cmd[p].op \in Changing
    BY <2>1, <2>2, <2>3, <2>5 DEF Knows, KnowsChanging, Registered, Creating, Changing
  <2>6. QED
    BY <1>0, <2>1, <2>4, <2>5 DEF Shape, Command, Changing
<1>11. CASE DeleteRow(p) /\ ~End(p)
  <2>1. /\ cmd'[p] = [cmd[p] EXCEPT !.at = "unlink"] /\ cmd[p].at = "row"
        /\ rows' = [rows EXCEPT ![cmd[p].id] = None]
    BY <1>11, GoToMoves DEF DeleteRow, At
  <2>2. /\ cmd'[p].at = "unlink" /\ cmd'[p].op = cmd[p].op /\ cmd'[p].loc = cmd[p].loc
        /\ cmd'[p].id = cmd[p].id
    BY <1>0, <2>1 DEF Command
  <2>3. Shape(cmd'[p]) /\ RowsPlaced' /\ rows'[cmd[p].id] = None /\ cmd[p].id \in Id
    <3>1. cmd[p].id \in Id
      BY <2>1, KnownPath
    <3>2. QED
      BY <2>1, <3>1, ShapeStep, StoreStep DEF TypeOK
  <2>4. cmd[p].loc = cmd[p].id
    BY <2>2, <2>3 DEF Shape
  <2>5. Registered(cmd[p].loc)' = {}
    BY <1>0, <2>2, <2>3, <2>4 DEF Registered, RowsPlaced
  <2>6. cmd[p].op = "delete"
    BY <1>0, <2>1 DEF Shape, Command, Creating, Changing
  <2>7. QED
    BY <2>2, <2>5, <2>6 DEF Knows, KnowsDeleting, Creating, Changing
<1>12. QED
  BY <1>1, <1>2, <1>3, <1>5, <1>6, <1>7, <1>8, <1>9, <1>10, <1>11
     DEF ProcStep, LoadFails, WriteFails, HashFails, Insert, Store, StoreFindsNothing,
         InitStoreFails, EditStoreFails, Undo, UndoFails, DeleteRowFails, Unlink, UnlinkFails,
         RecordLaunch, Kill, EndApart

(* A command that ends its writes leaves file and row in agreement.        *)
LEMMA LastStepAgrees ==
    ASSUME StoreInv, SyncInv, NEW p \in Proc, ProcStep(p),
           cmd[p].loc \in Loc, Clean(cmd[p].loc), End(p),
           \/ Insert(p) \/ Store(p) \/ InitStoreFails(p) \/ Undo(p) \/ DeleteRow(p) \/ Unlink(p)
    PROVE  LET l == cmd[p].loc
               Rows == {i \in Id : rows'[i] # None /\ rows'[i].loc = l}
           IN  /\ \A i \in Rows : /\ files'[l] = rows'[i].hash
                                  /\ files'[l].name = rows'[i].name
                                  /\ files'[l].id = i
               /\ l \in Id /\ Rows = {} => files'[l] = None
<1> USE DEF StoreInv, SyncInv
<1> DEFINE l == cmd[p].loc
           Rows == {i \in Id : rows'[i] # None /\ rows'[i].loc = l}
<1>0. cmd[p] \in Command /\ Shape(cmd[p]) /\ None \notin Id \cup Loc /\ Id \cap Project = {}
  BY NoneAssumption, IdAssumption DEF TypeOK, Shapes, Loc
<1>1. cmd[p].id \in Id /\ cmd[p].at \in {"store", "undo", "row", "unlink"}
  BY KnownPath DEF Insert, Store, InitStoreFails, Undo, DeleteRow, Unlink, At
<1>2. Writes(cmd[p])
  BY <1>0, <1>1 DEF Writes, Shape
<1>3. Knows(cmd[p])
  BY <1>2 DEF WritersKnow
<1>4. CASE Insert(p)
  <2>1. /\ cmd[p].at = "store" /\ cmd[p].op \in Creating /\ files' = files
        /\ rows' = [rows EXCEPT ![cmd[p].id] = NewRow(cmd[p])]
    BY <1>4 DEF Insert, At
  <2>2. KnowsCreating(cmd[p])
    BY <1>3, <2>1 DEF Knows
  <2>3. NewRow(cmd[p]).hash = cmd[p].hash /\ NewRow(cmd[p]).name = cmd[p].new.name
    BY DEF NewRow
  <2>4. Rows \subseteq {cmd[p].id}
    BY <1>1, <2>1, <2>2 DEF KnowsCreating, Registered, TypeOK
  <2>5. rows'[cmd[p].id] = NewRow(cmd[p])
    BY <1>1, <2>1 DEF TypeOK
  <2>6. cmd[p].id \in Rows
    <3>1. NewRow(cmd[p]).loc = l
      BY DEF NewRow
    <3>2. NewRow(cmd[p]) # None
      BY <1>0, <1>1, <2>1, NoneAssumption DEF NewRow, Row, Shape, Command, Content, Source
    <3>3. QED
      BY <1>1, <2>5, <3>1, <3>2
  <2>7. QED
    BY <2>1, <2>2, <2>3, <2>4, <2>5, <2>6 DEF KnowsCreating
<1>5. CASE Store(p)
  <2>1. /\ cmd[p].at = "store" /\ cmd[p].op \in Changing /\ files' = files
        /\ rows' = [rows EXCEPT ![cmd[p].id] = ChangedRow(cmd[p])]
    BY <1>5 DEF Store, At
  <2>2. KnowsChanging(cmd[p])
    BY <1>3, <2>1 DEF Knows
  <2>3. cmd[p].rec \in Row
    BY <1>0, <2>1 DEF Shape, Command, Changing
  <2>4. /\ ChangedRow(cmd[p]).hash = cmd[p].hash /\ ChangedRow(cmd[p]).loc = cmd[p].rec.loc
        /\ ChangedRow(cmd[p]).name = cmd[p].new.name
        /\ ChangedRow(cmd[p]) \in Row
    <3>1. cmd[p].new \in Content /\ cmd[p].hash \in Content
      BY <1>0, <2>1 DEF Shape, Command, Changing
    <3>2. QED
      BY <2>1, <2>2, <2>3, <3>1 DEF ChangedRow, Row, Content, KnowsChanging
  <2>5. Rows \subseteq {cmd[p].id}
    BY <1>1, <2>1, <2>2 DEF KnowsChanging, Registered, TypeOK
  <2>6. rows'[cmd[p].id] = ChangedRow(cmd[p])
    BY <1>1, <2>1 DEF TypeOK
  <2>7. cmd[p].id \in Rows
    BY <1>0, <1>1, <2>1, <2>4, <2>6, NoneAssumption DEF Shape, Changing
  <2>8. QED
    BY <2>1, <2>2, <2>4, <2>5, <2>6, <2>7 DEF KnowsChanging
<1>6. CASE InitStoreFails(p)
  <2>1. cmd[p].at = "store" /\ cmd[p].op = "init" /\ rows' = rows
    BY <1>6 DEF InitStoreFails, At
  <2>2. Registered(l) = {} /\ l \in Project
    BY <1>0, <1>3, <2>1 DEF Knows, KnowsCreating, Creating, Shape
  <2>3. Rows = {}
    BY <2>1, <2>2 DEF Registered
  <2>4. QED
    BY <1>0, <2>2, <2>3
<1>7. CASE Undo(p)
  <2>1. /\ cmd[p].at = "undo" /\ rows' = rows
        /\ files'[l] = IF cmd[p].op \in Creating THEN None ELSE cmd[p].old
    BY <1>7 DEF Undo, At, TypeOK
  <2>2. CASE cmd[p].op \in Creating
    <3>1. Registered(l) = {}
      BY <1>3, <2>1, <2>2 DEF Knows, KnowsCreating
    <3>2. QED
      BY <2>1, <2>2, <3>1 DEF Registered
  <2>3. CASE cmd[p].op \notin Creating
    <3>1. cmd[p].op \in Changing
      BY <1>0, <2>1, <2>3 DEF Shape, Command, Changing
    <3>2. KnowsChanging(cmd[p])
      BY <1>3, <3>1 DEF Knows
    <3>3. cmd[p].rec \in Row /\ cmd[p].rec.loc = l
      BY <1>0, <3>1 DEF Shape, Command
    <3>4. /\ \A i \in Rows : i = cmd[p].id /\ rows'[i] = cmd[p].rec
          /\ cmd[p].id \in Rows
      BY <1>1, <2>1, <3>2, <3>3, NoneAssumption DEF KnowsChanging, Registered
    <3>5. QED
      BY <2>1, <2>3, <3>2, <3>4 DEF KnowsChanging
  <2>4. QED
    BY <2>2, <2>3
<1>8. CASE DeleteRow(p)
  <2>1. /\ cmd[p].at = "row" /\ files' = files
        /\ rows' = [rows EXCEPT ![cmd[p].id] = None]
    BY <1>8 DEF DeleteRow, At
  <2>2. cmd[p].op = "delete" /\ cmd[p].rec.source = "project"
    <3>1. cmd[p].op = "delete"
      BY <1>0, <2>1 DEF Shape, Command, Creating, Changing
    <3>2. CASE cmd[p].rec.source # "project"
      <4>1. GoTo(p, "unlink")
        BY <1>8, <3>2 DEF DeleteRow
      <4>2. cmd'[p] = [cmd[p] EXCEPT !.at = "unlink"]
        BY <4>1, GoToMoves
      <4>3. cmd'[p].at = "unlink"
        BY <1>0, <4>2 DEF Command
      <4>4. QED
        BY <3>1, <4>3, EndShape DEF Shape
    <3>3. QED
      BY <3>1, <3>2
  <2>3. KnowsDeleting(cmd[p]) /\ Agree(l)
    BY <1>2, <1>3, <2>1, <2>2, WriterFindsSettled DEF Knows, Middle
  <2>4. cmd[p].rec \in Row /\ cmd[p].rec.loc = l /\ rows[cmd[p].id] = cmd[p].rec
    BY <1>0, <2>1, <2>2, <2>3 DEF KnowsDeleting, Shape, Command
  <2>5. cmd[p].id \in Registered(l)
    BY <1>1, <2>4, NoneAssumption DEF Registered
  <2>6. l \in Project
    BY <1>1, <2>2, <2>4, NoneAssumption DEF RowsPlaced
  <2>7. \A i \in Rows : rows'[i] = rows[i] /\ i \in Registered(l)
    BY <1>1, <2>1 DEF Registered, TypeOK
  <2>8. QED
    BY <1>0, <2>1, <2>3, <2>6, <2>7 DEF Agree
<1>9. CASE Unlink(p)
  <2>1. cmd[p].at = "unlink" /\ rows' = rows /\ files'[l] = None
    BY <1>9 DEF Unlink, At, TypeOK
  <2>2. cmd[p].op = "delete"
    BY <1>0, <2>1 DEF Shape, Command, Creating, Changing
  <2>3. Registered(l) = {}
    BY <1>3, <2>1, <2>2 DEF Knows, KnowsDeleting
  <2>4. QED
    BY <2>1, <2>3 DEF Registered
<1>10. QED
  BY <1>4, <1>5, <1>6, <1>7, <1>8, <1>9

(* File and row agree wherever nothing is excused and nobody is between    *)
(* two writes.                                                             *)
LEMMA AgreeStep ==
    ASSUME StoreInv, SyncInv, NEW p \in Proc, ProcStep(p)
    PROVE  SettledAgree'
<1> USE DEF StoreInv, SyncInv
<1>0. /\ cmd[p] \in Command /\ Shape(cmd[p]) /\ None \notin Id \cup Loc
      /\ \A q \in Proc \ {p} : cmd'[q] = cmd[q]
  <2>1. cmd' = [cmd EXCEPT ![p] = cmd'[p]]
    BY OthersStay
  <2>2. QED
    BY <2>1, NoneAssumption DEF TypeOK, Shapes, Loc
<1>1. SUFFICES ASSUME NEW l \in Loc, Clean(l)', \A q \in Proc : cmd'[q].loc = l => cmd'[q].at \notin Middle
      PROVE  /\ \A i \in {i \in Id : rows'[i] # None /\ rows'[i].loc = l} :
                   /\ files'[l] = rows'[i].hash
                   /\ files'[l].name = rows'[i].name
                   /\ files'[l].id = i
             /\ l \in Id /\ {i \in Id : rows'[i] # None /\ rows'[i].loc = l} = {} => files'[l] = None
  BY DEF SettledAgree, Settled, Agree, Registered
<1>2. Clean(l)
  BY <1>1, ExcusesGrow
<1>3. cmd[p].loc # l \/ cmd[p].at \notin Middle => Agree(l)
  BY <1>0, <1>1, <1>2 DEF SettledAgree, Settled
<1>4. CASE cmd[p].loc # l
  BY <1>2, <1>3, <1>4, ElsewhereStays DEF Agree, Registered
<1>5. CASE cmd[p].at \notin Middle /\ UNCHANGED <<rows, files>>
  BY <1>3, <1>5 DEF Agree, Registered
<1>6. CASE cmd[p].loc = l /\ EndApart(p)
  <2>1. <<l, "failure">> \in excuses'
    BY <1>6 DEF EndApart
  <2>2. QED
    BY <1>1, <2>1 DEF Clean
<1>7. CASE cmd[p].loc = l /\ (Write(p) \/ Hash(p) \/ StoreFails(p) \/ (DeleteRow(p) /\ ~End(p)))
  <2>1. cmd'[p].at \in Middle /\ cmd'[p].loc = cmd[p].loc
    <3>1. CASE Write(p) \/ StoreFails(p) \/ (DeleteRow(p) /\ ~End(p))
      <4>1. PICK step \in {"hash", "undo", "unlink"} : cmd'[p] = [cmd[p] EXCEPT !.at = step]
        BY <3>1, GoToMoves DEF Write, StoreFails, DeleteRow
      <4>2. QED
        BY <1>0, <4>1 DEF Command, Middle
    <3>2. CASE Hash(p)
      <4>1. cmd'[p] = [cmd[p] EXCEPT !.at = "store", !.hash = files[cmd[p].loc]]
        BY <3>2 DEF Hash, TypeOK
      <4>2. QED
        BY <1>0, <4>1 DEF Command, Middle
    <3>3. QED
      BY <1>7, <3>1, <3>2
  <2>2. QED
    BY <1>1, <1>7, <2>1
<1>8. CASE /\ cmd[p].loc = l /\ End(p)
           /\ Insert(p) \/ Store(p) \/ InitStoreFails(p) \/ Undo(p) \/ DeleteRow(p) \/ Unlink(p)
  BY <1>2, <1>8, LastStepAgrees
<1>9. QED
  <2>1. CASE BeginSave(p) \/ BeginImport(p) \/ BeginInit(p) \/ BeginOnStored(p)
    <3>1. cmd[p] = Idle
      BY <2>1 DEF BeginSave, BeginImport, BeginInit, BeginOnStored, Begin
    <3>2. cmd[p].loc = None
      BY <3>1 DEF Idle
    <3>3. QED
      BY <1>0, <1>4, <3>2
  <2>2. CASE LoadFails(p) \/ LoadToChange(p) \/ LoadToRename(p) \/ LoadToClone(p) \/ LoadToLaunch(p)
    BY <1>5, <2>2 DEF LoadFails, LoadToChange, LoadToRename, LoadToClone, LoadToLaunch, Loads, At,
                      Middle
  <2>3. CASE CheckName(p) \/ CheckId(p) \/ CheckPath(p) \/ DeleteRowFails(p) \/ RecordLaunch(p)
    BY <1>5, <2>3 DEF CheckName, CheckId, CheckPath, DeleteRowFails, RecordLaunch, At, Middle
  <2>4. CASE WriteFails(p) \/ Kill(p)
    BY <1>4, <1>5, <1>6, <2>4 DEF WriteFails, Kill, At, Middle
  <2>5. CASE HashFails(p) \/ StoreFindsNothing(p) \/ EditStoreFails(p) \/ UndoFails(p) \/ UnlinkFails(p)
    BY <1>4, <1>6, <2>5 DEF HashFails, StoreFindsNothing, EditStoreFails, UndoFails, UnlinkFails
  <2>6. CASE Write(p) \/ Hash(p) \/ StoreFails(p) \/ (DeleteRow(p) /\ ~End(p))
    BY <1>4, <1>7, <2>6
  <2>7. CASE Insert(p) \/ Store(p) \/ InitStoreFails(p) \/ Undo(p) \/ (DeleteRow(p) /\ End(p)) \/ Unlink(p)
    BY <1>4, <1>8, <2>7 DEF Insert, Store, InitStoreFails, Undo, Unlink
  <2>8. QED
    BY <2>1, <2>2, <2>3, <2>4, <2>5, <2>6, <2>7 DEF ProcStep

(* A launch begins, loads, and ends. *)
LEMMA ReaderMoves ==
    ASSUME TypeOK, Shapes, RowsPlaced, NEW p \in Proc, ProcStep(p), cmd'[p].op = "launch"
    PROVE  BeginOnStored(p) \/ LoadToLaunch(p)
<1>0. /\ cmd[p] \in Command /\ Shape(cmd[p])
      /\ cmd'[p] \in Command /\ Shape(cmd'[p])
  BY ShapeStep DEF TypeOK, Shapes
<1>1. cmd'[p].at \in {"load", "record"}
  BY <1>0 DEF Shape
<1>2. ~End(p)
  BY <1>0, EndShape
<1>3. CASE BeginSave(p) \/ BeginImport(p)
  <2>1. \E op \in {"save", "import"} : \E i, new :
          cmd'[p] = [Idle EXCEPT !.op = op, !.at = "name", !.id = i, !.loc = i, !.new = new]
    <3>1. CASE BeginSave(p)
      BY <3>1, BeginMoves DEF BeginSave
    <3>2. CASE BeginImport(p)
      BY <3>2, BeginMoves DEF BeginImport
    <3>3. QED
      BY <1>3, <3>1, <3>2
  <2>2. QED
    BY <2>1 DEF Idle
<1>4. CASE BeginInit(p)
  <2>1. PICK i \in Fresh, d \in Project, v \in Rev :
          Begin(p, [Idle EXCEPT !.op = "init", !.at = "path", !.id = i, !.loc = d,
                                !.new = [id |-> i, name |-> ProjectName[d], rev |-> v]])
    BY <1>4 DEF BeginInit
  <2> DEFINE c == [Idle EXCEPT !.op = "init", !.at = "path", !.id = i, !.loc = d,
                               !.new = [id |-> i, name |-> ProjectName[d], rev |-> v]]
  <2>2. Begin(p, c) /\ c.op = "init"
    BY <2>1 DEF Idle
  <2> HIDE DEF c
  <2>3. QED
    BY <2>2, BeginMoves
<1>5. CASE LoadToChange(p) \/ LoadToRename(p) \/ LoadToClone(p)
  <2>1. cmd[p].op # "launch" /\ cmd[p].op # "none" /\ cmd[p].at = "load"
    BY <1>5 DEF LoadToChange, LoadToRename, LoadToClone, Loads, At
  <2>2. cmd'[p].op = cmd[p].op
    BY <1>2, <2>1, PlaceMoves DEF Begin, Idle
  <2>3. QED
    BY <2>1, <2>2
<1>6. CASE \E step \in {"id", "path", "write", "hash", "undo", "unlink"} : GoTo(p, step)
  BY <1>0, <1>1, <1>6, GoToMoves DEF Command
<1>7. CASE Hash(p)
  <2>1. cmd'[p] = [cmd[p] EXCEPT !.at = "store", !.hash = files[cmd[p].loc]]
    BY <1>7 DEF Hash, TypeOK
  <2>2. QED
    BY <1>0, <1>1, <2>1 DEF Command
<1>8. QED
  BY <1>2, <1>3, <1>4, <1>5, <1>6, <1>7
     DEF ProcStep, LoadFails, CheckName, CheckId, CheckPath, Write, WriteFails, HashFails, Insert,
         Store, StoreFindsNothing, StoreFails, InitStoreFails, EditStoreFails, Undo, UndoFails,
         DeleteRow, DeleteRowFails, Unlink, UnlinkFails, RecordLaunch, Kill, EndApart

(* What a launch has read, and what it records of it.                      *)
LEMMA ReadersStep ==
    ASSUME StoreInv, SyncInv, MeetingsExcused', NEW p \in Proc, ProcStep(p)
    PROVE  ReadersKnow' /\ LaunchIsExact'
<1> USE DEF StoreInv, SyncInv
<1>0. /\ cmd[p] \in Command /\ Shape(cmd[p]) /\ None \notin Id \cup Loc
      /\ \A q \in Proc : cmd[q] \in Command /\ Shape(cmd[q])
      /\ \A q \in Proc \ {p} : cmd'[q] = cmd[q]
  <2>1. cmd' = [cmd EXCEPT ![p] = cmd'[p]]
    BY OthersStay
  <2>2. QED
    BY <2>1, NoneAssumption DEF TypeOK, Shapes, Loc
<1>1. ReadersKnow'
  <2>1. SUFFICES ASSUME NEW q \in Proc, cmd'[q].op = "launch", ~Excused(cmd[q].loc)'
        PROVE  /\ cmd'[q].at = "load" => files'[cmd'[q].loc] = cmd'[q].rec.hash
               /\ cmd'[q].at = "record" => cmd'[q].old = cmd'[q].rec.hash
    BY DEF ReadersKnow
  <2>2. CASE q # p
    <3>1. cmd'[q] = cmd[q] /\ ~Excused(cmd[q].loc)
      BY <1>0, <2>1, <2>2, ExcusesGrow DEF Excused
    <3>2. cmd[q].loc \in Loc
      BY <1>0, <2>1, <3>1 DEF Shape, Command, Creating, Changing, Loc
    <3>3. files'[cmd[q].loc] = files[cmd[q].loc]
      <4>1. SUFFICES ASSUME files'[cmd[q].loc] # files[cmd[q].loc] PROVE FALSE
        OBVIOUS
      <4>2. cmd[p].loc = cmd[q].loc
        BY <3>2, <4>1, StepReaches
      <4>3. QED
        BY <1>0, <2>2, <3>1, <3>2, <4>2 DEF MeetingsExcused, Together
    <3>4. QED
      BY <2>1, <3>1, <3>3 DEF ReadersKnow
  <2>3. CASE q = p /\ BeginOnStored(p)
    <3>1. PICK op \in Changing \cup {"clone", "delete", "launch"}, i \in Id :
            /\ rows[i] # None
            /\ Begin(p, [Idle EXCEPT !.op = op, !.at = IF op = "delete" THEN "row" ELSE "load",
                                     !.rec = rows[i],
                                     !.id = IF op = "clone" THEN None ELSE i,
                                     !.loc = IF op = "clone" THEN None ELSE rows[i].loc])
      BY <2>3 DEF BeginOnStored
    <3> DEFINE c == [Idle EXCEPT !.op = op, !.at = IF op = "delete" THEN "row" ELSE "load",
                                 !.rec = rows[i],
                                 !.id = IF op = "clone" THEN None ELSE i,
                                 !.loc = IF op = "clone" THEN None ELSE rows[i].loc]
    <3>2. /\ c.op = op /\ c.at = (IF op = "delete" THEN "row" ELSE "load") /\ c.rec = rows[i]
          /\ c.id = (IF op = "clone" THEN None ELSE i)
          /\ c.loc = (IF op = "clone" THEN None ELSE rows[i].loc)
      BY DEF Idle
    <3>3. Begin(p, c)
      BY <3>1
    <3> HIDE DEF c
    <3>4. cmd'[p] = c /\ UNCHANGED <<rows, files>>
      BY <3>3, BeginMoves DEF Begin
    <3>5. op = "launch" /\ c.at = "load" /\ c.id = i /\ c.loc = rows[i].loc
      BY <2>1, <2>3, <3>2, <3>4
    <3>6. rows[i].loc \in Loc
      BY <3>1 DEF TypeOK, Row
    (* Nobody is at the setup, or the meeting would be excused. *)
    <3>7. \A r \in Proc : cmd[r].loc # rows[i].loc
      <4>1. SUFFICES ASSUME NEW r \in Proc, cmd[r].loc = rows[i].loc PROVE FALSE
        OBVIOUS
      <4>2. cmd[p].loc = None
        BY <3>3 DEF Begin, Idle
      <4>3. r # p
        BY <1>0, <3>6, <4>1, <4>2
      <4>4. Together(cmd'[p], cmd'[r])
        BY <1>0, <3>4, <3>5, <3>6, <4>1, <4>3 DEF Together
      <4>5. QED
        BY <2>1, <2>3, <4>3, <4>4 DEF MeetingsExcused
    <3>8. Clean(rows[i].loc)
      <4>1. ~Excused(rows[i].loc)
        BY <2>1, <2>3, <3>4, <3>5, ExcusesGrow DEF Excused
      <4>2. QED
        BY <4>1 DEF Excused, Clean
    <3>9. Agree(rows[i].loc)
      BY <3>6, <3>7, <3>8 DEF SettledAgree, Settled
    <3>10. files[rows[i].loc] = rows[i].hash
      BY <3>1, <3>9 DEF Agree, Registered
    <3>11. QED
      BY <2>3, <3>2, <3>4, <3>5, <3>10
  <2>4. CASE q = p /\ LoadToLaunch(p)
    <3>1. cmd'[p] = [cmd[p] EXCEPT !.at = "record", !.old = Loaded(p)]
      BY <2>4, LoadMoves DEF LoadToLaunch
    <3>2. /\ cmd'[p].at = "record" /\ cmd'[p].old = Loaded(p) /\ cmd'[p].op = cmd[p].op
          /\ cmd'[p].loc = cmd[p].loc /\ cmd'[p].rec = cmd[p].rec
      BY <1>0, <3>1 DEF Command
    <3>3. cmd[p].at = "load" /\ cmd[p].op = "launch" /\ cmd[p].loc = cmd[p].rec.loc
      BY <1>0, <2>4 DEF LoadToLaunch, Loads, At, Shape
    <3>4. ~Excused(cmd[p].loc)
      BY <2>1, <2>4, <3>2, ExcusesGrow DEF Excused
    <3>5. QED
      BY <2>4, <3>2, <3>3, <3>4 DEF ReadersKnow, Loaded
  <2>5. QED
    BY <2>1, <2>2, <2>3, <2>4, ReaderMoves
<1>2. LaunchIsExact'
  <2>1. \A l : Excused(l) => \E e \in excuses' : e[1] = l
    BY ExcusesGrow DEF Excused
  <2>2. CASE RecordLaunch(p)
    <3>1. /\ cmd[p].at = "record"
          /\ \/ launched' = launched
             \/ launched' = [id |-> cmd[p].id, loc |-> cmd[p].loc,
                             recorded |-> cmd[p].rec.hash, content |-> cmd[p].old]
      BY <2>2 DEF RecordLaunch, At
    <3>2. CASE launched' = launched
      BY <2>1, <3>2 DEF LaunchIsExact, Excused
    <3>3. CASE launched' = [id |-> cmd[p].id, loc |-> cmd[p].loc,
                            recorded |-> cmd[p].rec.hash, content |-> cmd[p].old]
      <4>1. cmd[p].op = "launch"
        BY <1>0, <3>1 DEF Shape, Command, Creating, Changing
      <4>2. ~Excused(cmd[p].loc) => cmd[p].old = cmd[p].rec.hash
        BY <3>1, <4>1 DEF ReadersKnow
      <4>3. QED
        BY <2>1, <3>3, <4>2 DEF LaunchIsExact
    <3>4. QED
      BY <3>1, <3>2, <3>3
  <2>3. CASE launched' \in {launched, None}
    BY <2>1, <2>3 DEF LaunchIsExact, Excused
  <2>4. QED
    BY <2>2, <2>3
       DEF ProcStep, BeginSave, BeginImport, BeginInit, BeginOnStored, Begin,
           LoadFails, LoadToChange, LoadToRename, LoadToClone, LoadToLaunch, Loads,
           CheckName, CheckId, CheckPath, Write, WriteFails, Hash, HashFails, Insert, Store,
           StoreFindsNothing, StoreFails, InitStoreFails, EditStoreFails, Undo, UndoFails,
           DeleteRow, DeleteRowFails, Unlink, UnlinkFails, Kill
<1>3. QED
  BY <1>1, <1>2

LEMMA SyncInit ==
    ASSUME Init, StoreInv
    PROVE  SyncInv
<1>1. PICK where \in [Id -> Loc \cup {None}], name \in [Id -> Name], v \in Rev,
           source \in [Id -> Source] :
        LET There == {i \in Id : where[i] # None}
            Manifest(i) == [id |-> i, name |-> name[i], rev |-> v]
        IN  /\ \A i \in There : /\ where[i] \in {i} \cup Project
                                /\ where[i] \in Project <=> source[i] = "project"
            /\ \A i, j \in There : i # j => name[i] # name[j] /\ where[i] # where[j]
            /\ rows = [i \in Id |-> IF i \in There
                                   THEN [loc |-> where[i], name |-> name[i],
                                         hash |-> Manifest(i), source |-> source[i]]
                                   ELSE None]
            /\ files = [l \in Loc |-> IF \E i \in There : where[i] = l
                                     THEN Manifest(CHOOSE i \in There : where[i] = l)
                                     ELSE None]
            /\ used = There \ Carried
  BY DEF Init
<1> DEFINE There == {i \in Id : where[i] # None}
           Manifest(i) == [id |-> i, name |-> name[i], rev |-> v]
<1>2. /\ \A i, j \in There : i # j => where[i] # where[j]
      /\ rows = [i \in Id |-> IF i \in There
                             THEN [loc |-> where[i], name |-> name[i],
                                   hash |-> Manifest(i), source |-> source[i]]
                             ELSE None]
      /\ files = [l \in Loc |-> IF \E i \in There : where[i] = l
                               THEN Manifest(CHOOSE i \in There : where[i] = l)
                               ELSE None]
  BY <1>1
<1>3. \A p \in Proc : cmd[p].op = "none" /\ cmd[p].id = None /\ cmd[p].loc = None
  BY DEF Init, Idle
<1>4. launched = None
  BY DEF Init
<1>5. \A i \in Id : rows[i] # None =>
        /\ i \in There /\ rows[i].loc = where[i] /\ rows[i].name = name[i]
        /\ rows[i].hash = Manifest(i)
  BY <1>2
<1>6. ASSUME NEW l \in Loc
      PROVE  Agree(l)
  <2>1. ASSUME NEW i \in Registered(l)
        PROVE  files[l] = rows[i].hash /\ files[l].name = rows[i].name /\ files[l].id = i
    <3>1. /\ i \in There /\ where[i] = l /\ rows[i].name = name[i]
          /\ rows[i].hash = Manifest(i)
      BY <1>5, <2>1 DEF Registered
    <3>2. (CHOOSE j \in There : where[j] = l) = i
      BY <1>2, <3>1
    <3>3. files[l] = Manifest(i)
      BY <1>2, <3>1, <3>2
    <3>4. QED
      BY <3>1, <3>3
  <2>2. ASSUME l \in Id, Registered(l) = {}
        PROVE  files[l] = None
    <3>1. \A i \in There : where[i] # l
      <4>1. SUFFICES ASSUME NEW i \in There, where[i] = l PROVE FALSE
        OBVIOUS
      <4>2. rows[i].loc = l
        BY <1>2, <4>1
      <4>3. rows[i] # None
        <5>1. rows[i] = [loc |-> where[i], name |-> name[i], hash |-> Manifest(i), source |-> source[i]]
          BY <1>2, <4>1
        <5>2. rows[i] \in Row
          BY <4>1, <5>1 DEF Row, Content
        <5>3. QED
          BY <5>2, NoneAssumption
      <4>4. QED
        BY <2>2, <4>1, <4>2, <4>3 DEF Registered
    <3>2. QED
      BY <1>2, <3>1
  <2>3. QED
    BY <2>1, <2>2 DEF Agree
<1>7. QED
  BY <1>3, <1>4, <1>6
     DEF SyncInv, MeetingsExcused, Together, RowsStayPut, Changing, WritersKnow, Writes,
         SettledAgree, ReadersKnow, LaunchIsExact

LEMMA SyncStep ==
    ASSUME StoreInv, SyncInv, NEW p \in Proc, ProcStep(p)
    PROVE  SyncInv'
<1>1. MeetingsExcused' /\ RowsStayPut'
  BY MeetingsStep, RowsStayStep DEF SyncInv
<1>2. WritersKnow'
  <2>1. SUFFICES ASSUME NEW q \in Proc, Writes(cmd'[q]), Clean(cmd[q].loc)'
        PROVE  Knows(cmd[q])'
    BY DEF WritersKnow
  <2>2. QED
    BY <2>1, OthersKnow, OwnKnows
<1>3. QED
  BY <1>1, <1>2, AgreeStep, ReadersStep DEF SyncInv

LEMMA SyncInductive == Spec => [](StoreInv /\ SyncInv)
<1>1. Init => StoreInv /\ SyncInv
  BY StoreInit, SyncInit
<1>2. StoreInv /\ SyncInv /\ [Next]_vars => (StoreInv /\ SyncInv)'
  <2>1. CASE UNCHANGED vars
    BY <2>1
       DEF vars, StoreInv, TypeOK, Shapes, RowsPlaced, IdsOwned, LoadedStays, RowHasFile,
           SyncInv, MeetingsExcused, Excused, Clean, RowsStayPut, WritersKnow, Knows,
           KnowsCreating, KnowsChanging, KnowsDeleting, Registered, SettledAgree, Settled, Agree,
           ReadersKnow, LaunchIsExact
  <2>2. CASE Next
    BY <2>2, StoreStep, SyncStep DEF Next
  <2>3. QED
    BY <2>1, <2>2
<1>3. QED
  BY <1>1, <1>2, PTL DEF Spec

(* File and row agree at every path where no command is and none has been  *)
(* killed, has failed half way or has met another that writes, for any     *)
(* number of processes (setup_service.py: every command that changes a     *)
(* setup writes the file, hashes it and stores the row, or undoes).        *)
THEOREM FilesAndRowsAgree == Spec => []FilesMatchRows
<1>1. StoreInv /\ SyncInv => FilesMatchRows
  BY DEF SyncInv, SettledAgree, Settled, FilesMatchRows
<1>2. QED
  BY SyncInductive, <1>1, PTL

(* A launch that met no other command at its setup runs the revision whose *)
(* hash it records, however long ago the manifest was written and whoever  *)
(* wrote it (cli/app.py: the launch command reads the row, then the file). *)
THEOREM LaunchesAreExact == Spec => []LaunchIsExact
<1>1. StoreInv /\ SyncInv => LaunchIsExact
  BY DEF SyncInv
<1>2. QED
  BY SyncInductive, <1>1, PTL
=============================================================================
