--------------------------- MODULE CaptureProofs ---------------------------
(***************************************************************************)
(* Theorems of Capture: an inspection is honest, what a command stores was *)
(* there, and a diff of two machines that held still is exact, for every   *)
(* set of things, registry, storage and command.                           *)
(*                                                                         *)
(* The inductive invariant says what each adapter knows between two of its *)
(* queries (Knows), what is true of every finding so far (FoundTrue,       *)
(* Exact), and that whatever was there all the time is found by the time   *)
(* its adapter is done (NothingMissed).                                    *)
(***************************************************************************)
EXTENDS Capture, FiniteSetTheorems, SequenceTheorems, TLAPS

(* The adapters that inspect has yet to finish. *)
Remaining == {todo[i] : i \in DOMAIN todo}

(* What can be shown is registered, never two of what excludes each other. *)
MachineInv ==
    /\ \A x \in shown : x.type \in Registered
    /\ IsFiniteSet(shown) /\ Possible(shown)
    /\ tool \in [Tools -> {"ok", "fails", "garbled", "unavailable"}]

(* During a command the ghost has seen all that is, and knows each fault.  *)
WatchInv ==
    cmd # None =>
        /\ shown \subseteq watch.seen /\ watch.always \subseteq shown /\ IsFiniteSet(watch.seen)
        /\ \A x \in watch.always, y \in watch.seen : ~Exclusive(x, y)
        /\ States \subseteq watch.states
        /\ watch.quiet => watch.seen = shown /\ watch.always = shown
        /\ \A t \in Tools : tool[t] # "ok" => t \in watch.faulty

(* What an adapter learned from its first queries. *)
DockerKnows ==
    /\ part \subseteq {y \in watch.seen : y.type = "docker"}
    /\ \A x \in watch.always : x.type = "docker" => x \in part
ProcessKnows ==
    /\ \A q \in part : \E y \in watch.seen : /\ y.type = "process" /\ y.pid = q[1]
                                           /\ <<y, q[2]>> \in watch.states
    /\ Trusted => part = {<<x.pid, rev[x]>> : x \in There("process")}
GitKnows ==
    /\ part \in [repo : watch.seen, known : Seq(Rev \cup {None})]
    /\ part.repo.type = "git" /\ Len(part.known) < 3
    /\ \A x \in watch.always : x.type = "git" => x = part.repo
    /\ \A i \in 1..Len(part.known) :
           part.known[i] # None => <<part.repo, part.known[i]>> \in watch.states
    /\ Trusted => \A i \in 1..Len(part.known) : part.known[i] = rev[part.repo]
EditorKnows(t) ==
    /\ part \subseteq Recent(Storage[t])
    /\ \A x \in watch.always : x.type = t /\ Reportable(x) =>
           (\E i \in part : Storage[t][i].opens = x) \/ \E f \in findings : f.thing = x

Knows ==
    part # None =>
        /\ Detecting("docker") => DockerKnows
        /\ Detecting("process") => ProcessKnows
        /\ Detecting("git") => GitKnows
        /\ \A t \in Editor : Detecting(t) => EditorKnows(t)

(* Every finding was there, is nobody else's, and its details were so.     *)
FoundTrue ==
    \A f \in findings : /\ f.thing \in watch.seen /\ ~Skipped(f.thing)
                         /\ f = Finding(f.thing, f.place, f.parts)
                         /\ \A p \in f.parts : Truthful(f, p)

NothingMissed ==
    \A x \in watch.always :
        \/ x.type \in Remaining \/ ~Reportable(x) \/ Tool(x.type) \in watch.faulty
        \/ \E f \in findings : f.thing = x

IssuesTrue == \A t \in issues : Tool(t) \in watch.faulty

(* The parts a finding has when nothing went wrong. *)
Whole(type, v) ==
    IF type \in {"docker", "macos_app"} \cup Editor THEN {}
    ELSE IF type = "process" THEN {<<"ports", v>>}
    ELSE IF type = "git" THEN {<<"branch", v>>, <<"commit", v>>, <<"dirty", v>>}
    ELSE {<<"state", v>>}

Exact == Trusted => \A f \in findings : f = Finding(f.thing, f.place, Whole(f.thing.type, rev[f.thing]))
                                        /\ Reportable(f.thing)

InspectInv == MachineInv /\ WatchInv /\ Knows /\ FoundTrue /\ NothingMissed /\ IssuesTrue /\ Exact

(* What a manifest says that was made of looks at the machine. *)
Described1(l) ==
    [id |-> l.id, type |-> l.view.type, config |-> <<l.view, Whole(l.view.type, l.state)>>]

Described(looks) == {Described1(l) : l \in looks}

Unchanging == {"docker", "macos_app"} \cup Editor

(* Looks as Looks takes them, with an id each. *)
IsLook(l) ==
    /\ l = [id |-> l.id, view |-> l.view, state |-> l.state]
    /\ l.view.type \in Unchanging => l.state = None

Told(looks) ==
    /\ \A l \in looks : IsLook(l)
    /\ \A k, l \in looks : k.id = l.id => k = l

OriginInv ==
    /\ origin # None => saved = Described(origin) /\ Told(origin)
    /\ cmd # None /\ cmd.op = "diff" => read = saved

------------------------------------------------------------------------------
(* The adapters that are left. *)

LEMMA RegistryTypes ==
    ASSUME TypeOK
    PROVE  /\ registry \in Seq(Type) /\ Registered \subseteq Type
           /\ \A i, j \in 1..Len(registry) : registry[i] = registry[j] => i = j
<1>1. registry \in Seq(Type) /\ \A i, j \in DOMAIN registry : registry[i] = registry[j] => i = j
  BY RegistryAssumption DEF TypeOK
<1>2. DOMAIN registry = 1..Len(registry)
  BY <1>1
<1>3. \A i \in 1..Len(registry) : registry[i] \in Type
  BY <1>1
<1>4. QED
  BY <1>1, <1>2, <1>3 DEF Registered

LEMMA TodoTypes ==
    ASSUME TypeOK
    PROVE  /\ todo \in Seq(Type) /\ Remaining \subseteq Registered
           /\ \A i, j \in 1..Len(todo) : todo[i] = todo[j] => i = j
<1>1. registry \in Seq(Type) /\ Registered \subseteq Type
  BY RegistryTypes
<1>2. \A i, j \in 1..Len(registry) : registry[i] = registry[j] => i = j
  BY RegistryTypes
<1>3. PICK i \in 0..Len(registry) : todo = SubSeq(registry, i + 1, Len(registry))
  BY DEF TypeOK
<1>4. i \in Nat /\ Len(registry) \in Nat /\ i <= Len(registry)
  BY <1>1
<1>5. \A k \in (i + 1)..Len(registry) : registry[k] \in Type
  BY <1>1, <1>4
<1>6. /\ todo \in Seq(Type)
      /\ Len(todo) = IF i + 1 <= Len(registry) THEN Len(registry) - (i + 1) + 1 ELSE 0
      /\ \A k \in 1..(Len(registry) - (i + 1) + 1) : todo[k] = registry[(i + 1) + k - 1]
  BY <1>1, <1>3, <1>4, <1>5, SubSeqProperties
<1>7. \A k \in 1..Len(todo) : i + k \in 1..Len(registry) /\ todo[k] = registry[i + k]
  BY <1>4, <1>6
<1>8. \A k, l \in 1..Len(todo) : todo[k] = todo[l] => k = l
  <2>1. SUFFICES ASSUME NEW k \in 1..Len(todo), NEW l \in 1..Len(todo), todo[k] = todo[l]
                 PROVE  k = l
    OBVIOUS
  <2>2. Len(todo) \in Nat /\ k \in Nat /\ l \in Nat
    BY <1>6
  <2>3. i + k = i + l
    BY <1>2, <1>7, <2>1
  <2>4. QED
    BY <1>4, <2>2, <2>3
<1>9. DOMAIN todo = 1..Len(todo) /\ DOMAIN registry = 1..Len(registry)
  BY <1>1, <1>6
<1>10. Remaining \subseteq Registered
  BY <1>7, <1>9 DEF Remaining, Registered
<1>11. QED
  BY <1>6, <1>8, <1>10

(* The adapter that runs is one of them, and done once. *)
LEMMA HeadRemains ==
    ASSUME TypeOK, todo # <<>>
    PROVE  /\ Head(todo) \in Remaining /\ Head(todo) \in Registered /\ Head(todo) \in Type
           /\ {Tail(todo)[i] : i \in DOMAIN Tail(todo)} = Remaining \ {Head(todo)}
<1>1. /\ todo \in Seq(Type) /\ Remaining \subseteq Registered
      /\ \A i, j \in 1..Len(todo) : todo[i] = todo[j] => i = j
  BY TodoTypes
<1>2. /\ Tail(todo) \in Seq(Type) /\ Len(Tail(todo)) = Len(todo) - 1 /\ Len(todo) \in Nat
      /\ \A i \in 1..Len(Tail(todo)) : Tail(todo)[i] = todo[i + 1]
  BY <1>1, HeadTailProperties
<1>3. Len(todo) # 0 /\ Head(todo) = todo[1] /\ Head(todo) \in Type
  BY <1>1
<1>4. DOMAIN todo = 1..Len(todo) /\ DOMAIN Tail(todo) = 1..(Len(todo) - 1)
  BY <1>1, <1>2
<1>5. Head(todo) \in Remaining
  BY <1>2, <1>3, <1>4 DEF Remaining
<1>6. ASSUME NEW i \in DOMAIN Tail(todo)
      PROVE  Tail(todo)[i] \in Remaining /\ Tail(todo)[i] # Head(todo)
  <2>1. i \in Nat /\ i + 1 \in 1..Len(todo) /\ i + 1 # 1 /\ Tail(todo)[i] = todo[i + 1]
    BY <1>2, <1>4
  <2>2. todo[i + 1] # todo[1]
    BY <1>1, <1>2, <1>3, <2>1
  <2>3. QED
    BY <1>3, <1>4, <2>1, <2>2 DEF Remaining
<1>7. ASSUME NEW i \in DOMAIN todo, todo[i] # Head(todo)
      PROVE  \E j \in DOMAIN Tail(todo) : Tail(todo)[j] = todo[i]
  <2>1. i \in Nat /\ i # 1 /\ i - 1 \in 1..(Len(todo) - 1)
    BY <1>2, <1>3, <1>4, <1>7
  <2>2. Tail(todo)[i - 1] = todo[i]
    BY <1>2, <2>1
  <2>3. QED
    BY <1>4, <2>1, <2>2
<1>8. QED
  BY <1>1, <1>3, <1>5, <1>6, <1>7 DEF Remaining

LEMMA TailIsRest ==
    ASSUME TypeOK, todo # <<>>
    PROVE  \E i \in 0..Len(registry) : Tail(todo) = SubSeq(registry, i + 1, Len(registry))
<1>1. registry \in Seq(Type) /\ Len(registry) \in Nat
  BY RegistryTypes
<1>2. PICK i \in 0..Len(registry) : todo = SubSeq(registry, i + 1, Len(registry))
  BY DEF TypeOK
<1>3. i # Len(registry)
  BY <1>1, <1>2, SubSeqEmpty
<1>4. i \in Nat /\ i + 1 \in 1..Len(registry) /\ i + 1 \in 0..Len(registry)
      /\ Len(registry) \in (i + 1)..Len(registry)
  BY <1>1, <1>3
<1>5. Tail(todo) = SubSeq(registry, (i + 1) + 1, Len(registry))
  BY <1>1, <1>2, <1>4, HeadTailOfSubSeq
<1>6. QED
  BY <1>4, <1>5

------------------------------------------------------------------------------
(* What the steps leave alone. *)

Inv == TypeOK /\ InspectInv

(* A command that is inspecting is there. *)
LEMMA Commanded ==
    ASSUME TypeOK, todo # <<>>
    PROVE  cmd # None
BY DEF TypeOK

LEMMA EndsWhole ==
    ASSUME TypeOK, Finishing \/ Raises
    PROVE  /\ cmd # None /\ cmd' = None /\ todo' = <<>> /\ part' = None /\ findings' = {} /\ issues' = {}
           /\ read' = None /\ watch' = Unwatched
           /\ UNCHANGED <<machine, registry, given, changes>>
<1>1. CASE PrintInspection \/ Refused \/ ManifestRaises \/ Previews
  BY <1>1 DEF PrintInspection, Refused, ManifestRaises, Previews, Ends, Inspected, Accepted
<1>2. CASE Stores \/ StoreFails
  BY <1>2 DEF Stores, StoreFails, Ends, Inspected, Accepted
<1>3. CASE Diffs
  BY <1>3 DEF Diffs, Ends, Inspected
<1>4. CASE Raises
  BY <1>4, Commanded DEF Raises, Ends, Detecting
<1>5. QED
  BY <1>1, <1>2, <1>3, <1>4 DEF Finishing

LEMMA ChangingMoves ==
    ASSUME TypeOK, MachineInv, Changing
    PROVE  /\ Changed
           /\ shown' \subseteq Thing /\ rev' \in [Thing -> Rev]
           /\ \A t \in Tools : tool'[t] \in Answers(t)
           /\ MachineInv'
<1> USE DEF TypeOK, MachineInv
<1>1. CASE Appears
  <2>1. PICK x \in Thing \ shown : /\ x.type \in Registered /\ Possible(shown \cup {x})
                                   /\ shown' = shown \cup {x}
    BY <1>1 DEF Appears
  <2>2. Changed /\ UNCHANGED <<rev, tool, registry>>
    BY <1>1 DEF Appears, Changed
  <2>3. IsFiniteSet(shown')
    BY <2>1, FS_AddElement
  <2>4. Registered' = Registered
    BY <2>2 DEF Registered
  <2>5. Possible(shown')
    BY <2>1
  <2>6. QED
    BY <2>1, <2>2, <2>3, <2>4, <2>5 DEF Possible
<1>2. CASE Vanishes
  <2>1. PICK x \in shown : shown' = shown \ {x}
    BY <1>2 DEF Vanishes
  <2>2. Changed /\ UNCHANGED <<rev, tool, registry>>
    BY <1>2 DEF Vanishes, Changed
  <2>3. IsFiniteSet(shown')
    BY <2>1, FS_RemoveElement
  <2>4. Registered' = Registered
    BY <2>2 DEF Registered
  <2>5. Possible(shown)' 
    BY <2>1 DEF Possible
  <2>6. QED
    BY <2>1, <2>2, <2>3, <2>4, <2>5
<1>3. CASE Turns
  <2>1. Changed /\ UNCHANGED <<shown, tool, registry>> /\ rev' \in [Thing -> Rev]
    BY <1>3 DEF Turns, Changed
  <2>2. QED
    BY <2>1 DEF Registered, Possible
<1>4. CASE ToolTurns
  <2>1. Changed /\ UNCHANGED <<shown, rev, registry>>
    BY <1>4 DEF ToolTurns, Changed
  <2>a. PICK t \in {Tool(r) : r \in Registered} :
               \E a \in Answers(t) : tool' = [tool EXCEPT ![t] = a]
    BY <1>4 DEF ToolTurns
  <2>2. PICK a \in Answers(t) : tool' = [tool EXCEPT ![t] = a]
    BY <2>a
  <2>3. t \in Tools /\ a \in {"ok", "fails", "garbled", "unavailable"}
    BY <2>2, RegistryTypes DEF Tools, Answers
  <2>4. tool' \in [Tools -> {"ok", "fails", "garbled", "unavailable"}]
    BY <2>2, <2>3
  <2>5. \A u \in Tools : tool'[u] \in Answers(u)
    BY <2>2, <2>3
  <2>6. QED
    BY <2>1, <2>4, <2>5 DEF Registered, Possible
<1>5. QED
  BY <1>1, <1>2, <1>3, <1>4 DEF Changing

------------------------------------------------------------------------------
(* The invariant holds between commands and survives the machine. *)

(* What ends leaves the invariant, as what has not begun does. *)
LEMMA NothingKnown ==
    ASSUME TypeOK, MachineInv, cmd = None
    PROVE  InspectInv
<1>1. todo = <<>> /\ findings = {} /\ issues = {} /\ watch.always = {}
  BY DEF TypeOK, Unwatched
<1>2. WatchInv /\ Knows /\ FoundTrue /\ NothingMissed /\ IssuesTrue /\ Exact
  BY <1>1 DEF WatchInv, Knows, FoundTrue, NothingMissed, IssuesTrue, Exact, Detecting
<1>3. QED
  BY <1>2 DEF InspectInv

LEMMA InitInv == Init => Inv
<1> SUFFICES ASSUME Init PROVE Inv
  OBVIOUS
<1>1. registry \in Seq(Type) /\ Registered \subseteq Type
  BY RegistryAssumption DEF Init, Registered
<1>2. \E i \in 0..Len(registry) : todo = SubSeq(registry, i + 1, Len(registry))
  <2>1. Len(registry) \in Nat
    BY <1>1
  <2>2. <<>> = SubSeq(registry, Len(registry) + 1, Len(registry))
    BY <2>1, SubSeqEmpty
  <2>3. QED
    BY <2>1, <2>2 DEF Init
<1>3. rev \in [Thing -> Rev]
  BY RevAssumption DEF Init
<1>4. TypeOK
  <2>1. given \in 0..MaxCommands /\ changes \in 0..MaxChanges
    BY BoundAssumption DEF Init
  <2>2. watch.seen \subseteq Thing /\ watch.always \subseteq watch.seen \cap shown /\ watch = Unwatched
    BY DEF Init, Unwatched
  <2>3. shown \subseteq Thing /\ \A t \in Tools : tool[t] \in Answers(t)
    BY DEF Init, Answers
  <2>4. QED
    BY <1>2, <1>3, <2>1, <2>2, <2>3 DEF Init, TypeOK
<1>5. MachineInv
  BY DEF Init, MachineInv
<1>6. QED
  BY <1>4, <1>5, NothingKnown DEF Init, Inv

LEMMA EndKeeps ==
    ASSUME Inv, Finishing \/ Raises
    PROVE  Inv'
<1>1. /\ cmd' = None /\ todo' = <<>> /\ part' = None /\ findings' = {} /\ issues' = {}
      /\ read' = None /\ watch' = Unwatched
      /\ UNCHANGED <<machine, registry, given, changes>>
  BY EndsWhole DEF Inv
<1>2. UNCHANGED <<shown, rev, tool, registry, given, changes>>
  BY <1>1 DEF machine
<1>3. \E i \in 0..Len(registry') : todo' = SubSeq(registry', i + 1, Len(registry'))
  <2>1. Len(registry) \in Nat
    BY RegistryTypes DEF Inv
  <2>2. <<>> = SubSeq(registry, Len(registry) + 1, Len(registry))
    BY <2>1, SubSeqEmpty
  <2>3. QED
    BY <1>1, <2>1, <2>2
<1>4. TypeOK'
  BY <1>1, <1>2, <1>3 DEF Inv, TypeOK, Unwatched, Registered
<1>5. MachineInv'
  BY <1>2 DEF Inv, InspectInv, MachineInv, Registered
<1>6. QED
  BY <1>1, <1>4, <1>5 DEF Inv, InspectInv, WatchInv, Knows, FoundTrue, NothingMissed,
     IssuesTrue, Exact, Detecting, Unwatched

(* Docker has more containers than fit only once it has. *)
LEMMA FewContainers ==
    ASSUME NEW S, NEW T, IsFiniteSet(T), S \subseteq T,
           Cardinality({y \in T : y.type = "docker"}) <= MaxContainers
    PROVE  Cardinality({y \in S : y.type = "docker"}) <= MaxContainers
<1>1. IsFiniteSet({y \in T : y.type = "docker"})
  BY FS_Subset
<1>2. {y \in S : y.type = "docker"} \subseteq {y \in T : y.type = "docker"}
  OBVIOUS
<1>3. /\ IsFiniteSet({y \in S : y.type = "docker"})
      /\ Cardinality({y \in S : y.type = "docker"}) <= Cardinality({y \in T : y.type = "docker"})
  BY <1>1, <1>2, FS_Subset
<1>4. /\ Cardinality({y \in S : y.type = "docker"}) \in Nat
      /\ Cardinality({y \in T : y.type = "docker"}) \in Nat
  BY <1>1, <1>3, FS_CardinalityType
<1>5. QED
  BY <1>3, <1>4, BoundAssumption

LEMMA BeginKeeps ==
    ASSUME Inv, Begin
    PROVE  Inv'
<1> USE DEF Inv
<1>1. PICK c \in Commands :
          /\ cmd = None /\ given < MaxCommands /\ given' = given + 1
          /\ IF c.op = "diff" /\ saved = None
             THEN /\ out' = [kind |-> "error", op |-> "diff", result |-> {}]
                  /\ UNCHANGED <<command, watch>>
             ELSE /\ cmd' = c /\ todo' = registry
                  /\ read' = IF c.op = "diff" THEN saved ELSE None
                  /\ watch' = Afresh
                  /\ UNCHANGED <<part, findings, issues, out>>
          /\ UNCHANGED <<machine, registry, saved, changes, origin>>
  BY DEF Begin
<1>2. UNCHANGED <<shown, rev, tool, registry, changes>>
  BY <1>1 DEF machine
<1>3. given' \in 0..MaxCommands
  BY <1>1, BoundAssumption DEF TypeOK
<1>4. MachineInv'
  BY <1>2 DEF InspectInv, MachineInv, Registered
<1>5. todo = <<>> /\ part = None /\ findings = {} /\ issues = {} /\ watch = Unwatched
  BY <1>1 DEF TypeOK
<1>6. CASE c.op = "diff" /\ saved = None
  <2>1. UNCHANGED <<cmd, todo, part, findings, issues, read, watch>>
    BY <1>1, <1>6 DEF command
  <2>2. TypeOK'
    BY <1>2, <1>3, <2>1 DEF TypeOK, Registered
  <2>3. QED
    BY <1>1, <1>4, <1>5, <2>1, <2>2 DEF InspectInv, WatchInv, Knows, FoundTrue, NothingMissed,
       IssuesTrue, Exact, Detecting, Unwatched
<1>7. CASE ~(c.op = "diff" /\ saved = None)
  <2>1. /\ cmd' = c /\ todo' = registry /\ watch' = Afresh /\ cmd' # None
        /\ part' = None /\ findings' = {} /\ issues' = {}
    BY <1>1, <1>5, <1>7, NoneAssumption
  <2>2. /\ watch'.seen = shown /\ watch'.always = shown /\ watch'.states = States /\ watch'.quiet
        /\ watch'.faulty = {t \in Tools : tool[t] # "ok"}
    BY <2>1 DEF Afresh
  <2>3. \E i \in 0..Len(registry') : todo' = SubSeq(registry', i + 1, Len(registry'))
    <3>1. registry \in Seq(Type) /\ Len(registry) \in Nat
      BY RegistryTypes
    <3>2. registry = SubSeq(registry, 1, Len(registry))
      BY <3>1, SubSeqFull
    <3>3. QED
      BY <1>2, <2>1, <3>1, <3>2
  <2>4. TypeOK'
    BY <1>1, <1>2, <1>3, <2>1, <2>2, <2>3 DEF TypeOK, Registered
  <2>5. WatchInv'
    BY <1>2, <2>2 DEF InspectInv, MachineInv, WatchInv, Possible, States
  <2>6. NothingMissed'
    BY <1>2, <2>1, <2>2 DEF InspectInv, MachineInv, NothingMissed, Remaining, Registered
  <2>7. Knows' /\ FoundTrue' /\ IssuesTrue' /\ Exact'
    BY <2>1 DEF Knows, FoundTrue, IssuesTrue, Exact
  <2>8. QED
    BY <1>4, <2>4, <2>5, <2>6, <2>7 DEF InspectInv
<1>8. QED
  BY <1>6, <1>7

LEMMA ChangingKeeps ==
    ASSUME Inv, Changing
    PROVE  Inv'
<1> USE DEF Inv, InspectInv
<1>1. /\ Changed /\ MachineInv'
      /\ shown' \subseteq Thing /\ rev' \in [Thing -> Rev]
      /\ \A t \in Tools : tool'[t] \in Answers(t)
  BY ChangingMoves
<1>2. UNCHANGED <<registry, cmd, todo, part, findings, issues, read, given>>
  BY <1>1 DEF Changed, command
<1>3. changes' \in 0..MaxChanges
  BY <1>1, BoundAssumption DEF Changed, TypeOK
<1>4. CASE cmd = None
  <2>1. watch' = Unwatched
    BY <1>1, <1>4 DEF Changed, TypeOK
  <2>2. todo' = <<>> /\ findings' = {} /\ issues' = {} /\ cmd' = None
    BY <1>2, <1>4 DEF TypeOK
  <2>3. TypeOK'
    BY <1>1, <1>2, <1>3, <2>1 DEF TypeOK, Unwatched, Registered
  <2>4. QED
    BY <1>1, <2>1, <2>2, <2>3 DEF WatchInv, Knows, FoundTrue, NothingMissed, IssuesTrue, Exact,
       Detecting, Unwatched
<1>5. CASE cmd # None
  <2>1. /\ watch'.seen = watch.seen \cup shown' /\ watch'.always = watch.always \cap shown'
        /\ watch'.states = watch.states \cup States'
        /\ watch'.faulty = watch.faulty \cup {t \in Tools : tool'[t] # "ok"}
        /\ watch'.quiet = FALSE
    BY <1>1, <1>5 DEF Changed
  <2>2. ~Trusted'
    BY <2>1 DEF Trusted
  <2>3. IsFiniteSet(watch'.seen)
    <3>1. IsFiniteSet(watch.seen) /\ IsFiniteSet(shown')
      BY <1>1, <1>5 DEF WatchInv, MachineInv
    <3>2. IsFiniteSet(watch.seen \cup shown')
      BY <3>1, FS_Union
    <3>3. QED
      BY <2>1, <3>2
  <2>4. TypeOK'
    BY <1>1, <1>2, <1>3, <1>5, <2>1 DEF TypeOK, Registered
  <2>5. WatchInv'
    <3>1. ASSUME NEW x \in watch'.always, NEW y \in watch'.seen
          PROVE  ~Exclusive(x, y)
      <4>1. x \in watch.always /\ x \in shown' /\ (y \in watch.seen \/ y \in shown')
        BY <2>1, <3>1
      <4>2. CASE y \in watch.seen
        BY <1>5, <4>1, <4>2 DEF WatchInv
      <4>3. CASE y \in shown'
        BY <1>1, <4>1, <4>3 DEF MachineInv, Possible
      <4>4. QED
        BY <4>1, <4>2, <4>3
    <3>2. QED
      BY <2>1, <2>3, <3>1 DEF WatchInv
  <2>6. \A x : Reportable(x)' => Reportable(x)
    BY <2>1, <2>3, FewContainers DEF Reportable
  <2>7. FoundTrue'
    <3>1. ASSUME NEW f, NEW p, Truthful(f, p)
          PROVE  Truthful(f, p)'
      BY <2>1, <3>1 DEF Truthful
    <3>2. QED
      BY <1>2, <2>1, <3>1 DEF FoundTrue
  <2>8. NothingMissed'
    BY <1>2, <2>1, <2>6 DEF NothingMissed, Remaining
  <2>9. Knows'
    <3>1. SUFFICES ASSUME part # None PROVE Knows'
      BY <1>2 DEF Knows
    <3>2. \A t : Detecting(t)' <=> Detecting(t)
      BY <1>2 DEF Detecting
    <3>3. Detecting("docker") => DockerKnows'
      BY <1>2, <2>1, <3>1 DEF Knows, DockerKnows
    <3>4. Detecting("process") => ProcessKnows'
      BY <1>2, <2>1, <2>2, <3>1 DEF Knows, ProcessKnows
    <3>5. Detecting("git") => GitKnows'
      <4>1. SUFFICES ASSUME GitKnows PROVE GitKnows'
        BY <3>1 DEF Knows
      <4>2. part \in [repo : watch.seen', known : Seq(Rev \cup {None})]
        BY <2>1, <4>1 DEF GitKnows
      <4>3. QED
        BY <1>2, <2>1, <2>2, <4>1, <4>2 DEF GitKnows
    <3>6. ASSUME NEW t \in Editor, Detecting(t)
          PROVE  EditorKnows(t)'
      BY <1>2, <2>1, <2>6, <3>1, <3>6 DEF Knows, EditorKnows
    <3>7. QED
      BY <1>2, <3>2, <3>3, <3>4, <3>5, <3>6 DEF Knows
  <2>10. IssuesTrue' /\ Exact'
    BY <1>2, <2>1, <2>2 DEF IssuesTrue, Exact
  <2>11. QED
    BY <1>1, <2>4, <2>5, <2>7, <2>8, <2>9, <2>10
<1>6. QED
  BY <1>4, <1>5

------------------------------------------------------------------------------
(* The steps of an inspection, by what they do to what is known. *)

LEMMA StillThere ==
    ASSUME Inv, UNCHANGED cmd, UNCHANGED Beside
    PROVE  /\ MachineInv' /\ WatchInv'
           /\ UNCHANGED <<shown, rev, tool, registry, given, changes, watch, Registered, Trusted>>
           /\ \A x : Reportable(x)' <=> Reportable(x)
           /\ \A f : \A p : Truthful(f, p)' <=> Truthful(f, p)
           /\ \A t : There(t)' = There(t)
<1>1. UNCHANGED <<shown, rev, tool, registry, given, changes, watch>>
  BY DEF Beside, machine
<1>2. MachineInv' /\ Registered' = Registered
  BY <1>1 DEF Inv, InspectInv, MachineInv, Registered
<1>3. WatchInv'
  BY <1>1 DEF Inv, InspectInv, WatchInv, States
<1>4. Trusted' = Trusted
  BY <1>1 DEF Trusted
<1>5. \A x : Reportable(x)' <=> Reportable(x)
  BY <1>1 DEF Reportable
<1>6. \A f : \A p : Truthful(f, p)' <=> Truthful(f, p)
  BY <1>1 DEF Truthful
<1>7. \A t : There(t)' = There(t)
  BY <1>1 DEF There
<1>8. QED
  BY <1>1, <1>2, <1>3, <1>4, <1>5, <1>6, <1>7

(* An adapter that asks a further query. *)
LEMMA LearnsKeeps ==
    ASSUME Inv, todo # <<>>, NEW what, Learns(what), Knows'
    PROVE  Inv'
<1> USE DEF Inv, InspectInv
<1>1. UNCHANGED <<cmd, todo, findings, issues, read>> /\ UNCHANGED Beside
  BY DEF Learns
<1>2. /\ MachineInv' /\ WatchInv'
      /\ UNCHANGED <<shown, rev, tool, registry, given, changes, watch, Registered, Trusted>>
      /\ \A x : Reportable(x)' <=> Reportable(x)
      /\ \A f : \A p : Truthful(f, p)' <=> Truthful(f, p)
  BY <1>1, StillThere
<1>3. TypeOK'
  BY <1>1, <1>2 DEF TypeOK
<1>4. FoundTrue' /\ IssuesTrue'
  BY <1>1, <1>2 DEF FoundTrue, IssuesTrue
<1>5. NothingMissed'
  BY <1>1, <1>2 DEF NothingMissed, Remaining
<1>6. Exact'
  BY <1>1, <1>2 DEF Exact
<1>7. QED
  BY <1>2, <1>3, <1>4, <1>5, <1>6

(* What an adapter of type t may report at its last query. *)
Sound(t, F) ==
    /\ \A f \in F : /\ f.thing \in watch.seen /\ ~Skipped(f.thing)
                    /\ f = Finding(f.thing, f.place, f.parts)
                    /\ \A p \in f.parts : Truthful(f, p)
    /\ \A x \in watch.always : x.type = t =>
           \/ ~Reportable(x) \/ Tool(t) \in watch.faulty
           \/ \E f \in findings \cup F : f.thing = x
    /\ Trusted => \A f \in F : /\ f = Finding(f.thing, f.place, Whole(f.thing.type, rev[f.thing]))
                               /\ Reportable(f.thing)

LEMMA DetectedKeeps ==
    ASSUME Inv, todo # <<>>, NEW F, Sound(Head(todo), F), Detected(F)
    PROVE  Inv'
<1> USE DEF Inv, InspectInv
<1> DEFINE t == Head(todo)
<1>1. /\ findings' = findings \cup F /\ todo' = Tail(todo) /\ part' = None
      /\ UNCHANGED <<cmd, issues, read>> /\ UNCHANGED Beside
  BY DEF Detected
<1>2. /\ MachineInv' /\ WatchInv'
      /\ UNCHANGED <<shown, rev, tool, registry, given, changes, watch, Registered, Trusted>>
      /\ \A x : Reportable(x)' <=> Reportable(x)
      /\ \A f : \A p : Truthful(f, p)' <=> Truthful(f, p)
  BY <1>1, StillThere
<1>3. Remaining' = Remaining \ {t} /\ t \in Remaining
  BY <1>1, HeadRemains DEF Remaining
<1>4. cmd # None
  BY Commanded
<1>5. TypeOK'
  <2>1. \E i \in 0..Len(registry') : todo' = SubSeq(registry', i + 1, Len(registry'))
    BY <1>1, <1>2, TailIsRest
  <2>2. \A f \in findings' : f.thing \in Thing
    BY <1>1 DEF TypeOK, Sound
  <2>3. QED
    BY <1>1, <1>2, <1>4, <2>1, <2>2 DEF TypeOK
<1>6. Knows'
  BY <1>1 DEF Knows
<1>7. FoundTrue'
  BY <1>1, <1>2 DEF FoundTrue, Sound
<1>8. NothingMissed'
  <2>1. SUFFICES ASSUME NEW x \in watch.always, x.type \notin Remaining', Reportable(x),
                        Tool(x.type) \notin watch.faulty
                 PROVE  \E f \in findings' : f.thing = x
    BY <1>2 DEF NothingMissed
  <2>2. CASE x.type = t
    BY <1>1, <2>1, <2>2 DEF Sound
  <2>3. CASE x.type # t
    BY <1>1, <1>3, <2>1, <2>3 DEF NothingMissed
  <2>4. QED
    BY <2>2, <2>3
<1>9. IssuesTrue' 
  BY <1>1, <1>2 DEF IssuesTrue
<1>10. Exact'
  BY <1>1, <1>2 DEF Exact, Sound
<1>11. QED
  BY <1>2, <1>5, <1>6, <1>7, <1>8, <1>9, <1>10

LEMMA UnavailableKeeps ==
    ASSUME Inv, Unavailable
    PROVE  Inv'
<1> USE DEF Inv, InspectInv
<1>1. PICK t \in Type : /\ Detecting(t) /\ tool[Tool(t)] # "ok"
                        /\ issues' = issues \cup {t} /\ todo' = Tail(todo) /\ part' = None
                        /\ UNCHANGED <<cmd, findings, read>> /\ UNCHANGED Beside
  BY DEF Unavailable, Says
<1>2. /\ MachineInv' /\ WatchInv'
      /\ UNCHANGED <<shown, rev, tool, registry, given, changes, watch, Registered, Trusted>>
      /\ \A x : Reportable(x)' <=> Reportable(x)
      /\ \A f : \A p : Truthful(f, p)' <=> Truthful(f, p)
  BY <1>1, StillThere
<1>3. todo # <<>> /\ Head(todo) = t /\ cmd # None
  BY <1>1, Commanded DEF Detecting
<1>4. Remaining' = Remaining \ {t} /\ t \in Registered
  BY <1>1, <1>3, HeadRemains DEF Remaining
<1>5. Tool(t) \in watch.faulty
  BY <1>1, <1>3 DEF WatchInv, Tools
<1>6. TypeOK'
  <2>1. \E i \in 0..Len(registry') : todo' = SubSeq(registry', i + 1, Len(registry'))
    BY <1>1, <1>2, <1>3, TailIsRest
  <2>2. QED
    BY <1>1, <1>2, <1>3, <1>4, <2>1 DEF TypeOK
<1>7. Knows' /\ IssuesTrue' /\ Exact'
  BY <1>1, <1>2, <1>5 DEF Knows, IssuesTrue, Exact
<1>8. FoundTrue'
  BY <1>1, <1>2, <1>4 DEF FoundTrue
<1>9. NothingMissed'
  BY <1>1, <1>2, <1>4, <1>5 DEF NothingMissed
<1>10. QED
  BY <1>2, <1>6, <1>7, <1>8, <1>9

------------------------------------------------------------------------------
(* What each adapter reports is sound. *)

(* Nothing, when its tool let Setuper down. *)
LEMMA FaultIsSound ==
    ASSUME Inv, cmd # None, NEW t \in Type, ~Says(t, "ok")
    PROVE  Sound(t, {})
<1>1. Tool(t) \in watch.faulty
  BY DEF Inv, InspectInv, WatchInv, Says, Tools
<1>2. QED
  BY <1>1 DEF Sound

(* Everything it may report that is there.  A container may be too many.   *)
LEMMA AllIsSound ==
    ASSUME Inv, cmd # None, NEW t \in Type \ (Editor \cup {"docker"}), NEW F,
           \A f \in F : f.thing \in There(t) /\ f = Finding(f.thing, f.place, f.parts),
           \A x \in There(t) : \E f \in F : f.thing = x,
           \A f \in F : \A p \in f.parts : Truthful(f, p),
           Trusted => \A f \in F : f = Finding(f.thing, f.place, Whole(f.thing.type, rev[f.thing]))
    PROVE  Sound(t, F)
<1>1. shown \subseteq watch.seen /\ watch.always \subseteq shown
  BY DEF Inv, InspectInv, WatchInv
<1>2. \A f \in F : f.thing \in shown /\ f.thing.type = t /\ ~Skipped(f.thing)
  BY DEF There
<1>3. \A f \in F : Reportable(f.thing)
  BY <1>2 DEF Reportable
<1>4. \A x \in watch.always : x.type = t /\ Reportable(x) => x \in There(t)
  BY <1>1 DEF Reportable, There
<1>5. QED
  BY <1>1, <1>2, <1>3, <1>4 DEF Sound

(* One query, one state of each thing: Compose, windows and tabs. *)
LEMMA StatesAreSound ==
    ASSUME Inv, cmd # None, NEW t \in {"docker_compose", "window_geometry", "browser"}
    PROVE  Sound(t, {Finding(x, 0, State(x)) : x \in There(t)})
<1> DEFINE F == {Finding(x, 0, State(x)) : x \in There(t)}
<1>1. \A x \in There(t) : /\ Finding(x, 0, State(x)).thing = x /\ x.type = t
                          /\ Finding(x, 0, State(x)).parts = State(x)
                          /\ Finding(x, 0, State(x)) = Finding(x, 0, Whole(x.type, rev[x]))
  BY DEF Finding, State, Whole, Editor, There
<1>a. \A x \in There(t) : Finding(x, 0, State(x)).place = 0
  BY DEF Finding
<1>2. \A f \in F : /\ f.thing \in There(t) /\ f.parts = State(f.thing)
                  /\ f = Finding(f.thing, f.place, Whole(f.thing.type, rev[f.thing]))
                  /\ f = Finding(f.thing, f.place, f.parts)
  BY <1>1, <1>a
<1>3. \A x \in There(t) : \E f \in F : f.thing = x
  BY <1>1
<1>4. ASSUME NEW f \in F, NEW p \in f.parts
      PROVE  Truthful(f, p)
  <2>1. f.thing \in shown /\ p[2] = rev[f.thing]
    BY <1>2, <1>4 DEF There, State
  <2>2. QED
    BY <2>1 DEF Inv, InspectInv, WatchInv, States, Truthful
<1>5. t \in Type \ (Editor \cup {"docker"})
  BY DEF Type, Editor
<1> HIDE DEF F
<1>6. Sound(t, F)
  BY <1>2, <1>3, <1>4, <1>5, AllIsSound
<1>7. QED
  BY <1>6 DEF F

LEMMA ApplicationsAreSound ==
    ASSUME Inv, cmd # None
    PROVE  Sound("macos_app", {Finding(x, 0, {}) : x \in There("macos_app")})
<1> DEFINE F == {Finding(x, 0, {}) : x \in There("macos_app")}
<1>1. \A x \in There("macos_app") : /\ Finding(x, 0, {}).thing = x /\ Finding(x, 0, {}).parts = {}
                                    /\ Finding(x, 0, {}) = Finding(x, 0, Whole(x.type, rev[x]))
  BY DEF Finding, Whole, There
<1>a. \A x \in There("macos_app") : Finding(x, 0, {}).place = 0
  BY DEF Finding
<1>2. \A f \in F : /\ f.thing \in There("macos_app") /\ f.parts = {}
                  /\ f = Finding(f.thing, f.place, Whole(f.thing.type, rev[f.thing]))
                  /\ f = Finding(f.thing, f.place, f.parts)
  <2>1. SUFFICES ASSUME NEW x \in There("macos_app")
                 PROVE  LET f == Finding(x, 0, {})
                        IN  /\ f.thing \in There("macos_app") /\ f.parts = {}
                            /\ f = Finding(f.thing, f.place, Whole(f.thing.type, rev[f.thing]))
                            /\ f = Finding(f.thing, f.place, f.parts)
    OBVIOUS
  <2>2. QED
    BY <1>1, <1>a
<1>3. \A x \in There("macos_app") : \E f \in F : f.thing = x
  BY <1>1
<1>4. \A f \in F : \A p \in f.parts : Truthful(f, p)
  BY <1>2
<1>5. "macos_app" \in Type \ (Editor \cup {"docker"})
  BY DEF Type, Editor
<1> HIDE DEF F
<1>6. Sound("macos_app", F)
  BY <1>2, <1>3, <1>4, <1>5, AllIsSound
<1>7. QED
  BY <1>6 DEF F

LEMMA ListsKeep ==
    ASSUME Inv, ListProjects \/ ListApplications \/ ListWindows \/ ListBrowserWindows
    PROVE  Inv'
<1>1. ASSUME NEW t \in Type, NEW F, Lists(t, F), cmd # None => Sound(t, F)
      PROVE  Inv'
  <2>1. todo # <<>> /\ Head(todo) = t /\ cmd # None
    BY <1>1, Commanded DEF Lists, Detecting, Inv
  <2>2. CASE Says(t, "ok") /\ Detected(F)
    BY <1>1, <2>1, <2>2, DetectedKeeps
  <2>3. CASE Says(t, "fails") /\ Detected({})
    <3>1. ~Says(t, "ok")
      BY <2>3 DEF Says
    <3>2. QED
      BY <2>1, <2>3, <3>1, FaultIsSound, DetectedKeeps
  <2>4. QED
    BY <1>1, <2>2, <2>3 DEF Lists
<1>2. CASE ListProjects
  BY <1>1, <1>2, StatesAreSound DEF ListProjects, Type
<1>3. CASE ListWindows
  BY <1>1, <1>3, StatesAreSound DEF ListWindows, Type
<1>4. CASE ListBrowserWindows
  BY <1>1, <1>4, StatesAreSound DEF ListBrowserWindows, Type
<1>5. CASE ListApplications
  BY <1>1, <1>5, ApplicationsAreSound DEF ListApplications, Type
<1>6. QED
  BY <1>2, <1>3, <1>4, <1>5

LEMMA DockerIsSound ==
    ASSUME Inv, todo # <<>>, Head(todo) = "docker", part # None
    PROVE  LET here == part \cap shown
           IN  /\ Cardinality(here) <= MaxContainers => Sound("docker", {Finding(x, 0, {}) : x \in here})
               /\ Cardinality(here) > MaxContainers => Sound("docker", {})
<1> DEFINE here == part \cap shown
           F == {Finding(x, 0, {}) : x \in here}
<1>1. cmd # None
  BY Commanded DEF Inv
<1>2. DockerKnows
  BY DEF Inv, InspectInv, Knows, Detecting
<1>3. /\ shown \subseteq watch.seen /\ watch.always \subseteq shown /\ IsFiniteSet(watch.seen)
      /\ watch.quiet => watch.seen = shown /\ watch.always = shown
  BY <1>1 DEF Inv, InspectInv, WatchInv
<1>4. \A x \in here : x.type = "docker" /\ ~Skipped(x) /\ x.type \notin Editor
  BY <1>2 DEF DockerKnows, Skipped, ForeignProcess, PrivateWindow, UnreadableWindow, Editor
<1>5. {y \in here : y.type = "docker"} = here /\ here \subseteq watch.seen
  BY <1>2, <1>3, <1>4
<1>6. \A x \in watch.always : x.type = "docker" => x \in here
  BY <1>2, <1>3 DEF DockerKnows
<1>7. "docker" \notin Editor
  BY DEF Editor
<1>8. ASSUME Cardinality(here) <= MaxContainers
      PROVE  Sound("docker", F)
  <2>1. \A x \in here : /\ Finding(x, 0, {}).thing = x /\ Finding(x, 0, {}).parts = {}
                        /\ Finding(x, 0, {}).place = 0
                        /\ Finding(x, 0, {}) = Finding(x, 0, Whole(x.type, rev[x]))
    BY <1>4 DEF Finding, Whole
  <2>2. \A f \in F : /\ f.thing \in here /\ f.parts = {}
                     /\ f = Finding(f.thing, f.place, Whole(f.thing.type, rev[f.thing]))
                     /\ f = Finding(f.thing, f.place, f.parts)
    <3>1. SUFFICES ASSUME NEW x \in here
                   PROVE  LET f == Finding(x, 0, {})
                          IN  /\ f.thing \in here /\ f.parts = {}
                              /\ f = Finding(f.thing, f.place, Whole(f.thing.type, rev[f.thing]))
                              /\ f = Finding(f.thing, f.place, f.parts)
      OBVIOUS
    <3>2. QED
      BY <2>1
  <2>3. \A x \in here : \E f \in F : f.thing = x
    BY <2>1
  <2>4. Trusted => \A x \in here : Reportable(x)
    <3>1. SUFFICES ASSUME Trusted, NEW x \in here PROVE Reportable(x)
      OBVIOUS
    <3>2. {y \in watch.seen : y.type = "docker"} = here
      BY <1>3, <1>4, <1>5, <1>6, <3>1 DEF Trusted
    <3>3. QED
      BY <1>4, <1>8, <3>2 DEF Reportable
  <2> HIDE DEF F
  <2>5. QED
    BY <1>4, <1>5, <1>6, <1>7, <2>2, <2>3, <2>4 DEF Sound
<1>9. ASSUME Cardinality(here) > MaxContainers
      PROVE  Sound("docker", {})
  <2>1. ~(Cardinality({y \in watch.seen : y.type = "docker"}) <= MaxContainers)
    <3>1. SUFFICES ASSUME Cardinality({y \in watch.seen : y.type = "docker"}) <= MaxContainers
                   PROVE  FALSE
      OBVIOUS
    <3>2. Cardinality(here) <= MaxContainers
      BY <1>3, <1>5, <3>1, FewContainers
    <3>3. Cardinality(here) \in Nat
      BY <1>3, <1>5, FS_Subset, FS_CardinalityType
    <3>4. QED
      BY <1>9, <3>2, <3>3, BoundAssumption
  <2>2. \A x \in watch.always : x.type = "docker" => ~Reportable(x)
    BY <2>1 DEF Reportable
  <2>3. QED
    BY <1>7, <2>2 DEF Sound
<1>10. QED
  BY <1>8, <1>9

LEMMA ContainersKeep ==
    ASSUME Inv, ListContainers \/ InspectContainers
    PROVE  Inv'
<1>1. todo # <<>> /\ Head(todo) = "docker" /\ cmd # None
  BY Commanded DEF Inv, ListContainers, InspectContainers, Detecting
<1>2. "docker" \in Type
  BY DEF Type
<1>3. CASE Says("docker", "fails") /\ Detected({})
  <2>1. ~Says("docker", "ok")
    BY <1>3 DEF Says
  <2>2. QED
    BY <1>1, <1>2, <1>3, <2>1, FaultIsSound, DetectedKeeps
<1>4. CASE ListContainers /\ ~(Says("docker", "fails") /\ Detected({}))
  <2>1. \A x \in watch.always : x.type = "docker" => x \in There("docker")
    BY <1>1 DEF Inv, InspectInv, WatchInv, There, Skipped, ForeignProcess, PrivateWindow, UnreadableWindow
  <2>2. CASE Learns(There("docker"))
    <3>1. part' = There("docker") /\ todo' = todo /\ watch' = watch
      BY <2>2, StillThere DEF Learns
    <3>2. There("docker") \subseteq {y \in watch.seen : y.type = "docker"}
      BY <1>1 DEF Inv, InspectInv, WatchInv, There
    <3>3. DockerKnows'
      BY <2>1, <3>1, <3>2 DEF DockerKnows
    <3>4. Knows'
      BY <1>1, <3>1, <3>3 DEF Knows, Detecting, Editor
    <3>5. QED
      BY <1>1, <2>2, <3>4, LearnsKeeps
  <2>3. CASE There("docker") = {} /\ Detected({})
    <3>1. Sound("docker", {})
      BY <2>1, <2>3 DEF Sound
    <3>2. QED
      BY <1>1, <2>3, <3>1, DetectedKeeps
  <2>4. QED
    BY <1>4, <2>2, <2>3 DEF ListContainers
<1>5. CASE InspectContainers /\ ~(Says("docker", "fails") /\ Detected({}))
  <2>1. part # None
    BY <1>5 DEF InspectContainers
  <2>2. CASE Cardinality(part \cap shown) <= MaxContainers
              /\ Detected({Finding(x, 0, {}) : x \in part \cap shown})
    <3>1. Sound("docker", {Finding(x, 0, {}) : x \in part \cap shown})
      BY <1>1, <2>1, <2>2, DockerIsSound
    <3>2. QED
      BY <1>1, <2>2, <3>1, DetectedKeeps
  <2>3. CASE Cardinality(part \cap shown) > MaxContainers /\ Detected({})
    <3>1. Sound("docker", {})
      BY <1>1, <2>1, <2>3, DockerIsSound
    <3>2. QED
      BY <1>1, <2>3, <3>1, DetectedKeeps
  <2>4. QED
    BY <1>5, <2>2, <2>3 DEF InspectContainers
<1>6. QED
  BY <1>3, <1>4, <1>5

LEMMA ToolsTrusted ==
    ASSUME Inv, cmd # None, Trusted, NEW t \in Type
    PROVE  Says(t, "ok") /\ watch.seen = shown /\ watch.always = shown
BY DEF Inv, InspectInv, WatchInv, Trusted, Says, Tools

LEMMA ProcessesKeep ==
    ASSUME Inv, ListListeners \/ IterateProcesses
    PROVE  Inv'
<1>1. todo # <<>> /\ Head(todo) = "process" /\ cmd # None
  BY Commanded DEF Inv, ListListeners, IterateProcesses, Detecting
<1>2. "process" \in Type \ (Editor \cup {"docker"})
  BY DEF Type, Editor
<1>3. CASE ListListeners
  <2> DEFINE what == IF Says("process", "ok") THEN {<<x.pid, rev[x]>> : x \in There("process")} ELSE {}
  <2>1. Learns(what)
    BY <1>3 DEF ListListeners
  <2>2. Trusted => what = {<<x.pid, rev[x]>> : x \in There("process")}
    BY <1>1, <1>2, ToolsTrusted
  <2>a. \A q \in what : \E y \in watch.seen : /\ y.type = "process" /\ y.pid = q[1]
                                              /\ <<y, q[2]>> \in watch.states
    <3>1. \A x \in There("process") : /\ x \in watch.seen /\ x.type = "process"
                                      /\ <<x, rev[x]>> \in watch.states
      BY <1>1 DEF Inv, InspectInv, WatchInv, States, There
    <3>2. what \subseteq {<<x.pid, rev[x]>> : x \in There("process")}
      OBVIOUS
    <3>3. ASSUME NEW q \in what
          PROVE  \E y \in watch.seen : /\ y.type = "process" /\ y.pid = q[1]
                                       /\ <<y, q[2]>> \in watch.states
      <4>1. PICK x \in There("process") : q = <<x.pid, rev[x]>>
        BY <3>2
      <4>2. q[1] = x.pid /\ q[2] = rev[x]
        BY <4>1
      <4>3. QED
        BY <3>1, <4>2
    <3>4. QED
      BY <3>3
  <2> HIDE DEF what
  <2>3. /\ part' = what /\ todo' = todo /\ rev' = rev /\ Trusted' = Trusted /\ watch' = watch
        /\ There("process")' = There("process")
    BY <2>1, StillThere DEF Learns
  <2>4. ProcessKnows'
    BY <2>2, <2>a, <2>3 DEF ProcessKnows
  <2>5. Knows'
    BY <1>1, <2>3, <2>4 DEF Knows, Detecting, Editor
  <2>6. QED
    BY <1>1, <2>1, <2>5, LearnsKeeps
<1>4. CASE IterateProcesses
  <2> DEFINE ports(x) == {<<"ports", p[2]>> : p \in {q \in part : q[1] = x.pid}}
             F == {Finding(x, 0, ports(x)) : x \in There("process")}
  <2>1. Detected(F) /\ part # None
    BY <1>4 DEF IterateProcesses
  <2>2. ASSUME Trusted, NEW x \in There("process")
        PROVE  ports(x) = Whole(x.type, rev[x])
    <3>1. part = {<<y.pid, rev[y]>> : y \in There("process")}
      BY <1>1, <2>1, <2>2 DEF Inv, InspectInv, Knows, ProcessKnows, Detecting
    <3>2. \A y \in There("process") : y.pid = x.pid => y = x
      BY <2>2 DEF Inv, InspectInv, MachineInv, Possible, Exclusive, There
    <3>3. <<x.pid, rev[x]>> \in part
      BY <2>2, <3>1
    <3>4. {q \in part : q[1] = x.pid} = {<<x.pid, rev[x]>>}
      BY <3>1, <3>2, <3>3
    <3>5. Whole(x.type, rev[x]) = {<<"ports", rev[x]>>}
      BY <2>2 DEF Whole, There, Editor
    <3>6. {<<"ports", p[2]>> : p \in {<<x.pid, rev[x]>>}} = {<<"ports", rev[x]>>}
      OBVIOUS
    <3>7. QED
      BY <3>4, <3>5, <3>6
  <2>a. ASSUME NEW f, f.thing \in There("process"), NEW p \in ports(f.thing)
        PROVE  Truthful(f, p)
    <3>1. PICK q \in part : q[1] = f.thing.pid /\ p = <<"ports", q[2]>>
      BY <2>a
    <3>2. PICK y \in watch.seen : /\ y.type = "process" /\ y.pid = q[1]
                                  /\ <<y, q[2]>> \in watch.states
      BY <1>1, <2>1 DEF Inv, InspectInv, Knows, ProcessKnows, Detecting
    <3>3. p[1] = "ports" /\ p[2] = q[2]
      BY <3>1
    <3>4. CASE y = f.thing
      BY <3>2, <3>3, <3>4 DEF Truthful
    <3>5. CASE y # f.thing
      <4>1. Exclusive(f.thing, y)
        BY <2>a, <3>1, <3>2, <3>5 DEF Exclusive, There
      <4>2. f.thing \notin watch.always
        BY <1>1, <3>2, <4>1 DEF Inv, InspectInv, WatchInv
      <4>3. QED
        BY <3>2, <3>3, <4>1, <4>2 DEF Truthful
    <3>6. QED
      BY <3>4, <3>5
  <2> HIDE DEF ports
  <2>3. \A x \in There("process") : LET f == Finding(x, 0, ports(x))
                                    IN  f.thing = x /\ f.place = 0 /\ f.parts = ports(x)
    BY DEF Finding
  <2>4. \A f \in F : /\ f.thing \in There("process") /\ f.parts = ports(f.thing)
                     /\ f.place = 0 /\ f = Finding(f.thing, 0, ports(f.thing))
    BY <2>3
  <2>5. \A x \in There("process") : \E f \in F : f.thing = x
    BY <2>3
  <2>6. \A f \in F : \A p \in f.parts : Truthful(f, p)
    BY <2>a, <2>4
  <2>7. Trusted => \A f \in F : f = Finding(f.thing, f.place, Whole(f.thing.type, rev[f.thing]))
    BY <2>2, <2>4
  <2> HIDE DEF F
  <2>8. Sound("process", F)
    BY <1>1, <1>2, <2>4, <2>5, <2>6, <2>7, AllIsSound
  <2>9. QED
    BY <1>1, <2>1, <2>8, DetectedKeeps
<1>5. QED
  BY <1>3, <1>4

(* There is one repository around the current directory at a time. *)
LEMMA OneRepository ==
    ASSUME Inv, cmd # None, NEW x \in There("git"), NEW y \in watch.always, y.type = "git"
    PROVE  y = x
BY DEF Inv, InspectInv, MachineInv, WatchInv, Possible, Exclusive, There

LEMMA RootKeeps ==
    ASSUME Inv, GitRoot
    PROVE  Inv'
<1>1. todo # <<>> /\ Head(todo) = "git" /\ cmd # None
  BY Commanded DEF Inv, GitRoot, Detecting
<1>2. "git" \in Type /\ "git" \notin Editor
  BY DEF Type, Editor
<1>3. CASE Says("git", "fails") /\ Detected({})
  <2>1. ~Says("git", "ok")
    BY <1>3 DEF Says
  <2>2. QED
    BY <1>1, <1>2, <1>3, <2>1, FaultIsSound, DetectedKeeps
<1>4. CASE There("git") = {} /\ Detected({})
  <2>1. \A x \in watch.always : x.type = "git" => ~Reportable(x)
    BY <1>1, <1>4 DEF Inv, InspectInv, WatchInv, There, Reportable
  <2>2. Sound("git", {})
    BY <1>2, <2>1 DEF Sound
  <2>3. QED
    BY <1>1, <1>4, <2>2, DetectedKeeps
<1>5. ASSUME NEW x \in There("git"), Learns([repo |-> x, known |-> <<>>])
      PROVE  Inv'
  <2>1. /\ part' = [repo |-> x, known |-> <<>>] /\ todo' = todo
        /\ watch' = watch /\ rev' = rev /\ Trusted' = Trusted
    BY <1>5, StillThere DEF Learns
  <2>2. x \in watch.seen /\ x.type = "git"
    BY <1>1 DEF Inv, InspectInv, WatchInv, There
  <2>3. \A y \in watch.always : y.type = "git" => y = x
    BY <1>1, OneRepository
  <2>4. GitKnows'
    BY <2>1, <2>2, <2>3 DEF GitKnows
  <2>5. Knows'
    BY <1>1, <1>2, <2>1, <2>4 DEF Knows, Detecting
  <2>6. QED
    BY <1>1, <1>5, <2>5, LearnsKeeps
<1>6. QED
  BY <1>3, <1>4, <1>5 DEF GitRoot

LEMMA StateKeeps ==
    ASSUME Inv, GitState
    PROVE  Inv'
<1>1. todo # <<>> /\ Head(todo) = "git" /\ part # None /\ cmd # None
  BY Commanded DEF Inv, GitState, Detecting
<1>2. "git" \in Type /\ "git" \notin Editor
  BY DEF Type, Editor
<1>3. GitKnows
  BY <1>1 DEF Inv, InspectInv, Knows, Detecting
<1>4. part.repo \in watch.seen /\ part.repo \in Thing /\ ~Skipped(part.repo) /\ part.repo.type = "git"
  BY <1>3 DEF Inv, TypeOK, GitKnows, Skipped, ForeignProcess, PrivateWindow, UnreadableWindow
<1>5. part.known \in Seq(Rev \cup {None}) /\ Len(part.known) \in Nat /\ Len(part.known) < 3
  BY <1>3 DEF GitKnows
<1>6. /\ Len(GitField) = 3
      /\ GitField[1] = "branch" /\ GitField[2] = "commit" /\ GitField[3] = "dirty"
  BY DEF GitField
<1>7. rev[part.repo] \in Rev /\ Clean \in Rev
  BY <1>4, RevAssumption DEF Inv, TypeOK, Clean
<1> DEFINE answer == IF Says("git", "ok") /\ part.repo \in shown THEN rev[part.repo]
                     ELSE IF Len(part.known) + 1 = Len(GitField) THEN Clean ELSE None
           known == Append(part.known, answer)
           fields == {<<GitField[i], known[i]>> : i \in {j \in DOMAIN known : known[j] # None}}
<1>8. IF Len(known) < Len(GitField) THEN Learns([part EXCEPT !.known = known])
      ELSE Detected({Finding(part.repo, 0, fields)})
  BY DEF GitState
<1>9. answer \in Rev \cup {None}
  BY <1>7
<1>10. Trusted => answer = rev[part.repo]
  <2>1. ASSUME Trusted PROVE Says("git", "ok") /\ part.repo \in shown
    BY <1>1, <1>2, <1>4, <2>1, ToolsTrusted
  <2>2. QED
    BY <2>1
<1>a. \/ <<part.repo, answer>> \in watch.states
      \/ answer = None
      \/ /\ answer = Clean /\ Len(part.known) = 2
         /\ (part.repo \notin watch.always \/ "git" \in watch.faulty)
  <2>1. States \subseteq watch.states /\ watch.always \subseteq shown
        /\ (tool[Tool("git")] # "ok" => Tool("git") \in watch.faulty)
    BY <1>1, <1>2 DEF Inv, InspectInv, WatchInv, Tools
  <2>2. Tool("git") = "git"
    BY DEF Tool
  <2>3. CASE Says("git", "ok") /\ part.repo \in shown
    BY <2>1, <2>3 DEF States
  <2>4. CASE ~(Says("git", "ok") /\ part.repo \in shown)
    <3>1. part.repo \notin watch.always \/ "git" \in watch.faulty
      BY <2>1, <2>2, <2>4 DEF Says
    <3>2. (answer = Clean /\ Len(part.known) + 1 = 3) \/ answer = None
      BY <1>6, <2>4
    <3>3. QED
      BY <1>5, <3>1, <3>2
  <2>5. QED
    BY <2>3, <2>4
<1> HIDE DEF answer
<1>11. /\ known \in Seq(Rev \cup {None}) /\ Len(known) = Len(part.known) + 1
       /\ known[Len(part.known) + 1] = answer
       /\ \A i \in 1..Len(part.known) : known[i] = part.known[i]
  BY <1>5, <1>9
<1> HIDE DEF known
<1>12. Trusted => \A i \in 1..Len(known) : known[i] = rev[part.repo]
  BY <1>3, <1>5, <1>10, <1>11 DEF GitKnows
<1>13. CASE Len(known) < 3
  <2>1. Learns([part EXCEPT !.known = known])
    BY <1>6, <1>8, <1>13
  <2>2. [part EXCEPT !.known = known] = [repo |-> part.repo, known |-> known]
    BY <1>3 DEF GitKnows
  <2>3. /\ part' = [repo |-> part.repo, known |-> known] /\ todo' = todo
        /\ watch' = watch /\ rev' = rev /\ Trusted' = Trusted
    BY <2>1, <2>2, StillThere DEF Learns
  <2>4. part'.repo = part.repo /\ part'.known = known
    BY <2>3
  <2>5. GitKnows'
    <3>1. \A i \in 1..Len(known) : known[i] # None => <<part.repo, known[i]>> \in watch.states
      <4>1. answer = None \/ <<part.repo, answer>> \in watch.states
        BY <1>5, <1>11, <1>13, <1>a
      <4>2. QED
        BY <1>3, <1>5, <1>11, <4>1 DEF GitKnows
    <3>2. QED
      BY <1>3, <1>4, <1>11, <1>12, <1>13, <2>3, <2>4, <3>1 DEF GitKnows
  <2>6. Knows'
    BY <1>1, <1>2, <2>3, <2>5 DEF Knows, Detecting
  <2>7. QED
    BY <1>1, <2>1, <2>6, LearnsKeeps
<1>14. CASE ~(Len(known) < 3)
  <2>1. Detected({Finding(part.repo, 0, fields)})
    BY <1>6, <1>8, <1>14
  <2>2. Len(known) = 3 /\ DOMAIN known = 1..3
    <3>1. Len(known) = Len(part.known) + 1 /\ DOMAIN known = 1..Len(known)
      BY <1>11
    <3>2. QED
      BY <1>5, <1>14, <3>1
  <2>3. ASSUME Trusted PROVE fields = Whole(part.repo.type, rev[part.repo])
    <3>1. known[1] = rev[part.repo] /\ known[2] = rev[part.repo] /\ known[3] = rev[part.repo]
      BY <1>12, <2>2, <2>3
    <3>2. {j \in DOMAIN known : known[j] # None} = {1, 2, 3}
      BY <1>7, <2>2, <3>1, NoneAssumption
    <3>3. fields = {<<GitField[i], known[i]>> : i \in {1, 2, 3}}
      BY <3>2
    <3>4. fields = {<<"branch", rev[part.repo]>>, <<"commit", rev[part.repo]>>, <<"dirty", rev[part.repo]>>}
      BY <1>6, <3>1, <3>3
    <3>5. QED
      BY <1>2, <1>4, <3>4 DEF Whole
  <2>a. Len(part.known) = 2
    <3>1. Len(part.known) \in Nat
      BY <1>5
    <3>2. 3 = Len(part.known) + 1
      BY <1>11, <2>2
    <3>3. \A n \in Nat : 3 = n + 1 => n = 2
      OBVIOUS
    <3>4. QED
      BY <3>1, <3>2, <3>3
  <2>b. ASSUME NEW f, f.thing = part.repo, NEW p \in fields
        PROVE  Truthful(f, p)
    <3>1. PICK i \in 1..3 : known[i] # None /\ p = <<GitField[i], known[i]>>
      BY <2>2, <2>b
    <3>2. p[2] = known[i]
      BY <3>1
    <3>3. CASE <<part.repo, known[i]>> \in watch.states
      BY <2>b, <3>2, <3>3 DEF Truthful
    <3>4. CASE <<part.repo, known[i]>> \notin watch.states
      <4>1. i = 3 /\ known[i] = answer
        <5>1. i \in 1..2 => known[i] = part.known[i] /\ i \in 1..Len(part.known)
          BY <1>11, <2>a
        <5>2. i \notin 1..2
          BY <1>3, <3>1, <3>4, <5>1 DEF GitKnows
        <5>3. i = 3
          BY <5>2
        <5>4. QED
          BY <1>11, <2>a, <5>3
      <4>2. p = <<"dirty", Clean>> /\ (part.repo \notin watch.always \/ "git" \in watch.faulty)
        BY <1>6, <1>a, <3>1, <3>4, <4>1
      <4>3. QED
        BY <2>b, <4>2 DEF Truthful
    <3>5. QED
      BY <3>3, <3>4
  <2> HIDE DEF fields
  <2> DEFINE f == Finding(part.repo, 0, fields)
  <2>4. /\ f.thing = part.repo /\ f.parts = fields /\ f = Finding(f.thing, f.place, f.parts)
        /\ Trusted => f = Finding(f.thing, f.place, Whole(f.thing.type, rev[f.thing]))
    BY <2>3 DEF Finding
  <2>5. Reportable(part.repo)
    BY <1>2, <1>4 DEF Reportable
  <2>6. \A x \in watch.always : x.type = "git" => x = f.thing
    BY <1>3, <2>4 DEF GitKnows
  <2> HIDE DEF f
  <2>7. Sound("git", {f})
    BY <1>2, <1>4, <2>b, <2>4, <2>5, <2>6 DEF Sound
  <2>8. QED
    BY <1>1, <2>1, <2>7, DetectedKeeps DEF f
<1>15. QED
  BY <1>13, <1>14

------------------------------------------------------------------------------
(* An editor's workspaces, one path at a time. *)

LEMMA RecentTypes ==
    ASSUME NEW t \in Editor, NEW i \in Recent(Storage[t])
    PROVE  /\ i \in DOMAIN Storage[t]
           /\ Storage[t][i].opens \in Thing /\ Storage[t][i].opens.type = t
<1>1. i \in DOMAIN Storage[t] /\ Storage[t][i].opens # None
  BY DEF Recent, Fresh
<1>2. QED
  BY <1>1, StorageAssumption

LEMMA StorageKeeps ==
    ASSUME Inv, ReadStorage
    PROVE  Inv'
<1>1. PICK t \in Editor : /\ Detecting(t)
                          /\ \/ Says(t, "ok") /\ Learns(Recent(Storage[t]))
                             \/ Says(t, "fails") /\ Detected({})
  BY DEF ReadStorage
<1>2. todo # <<>> /\ Head(todo) = t /\ cmd # None /\ t \in Type
  BY <1>1, Commanded DEF Inv, Detecting, Type
<1>3. CASE Learns(Recent(Storage[t]))
  <2>1. /\ part' = Recent(Storage[t]) /\ todo' = todo /\ watch' = watch /\ findings' = findings
        /\ \A x : Reportable(x)' <=> Reportable(x)
    BY <1>3, StillThere DEF Learns
  <2>2. \A x : x.type = t /\ Reportable(x) => \E i \in Recent(Storage[t]) : Storage[t][i].opens = x
    BY DEF Reportable
  <2>4. EditorKnows(t)'
    BY <2>1, <2>2 DEF EditorKnows
  <2>5. Knows'
    BY <1>2, <2>1, <2>4 DEF Knows, Detecting, Editor
  <2>6. QED
    BY <1>2, <1>3, <2>5, LearnsKeeps
<1>4. CASE Says(t, "fails") /\ Detected({})
  <2>1. ~Says(t, "ok")
    BY <1>4 DEF Says
  <2>2. QED
    BY <1>2, <1>4, <2>1, FaultIsSound, DetectedKeeps
<1>5. QED
  BY <1>1, <1>3, <1>4

LEMMA PathKeeps ==
    ASSUME Inv, CheckPath
    PROVE  Inv'
<1>1. PICK t \in Editor :
          /\ Detecting(t) /\ part # None
          /\ \/ part = {} /\ Detected({})
             \/ \E i \in part :
                    /\ \A j \in part : i <= j
                    /\ findings' = findings \cup {Finding(x, i, {}) : x \in {Storage[t][i].opens} \cap shown}
                    /\ part' = part \ {i}
                    /\ UNCHANGED <<cmd, todo, issues, read>> /\ UNCHANGED Beside
  BY DEF CheckPath
<1>2. todo # <<>> /\ Head(todo) = t /\ cmd # None /\ t \in Type
  BY <1>1, Commanded DEF Inv, Detecting, Type
<1>3. EditorKnows(t)
  BY <1>1 DEF Inv, InspectInv, Knows
<1>4. CASE part = {} /\ Detected({})
  <2>1. \A x \in watch.always : x.type = t /\ Reportable(x) => \E f \in findings : f.thing = x
    BY <1>3, <1>4 DEF EditorKnows
  <2>2. Sound(t, {})
    BY <2>1 DEF Sound
  <2>3. QED
    BY <1>2, <1>4, <2>2, DetectedKeeps
<1>5. ASSUME NEW i \in part,
             findings' = findings \cup {Finding(x, i, {}) : x \in {Storage[t][i].opens} \cap shown},
             part' = part \ {i},
             UNCHANGED <<cmd, todo, issues, read>>, UNCHANGED Beside
      PROVE  Inv'
  <2> USE DEF Inv, InspectInv
  <2> DEFINE y == Storage[t][i].opens
             new == {Finding(x, i, {}) : x \in {y} \cap shown}
  <2>2. /\ MachineInv' /\ WatchInv'
        /\ UNCHANGED <<shown, rev, tool, registry, given, changes, watch, Registered, Trusted>>
        /\ \A x : Reportable(x)' <=> Reportable(x)
        /\ \A f : \A p : Truthful(f, p)' <=> Truthful(f, p)
    BY <1>5, StillThere
  <2>3. i \in Recent(Storage[t]) /\ y \in Thing /\ y.type = t
    BY <1>3, RecentTypes DEF EditorKnows
  <2>4. t # "docker" /\ t # "process" /\ t # "browser" /\ t # "window_geometry" /\ t # "git"
    BY DEF Editor
  <2>5. ~Skipped(y) /\ Reportable(y)
    BY <2>3, <2>4 DEF Skipped, ForeignProcess, PrivateWindow, UnreadableWindow, Reportable
  <2>6. /\ Finding(y, i, {}).thing = y /\ Finding(y, i, {}).place = i /\ Finding(y, i, {}).parts = {}
    BY DEF Finding
  <2>7. findings' = findings \cup new
    BY <1>5
  <2>8. \A f \in new : /\ f.thing = y /\ f.thing \in shown
                       /\ f.parts = {} /\ f = Finding(f.thing, f.place, f.parts)
    <3>1. \A f \in new : f = Finding(y, i, {}) /\ y \in shown
      OBVIOUS
    <3>2. QED
      BY <2>6, <3>1
  <2>9. y \in shown => \E f \in new : f.thing = y
    <3>1. y \in shown => Finding(y, i, {}) \in new
      OBVIOUS
    <3>2. QED
      BY <2>6, <3>1
  <2> HIDE DEF new, y
  <2>10. TypeOK'
    BY <1>2, <1>5, <2>2, <2>3, <2>7, <2>8 DEF TypeOK
  <2>11. FoundTrue'
    BY <1>2, <2>2, <2>5, <2>7, <2>8 DEF FoundTrue, WatchInv
  <2>12. NothingMissed'
    BY <1>5, <2>2, <2>7 DEF NothingMissed, Remaining
  <2>13. Knows'
    <3>1. ASSUME NEW x \in watch.always, x.type = t, Reportable(x)
          PROVE  (\E j \in part' : Storage[t][j].opens = x) \/ \E f \in findings' : f.thing = x
      <4>1. CASE \E f \in findings : f.thing = x
        BY <2>7, <4>1
      <4>2. CASE y = x
        BY <1>2, <2>7, <2>9, <4>2 DEF WatchInv
      <4>3. CASE y # x /\ \E j \in part : Storage[t][j].opens = x
        BY <1>5, <4>3 DEF y
      <4>4. QED
        BY <1>3, <3>1, <4>1, <4>2, <4>3 DEF EditorKnows
    <3>2. part' \subseteq Recent(Storage[t])
      BY <1>3, <1>5 DEF EditorKnows
    <3>3. EditorKnows(t)'
      BY <2>2, <3>1, <3>2 DEF EditorKnows
    <3>4. QED
      BY <1>2, <1>5, <2>4, <3>3 DEF Knows, Detecting
  <2>14. IssuesTrue'
    BY <1>5, <2>2 DEF IssuesTrue
  <2>15. Exact'
    <3>1. \A f \in new : f = Finding(f.thing, f.place, Whole(f.thing.type, rev[f.thing])) /\ Reportable(f.thing)
      BY <2>3, <2>5, <2>8 DEF Whole
    <3>2. QED
      BY <2>2, <2>7, <3>1 DEF Exact
  <2>16. QED
    BY <2>2, <2>10, <2>11, <2>12, <2>13, <2>14, <2>15
<1>6. QED
  BY <1>1, <1>4, <1>5

------------------------------------------------------------------------------
(* The theorems. *)

LEMMA StutterKeeps ==
    ASSUME Inv, UNCHANGED vars
    PROVE  Inv'
<1>1. UNCHANGED <<cmd, todo, part, findings, issues, read>> /\ UNCHANGED Beside
  BY DEF vars, command, Beside, machine
<1>2. /\ MachineInv' /\ WatchInv'
      /\ UNCHANGED <<shown, rev, tool, registry, given, changes, watch, Registered, Trusted>>
      /\ \A x : Reportable(x)' <=> Reportable(x)
      /\ \A f : \A p : Truthful(f, p)' <=> Truthful(f, p)
      /\ \A t : There(t)' = There(t)
  BY <1>1, StillThere
<1>3. TypeOK'
  BY <1>1, <1>2 DEF Inv, TypeOK
<1>4. FoundTrue' /\ NothingMissed' /\ IssuesTrue' /\ Exact'
  BY <1>1, <1>2 DEF Inv, InspectInv, FoundTrue, NothingMissed, IssuesTrue, Exact, Remaining
<1>5. Knows'
  BY <1>1, <1>2 DEF Inv, InspectInv, Knows, DockerKnows, ProcessKnows, GitKnows, EditorKnows, Detecting
<1>6. QED
  BY <1>2, <1>3, <1>4, <1>5 DEF Inv, InspectInv

LEMMA NextKeeps ==
    ASSUME Inv, [Next]_vars
    PROVE  Inv'
<1>1. CASE Begin
  BY <1>1, BeginKeeps
<1>2. CASE Finishing \/ Raises
  BY <1>2, EndKeeps
<1>3. CASE Changing
  BY <1>3, ChangingKeeps
<1>4. CASE Inspecting /\ ~Raises
  BY <1>4, UnavailableKeeps, ListsKeep, ContainersKeep, ProcessesKeep, RootKeeps, StateKeeps,
     StorageKeeps, PathKeeps DEF Inspecting
<1>5. CASE UNCHANGED vars
  BY <1>5, StutterKeeps
<1>6. QED
  BY <1>1, <1>2, <1>3, <1>4, <1>5 DEF Next

(* The types, and what an inspection knows and has found at every step of  *)
(* every adapter.  Code: capture_service.py inspect, the adapters' detect. *)
THEOREM InspectionKnows == Spec => []Inv
BY InitInv, NextKeeps, PTL DEF Spec

(* The variables have their types in every execution; the adapters that    *)
(* are left are the end of the registry.  Code: capture_service.py inspect.*)
THEOREM CaptureTypes == Spec => []TypeOK
<1>1. Inv => TypeOK
  BY DEF Inv
<1>2. QED
  BY <1>1, InspectionKnows, PTL

LEMMA InvIsHonest == Inv => ReportIsHonest
<1> SUFFICES ASSUME Inv, cmd # None, todo = <<>>
             PROVE  /\ \A f \in findings : /\ f.thing \in watch.seen /\ ~Skipped(f.thing)
                                           /\ \A p \in f.parts : Truthful(f, p)
                    /\ \A x \in watch.always :
                           \/ ~Reportable(x) \/ Tool(x.type) \in watch.faulty
                           \/ \E f \in findings : f.thing = x
                    /\ \A t \in issues : Tool(t) \in watch.faulty
  BY DEF ReportIsHonest
<1> USE DEF Inv, InspectInv
<1>1. Remaining = {}
  BY DEF Remaining
<1>2. \A x \in watch.always : \/ ~Reportable(x) \/ Tool(x.type) \in watch.faulty
                              \/ \E f \in findings : f.thing = x
  BY <1>1 DEF NothingMissed
<1>3. QED
  BY <1>2 DEF FoundTrue, IssuesTrue

(* Whatever the machine does between the queries of an inspection, and     *)
(* however its tools fail, the report is honest: nothing invented, nothing *)
(* of others, no detail that was never so, nothing missing that was there  *)
(* all the time and whose tool answered.  Code: capture_service.py inspect *)
(* and the adapters' detect.                                               *)
THEOREM InspectionsAreHonest == Spec => []ReportIsHonest
BY InvIsHonest, InspectionKnows, PTL

(* Only a save or an update changes the stored manifest. *)
LEMMA OnlyStores ==
    ASSUME [Next]_vars, ~UNCHANGED <<saved, origin>>
    PROVE  Stores
<1>1. ~Begin
  BY DEF Begin
<1>2. ~Changing
  BY DEF Changing, Appears, Vanishes, Turns, ToolTurns, Changed
<1>3. ~Unavailable /\ ~Raises
  BY DEF Unavailable, Raises, Beside
<1>4. ~ListProjects /\ ~ListApplications /\ ~ListWindows /\ ~ListBrowserWindows
  BY DEF ListProjects, ListApplications, ListWindows, ListBrowserWindows, Lists, Detected, Beside
<1>5. ~ListContainers /\ ~InspectContainers /\ ~ListListeners /\ ~IterateProcesses
  BY DEF ListContainers, InspectContainers, ListListeners, IterateProcesses, Learns, Detected, Beside
<1>6. ~GitRoot /\ ~GitState /\ ~ReadStorage /\ ~CheckPath
  BY DEF GitRoot, GitState, ReadStorage, CheckPath, Learns, Detected, Beside
<1>7. ~PrintInspection /\ ~Refused /\ ~ManifestRaises /\ ~Previews /\ ~StoreFails /\ ~Diffs
  BY DEF PrintInspection, Refused, ManifestRaises, Previews, StoreFails, Diffs
<1>8. ~UNCHANGED vars
  BY DEF vars
<1>9. QED
  BY <1>1, <1>2, <1>3, <1>4, <1>5, <1>6, <1>7, <1>8 DEF Next, Inspecting, Finishing

(* The resources of findings are the findings, by another name. *)
LEMMA ResourceOf ==
    ASSUME NEW f
    PROVE  /\ Capture(f).id = ResourceId(f.thing) /\ Capture(f).type = f.thing.type
           /\ Capture(f).config = <<Seen(f.thing), f.parts>> /\ Capture(f).config[1] = Seen(f.thing)
BY DEF Capture

LEMMA StoreIsThere ==
    ASSUME Inv, Stores
    PROVE  /\ cmd.op \in {"save", "update"} /\ ~cmd.dry
           /\ \A r \in saved' : /\ \E x \in watch.seen : r.config[1] = Seen(x)
                                /\ cmd.include # {} => r.type \in cmd.include
                                /\ r.type \notin cmd.exclude
           /\ \A r, s \in saved' : r.id = s.id => r = s
           /\ \A x \in watch.always :
                  \/ ~Reportable(x) \/ Tool(x.type) \in watch.faulty
                  \/ cmd.include # {} /\ x.type \notin cmd.include
                  \/ x.type \in cmd.exclude
                  \/ \E r \in saved' : r.config[1] = Seen(x)
<1>1. /\ cmd # None /\ todo = <<>> /\ cmd.op \in {"save", "update"} /\ ~cmd.dry
      /\ IdsAreUnique(Selected) /\ saved' = Resources(Selected)
  BY DEF Stores, Accepted, Inspected
<1>2. ReportIsHonest
  BY InvIsHonest
<1>3. \A f \in Selected : /\ f \in findings /\ f.thing \in watch.seen
                          /\ cmd.include # {} => f.thing.type \in cmd.include
                          /\ f.thing.type \notin cmd.exclude
  BY <1>1, <1>2 DEF Selected, ReportIsHonest
<1>4. \A r \in saved' : \E f \in Selected : r = Capture(f)
  BY <1>1 DEF Resources
<1>5. \A r \in saved' : /\ \E x \in watch.seen : r.config[1] = Seen(x)
                        /\ cmd.include # {} => r.type \in cmd.include
                        /\ r.type \notin cmd.exclude
  BY <1>3, <1>4, ResourceOf
<1>6. \A r, s \in saved' : r.id = s.id => r = s
  BY <1>1, <1>4, ResourceOf DEF IdsAreUnique
<1>7. ASSUME NEW x \in watch.always, Reportable(x), Tool(x.type) \notin watch.faulty,
             cmd.include = {} \/ x.type \in cmd.include, x.type \notin cmd.exclude
      PROVE  \E r \in saved' : r.config[1] = Seen(x)
  <2>1. PICK f \in findings : f.thing = x
    BY <1>1, <1>2, <1>7 DEF ReportIsHonest
  <2>2. f \in Selected
    BY <1>7, <2>1 DEF Selected
  <2>3. Capture(f) \in saved' /\ Capture(f).config[1] = Seen(x)
    BY <1>1, <2>1, <2>2, ResourceOf DEF Resources
  <2>4. QED
    BY <2>3
<1>8. QED
  BY <1>1, <1>5, <1>6, <1>7

(* In every execution what a save or an update stores is what was there    *)
(* while it ran: within the types asked for, an id each, and nothing       *)
(* missing that was there all the time and whose tool answered.  Code:     *)
(* setup_service.py save_setup and update_setup.                           *)
THEOREM StoredIsThere == Spec => StoresWhatIsThere
<1>1. Inv /\ [Next]_vars =>
        [saved' # saved =>
         /\ cmd.op \in {"save", "update"} /\ ~cmd.dry
         /\ \A r \in saved' : /\ \E x \in watch.seen : r.config[1] = Seen(x)
                              /\ cmd.include # {} => r.type \in cmd.include
                              /\ r.type \notin cmd.exclude
         /\ \A r, s \in saved' : r.id = s.id => r = s
         /\ \A x \in watch.always :
                \/ ~Reportable(x) \/ Tool(x.type) \in watch.faulty
                \/ cmd.include # {} /\ x.type \notin cmd.include
                \/ x.type \in cmd.exclude
                \/ \E r \in saved' : r.config[1] = Seen(x)]_vars
  BY OnlyStores, StoreIsThere
<1>2. QED
  BY <1>1, InspectionKnows, PTL DEF StoresWhatIsThere, Spec

------------------------------------------------------------------------------
(* What a diff of two manifests says of the looks they were made of. *)

NamedBy(id, looks) == {l \in looks : l.id = id}

LEMMA WholeTells ==
    ASSUME NEW type, NEW v, NEW w, Whole(type, v) = Whole(type, w),
           type \in Unchanging => v = None /\ w = None
    PROVE  v = w
<1>1. CASE type \in Unchanging
  BY <1>1
<1>2. CASE type \notin Unchanging /\ type = "process"
  <2>1. {<<"ports", v>>} = {<<"ports", w>>}
    BY <1>2 DEF Whole, Unchanging
  <2>2. <<"ports", v>> = <<"ports", w>>
    BY <2>1, Zenon
  <2>3. QED
    BY <2>2
<1>3. CASE type \notin Unchanging /\ type = "git"
  <2>1. {<<"branch", v>>, <<"commit", v>>, <<"dirty", v>>} = {<<"branch", w>>, <<"commit", w>>, <<"dirty", w>>}
    BY <1>3 DEF Whole, Unchanging
  <2>2. <<"branch", v>> \in {<<"branch", w>>, <<"commit", w>>, <<"dirty", w>>}
    BY <2>1
  <2>3. QED
    BY <2>2
<1>4. CASE type \notin Unchanging /\ type \notin {"process", "git"}
  <2>1. {<<"state", v>>} = {<<"state", w>>}
    BY <1>4 DEF Whole, Unchanging
  <2>2. <<"state", v>> = <<"state", w>>
    BY <2>1, Zenon
  <2>3. QED
    BY <2>2
<1>5. QED
  BY <1>1, <1>2, <1>3, <1>4

LEMMA DescribedFields ==
    ASSUME NEW l
    PROVE  Described1(l).id = l.id /\ Described1(l).config = <<l.view, Whole(l.view.type, l.state)>>
BY DEF Described1

(* The status of an id in two manifests is how the looks of it differ. *)
LEMMA StatusTells ==
    ASSUME NEW A, NEW B, Told(A), Told(B), NEW i, NamedBy(i, A) # {} \/ NamedBy(i, B) # {}
    PROVE  Status(i, Described(A), Described(B)) =
               IF NamedBy(i, A) = NamedBy(i, B) THEN "unchanged"
               ELSE IF NamedBy(i, B) = {} THEN "missing"
               ELSE IF NamedBy(i, A) = {} THEN "added" ELSE "changed"
<1>1. ASSUME NEW S
      PROVE  (\A r \in Described(S) : r.id # i) <=> NamedBy(i, S) = {}
  <2>1. (\A r \in {Described1(l) : l \in S} : r.id # i) <=> \A l \in S : Described1(l).id # i
    OBVIOUS
  <2>2. QED
    BY <2>1, DescribedFields DEF Described, NamedBy
<1>2. CASE NamedBy(i, B) = {}
  BY <1>1, <1>2 DEF Status
<1>3. CASE NamedBy(i, B) # {} /\ NamedBy(i, A) = {}
  BY <1>1, <1>3 DEF Status
<1>4. CASE NamedBy(i, B) # {} /\ NamedBy(i, A) # {}
  <2>1. PICK k \in A : k.id = i
    BY <1>4 DEF NamedBy
  <2>2. PICK l \in B : l.id = i
    BY <1>4 DEF NamedBy
  <2>3. \A m \in A : m.id = i => m = k
    BY <2>1 DEF Told
  <2>4. \A m \in B : m.id = i => m = l
    BY <2>2 DEF Told
  <2>5. NamedBy(i, A) = {k} /\ NamedBy(i, B) = {l}
    BY <2>1, <2>2, <2>3, <2>4 DEF NamedBy
  <2>6. (\E r \in Described(A), s \in Described(B) : r.id = i /\ s.id = i /\ r.config = s.config)
          <=> Described1(k).config = Described1(l).config
    <3>1. \A r \in Described(A) : r.id = i => r = Described1(k)
      BY <2>3, DescribedFields DEF Described
    <3>2. \A s \in Described(B) : s.id = i => s = Described1(l)
      BY <2>4, DescribedFields DEF Described
    <3>3. Described1(k) \in Described(A) /\ Described1(l) \in Described(B)
      BY DEF Described
    <3>4. Described1(k).id = i /\ Described1(l).id = i
      BY <2>1, <2>2, DescribedFields
    <3>5. QED
      BY <3>1, <3>2, <3>3, <3>4
  <2>7. Described1(k).config = Described1(l).config <=> k = l
    <3>1. ASSUME Described1(k).config = Described1(l).config
          PROVE  k = l
      <4>1. k.view = l.view /\ Whole(k.view.type, k.state) = Whole(l.view.type, l.state)
        BY <3>1, DescribedFields
      <4>2. /\ k = [id |-> k.id, view |-> k.view, state |-> k.state]
            /\ l = [id |-> l.id, view |-> l.view, state |-> l.state]
        <5>1. IsLook(k) /\ IsLook(l)
          BY DEF Told
        <5>2. QED
          BY <5>1 DEF IsLook
      <4>3. k.view.type \in Unchanging => k.state = None /\ l.state = None
        <5>1. IsLook(k) /\ IsLook(l)
          BY DEF Told
        <5>2. QED
          BY <4>1, <5>1 DEF IsLook
      <4>4. k.state = l.state
        BY <4>1, <4>3, WholeTells
      <4>5. QED
        BY <2>1, <2>2, <4>1, <4>2, <4>4
    <3>2. QED
      BY <3>1
  <2>8. Status(i, Described(A), Described(B)) = IF k = l THEN "unchanged" ELSE "changed"
    BY <1>1, <1>4, <2>6, <2>7 DEF Status
  <2>9. NamedBy(i, A) = NamedBy(i, B) <=> k = l
    BY <2>5
  <2>10. QED
    BY <1>4, <2>8, <2>9
<1>5. QED
  BY <1>2, <1>3, <1>4

LEMMA DiffTells ==
    ASSUME NEW A, NEW B, Told(A), Told(B)
    PROVE  {[id |-> i, status |-> Status(i, Described(A), Described(B))] :
                i \in {r.id : r \in Described(A) \cup Described(B)}} = Differences(A, B)
<1> DEFINE ids == {l.id : l \in A \cup B}
           how(i) == IF NamedBy(i, A) = NamedBy(i, B) THEN "unchanged"
                     ELSE IF NamedBy(i, B) = {} THEN "missing"
                     ELSE IF NamedBy(i, A) = {} THEN "added" ELSE "changed"
<1>1. {r.id : r \in Described(A) \cup Described(B)} = ids
  <2>1. Described(A) \cup Described(B) = {Described1(l) : l \in A \cup B}
    BY DEF Described
  <2>2. {r.id : r \in {Described1(l) : l \in A \cup B}} = {Described1(l).id : l \in A \cup B}
    OBVIOUS
  <2>3. QED
    BY <2>1, <2>2, DescribedFields
<1>2. ASSUME NEW i \in ids
      PROVE  Status(i, Described(A), Described(B)) = how(i)
  <2>1. NamedBy(i, A) # {} \/ NamedBy(i, B) # {}
    BY DEF NamedBy
  <2>2. QED
    BY <2>1, StatusTells
<1>3. Differences(A, B) = {[id |-> i, status |-> how(i)] : i \in ids}
  BY DEF Differences, NamedBy
<1> HIDE DEF ids, how
<1>4. QED
  BY <1>1, <1>2, <1>3

------------------------------------------------------------------------------
(* An inspection of a machine that held still found all there was. *)

Reported == {y \in shown : Reportable(y)}

Look(x) == [id |-> ResourceId(x), view |-> Seen(x),
            state |-> IF x.type \in {"docker", "macos_app"} \cup Editor THEN None ELSE rev[x]]

LEMMA LooksAre == Looks = {Look(x) : x \in Reported}
BY DEF Looks, Look, Reported

LEMMA LookFields ==
    ASSUME TypeOK, NEW x \in shown
    PROVE  /\ Look(x) = [id |-> Look(x).id, view |-> Look(x).view, state |-> Look(x).state]
           /\ Look(x).id = ResourceId(x) /\ Look(x).view = Seen(x) /\ Seen(x).type = x.type
           /\ x.type \in Unchanging => Look(x).state = None
           /\ Whole(x.type, Look(x).state) = Whole(x.type, rev[x])
<1>1. x \in Thing /\ "type" \in DOMAIN x
  BY ThingAssumption DEF TypeOK
<1>2. "type" \in DOMAIN x \ {"nth"}
  BY <1>1
<1>3. Seen(x).type = x.type
  BY <1>2 DEF Seen
<1>4. QED
  BY <1>3 DEF Look, Whole, Unchanging

(* What a manifest says of a finding is what it says of the thing's look.  *)
LEMMA StillDescribes ==
    ASSUME Inv, cmd # None, todo = <<>>, Trusted
    PROVE  /\ \A f \in findings : f.thing \in Reported /\ Capture(f) = Described1(Look(f.thing))
           /\ \A x \in Reported : \E f \in findings : f.thing = x
           /\ Resources(findings) = Described(Looks)
<1>1. Remaining = {}
  BY DEF Remaining
<1>2. watch.always = shown /\ watch.seen = shown /\ watch.faulty = {}
  BY DEF Inv, InspectInv, WatchInv, Trusted
<1>3. \A f \in findings : /\ f = Finding(f.thing, f.place, Whole(f.thing.type, rev[f.thing]))
                          /\ f.thing \in Reported
  BY <1>2 DEF Inv, InspectInv, Exact, FoundTrue, Reported
<1>4. \A x \in Reported : \E f \in findings : f.thing = x
  BY <1>1, <1>2 DEF Inv, InspectInv, NothingMissed, Reported
<1>5. ASSUME NEW f \in findings
      PROVE  Capture(f) = Described1(Look(f.thing))
  <2>1. f.thing \in shown /\ f.parts = Whole(f.thing.type, rev[f.thing])
    BY <1>3 DEF Finding, Reported
  <2>2. /\ Look(f.thing).id = ResourceId(f.thing) /\ Look(f.thing).view = Seen(f.thing)
        /\ Seen(f.thing).type = f.thing.type
        /\ Whole(f.thing.type, Look(f.thing).state) = Whole(f.thing.type, rev[f.thing])
    BY <2>1, LookFields DEF Inv
  <2>3. QED
    BY <2>1, <2>2 DEF Capture, Described1
<1>6. Resources(findings) = {Described1(Look(x)) : x \in Reported}
  <2>1. Resources(findings) = {Described1(Look(f.thing)) : f \in findings}
    BY <1>5 DEF Resources
  <2>2. QED
    BY <1>3, <1>4, <2>1
<1>7. Described(Looks) = {Described1(Look(x)) : x \in Reported}
  BY LooksAre DEF Described
<1>8. QED
  BY <1>3, <1>4, <1>5, <1>6, <1>7

(* Findings with an id each are looks with an id each. *)
LEMMA StillTold ==
    ASSUME Inv, cmd # None, todo = <<>>, Trusted,
           \/ IdsAreUnique(findings)
           \/ \A k, l \in Looks : k.id = l.id => k = l
    PROVE  Told(Looks)
<1>1. \A x \in Reported : \E f \in findings : f.thing = x
  BY StillDescribes
<1>2. \A x \in Reported : x \in shown /\ Look(x).id = ResourceId(x)
  BY LookFields DEF Inv, Reported
<1>3. ASSUME IdsAreUnique(findings), NEW x \in Reported, NEW y \in Reported, Look(x).id = Look(y).id
      PROVE  x = y
  <2>1. PICK f \in findings : f.thing = x
    BY <1>1
  <2>2. PICK g \in findings : g.thing = y
    BY <1>1
  <2>3. f = g
    BY <1>2, <1>3, <2>1, <2>2 DEF IdsAreUnique
  <2>4. QED
    BY <2>1, <2>2, <2>3
<1>4. \A k, l \in Looks : k.id = l.id => k = l
  BY <1>3, LooksAre
<1>5. \A x \in Reported : IsLook(Look(x))
  BY LookFields DEF Inv, Reported, IsLook
<1>6. QED
  BY <1>4, <1>5, LooksAre DEF Told

(* A dictionary of the findings, one for each id, says no less than all.   *)
LEMMA OneOfEach ==
    ASSUME Inv, cmd # None, todo = <<>>, Trusted,
           \A k, l \in Looks : k.id = l.id => k = l,
           NEW F \in SUBSET findings,
           \A f \in findings : \E g \in F : ResourceId(g.thing) = ResourceId(f.thing)
    PROVE  Resources(F) = Described(Looks)
<1>1. /\ \A f \in findings : f.thing \in Reported /\ Capture(f) = Described1(Look(f.thing))
      /\ Resources(findings) = Described(Looks)
  BY StillDescribes
<1>2. ASSUME NEW f \in findings
      PROVE  \E g \in F : Capture(g) = Capture(f)
  <2>1. PICK g \in F : ResourceId(g.thing) = ResourceId(f.thing)
    OBVIOUS
  <2>2. /\ Look(f.thing).id = ResourceId(f.thing) /\ Look(g.thing).id = ResourceId(g.thing)
    BY <1>1, LookFields DEF Inv, Reported
  <2>3. Look(f.thing) = Look(g.thing)
    BY <1>1, <2>1, <2>2, LooksAre
  <2>4. QED
    BY <1>1, <2>3
<1>3. {Capture(g) : g \in F} = {Capture(f) : f \in findings}
  BY <1>2
<1>4. QED
  BY <1>1, <1>3 DEF Resources

------------------------------------------------------------------------------
(* The stored manifest still describes the looks it was made of. *)

LEMMA ReadStays ==
    ASSUME TypeOK, [Next]_vars, ~Begin
    PROVE  cmd' = None \/ UNCHANGED <<cmd, read>>
<1>1. CASE Finishing \/ Raises
  BY <1>1, EndsWhole
<1>2. CASE Changing
  BY <1>2 DEF Changing, Appears, Vanishes, Turns, ToolTurns, Changed, command
<1>3. CASE Unavailable
  BY <1>3 DEF Unavailable
<1>4. CASE ListProjects \/ ListApplications \/ ListWindows \/ ListBrowserWindows
  BY <1>4 DEF ListProjects, ListApplications, ListWindows, ListBrowserWindows, Lists, Detected
<1>5. CASE ListContainers \/ InspectContainers \/ ListListeners \/ IterateProcesses
  BY <1>5 DEF ListContainers, InspectContainers, ListListeners, IterateProcesses, Learns, Detected
<1>6. CASE GitRoot \/ GitState \/ ReadStorage \/ CheckPath
  BY <1>6 DEF GitRoot, GitState, ReadStorage, CheckPath, Learns, Detected
<1>7. CASE UNCHANGED vars
  BY <1>7 DEF vars, command
<1>8. QED
  BY <1>1, <1>2, <1>3, <1>4, <1>5, <1>6, <1>7 DEF Next, Inspecting

LEMMA OriginKeeps ==
    ASSUME Inv, OriginInv, [Next]_vars
    PROVE  OriginInv'
<1>1. CASE Stores
  <2>1. /\ cmd # None /\ todo = <<>> /\ cmd' = None
        /\ IdsAreUnique(Selected) /\ saved' = Resources(Selected)
        /\ origin' = IF Trusted /\ Selected = findings THEN Looks ELSE None
    BY <1>1 DEF Stores, Accepted, Inspected, Ends
  <2>2. CASE Trusted /\ Selected = findings
    <3>1. Told(Looks) /\ saved' = Described(Looks) /\ origin' = Looks
      BY <2>1, <2>2, StillTold, StillDescribes
    <3>2. QED
      BY <2>1, <3>1 DEF OriginInv
  <2>3. CASE ~(Trusted /\ Selected = findings)
    BY <2>1, <2>3 DEF OriginInv
  <2>4. QED
    BY <2>2, <2>3
<1>2. CASE Begin
  <2>1. UNCHANGED <<saved, origin>>
    BY <1>2 DEF Begin
  <2>2. cmd' # None /\ cmd'.op = "diff" => read' = saved'
    BY <1>2 DEF Begin, command
  <2>3. QED
    BY <2>1, <2>2 DEF OriginInv
<1>3. CASE ~Stores /\ ~Begin
  <2>1. UNCHANGED <<saved, origin>>
    BY <1>3, OnlyStores
  <2>2. cmd' = None \/ UNCHANGED <<cmd, read>>
    BY <1>3, ReadStays DEF Inv
  <2>3. QED
    BY <2>1, <2>2 DEF OriginInv
<1>4. QED
  BY <1>1, <1>2, <1>3

(* A diff ends with its diff, or as every inspection may. *)
LEMMA OnlyDiffs ==
    ASSUME TypeOK, [Next]_vars, Inspected("diff"), cmd' = None
    PROVE  Diffs
<1>1. cmd # None /\ cmd.op = "diff" /\ todo = <<>>
  BY DEF Inspected
<1>2. ~Begin /\ ~Changing /\ ~UNCHANGED vars
  BY <1>1 DEF Begin, Changing, Appears, Vanishes, Turns, ToolTurns, Changed, command, vars
<1>3. ~Unavailable /\ ~Raises
  BY <1>1 DEF Unavailable, Raises, Detecting
<1>4. ~ListProjects /\ ~ListApplications /\ ~ListWindows /\ ~ListBrowserWindows
  BY <1>1 DEF ListProjects, ListApplications, ListWindows, ListBrowserWindows, Lists, Detecting
<1>5. ~ListContainers /\ ~InspectContainers /\ ~ListListeners /\ ~IterateProcesses
  BY <1>1 DEF ListContainers, InspectContainers, ListListeners, IterateProcesses, Detecting
<1>6. ~GitRoot /\ ~GitState /\ ~ReadStorage /\ ~CheckPath
  BY <1>1 DEF GitRoot, GitState, ReadStorage, CheckPath, Detecting
<1>7. ~PrintInspection /\ ~Refused /\ ~ManifestRaises /\ ~Previews /\ ~StoreFails /\ ~Stores
  BY <1>1 DEF PrintInspection, Refused, ManifestRaises, Previews, StoreFails, Stores, Inspected, Accepted
<1>8. QED
  BY <1>2, <1>3, <1>4, <1>5, <1>6, <1>7 DEF Next, Inspecting, Finishing

LEMMA DiffTellsLooks ==
    ASSUME Inv, OriginInv, Diffs, origin # None, Trusted,
           \A k, l \in Looks : k.id = l.id => k = l
    PROVE  out'.kind = "ok" /\ out'.result = Differences(origin, Looks)
<1>1. cmd # None /\ cmd.op = "diff" /\ todo = <<>>
  BY DEF Diffs, Inspected
<1>2. PICK F \in SUBSET findings :
          /\ \A f \in findings : \E g \in F : ResourceId(g.thing) = ResourceId(f.thing)
          /\ LET current == Resources(F)
             IN  Ends("ok", {[id |-> i, status |-> Status(i, read, current)] :
                                 i \in {r.id : r \in read \cup current}})
  BY DEF Diffs
<1>3. Told(Looks)
  BY <1>1, StillTold
<1>4. Resources(F) = Described(Looks)
  BY <1>1, <1>2, OneOfEach
<1>5. read = Described(origin) /\ Told(origin)
  BY <1>1 DEF OriginInv
<1>6. /\ out'.kind = "ok"
      /\ out'.result = {[id |-> i, status |-> Status(i, Described(origin), Described(Looks))] :
                            i \in {r.id : r \in Described(origin) \cup Described(Looks)}}
  BY <1>2, <1>4, <1>5 DEF Ends
<1>7. QED
  BY <1>3, <1>5, <1>6, DiffTells

LEMMA InitOrigin == Init => OriginInv
BY DEF Init, OriginInv

(* In every execution a diff tells exactly how the machine differs from    *)
(* what it was when the manifest was captured, if both times it held still,*)
(* every tool answered and no two things share an id.  Code: save_setup,   *)
(* update_setup and diff_resources.                                        *)
THEOREM DiffsAreExact == Spec => DiffIsExact
<1>1. Spec => []OriginInv
  BY InitOrigin, OriginKeeps, InspectionKnows, PTL DEF Spec
<1>2. Inv /\ OriginInv /\ [Next]_vars =>
        [/\ Inspected("diff") /\ cmd' = None
         /\ origin # None /\ Trusted
         /\ \A k, l \in Looks : k.id = l.id => k = l
         => out'.kind = "ok" /\ out'.result = Differences(origin, Looks)]_vars
  <2>1. Inv => TypeOK
    BY DEF Inv
  <2>2. QED
    BY <2>1, OnlyDiffs, DiffTellsLooks
<1>3. QED
  BY <1>1, <1>2, InspectionKnows, PTL DEF DiffIsExact, Spec
=============================================================================
