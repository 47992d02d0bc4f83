------------------------------- MODULE Capture -------------------------------
(***************************************************************************)
(* The commands inspect, save, update and diff of cli/app.py: an inspection*)
(* of the machine by application/capture_service.py, adapter after adapter *)
(* and query after query, and what setup_service.py and domain/diff.py     *)
(* make of its findings.  The machine changes between any two queries and  *)
(* between commands; tools come and go.                                    *)
(*                                                                         *)
(* There is one setup name.  How its manifest reaches disk and database,   *)
(* and what other processes do to it meanwhile, is module SetupStore; here *)
(* it is stored in one step or not at all.  The platform is macOS.         *)
(***************************************************************************)
EXTENDS Adapters

CONSTANTS Rev,            \* revisions of what changes of a thing while it is there
          Registries,     \* registries, as AdapterRegistry.all lists them
          Storage,        \* URIs in each editor's storage, in its order
          MaxContainers,  \* containers that fit into MAX_CAPTURE_CHARACTERS of output
          Commands,       \* commands that may be given
          MaxCommands,    \* bound on commands given
          MaxChanges      \* bound on changes of the machine

ASSUME ThingAssumption == \A x \in Thing : "type" \in DOMAIN x /\ x.type \in Type
ASSUME RegistryAssumption ==  \* register refuses a second adapter of one type
    \A s \in Registries : s \in Seq(Type) /\ \A i, j \in DOMAIN s : s[i] = s[j] => i = j
ASSUME StorageAssumption ==  \* what a URI opens is the same wherever it stands
    \A e \in Editor :
        /\ Storage[e] \in Seq({Storage[e][i] : i \in DOMAIN Storage[e]})
        /\ \A i, j \in DOMAIN Storage[e] :
               /\ Storage[e][i].opens \in {x \in Thing : x.type = e} \cup {None}
               /\ Storage[e][i].uri = Storage[e][j].uri => Storage[e][i].opens = Storage[e][j].opens
ASSUME CommandAssumption ==
    Commands \subseteq [op : {"inspect", "save", "update", "diff"}, dry : BOOLEAN,
                        include : SUBSET Type, exclude : SUBSET Type]
ASSUME BoundAssumption == {MaxWorkspaces, MaxContainers, MaxCommands, MaxChanges} \subseteq Nat
ASSUME RevAssumption == Rev # {}
ASSUME NoneAssumption == None \notin Commands /\ None \notin Rev /\ None \notin Thing

VARIABLES shown,     \* the machine: what is there,
          rev,       \*   the revision of what changes of each thing,
          tool,      \*   and how each tool answers
          registry,
          cmd,       \* the command being carried out, or None
          todo,      \* adapters that inspect has yet to run
          part,      \* what the current adapter knows from its first queries, or None
          findings,  \* InspectResult
          issues,
          read,      \* diff: the manifest it loaded before it inspects
          saved,     \* the resources of the stored manifest, or None
          out,       \* how the last command ended, and the entries of a diff
          given,     \* number of commands given
          changes,   \* number of changes of the machine
          watch,     \* ghost: what the machine has been since the command began
          origin     \* ghost: all the machine showed while saved was captured, or None

machine == <<shown, rev, tool>>
command == <<cmd, todo, part, findings, issues, read>>
vars == <<machine, registry, command, saved, out, given, changes, watch, origin>>

Tools == {Tool(t) : t \in Type}

(* unavailable: not installed, no answer in time, cannot be run; fails: it *)
(* exits with an error, or its file or permission is missing; garbled: its *)
(* output cannot be decoded.                                               *)
Answers(t) ==
    {"ok", "fails"} \cup (IF t = "psutil" THEN {} ELSE {"garbled"})
                    \cup (IF t \in Editor \cup {"psutil"} THEN {} ELSE {"unavailable"})

(* What keeps two things from being shown together: a pid, the name of a   *)
(* container or project, the one repository around the current directory.  *)
Exclusive(x, y) ==
    /\ x # y /\ x.type = y.type
    /\ \/ x.type = "process" /\ x.pid = y.pid
       \/ x.type \in {"docker", "docker_compose"} /\ x.name = y.name
       \/ x.type = "git"

Possible(S) == \A x, y \in S : ~Exclusive(x, y)

Registered == {registry[i] : i \in DOMAIN registry}

(* What watch begins with, and what it is while there is no command.       *)
Unwatched == [seen |-> {}, always |-> {}, states |-> {}, quiet |-> TRUE, faulty |-> {}]

States == {<<x, rev[x]>> : x \in shown}

Afresh == [seen |-> shown, always |-> shown, states |-> States, quiet |-> TRUE,
           faulty |-> {t \in Tools : tool[t] # "ok"}]

Init ==
    /\ registry \in Registries
    /\ shown \in {S \in SUBSET {x \in Thing : x.type \in Registered} :
                     IsFiniteSet(S) /\ Possible(S)}
    /\ rev = [x \in Thing |-> CHOOSE r \in Rev : TRUE]  \* bound: every repository is clean
    /\ tool = [t \in Tools |-> "ok"]
    /\ cmd = None /\ todo = <<>> /\ part = None /\ findings = {} /\ issues = {} /\ read = None
    /\ saved = None /\ origin = None
    /\ out = [kind |-> "none", op |-> "none", result |-> {}]
    /\ given = 0 /\ changes = 0
    /\ watch = Unwatched

------------------------------------------------------------------------------
(* The machine. *)

Changed ==
    /\ changes < MaxChanges
    /\ cmd # None \/ given < MaxCommands  \* bound: nobody looks any more
    /\ changes' = changes + 1
    /\ watch' = IF cmd = None THEN watch
                ELSE [seen |-> watch.seen \cup shown', always |-> watch.always \cap shown',
                      states |-> watch.states \cup States',
                      faulty |-> watch.faulty \cup {t \in Tools : tool'[t] # "ok"},
                      quiet |-> FALSE]
    /\ UNCHANGED <<registry, command, saved, out, given, origin>>

Appears == \E x \in Thing \ shown :
    /\ x.type \in Registered /\ Possible(shown \cup {x})
    /\ shown' = shown \cup {x}
    /\ UNCHANGED <<rev, tool>>
    /\ Changed

Vanishes == \E x \in shown :
    /\ shown' = shown \ {x}
    /\ UNCHANGED <<rev, tool>>
    /\ Changed

(* A branch is checked out, a port opened, a project scaled, a window      *)
(* moved, a tab closed.  The others report nothing that changes.           *)
Turns == \E x \in shown, r \in Rev :
    /\ x.type \in {"git", "process", "docker_compose", "window_geometry", "browser"}
    /\ rev[x] # r
    /\ rev' = [rev EXCEPT ![x] = r]
    /\ UNCHANGED <<shown, tool>>
    /\ Changed

ToolTurns == \E t \in {Tool(r) : r \in Registered} : \E a \in Answers(t) :
    /\ tool[t] # a /\ "ok" \in {tool[t], a}  \* bound: not from one fault to another
    /\ tool' = [tool EXCEPT ![t] = a]
    /\ UNCHANGED <<shown, rev>>
    /\ Changed

------------------------------------------------------------------------------
(* How a command starts.  diff reads the manifest before it inspects; the  *)
(* others look at the store when they know what they found.                *)

\* Mutant: what one command found is still there for the next.
Ends_Keeps(kind, result) ==
    /\ out' = [kind |-> kind, op |-> cmd.op, result |-> result]
    /\ cmd' = None /\ todo' = <<>> /\ part' = None /\ issues' = {}
    /\ read' = None /\ watch' = Unwatched
    /\ UNCHANGED <<machine, registry, given, changes, findings>>

Ends(kind, result) ==
    /\ out' = [kind |-> kind, op |-> cmd.op, result |-> result]
    /\ cmd' = None /\ todo' = <<>> /\ part' = None /\ findings' = {} /\ issues' = {}
    /\ read' = None /\ watch' = Unwatched
    /\ UNCHANGED <<machine, registry, given, changes>>

Begin == \E c \in Commands :
    /\ cmd = None /\ given < MaxCommands
    /\ given' = given + 1
    /\ IF c.op = "diff" /\ saved = None
       THEN /\ out' = [kind |-> "error", op |-> "diff", result |-> {}]
            /\ UNCHANGED <<command, watch>>
       ELSE /\ cmd' = c /\ todo' = registry
            /\ read' = IF c.op = "diff" THEN saved ELSE None
            /\ watch' = Afresh
            /\ UNCHANGED <<part, findings, issues, out>>
    /\ UNCHANGED <<machine, registry, saved, changes, origin>>

------------------------------------------------------------------------------
(* CaptureService.inspect: one adapter after another. *)

Detecting(t) == todo # <<>> /\ Head(todo) = t

Says(t, answer) == tool[Tool(t)] = answer

There(t) == {x \in shown : x.type = t /\ ~Skipped(x)}

Beside == <<machine, registry, saved, out, given, changes, watch, origin>>

(* An adapter has asked one of its queries, but not the last.              *)
Learns(what) ==
    /\ part' = what
    /\ UNCHANGED <<cmd, todo, findings, issues, read>> /\ UNCHANGED Beside

\* Mutant: an adapter's findings replace those of the adapters before it.
Detected_Replaces(F) ==
    /\ findings' = F
    /\ todo' = Tail(todo) /\ part' = None
    /\ UNCHANGED <<cmd, issues, read>> /\ UNCHANGED Beside

Detected(F) ==
    /\ findings' = findings \cup F
    /\ todo' = Tail(todo) /\ part' = None
    /\ UNCHANGED <<cmd, issues, read>> /\ UNCHANGED Beside

(* AdapterUnavailableError ends the adapter and becomes an issue: a command*)
(* that cannot be run, or the browser's host not giving a valid response.  *)
Unavailable == \E t \in Type :
    /\ Detecting(t)
    /\ \/ Says(t, "unavailable")
       \/ t = "browser" /\ (Says(t, "fails") \/ Says(t, "garbled"))
    /\ issues' = issues \cup {t}
    /\ todo' = Tail(todo) /\ part' = None
    /\ UNCHANGED <<cmd, findings, read>> /\ UNCHANGED Beside

(* Any other exception ends the command: UnicodeDecodeError of output that *)
(* is not text, ValueError of a remote whose port is not a number.         *)
Raises == \E t \in Type \ {"browser"} :
    /\ Detecting(t) /\ Says(t, "garbled")
    /\ t \in Editor => part = None
    /\ Ends("traceback", {})
    /\ UNCHANGED <<saved, origin>>

(* A tool with one query, which reports nothing when it fails.             *)
Lists(t, F) ==
    /\ Detecting(t)
    /\ \/ Says(t, "ok") /\ Detected(F)
       \/ Says(t, "fails") /\ Detected({})

State(x) == {<<"state", rev[x]>>}

ListProjects == Lists("docker_compose", {Finding(x, 0, State(x)) : x \in There("docker_compose")})

ListApplications == Lists("macos_app", {Finding(x, 0, {}) : x \in There("macos_app")})

ListWindows == Lists("window_geometry", {Finding(x, 0, State(x)) : x \in There("window_geometry")})

(* The host may also answer that it has failed; then there are no windows. *)
ListBrowserWindows == Lists("browser", {Finding(x, 0, State(x)) : x \in There("browser")})

(* docker ps, then docker inspect of what it listed.                       *)
ListContainers ==
    /\ Detecting("docker") /\ part = None
    /\ \/ Says("docker", "ok") /\ There("docker") # {} /\ Learns(There("docker"))
       \/ Says("docker", "ok") /\ There("docker") = {} /\ Detected({})
       \/ Says("docker", "fails") /\ Detected({})

(* The exit status of docker inspect is not looked at: a container that is *)
(* gone is left out.  Output cut short is not JSON, and no container.      *)
InspectContainers ==
    /\ Detecting("docker") /\ part # None
    /\ \/ /\ Says("docker", "ok") /\ Cardinality(part \cap shown) <= MaxContainers
          /\ Detected({Finding(x, 0, {}) : x \in part \cap shown})
       \/ Says("docker", "ok") /\ Cardinality(part \cap shown) > MaxContainers /\ Detected({})
       \/ Says("docker", "fails") /\ Detected({})

(* Listening ports come first, by pid; denied access is a warning only.    *)
ListListeners ==
    /\ Detecting("process") /\ part = None
    /\ Learns(IF Says("process", "ok") THEN {<<x.pid, rev[x]>> : x \in There("process")} ELSE {})

IterateProcesses ==
    /\ Detecting("process") /\ part # None
    /\ Detected({Finding(x, 0, {<<"ports", p[2]>> : p \in {q \in part : q[1] = x.pid}}) :
                     x \in There("process")})

(* git: the root, then the branch, the commit and remote, and the status,  *)
(* each by a command of its own; one that fails leaves its field out, and  *)
(* without its status a repository counts as clean.                        *)
GitRoot ==
    /\ Detecting("git") /\ part = None
    /\ \/ \E x \in There("git") : Says("git", "ok") /\ Learns([repo |-> x, known |-> <<>>])
       \/ Says("git", "ok") /\ There("git") = {} /\ Detected({})
       \/ Says("git", "fails") /\ Detected({})

GitField == <<"branch", "commit", "dirty">>

Clean == CHOOSE r \in Rev : TRUE

GitState ==
    /\ Detecting("git") /\ part # None
    /\ Says("git", "ok") \/ Says("git", "fails")
    /\ LET answer == IF Says("git", "ok") /\ part.repo \in shown THEN rev[part.repo]
                     ELSE IF Len(part.known) + 1 = Len(GitField) THEN Clean ELSE None
           known == Append(part.known, answer)
       IN  IF Len(known) < Len(GitField) THEN Learns([part EXCEPT !.known = known])
           ELSE Detected({Finding(part.repo, 0, {<<GitField[i], known[i]>> :
                                                  i \in {j \in DOMAIN known : known[j] # None}})})

(* The storage file, then every workspace it names: is it still there?     *)
ReadStorage == \E t \in Editor :
    /\ Detecting(t) /\ part = None
    /\ \/ Says(t, "ok") /\ Learns(Recent(Storage[t]))
       \/ Says(t, "fails") /\ Detected({})

CheckPath == \E t \in Editor :
    /\ Detecting(t) /\ part # None
    /\ \/ part = {} /\ Detected({})
       \/ \E i \in part :
              /\ \A j \in part : i <= j
              /\ findings' = findings \cup {Finding(x, i, {}) : x \in {Storage[t][i].opens} \cap shown}
              /\ part' = part \ {i}
              /\ UNCHANGED <<cmd, todo, issues, read>> /\ UNCHANGED Beside

Inspecting ==
    \/ Unavailable \/ Raises
    \/ ListProjects \/ ListApplications \/ ListWindows \/ ListBrowserWindows
    \/ ListContainers \/ InspectContainers \/ ListListeners \/ IterateProcesses
    \/ GitRoot \/ GitState \/ ReadStorage \/ CheckPath

------------------------------------------------------------------------------
(* What a command does with what was found. *)

Inspected(op) == cmd # None /\ cmd.op = op /\ todo = <<>>

PrintInspection ==
    /\ Inspected("inspect")
    /\ Ends("ok", {})
    /\ UNCHANGED <<saved, origin>>

(* filter_findings; only save has these options. *)
Selected == {f \in findings : /\ cmd.include = {} \/ f.thing.type \in cmd.include
                              /\ f.thing.type \notin cmd.exclude}

(* _require_available_name of save; show_setup of update. *)
Refused ==
    /\ \/ Inspected("save") /\ saved # None
       \/ Inspected("update") /\ saved = None
    /\ Ends("error", {})
    /\ UNCHANGED <<saved, origin>>

Accepted ==
    \/ Inspected("save") /\ saved = None
    \/ Inspected("update") /\ saved # None

(* SetupManifest rejects two resources of one id; nobody catches it.       *)
ManifestRaises ==
    /\ Accepted /\ ~IdsAreUnique(Selected)
    /\ Ends("traceback", {})
    /\ UNCHANGED <<saved, origin>>

Previews ==
    /\ Accepted /\ IdsAreUnique(Selected) /\ cmd.dry
    /\ Ends("ok", {})
    /\ UNCHANGED <<saved, origin>>

(* What the adapters report while it is there: of an editor, the first of  *)
(* its workspaces; of Docker, no more containers than fit.                 *)
Reportable(x) ==
    /\ ~Skipped(x)
    /\ x.type \in Editor => \E i \in Recent(Storage[x.type]) : Storage[x.type][i].opens = x
    /\ x.type = "docker" => Cardinality({y \in watch.seen : y.type = "docker"}) <= MaxContainers

(* All that they could tell of the machine now.                            *)
Looks == {[id |-> ResourceId(x), view |-> Seen(x),
           state |-> IF x.type \in {"docker", "macos_app"} \cup Editor THEN None ELSE rev[x]] :
              x \in {y \in shown : Reportable(y)}}

Trusted == watch.quiet /\ watch.faulty = {}

\* Mutant: an update keeps the resources it has and adds what is new.
Stores_Merges ==
    /\ Accepted /\ IdsAreUnique(Selected) /\ ~cmd.dry
    /\ saved' = (IF saved = None THEN {} ELSE saved)
                \cup {r \in Resources(Selected) : saved = None \/ \A s \in saved : s.id # r.id}
    /\ origin' = IF Trusted /\ Selected = findings THEN Looks ELSE None
    /\ Ends("ok", {})

Stores ==
    /\ Accepted /\ IdsAreUnique(Selected) /\ ~cmd.dry
    /\ saved' = Resources(Selected)
    /\ origin' = IF Trusted /\ Selected = findings THEN Looks ELSE None
    /\ Ends("ok", {})

(* The file or the row cannot be written, and what was there is restored.  *)
StoreFails ==
    /\ Accepted /\ IdsAreUnique(Selected) /\ ~cmd.dry
    /\ Ends("error", {})
    /\ UNCHANGED <<saved, origin>>

\* Mutant: resources are compared by id alone.
Status_ById(id, stored, current) ==
    IF \A r \in current : r.id # id THEN "missing"
    ELSE IF \A r \in stored : r.id # id THEN "added" ELSE "unchanged"

Status(id, stored, current) ==
    IF \A r \in current : r.id # id THEN "missing"
    ELSE IF \A r \in stored : r.id # id THEN "added"
    ELSE IF \E r \in stored, s \in current : r.id = id /\ s.id = id /\ r.config = s.config
    THEN "unchanged" ELSE "changed"

(* diff_resources.  Findings of one id are one entry of a dictionary, which*)
(* holds the last of them in the order of their identities.                *)
Diffs == \E F \in SUBSET findings :
    /\ Inspected("diff")
    /\ IdsAreUnique(F)
    /\ \A f \in findings : \E g \in F : ResourceId(g.thing) = ResourceId(f.thing)
    /\ LET current == Resources(F)
       IN  Ends("ok", {[id |-> i, status |-> Status(i, read, current)] :
                           i \in {r.id : r \in read \cup current}})
    /\ UNCHANGED <<saved, origin>>

Finishing ==
    PrintInspection \/ Refused \/ ManifestRaises \/ Previews \/ Stores \/ StoreFails \/ Diffs

Changing == Appears \/ Vanishes \/ Turns \/ ToolTurns

Next == Begin \/ Inspecting \/ Finishing \/ Changing

Spec == Init /\ [][Next]_vars

------------------------------------------------------------------------------
TypeOK ==
    /\ shown \subseteq Thing /\ rev \in [Thing -> Rev]
    /\ \A t \in Tools : tool[t] \in Answers(t)
    /\ registry \in Registries
    /\ cmd \in Commands \cup {None}
    /\ \E i \in 0..Len(registry) : todo = SubSeq(registry, i + 1, Len(registry))
    /\ todo = <<>> => part = None
    /\ cmd = None => todo = <<>> /\ findings = {} /\ issues = {} /\ read = None
    /\ \A f \in findings : f.thing \in Thing
    /\ issues \subseteq Registered
    /\ given \in 0..MaxCommands /\ changes \in 0..MaxChanges
    /\ watch.seen \subseteq Thing /\ watch.always \subseteq watch.seen \cap shown
    /\ cmd = None => watch = Unwatched

(* A detail was so when it was asked for: the thing was there in that state*)
(* during the command.  A process that took over a pid meanwhile may have  *)
(* the ports of the one before it, and a repository that git could not be  *)
(* asked about, or that went, counts as clean.                             *)
Truthful(f, p) ==
    \/ <<f.thing, p[2]>> \in watch.states
    \/ f.thing \notin watch.always /\ p[1] = "ports"
       /\ \E y \in watch.seen : Exclusive(f.thing, y) /\ <<y, p[2]>> \in watch.states
    \/ (f.thing \notin watch.always \/ "git" \in watch.faulty) /\ p = <<"dirty", Clean>>

(* An inspection invents nothing, and is honest about what it leaves out:  *)
(* what it found was there meanwhile, with details that were so, and is no *)
(* other user's and no private window; what was there all the time is      *)
(* found, unless its tool let Setuper down; an issue is reported of such a *)
(* tool only.  Code: capture_service.py inspect and the adapters' detect.  *)
ReportIsHonest ==
    cmd # None /\ todo = <<>> =>
        /\ \A f \in findings : /\ f.thing \in watch.seen /\ ~Skipped(f.thing)
                               /\ \A p \in f.parts : Truthful(f, p)
        /\ \A x \in watch.always :
               \/ ~Reportable(x) \/ Tool(x.type) \in watch.faulty
               \/ \E f \in findings : f.thing = x
        /\ \A t \in issues : Tool(t) \in watch.faulty

(* What a command stores is what the machine showed while it ran, within   *)
(* the types asked for and with an id each: nothing of an earlier manifest *)
(* outlives the thing it stood for, nothing there all the time is missing  *)
(* though its tool answered, and a preview stores nothing.  Code: save_setup*)
(* and update_setup on the findings of inspect and filter_findings.        *)
StoresWhatIsThere ==
    [][saved' # saved =>
         /\ cmd.op \in {"save", "update"} /\ ~cmd.dry
         /\ \A r \in saved' : /\ \E x \in watch.seen : r.config[1] = Seen(x)
                              /\ cmd.include # {} => r.type \in cmd.include
                              /\ r.type \notin cmd.exclude
         /\ \A r, s \in saved' : r.id = s.id => r = s
         /\ \A x \in watch.always :
                \/ ~Reportable(x) \/ Tool(x.type) \in watch.faulty
                \/ cmd.include # {} /\ x.type \notin cmd.include
                \/ x.type \in cmd.exclude
                \/ \E r \in saved' : r.config[1] = Seen(x)]_vars

(* How the machine differs between two looks, by what resources are called.*)
Differences(then, now) ==
    LET Named(id, looks) == {l \in looks : l.id = id}
    IN  {[id |-> i, status |-> IF Named(i, then) = Named(i, now) THEN "unchanged"
                               ELSE IF Named(i, now) = {} THEN "missing"
                               ELSE IF Named(i, then) = {} THEN "added" ELSE "changed"] :
             i \in {l.id : l \in then \cup now}}

(* A diff tells exactly how the machine differs from what it was when the  *)
(* manifest was captured, if both times it held still, every tool answered *)
(* and no two things share an id.  Code: diff_resources of what update or  *)
(* save stored and a new inspection found.                                 *)
DiffIsExact ==
    [][/\ Inspected("diff") /\ cmd' = None
       /\ origin # None /\ Trusted
       /\ \A k, l \in Looks : k.id = l.id => k = l
       => out'.kind = "ok" /\ out'.result = Differences(origin, Looks)]_vars

(* Documented, and not so: docs/specs.md:112, "No unhandled tracebacks in  *)
(* normal user flows."  Two instances of one application are enough.       *)
NoTraceback == out.kind # "traceback"
==============================================================================
