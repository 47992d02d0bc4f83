------------------------------ MODULE Adapters ------------------------------
(***************************************************************************)
(* The read-only half of adapters/: what each adapter may report of the    *)
(* things a machine shows, and the manifest resource it makes of one.      *)
(* Nothing here keeps state; module Capture asks the machine, one query at *)
(* a time.                                                                 *)
(*                                                                         *)
(* A thing is a record of what its adapter can see of it for as long as it *)
(* is there; a field nth tells apart two that look alike, as two instances *)
(* of one application, and no adapter sees it.  A text is a value; what    *)
(* matters of it is its slug, and many texts have the same one.            *)
(***************************************************************************)
EXTENDS Sequences, FiniteSets, Naturals

CONSTANTS Thing,          \* everything the machine may ever show
          NoText,         \* the empty text
          Slug(_),        \* lower-case letters and digits of a text, or NoText
          MaxWorkspaces,  \* MAX_WORKSPACES
          None

Editor == {"vscode", "cursor"}
Type == Editor \cup {"browser", "docker", "docker_compose", "git", "macos_app", "process",
                     "window_geometry"}

(* What an adapter asks.  Each editor keeps a storage file of its own.     *)
Tool(t) ==
    CASE t \in {"docker", "docker_compose"} -> "docker"
      [] t \in {"macos_app", "window_geometry"} -> "osascript"
      [] t = "browser" -> "host"
      [] t = "process" -> "psutil"
      [] OTHER -> t

Or(text, default) == IF text = NoText THEN default ELSE text

resource_slug(text, fallback) == Or(Slug(text), fallback)

------------------------------------------------------------------------------
(* What an adapter leaves out although the machine shows it. *)

(* Processes of other users, and Setuper itself. *)
ForeignProcess(x) == x.type = "process" /\ x.user # "me"

(* Windows that are incognito, or have no tab with a URL. *)
PrivateWindow(x) == x.type = "browser" /\ x.private

(* A line of osascript that is not seven fields, as when a title has a tab. *)
UnreadableWindow(x) == x.type = "window_geometry" /\ x.unreadable

Skipped(x) == ForeignProcess(x) \/ PrivateWindow(x) \/ UnreadableWindow(x)

(* An editor's storage is a list of URIs, each with the workspace it opens *)
(* or None when it is no path of a file.  A URI that comes again counts    *)
(* once; two URIs of one path, as with and without a trailing slash, count *)
(* twice.                                                                  *)
Fresh(uris) ==
    {i \in DOMAIN uris : uris[i].opens # None /\ \A j \in 1..(i - 1) : uris[j].uri # uris[i].uri}

(* The places in it that its adapter looks at.                             *)
Recent(uris) == {i \in Fresh(uris) : Cardinality({j \in Fresh(uris) : j <= i}) <= MaxWorkspaces}

------------------------------------------------------------------------------
(* From a finding to a resource: capture. *)

ProcessId(x) == <<"process", x.pid>>
GitId(x) == <<"git", resource_slug(x.dir, "repository")>>
DockerId(x) == <<"docker", resource_slug(Or(x.name, x.id), x.id)>>
ComposeId(x) == <<"compose", resource_slug(x.name, "project")>>
WorkspaceId(x) == <<x.type, resource_slug(x.dir, "workspace")>>
ApplicationId(x) == <<"macos-app", resource_slug(Or(x.bundle, x.name), "application")>>
WindowId(x) ==
    LET joined == SelectSeq(<<Slug(Or(x.bundle, x.name)), Slug(Or(x.title, "window"))>>,
                            LAMBDA slug : slug # NoText)
    IN  <<"window", IF joined = <<>> THEN <<"window">> ELSE joined>>
BrowserId(x) == <<"browser", resource_slug(x.id, "window")>>

ResourceId(x) ==
    CASE x.type = "process" -> ProcessId(x)
      [] x.type = "git" -> GitId(x)
      [] x.type = "docker" -> DockerId(x)
      [] x.type = "docker_compose" -> ComposeId(x)
      [] x.type \in Editor -> WorkspaceId(x)
      [] x.type = "macos_app" -> ApplicationId(x)
      [] x.type = "window_geometry" -> WindowId(x)
      [] x.type = "browser" -> BrowserId(x)

(* What an adapter sees of a thing. *)
Seen(x) == [field \in DOMAIN x \ {"nth"} |-> x[field]]

(* A DetectedResource, as an item of the list of findings: the thing, the  *)
(* place in an editor's storage that led to it (0 of other types), and what*)
(* the queries said of the parts that change, as pairs of a part and its   *)
(* revision.  Thing and place tell the items of the list apart: a thing    *)
(* that two places lead to is two items, as are two things that look alike.*)
Finding(x, place, parts) == [thing |-> x, place |-> place, parts |-> parts]

Capture(f) ==
    [id |-> ResourceId(f.thing), type |-> f.thing.type, config |-> <<Seen(f.thing), f.parts>>]

Resources(F) == {Capture(f) : f \in F}

(* SetupManifest.validate_resource_references over a list of resources:  *)
(* two items of one id are refused, be they equal or not.                  *)
IdsAreUnique(F) == \A f, g \in F : ResourceId(f.thing) = ResourceId(g.thing) => f = g
==============================================================================
