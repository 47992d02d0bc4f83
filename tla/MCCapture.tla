------------------------------ MODULE MCCapture ------------------------------
(* A small machine for Capture: of each kind the things that are easily     *)
(* confused, and a few adapters at a time.                                  *)
EXTENDS Capture

Process(pid, start, user) == [type |-> "process", pid |-> pid, start |-> start, user |-> user]
Repository(dir) == [type |-> "git", dir |-> dir]
Container(name, id) == [type |-> "docker", name |-> name, id |-> id]
Project(name) == [type |-> "docker_compose", name |-> name]
Workspace(editor, path, dir) == [type |-> editor, path |-> path, dir |-> dir]
Application(name, bundle, nth) == [type |-> "macos_app", name |-> name, bundle |-> bundle, nth |-> nth]
Window(name, title, unreadable, nth) ==
    [type |-> "window_geometry", name |-> name, bundle |-> NoText, title |-> title,
     unreadable |-> unreadable, nth |-> nth]
Tabs(id, private) == [type |-> "browser", id |-> id, private |-> private]

Opens(uri, x) == [uri |-> uri, opens |-> x]

(* One URI twice, one that is no path, one path under two URIs, and one    *)
(* path more than fits.                                                    *)
MCStorage ==
    LET web == Workspace("vscode", "/a/web", "web")
    IN  [vscode |-> <<Opens("file:///a/web", web), Opens("file:///a/web", web), Opens("file:", None),
                      Opens("file:///a/web/", web), Opens("file:///old", Workspace("vscode", "/old", "old"))>>,
         cursor |-> <<Opens("file:///a/web", Workspace("cursor", "/a/web", "web")),
                      Opens("file:///b/web", Workspace("cursor", "/b/web", "web")),
                      Opens("file:///old", Workspace("cursor", "/old", "old"))>>]

MCThing ==
    {Process("7", 1, "me"), Process("7", 2, "me"), Process("8", 1, "root"),
     Repository("web"), Repository("api"),
     Container("web", "c1"), Container("db", "c2"), Project("web"),
     Application("Mail", "", 1), Application("Mail", "", 2), Application("mail", "", 1),
     Window("Mail", "inbox", FALSE, 1), Window("Mail", "inbox", FALSE, 2), Window("Mail", "a tab", TRUE, 1),
     Tabs("1", FALSE), Tabs("2", TRUE)}
    \cup UNION {{MCStorage[e][i].opens : i \in DOMAIN MCStorage[e]} \ {None} : e \in Editor}

MCSlug(text) == CASE text = "Mail" -> "mail" [] OTHER -> text

MCRegistries == {<<"docker_compose", "macos_app">>, <<"docker">>, <<"process">>, <<"git">>, <<"browser">>,
                 <<"window_geometry">>, <<"vscode">>, <<"cursor">>}

Command(op, dry, include, exclude) == [op |-> op, dry |-> dry, include |-> include, exclude |-> exclude]

MCCommands == {Command("inspect", FALSE, {}, {}), Command("save", TRUE, {}, {}),
               Command("save", FALSE, {}, {}),
               Command("save", FALSE, {"docker_compose", "git"}, {"git"}),
               Command("update", FALSE, {}, {}), Command("diff", FALSE, {}, {})}
==============================================================================
