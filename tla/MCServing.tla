------------------------------ MODULE MCServing ------------------------------
(* Three specifications that are served and two that must not be.          *)
EXTENDS Serving

T(word) == Text(word)
Up(word) == [Text(word) EXCEPT !.upper = TRUE]
Esc(word) == PathEscape(Text(word))

KeyDecl(name, fold, credential) == [name |-> name, from |-> "", fold |-> fold, credential |-> credential]
FieldDecl(name, type, from) == [name |-> name, type |-> type, from |-> from]
Arg(name, default, values) ==
  [name |-> name, type |-> "text", key |-> TRUE, default |-> default, values |-> values]

Public == [credential |-> FALSE, public |-> TRUE, probe |-> FALSE, grantTTL |-> 0, denyTTL |-> 0]
Callers == [credential |-> TRUE, public |-> FALSE, probe |-> FALSE, grantTTL |-> 0, denyTTL |-> 0]

Json == {"", "json"}
Route(path, resource) ==
  [method |-> "GET", path |-> path, resource |-> resource, list |-> FALSE, complete |-> FALSE,
   params |-> <<>>, query |-> <<>>, accept |-> Json, absorb |-> {404}, bodyKey |-> ""]

\* Issues of an owner: a list selected by a field, and single ones, under
\* columns; the owner is folded.
Issue ==
  [name |-> "issue", keys |-> <<KeyDecl("owner", TRUE, FALSE), KeyDecl("number", FALSE, FALSE)>>,
   fields |-> <<FieldDecl("state", "text", "state"), FieldDecl("comments", "int", "comments")>>,
   store |-> "columns", drop |-> {}, keep |-> {}, reveal |-> Public]

IssuesPath == <<Literal("repos"), Param("org")>>
IssuePath(owner) == <<Literal("repos"), Param(owner), Param("number")>>
OneIssue == [Route(IssuePath("org"), "issue") EXCEPT !.params = [org |-> "owner"]]
AllIssues == [Route(IssuesPath, "issue") EXCEPT
  !.list = TRUE, !.complete = TRUE, !.params = [org |-> "owner"],
  !.query = <<Arg("state", T("open"), {T("open"), T("closed")})>>]

Issues ==
  [resources |-> [issue |-> Issue], routes |-> <<AllIssues, OneIssue>>,
   purges |-> <<[method |-> "DELETE", path |-> IssuePath("owner"), resource |-> "issue"],
                [method |-> "POST", path |-> <<Literal("repos"), Param("owner")>>, resource |-> "issue"]>>,
   rewrites |-> <<>>, relays |-> {}, own |-> {}]

\* Drafts that only their own caller is shown, and a mint keyed by its body.
Draft ==
  [name |-> "draft", keys |-> <<KeyDecl("who", FALSE, TRUE), KeyDecl("name", FALSE, FALSE)>>,
   fields |-> <<>>, store |-> "document", drop |-> {"mail", "plan"}, keep |-> {"plan"}, reveal |-> Callers]
Mint ==
  [name |-> "mint", keys |-> <<KeyDecl("who", FALSE, TRUE), KeyDecl("scope", FALSE, FALSE)>>,
   fields |-> <<>>, store |-> "document", drop |-> {}, keep |-> {}, reveal |-> Callers]

Drafts ==
  [resources |-> [draft |-> Draft, mint |-> Mint],
   routes |-> <<Route(<<Literal("drafts"), Param("name")>>, "draft"),
                [Route(<<Literal("mint")>>, "mint") EXCEPT !.method = "POST", !.bodyKey = "scope"]>>,
   purges |-> <<[method |-> "DELETE", path |-> <<Literal("drafts"), Param("name")>>, resource |-> "draft"]>>,
   rewrites |-> <<>>, relays |-> {}, own |-> {}]

\* Documents under a parameter whose default is the upstream's, reached by
\* another prefix too.
File ==
  [name |-> "file", keys |-> <<KeyDecl("path", FALSE, FALSE), KeyDecl("ref", FALSE, FALSE)>>,
   fields |-> <<>>, store |-> "document", drop |-> {}, keep |-> {}, reveal |-> Public]

Files ==
  [resources |-> [file |-> File],
   routes |-> <<[Route(<<Literal("contents"), Param("path")>>, "file") EXCEPT
                   !.query = <<Arg("ref", NoText, {T("main"), T("next")})>>]>>,
   purges |-> <<[method |-> "DELETE", path |-> <<Literal("contents"), Param("path")>>, resource |-> "file"]>>,
   rewrites |-> <<[from |-> <<"v3">>, to |-> <<>>]>>,
   relays |-> {[method |-> "POST", path |-> <<Literal("login")>>]}, own |-> {<<T("health")>>}]

\* A single route that does not name its row, and a purge that skips a key.
Unkeyed == [Issues EXCEPT !.routes[2] =
  [Route(<<Literal("repos"), Literal("acme"), Param("number")>>, "issue") EXCEPT !.params = <<>>]]
Skipping == [Issues EXCEPT !.purges[1].path = <<Literal("repos"), Literal("acme"), Param("number")>>]

Item(method, at, under, in, where, viewer, body, doc) ==
  [method |-> method, at |-> at, under |-> under, in |-> in, where |-> where,
   viewer |-> viewer, body |-> body, doc |-> doc]
AnIssue(owner, number, state, comments) ==
  Item("GET", <<T("repos"), T(owner), T(number)>>, <<>>, <<T("repos"), T(owner)>>,
       [state |-> T(state)], NoText, NoText,
       [owner |-> String("word", T(owner)), number |-> Number("integer", T(number)),
        state |-> String("word", T(state)), comments |-> comments])

\* Two states of one owner's issues; and two owners, of whom the second has an
\* issue whose comments are no number.
IssueItems ==
  {AnIssue("acme", "1", "open", Number("integer", T("7"))),
   AnIssue("acme", "2", "closed", Null)}
OwnerItems ==
  {AnIssue("acme", "1", "open", Number("integer", T("7"))),
   AnIssue("beta", "1", "open", Null),
   AnIssue("beta", "2", "open", String("word", T("many")))}

ADraft(who, name) ==
  Item("GET", <<T("drafts"), T(name)>>, <<>>, <<>>, <<>>, T(who), NoText,
       [name |-> String("word", T(name)), by |-> String("word", T(who)),
        plan |-> String("word", T("free")), mail |-> String("word", T("x"))])
AMint(who, scope) ==
  Item("POST", <<T("mint")>>, <<>>, <<>>, <<>>, T(who), T(scope),
       [token |-> String("word", T(who)), scope |-> String("word", T(scope))])
AFile(path, ref) ==
  Item("GET", <<T("contents"), T(path)>>, [ref |-> T(ref)], <<>>, <<>>, NoText, NoText,
       [sha |-> String("word", T(ref)), path |-> String("word", T(path))])

DraftItems == {ADraft("ann", "a/b"), ADraft("bob", "a/b")}
MintItems  == {AMint("ann", "read"), AMint("ann", "all")}
FileItems ==
  {AFile("f", "main"), AFile("f", "next")}

Req(method, path, query, auth, body) ==
  [method |-> method, path |-> path, query |-> query, accept |-> "json", auth |-> auth, body |-> body]
Get(path, query) == Req("GET", path, query, NoText, NoText)
As(who, path) == Req("GET", path, <<>>, T(who), NoText)

IssueRequests ==
  {Get(<<T("repos"), T("acme"), T("1")>>, <<>>), Get(<<T("repos"), Up("acme"), T("1")>>, <<>>),
   Get(<<T("repos"), T("acme")>>, <<>>), Get(<<T("repos"), T("acme")>>, [state |-> T("closed")]),
   Req("DELETE", <<T("repos"), Up("acme"), T("1")>>, <<>>, NoText, NoText),
   Req("POST", <<T("repos"), T("acme")>>, <<>>, NoText, NoText)}
OwnerRequests ==
  {Get(<<T("repos"), T("acme")>>, <<>>), Get(<<T("repos"), T("beta")>>, <<>>),
   Get(<<T("repos"), T("beta"), T("1")>>, <<>>),
   Req("POST", <<T("repos"), T("acme")>>, <<>>, NoText, NoText)}

DraftRequests ==
  {As("ann", <<T("drafts"), Esc("a/b")>>), As("bob", <<T("drafts"), Esc("a/b")>>),
        Get(<<T("drafts"), Esc("a/b")>>, <<>>),
        Req("DELETE", <<T("drafts"), Esc("a/b")>>, <<>>, T("ann"), NoText),
        Req("DELETE", <<T("drafts"), Esc("a/b")>>, <<>>, NoText, NoText)}
MintRequests ==
  {Req("POST", <<T("mint")>>, <<>>, T("ann"), T("read")),
   Req("POST", <<T("mint")>>, <<>>, T("ann"), T("all")),
   As("ann", <<T("drafts"), Esc("a/b")>>)}
FileRequests ==
  {Get(<<T("contents"), T("f")>>, <<>>), Get(<<T("contents"), T("f")>>, [ref |-> T("main")]),
        Get(<<T("v3"), T("contents"), T("f")>>, [ref |-> T("next")]),
        Get(<<T("contents"), T("f")>>, [page |-> T("2")]),
        Req("DELETE", <<T("v3"), T("contents"), T("f")>>, <<>>, NoText, NoText),
        Req("POST", <<T("login")>>, <<>>, NoText, NoText), Get(<<T("health")>>, <<>>)}

World(spec_, items, requests) == [spec |-> spec_, items |-> items, requests |-> requests]
AllWorlds ==
  [issues   |-> World(Issues, IssueItems, IssueRequests),
   owners   |-> World(Issues, OwnerItems, OwnerRequests),
   unkeyed  |-> World(Unkeyed, IssueItems, IssueRequests),
   skipping |-> World(Skipping, IssueItems, IssueRequests),
   drafts   |-> World(Drafts, DraftItems, DraftRequests),
   mints    |-> World(Drafts, MintItems, MintRequests),
   files    |-> World(Files, FileItems, FileRequests)]
IssueWorld == [issues |-> World(Issues, IssueItems, IssueRequests)]

UpstreamDefaults == [state |-> T("open"), ref |-> T("main")]
Reserved == {"a/b"}
==============================================================================
