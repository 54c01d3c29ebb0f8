-------------------------------- MODULE Routes --------------------------------
(***************************************************************************)
(* From a request to a row and back (internal/mirror/router.go, plan.go,   *)
(* keyString in reveal.go, rewritePath in engine.go).                      *)
(*                                                                         *)
(* A text is a word, whether it is spelt in upper case, and how often it   *)
(* has been escaped: only a word with a reserved character (Special)       *)
(* changes when it is.  A path is a sequence of texts as they stand in the *)
(* URL; a plain word is sent plainly.  The digest of a credential or a     *)
(* body is the text itself: digests do not collide.                        *)
(***************************************************************************)
EXTENDS Naturals, Sequences, FiniteSets

CONSTANT Special \* words with a character that a path segment escapes

Spelt(word, upper, escaped) == [word |-> word, upper |-> upper, escaped |-> escaped]

Text(word) == Spelt(word, FALSE, 0)

NoText == Text("")

PathEscape(t) ==
  IF t.word \in Special THEN Spelt(t.word, t.upper, t.escaped + 1) ELSE t

PathUnescape(t) ==
  IF t.escaped > 0 THEN Spelt(t.word, t.upper, t.escaped - 1) ELSE t

Lower(t) == Spelt(t.word, FALSE, t.escaped)

\* The texts there are: nothing is spelt in upper case that has no letters.
Texts ==
  {t \in [word : STRING, upper : BOOLEAN, escaped : Nat] :
     /\ t.upper => t.word # ""
     /\ t.word \notin Special => t.escaped = 0}

\* A segment of a pattern: a literal or a {parameter}.
Literal(word) == [param |-> FALSE, name |-> word]
Param(name)   == [param |-> TRUE, name |-> name]

PathParams(pattern) ==
  {pattern[i].name : i \in {j \in DOMAIN pattern : pattern[j].param}}

MatchPath(pattern, path) ==
  /\ Len(pattern) = Len(path)
  /\ \A i \in DOMAIN pattern :
       IF pattern[i].param THEN path[i] # NoText ELSE path[i] = Text(pattern[i].name)

Bindings(pattern, path) ==
  [name \in PathParams(pattern) |->
     path[CHOOSE i \in DOMAIN pattern : pattern[i] = Param(name)]]

KeyNames(res) == {res.keys[i].name : i \in DOMAIN res.keys}

CredentialKeys(res) ==
  {res.keys[i].name : i \in {j \in DOMAIN res.keys : res.keys[j].credential}}

\* A key spelt in another case is folded where its declaration says so.
FoldFor(res, name, t) ==
  IF \E i \in DOMAIN res.keys : res.keys[i].name = name /\ res.keys[i].fold
  THEN Lower(t) ELSE t

\* The column a parameter of a route fills.
Column(rt, param) == IF param \in DOMAIN rt.params THEN rt.params[param] ELSE param

ResourceOf(spec, name) == spec.resources[name]

RouteKind(rt) == [resource |-> rt.resource, list |-> rt.list]

First(indices) == CHOOSE i \in indices : \A j \in indices : i <= j

------------------------------------------------------------------------------
(* A request resolved against the routes. *)

\* Every parameter is declared, given once, and has a value in its range.
ModelledQuery(rt, query) ==
  \A name \in DOMAIN query :
    \E i \in DOMAIN rt.query :
      rt.query[i].name = name /\ query[name] \in rt.query[i].values

\* Declared values, defaults filled in.
FilledQuery(rt, query) ==
  [name \in {rt.query[i].name : i \in DOMAIN rt.query} |->
     IF name \in DOMAIN query THEN query[name]
     ELSE rt.query[CHOOSE i \in DOMAIN rt.query : rt.query[i].name = name].default]

KeyedParams(rt) ==
  {rt.query[i].name : i \in {j \in DOMAIN rt.query : rt.query[j].key}}

\* The key a request addresses: its path's parameters, the keyed ones of its
\* query, its credential and its body.
KeyOf(res, rt, req) ==
  LET bound    == Bindings(rt.path, req.path)
      query    == FilledQuery(rt, req.query)
      fromPath == {Column(rt, p) : p \in PathParams(rt.path)}
      fromArgs == {Column(rt, p) : p \in KeyedParams(rt)}
      body     == {rt.bodyKey} \ {""}
      Bound(name) == bound[CHOOSE p \in DOMAIN bound : Column(rt, p) = name]
      Arg(name)   == query[CHOOSE p \in KeyedParams(rt) : Column(rt, p) = name]
  IN  [name \in fromPath \cup fromArgs \cup CredentialKeys(res) \cup body |->
         CASE name \in body                -> req.body
           [] name \in CredentialKeys(res) -> req.auth
           [] name \in fromArgs            -> FoldFor(res, name, Arg(name))
           [] OTHER                        -> FoldFor(res, name, Bound(name))]

\* The first route of this path and method decides, whether it takes the
\* request or passes it on.
Candidates(spec, req) ==
  {i \in DOMAIN spec.routes :
     /\ MatchPath(spec.routes[i].path, req.path)
     /\ spec.routes[i].method = req.method}

Takes(spec, rt, req) ==
  /\ req.accept \in rt.accept
  /\ ModelledQuery(rt, req.query)
  /\ CredentialKeys(ResourceOf(spec, rt.resource)) # {} => req.auth # NoText

Resolves(spec, req) ==
  /\ Candidates(spec, req) # {}
  /\ Takes(spec, spec.routes[First(Candidates(spec, req))], req)

\* The plan of the fetch for a request that a route takes.
Resolve(spec, req) ==
  LET rt  == spec.routes[First(Candidates(spec, req))]
      res == ResourceOf(spec, rt.resource)
  IN  [route |-> rt,
       res   |-> res,
       key   |-> KeyOf(res, rt, req),
       query |-> FilledQuery(rt, req.query),
       path  |-> req.path,
       body  |-> IF rt.bodyKey = "" THEN NoText ELSE req.body]

------------------------------------------------------------------------------
(* The key as a string, and back. *)

\* Declared components in their positions, an absent one as the empty text,
\* and the extras by name.
KeyString(res, key) ==
  [parts  |-> [i \in DOMAIN res.keys |->
                 LET name == res.keys[i].name
                 IN  PathEscape(IF name \in DOMAIN key THEN key[name] ELSE NoText)],
   extras |-> [name \in DOMAIN key \ KeyNames(res) |-> PathEscape(key[name])]]

ParseKeyString(res, s) ==
  [name \in KeyNames(res) \cup DOMAIN s.extras |->
     IF name \in DOMAIN s.extras THEN PathUnescape(s.extras[name])
     ELSE PathUnescape(s.parts[CHOOSE i \in DOMAIN res.keys : res.keys[i].name = name])]

------------------------------------------------------------------------------
(* The sweep's plan for a stored key. *)

RoutesOfKind(spec, kind) ==
  {i \in DOMAIN spec.routes : RouteKind(spec.routes[i]) = kind}

Fillable(rt, key) ==
  \A p \in PathParams(rt.path) :
    Column(rt, p) \in DOMAIN key /\ key[Column(rt, p)] # NoText

FillPath(rt, key) ==
  [i \in DOMAIN rt.path |->
     IF rt.path[i].param THEN PathEscape(key[Column(rt, rt.path[i].name)])
     ELSE Text(rt.path[i].name)]

\* A key that cannot be turned back into a request, or whose resource is
\* keyed by the caller, is left alone.
CanPlan(spec, kind, s) ==
  /\ RoutesOfKind(spec, kind) # {}
  /\ LET rt  == spec.routes[First(RoutesOfKind(spec, kind))]
         res == ResourceOf(spec, rt.resource)
     IN  /\ CredentialKeys(res) = {}
         /\ Fillable(rt, ParseKeyString(res, s))

PlanFor(spec, kind, s) ==
  LET rt    == spec.routes[First(RoutesOfKind(spec, kind))]
      res   == ResourceOf(spec, rt.resource)
      key   == ParseKeyString(res, s)
      known == {p \in KeyedParams(rt) : Column(rt, p) \in DOMAIN key}
  IN  [route |-> rt, res |-> res, key |-> key,
       query |-> FilledQuery(rt, [p \in known |-> key[Column(rt, p)]]),
       path |-> FillPath(rt, key), body |-> NoText]

\* What the upstream is asked: a parameter without a value is left out.
UpstreamRequest(plan) ==
  [method |-> plan.route.method,
   path   |-> plan.path,
   query  |-> [name \in {n \in DOMAIN plan.query : plan.query[n] # NoText} |->
                 plan.query[name]],
   body   |-> plan.body]

------------------------------------------------------------------------------
(* A client's other spelling of a path. *)

Prefixed(rw, path) ==
  /\ Len(rw.from) <= Len(path)
  /\ \A i \in DOMAIN rw.from : path[i] = Text(rw.from[i])

\* The first rule applies and no other after it.  The escaped path becomes the
\* request's path, which is escaped again when it is read.
RewritePath(spec, path) ==
  LET rules == {i \in DOMAIN spec.rewrites : Prefixed(spec.rewrites[i], path)}
      rw    == spec.rewrites[First(rules)]
      to    == [i \in DOMAIN rw.to |-> Text(rw.to[i])]
      rest  == SubSeq(path, Len(rw.from) + 1, Len(path))
  IN  IF rules = {} THEN path
      ELSE to \o [i \in DOMAIN rest |-> PathEscape(rest[i])]
=============================================================================
