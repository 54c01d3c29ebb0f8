------------------------------- MODULE Serving -------------------------------
(***************************************************************************)
(* Requests answered from stored rows (internal/mirror/engine.go,          *)
(* fetch.go, router.go, plan.go, store_resources.go), one at a time: who   *)
(* answers, under which key, from which rows, and what a write or a sweep  *)
(* does to them.  When a key is due, what failures do, and how requests    *)
(* for one key meet are Freshness and Mirror; who may read is Reveal.      *)
(*                                                                         *)
(* The upstream holds items, each shown at a path of its own, under the    *)
(* query it has there, and in a list at another, where the query admits it.*)
(* It reads a path without regard to case and unescapes each segment once; *)
(* a parameter it is not given has its own default.  Items only ever       *)
(* vanish: an item that changes is Mirror's.                               *)
(***************************************************************************)
EXTENDS Validation

CONSTANTS Worlds,  \* name -> [spec, items, requests]: a specification, an upstream, its callers
          Defaults \* query parameter -> the upstream's own value for it

\* items:    [method, at, under, in, where, viewer, body, doc]
\* requests: [method, path, query, accept, auth, body]

\* Paths and rules are sequences, and what a request or a default says is text.
WellFormed(w) ==
  /\ DOMAIN w.spec.routes \subseteq Nat /\ DOMAIN w.spec.rewrites \subseteq Nat
  /\ DOMAIN w.spec.purges \subseteq Nat
  /\ \A i \in DOMAIN w.spec.routes :
       LET rt == w.spec.routes[i]
       IN  /\ rt.path \in Seq([param : BOOLEAN, name : STRING])
           /\ \A j \in DOMAIN rt.query : rt.query[j].default \in Texts
  /\ \A i \in DOMAIN w.spec.purges :
       w.spec.purges[i].path \in Seq([param : BOOLEAN, name : STRING])
  /\ \A i \in DOMAIN w.spec.rewrites :
       w.spec.rewrites[i].from \in Seq(STRING) /\ w.spec.rewrites[i].to \in Seq(STRING)
  /\ \A req \in w.requests :
       /\ req = [method |-> req.method, path |-> req.path, query |-> req.query,
                 accept |-> req.accept, auth |-> req.auth, body |-> req.body]
       /\ req.path \in Seq(Texts) /\ req.auth \in Texts /\ req.body \in Texts
       /\ \A name \in DOMAIN req.query : req.query[name] \in Texts

ASSUME ServingAssumption == \A w \in DOMAIN Worlds : WellFormed(Worlds[w])

VARIABLES world, \* the name of the one this is
          truth, \* what the upstream still has
          wiped, \* items a write dropped the rows of and the upstream kept
          rows,  \* stored rows, [res, cells]
          marks, \* (kind, key string) -> [fresh, status, plan of its last reader]
          told   \* what the last step told its caller

vars == <<world, truth, wiped, rows, marks, told>>

spec     == Worlds[world].spec
Items    == Worlds[world].items

------------------------------------------------------------------------------
(* The upstream. *)

Reads(path) == [i \in DOMAIN path |-> Lower(PathUnescape(path[i]))]

\* The items a request is about, of those given.
Meant(items, asked, auth) ==
  {i \in items :
     /\ i.method = asked.method
     /\ Reads(asked.path) \in {i.at, i.in}
     /\ i.viewer \in {NoText, auth}
     /\ i.body = asked.body
     /\ LET where == IF Reads(asked.path) = i.in THEN i.where ELSE i.under
        IN  \A name \in DOMAIN where :
              where[name] = IF name \in DOMAIN asked.query THEN asked.query[name]
                            ELSE Defaults[name]}

\* A list of them, the one there is, or a refusal.
UpstreamAnswer(items, asked, auth) ==
  LET list  == \E i \in Items : Reads(asked.path) = i.in
      meant == Meant(items, asked, auth)
  IN  [status |-> IF list \/ meant # {} THEN 200 ELSE 404, list |-> list, items |-> meant]

------------------------------------------------------------------------------
(* The store. *)

\* keyPredicate: rows whose columns have the values the key gives them.
Selected(stored, res, key) ==
  {r \in stored : /\ r.res = res.name
                  /\ \A name \in DOMAIN key \cap (KeyNames(res) \cup FieldNames(res)) :
                       r.cells[name] = key[name]}

KeyCells(res, cells) == [name \in KeyNames(res) |-> cells[name]]

\* A cell no one supplied is null.
RowOf(res, cells) ==
  [res   |-> res.name,
   cells |-> [name \in Columns(res) |-> IF name \in DOMAIN cells THEN cells[name] ELSE Null]]

\* INSERT OR REPLACE.
PutMany(stored, res, new) ==
  {r \in stored : r.res = res.name =>
     \A n \in new : KeyCells(res, r.cells) # KeyCells(res, n.cells)} \cup new

\* By the declared keys alone.
MutantDelete(stored, res, key) ==
  stored \ Selected(stored, res, [name \in DOMAIN key \cap KeyNames(res) |-> key[name]])

Delete(stored, res, key) == stored \ Selected(stored, res, key)

ReplaceMany(stored, res, key, new) == PutMany(Delete(stored, res, key), res, new)

------------------------------------------------------------------------------
(* An answer of the upstream, absorbed. *)

\* The cells of a document: a single answer's key is the one asked for, an
\* item of a list has its own where it carries one.
Filed(plan, doc) ==
  LET cells == IF plan.res.store = "document"
               THEN [name \in {"document"} |-> Trim(plan.res, doc)]
               ELSE Absorb(plan.res, Trim(plan.res, doc))
      Asked(name) == /\ name \in DOMAIN plan.key
                     /\ plan.route.list => name \notin DOMAIN cells
  IN  [name \in DOMAIN cells \cup DOMAIN plan.key |->
         IF Asked(name) THEN plan.key[name] ELSE cells[name]]

\* storable, decodeJSON and requireKeys: what cannot be stored as it stands is
\* an error, and one bad item makes the whole answer one.
Storable(plan, answer) ==
  \/ answer.status # 200 /\ answer.status \in plan.route.absorb
  \/ /\ answer.status = 200
     /\ answer.list = plan.route.list
     /\ \A i \in answer.items :
          /\ Absorbable(Filed(plan, i.doc))
          /\ plan.res.store = "columns" => Identified(plan.res, Filed(plan, i.doc))

\* absorbAnswer: a complete list replaces the rows under its key.
AbsorbAnswer(stored, plan, answer) ==
  LET new == {RowOf(plan.res, Filed(plan, i.doc)) : i \in answer.items}
  IN  IF answer.status # 200 THEN stored
      ELSE IF plan.route.complete THEN ReplaceMany(stored, plan.res, plan.key, new)
      ELSE PutMany(stored, plan.res, new)

\* read: the documents of the rows a key selects.
ReadRows(stored, plan) ==
  {Rebuild(plan.res, r.cells) : r \in Selected(stored, plan.res, plan.key)}

------------------------------------------------------------------------------
(* Who answers (dispatch).  A specification says it of a request, whatever is *)
(* stored.                                                                    *)

Silent == [by |-> "nobody"]

Rewritten(s, req) == [req EXCEPT !.path = RewritePath(s, req.path)]

\* The dashboard, the health checks and the events path.
IsOwn(s, req) == req.path \in s.own

MatchRelay(s, req) ==
  \E rl \in s.relays : rl.method = req.method /\ MatchPath(rl.path, req.path)

\* Every purge a write names.
MatchPurges(s, req) ==
  {i \in DOMAIN s.purges : /\ s.purges[i].method = req.method
                           /\ MatchPath(s.purges[i].path, req.path)}

\* A key spelt as the caller spelt it.
MutantPurgeKey(res, params, auth) ==
  [name \in CredentialKeys(res) \cup (KeyNames(res) \cap DOMAIN params) |->
     IF name \in CredentialKeys(res) THEN auth ELSE params[name]]

\* The row a write addresses: parameters that are no key are dropped.
PurgeKey(res, params, auth) ==
  [name \in CredentialKeys(res) \cup (KeyNames(res) \cap DOMAIN params) |->
     IF name \in CredentialKeys(res) THEN auth ELSE FoldFor(res, name, params[name])]

\* What a write names, by the parameters of the first match.
Purged(s, req) ==
  LET matched == MatchPurges(s, req)
      params  == Bindings(s.purges[First(matched)].path, req.path)
      Res(i)  == s.resources[s.purges[i].resource]
  IN  {[res |-> Res(i), key |-> PurgeKey(Res(i), params, req.auth)] : i \in matched}

\* A write that does not say who sends it may not have its rows named.
CanPurge(s, req) ==
  \A i \in MatchPurges(s, req) :
    CredentialKeys(s.resources[s.purges[i].resource]) # {} => req.auth # NoText

Answerer(s, req) ==
  CASE IsOwn(s, req)                                    -> "mirror"
    [] ~IsOwn(s, req) /\ MatchRelay(s, req)             -> "relay"
    [] ~IsOwn(s, req) /\ ~MatchRelay(s, req) /\ MatchPurges(s, req) # {} ->
         IF CanPurge(s, req) THEN "purge" ELSE "upstream"
    [] OTHER -> IF Resolves(s, req) THEN "route" ELSE "upstream"

\* A request as it reaches its handler: a route's has a plan, a purge's names
\* rows.
Dispatched(s, asked) ==
  LET req == Rewritten(s, asked)
      by  == Answerer(s, req)
  IN  [by     |-> by,
       req    |-> req,
       plan   |-> IF by = "route" THEN Resolve(s, req) ELSE Silent,
       purged |-> IF by = "purge" THEN Purged(s, req) ELSE {}]

\* What may be asked in each world that is served.
Arrivals ==
  [w \in {v \in DOMAIN Worlds : Valid(Worlds[v].spec)} |->
     {Dispatched(Worlds[w].spec, asked) : asked \in Worlds[w].requests}]

------------------------------------------------------------------------------
(* The steps. *)

Init ==
  /\ world \in DOMAIN Arrivals
  /\ truth = Items
  /\ wiped = {} /\ rows = {} /\ marks = <<>>
  /\ told = Silent

\* By the declared keys alone.
MutantFreshKey(plan) ==
  LET key == [name \in DOMAIN plan.key \cap KeyNames(plan.res) |-> plan.key[name]]
  IN  <<RouteKind(plan.route), KeyString(plan.res, key)>>

\* The kind and the key string that a plan's bookkeeping row is under.
FreshKey(plan) == <<RouteKind(plan.route), KeyString(plan.res, plan.key)>>

\* serve: a marked key is answered from its rows, any other is fetched first.
\* An answer that cannot be stored is an error, and nothing is stored of it.
Serve(req, plan) ==
  LET k      == FreshKey(plan)
      hit    == k \in DOMAIN marks /\ marks[k].fresh
      answer == UpstreamAnswer(truth, UpstreamRequest(plan), req.auth)
      mark   == [fresh |-> TRUE, status |-> answer.status, plan |-> plan]
      status == IF hit THEN marks[k].status ELSE answer.status
      stored == IF hit THEN rows ELSE AbsorbAnswer(rows, plan, answer)
      docs   == ReadRows(stored, plan)
      Told(code, shown) ==
        [by |-> "route", req |-> req, plan |-> plan, status |-> code, docs |-> shown,
         fetched |-> ~hit]
  IN  /\ IF hit \/ Storable(plan, answer)
         THEN /\ rows' = stored
              /\ marks' = IF hit THEN marks
                          ELSE [j \in DOMAIN marks \cup {k} |-> IF j = k THEN mark ELSE marks[j]]
              /\ wiped' = IF hit THEN wiped ELSE wiped \ answer.items
              /\ told' = IF status = 404 \/ (~plan.route.list /\ docs = {})
                         THEN Told(404, {}) ELSE Told(200, docs)
         ELSE /\ told' = Told(502, {})
              /\ UNCHANGED <<rows, marks, wiped>>
      /\ UNCHANGED <<world, truth>>

\* What a confirmed write does to the upstream: it deletes, or it leaves the
\* item in place.
Confirms(req) ==
  \E i \in truth : Reads(req.path) \in {i.at, i.in} /\ i.viewer \in {NoText, req.auth}

Applied(req) ==
  {i \in truth : ~(/\ req.method = "DELETE" /\ i.at = Reads(req.path)
                   /\ i.viewer \in {NoText, req.auth})}

\* forwardAndPurge: a write goes to the upstream, and the rows it names go
\* once it is confirmed.
Purge(req, purged) ==
  LET dropped == UNION {Selected(rows, p.res, p.key) : p \in purged}
  IN  /\ Confirms(req)
      /\ truth' = Applied(req)
      /\ rows' = rows \ dropped
      /\ wiped' = wiped \cup {i \in Applied(req) : \E n \in 1 .. Len(i.at) :
                                SubSeq(i.at, 1, n) = Reads(req.path)}
      /\ told' = [by |-> "purge", req |-> req]
      /\ UNCHANGED <<world, marks>>

\* A write the upstream refuses purges nothing.
Refused(req) ==
  /\ ~Confirms(req)
  /\ told' = Silent
  /\ UNCHANGED <<world, truth, wiped, rows, marks>>

\* Whatever else is asked changes no row.
PassOn(req, by) ==
  /\ truth' = IF by = "upstream" THEN Applied(req) ELSE truth
  /\ told' = Silent
  /\ UNCHANGED <<world, wiped, rows, marks>>

Ask(a) ==
  \/ a.by = "route" /\ Serve(a.req, a.plan)
  \/ a.by = "purge" /\ (Purge(a.req, a.purged) \/ Refused(a.req))
  \/ a.by \notin {"route", "purge"} /\ PassOn(a.req, a.by)

Expire(k) ==
  /\ marks[k].fresh
  /\ marks' = [marks EXCEPT ![k].fresh = FALSE]
  /\ told' = Silent
  /\ UNCHANGED <<world, truth, wiped, rows>>

\* The sweep asks for a key that is due as its string says, with no caller's
\* credential.  A key it has no plan for is left alone.
Sweep(k) ==
  LET plan   == PlanFor(spec, k[1], k[2])
      answer == UpstreamAnswer(truth, UpstreamRequest(plan), NoText)
      stored == AbsorbAnswer(rows, plan, answer)
  IN  /\ ~marks[k].fresh
      /\ CanPlan(spec, k[1], k[2])
      /\ Storable(plan, answer)
      /\ rows' = stored
      /\ marks' = [marks EXCEPT ![k].fresh = TRUE, ![k].status = answer.status]
      /\ wiped' = wiped \ answer.items
      /\ told' = [by |-> "sweep", plan |-> plan, status |-> answer.status,
                  docs |-> ReadRows(stored, marks[k].plan), fetched |-> TRUE]
      /\ UNCHANGED <<world, truth>>

Vanish(i) ==
  /\ truth' = truth \ {i}
  /\ told' = Silent
  /\ UNCHANGED <<world, wiped, rows, marks>>

Next ==
  \/ \E a \in Arrivals[world] : Ask(a)
  \/ \E k \in DOMAIN marks : Expire(k)
  \/ \E k \in DOMAIN marks : Sweep(k)
  \/ \E i \in truth : Vanish(i)

Spec == Init /\ [][Next]_vars
------------------------------------------------------------------------------
(* What is served is what the upstream says. *)

\* What a value means, whatever its JSON type and its case.
Meaning(v) == IF v = Null THEN Null ELSE Lower(v.content)

MeaningOf(doc) == [path \in DOMAIN doc |-> Meaning(doc[path])]

\* What a specification says a reader sees of an upstream document.
Shown(res, doc) ==
  IF res.store = "document"
  THEN [path \in {p \in DOMAIN doc : p \in res.drop => p \in res.keep} |-> Meaning(doc[path])]
  ELSE [name \in KeyNames(res) \cup FieldNames(res) |->
          LET declared == CHOOSE d \in {res.keys[i] : i \in DOMAIN res.keys}
                                  \cup {res.fields[i] : i \in DOMAIN res.fields} : d.name = name
          IN  Meaning(At(doc, IF declared.from = "" THEN name ELSE declared.from))]

\* The request as its caller would have sent it to the upstream.
Direct(req) ==
  [method |-> req.method, path |-> req.path, query |-> req.query, body |-> req.body]

ShownOf(items, req) ==
  {Shown(told.plan.res, i.doc) : i \in Meant(items, Direct(req), req.auth)}

\* A caller who is answered from stored rows is told what the upstream would
\* tell that caller of that request: documents of items it has or had, each
\* meaning what it means there, and every item it has left (but for those
\* whose rows a write dropped); it is told that there is nothing only when
\* that is so.  Right after its own fetch a complete list shows nothing that
\* vanished (keyString, resolve, fetch, read).
AnswersTheQuestion ==
  told.by = "route" =>
    LET shown == {MeaningOf(d) : d \in told.docs}
    IN  /\ shown \subseteq ShownOf(Items, told.req)
        /\ told.status # 502 => ShownOf(truth \ wiped, told.req) \subseteq shown
        /\ told.status = 404 => ~UpstreamAnswer(Items, Direct(told.req), told.req.auth).list
        /\ told.fetched /\ told.plan.route.complete /\ told.status = 200 =>
             shown = ShownOf(truth, told.req)

\* A read that a route takes and that is about the same thing as a write, or
\* about a thing under it.
Concerns(write, a) ==
  LET above == Reads(write.path)
      here  == Reads(a.req.path)
      res   == a.plan.res
  IN  /\ Len(above) <= Len(here) /\ SubSeq(here, 1, Len(above)) = above
      /\ CredentialKeys(res) # {} => a.req.auth = write.auth

ReadsOfOne ==
  {a \in Arrivals[world] : a.by = "route" /\ ~a.plan.route.list}

\* After a write that the upstream confirmed no read of what it names, however
\* the write or the read spells it, finds a row; and no row that another
\* caller or a read of something else finds is gone (forwardAndPurge,
\* purgeKey).
PurgeDropsWhatItNames ==
  [][told'.by = "purge" =>
       \A a \in ReadsOfOne :
         IF Concerns(told'.req, a) THEN ReadRows(rows', a.plan) = {}
         ELSE ReadRows(rows', a.plan) = ReadRows(rows, a.plan)]_vars

\* The sweep of a key asks the upstream for what its readers asked for: the
\* path they named, in whatever case, and the values of the parameters that
\* tell one answer from another (planFor, fillPath, parseKeyString).
SweepAsksAsReadsDo ==
  \A k \in DOMAIN marks :
    CanPlan(spec, k[1], k[2]) =>
      LET sweep == UpstreamRequest(PlanFor(spec, k[1], k[2]))
          read  == UpstreamRequest(marks[k].plan)
          keyed == KeyedParams(marks[k].plan.route)
          Keyed(asked) == [p \in keyed \cap DOMAIN asked.query |-> Lower(asked.query[p])]
      IN  /\ Reads(sweep.path) = Reads(read.path)
          /\ Keyed(sweep) = Keyed(read)

\* A complete list that has just been fetched, by a reader or by the sweep,
\* has the rows of the items that the upstream named and no others (the
\* comment on Complete in fetch.go, docs/design.md).  The sweep's key has
\* every declared component, so it selects no row to replace.
CompleteListIsExact ==
  /\ told.by \in {"route", "sweep"}
  /\ told.fetched /\ told.plan.route.complete /\ told.status = 200
  => {MeaningOf(d) : d \in told.docs} =
        {Shown(told.plan.res, i.doc) :
           i \in Meant(truth, UpstreamRequest(told.plan), NoText)}
=============================================================================
