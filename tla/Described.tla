------------------------------ MODULE Described ------------------------------
(***************************************************************************)
(* What a specification owes to the upstream it describes, for the mirror  *)
(* to keep its promises (Serving).  Each condition is about one request, or *)
(* two, and about no state: whoever writes a specification sees to it, as   *)
(* Validate sees to none of them.  The theorems about Serving ask for them. *)
(***************************************************************************)
EXTENDS Serving

Readers(w) == {a \in Arrivals[w] : a.by = "route"}
Writers(w) == {b \in Arrivals[w] : b.by = "purge"}

\* What is fetched: what a reader asks, and what the sweep asks for its key.
MarkKey(plan)  == <<RouteKind(plan.route), KeyString(plan.res, plan.key)>>
ByReader(a)    == [plan |-> a.plan, auth |-> a.req.auth]
BySweep(w, k)  == [plan |-> PlanFor(Worlds[w].spec, k[1], k[2]), auth |-> NoText]

Due(w) ==
  {k \in {MarkKey(a.plan) : a \in Readers(w)} : CanPlan(Worlds[w].spec, k[1], k[2])}

Fetches(w) == {ByReader(a) : a \in Readers(w)} \cup {BySweep(w, k) : k \in Due(w)}

\* The fetches that make a key fresh.
Refills(w, k) ==
  {ByReader(a) : a \in {b \in Readers(w) : MarkKey(b.plan) = k}}
    \cup {BySweep(w, j) : j \in Due(w) \cap {k}}

\* The items an upstream that has them all answers a fetch with, the row each
\* is stored in, and whether a plan reads that row.
Heard(w, f)    == Meant(Worlds[w].items, UpstreamRequest(f.plan), f.auth)
RowFor(f, i)   == RowOf(f.plan.res, Filed(f.plan, i.doc))
Finds(plan, r) == Selected({r}, plan.res, plan.key) # {}

------------------------------------------------------------------------------
(* Reads. *)

\* A default that a route fills in is the upstream's own, no parameter is given
\* without a value, and a body that is not in the key is not sent.
DefaultsAgree(w) ==
  \A a \in Readers(w) :
    /\ \A name \in DOMAIN a.req.query : a.req.query[name] # NoText
    /\ \A i \in DOMAIN a.plan.route.query :
         a.plan.route.query[i].default \in {NoText, Defaults[a.plan.route.query[i].name]}
    /\ a.plan.route.bodyKey = "" => a.req.body = NoText

\* The key tells one question from another: whoever refills a key asks, at the
\* same path, for what each of its readers asks for, and stores it where they
\* look.
KeysTellApart(w) ==
  \A a \in Readers(w) : \A f \in Refills(w, MarkKey(a.plan)) :
    /\ Heard(w, f) = Heard(w, ByReader(a))
    /\ Reads(f.plan.path) = Reads(a.plan.path)
    /\ \A i \in Heard(w, f) : Finds(a.plan, RowFor(f, i))

\* The documents of the upstream have what the resource declares, in a form
\* that its columns keep.
RowsReadBack(w) ==
  \A f \in Fetches(w) : \A i \in Heard(w, f) :
    Absorbable(Filed(f.plan, i.doc)) =>
      MeaningOf(Rebuild(f.plan.res, RowFor(f, i).cells)) = Shown(f.plan.res, i.doc)

\* A plan reads no row of an item that the upstream would not answer it with.
RowsAreMeant(w) ==
  \A f, g \in Fetches(w) : \A i \in Heard(w, f) :
    Finds(g.plan, RowFor(f, i)) => i \in Heard(w, g)

\* A row gives way to another of its key, or to a complete list that its plan
\* finds it under, only where that is a row of the same item for the same
\* readers.
RowsGiveWay(w) ==
  \A f, g \in Fetches(w) : \A i \in Heard(w, f), j \in Heard(w, g) :
    LET old == RowFor(f, i)
        new == RowFor(g, j)
    IN  \/ /\ f.plan.res = g.plan.res
           /\ KeyCells(g.plan.res, old.cells) = KeyCells(g.plan.res, new.cells)
        \/ g.plan.route.complete /\ i = j /\ Finds(g.plan, old)
        => i = j /\ \A a \in Readers(w) : Finds(a.plan, old) => Finds(a.plan, new)

\* A purge drops only rows of items that are at the path of the write or under
\* it.  Of those that it leaves upstream every fetch stores a row for all their
\* readers.
PurgesReach(w) ==
  \A b \in Writers(w), f \in Fetches(w) : \A i \in Heard(w, f) :
    LET at    == Reads(b.req.path)
        under == \E n \in 1 .. Len(i.at) : SubSeq(i.at, 1, n) = at
        gone  == b.req.method = "DELETE" /\ i.at = at /\ i.viewer \in {NoText, b.req.auth}
    IN  /\ \A p \in b.purged : RowFor(f, i) \in Selected({RowFor(f, i)}, p.res, p.key) => under
        /\ under /\ ~gone =>
             \A a \in Readers(w) : i \in Heard(w, ByReader(a)) => Finds(a.plan, RowFor(f, i))

Describes(w) ==
  /\ DefaultsAgree(w)
  /\ KeysTellApart(w)
  /\ RowsReadBack(w)
  /\ RowsAreMeant(w)
  /\ RowsGiveWay(w)
  /\ PurgesReach(w)

------------------------------------------------------------------------------
(* Sweeps. *)

\* Each parameter of a route has a place and a column of its own.
OneColumnEach(rt) ==
  /\ \A i, j \in DOMAIN rt.path : rt.path[i].param /\ rt.path[i] = rt.path[j] => i = j
  /\ PathParams(rt.path) \cap KeyedParams(rt) = {}
  /\ \A p, q \in PathParams(rt.path) \cup KeyedParams(rt) :
       Column(rt, p) = Column(rt, q) => p = q

\* The first route of a kind takes the requests for keys that are swept, its
\* parameters do not share a column, and no segment of their path is escaped.
Sweepable(w) ==
  LET s == Worlds[w].spec
  IN  \A a \in Readers(w) :
        CredentialKeys(a.plan.res) = {} =>
          /\ a.plan.route = s.routes[First(RoutesOfKind(s, RouteKind(a.plan.route)))]
          /\ OneColumnEach(a.plan.route)
          /\ \A i \in DOMAIN a.req.path : a.req.path[i].escaped = 0

------------------------------------------------------------------------------
(* Writes. *)

\* No parameter fills the column of a credential or of the body.
BodyColumns(rt) == {rt.bodyKey} \ {""}

OwnColumns(res, rt) ==
  /\ OneColumnEach(rt)
  /\ BodyColumns(rt) \cap CredentialKeys(res) = {}
  /\ \A p \in PathParams(rt.path) \cup KeyedParams(rt) :
       Column(rt, p) \notin CredentialKeys(res) \cup BodyColumns(rt)

\* A purge's path goes along the route's: it names the keys that the route
\* names there.
Along(pattern, res, rt) ==
  /\ Len(pattern) <= Len(rt.path)
  /\ \A i \in DOMAIN pattern :
       IF pattern[i].param
       THEN /\ rt.path[i].param
            /\ pattern[i].name = Column(rt, rt.path[i].name)
            /\ pattern[i].name \in KeyNames(res)
       ELSE rt.path[i] = pattern[i]

\* Two requests that name the same thing escape it alike and, where the key is
\* not folded, spell it in the same case.
SpeltAlike(t, u, folded) ==
  Lower(PathUnescape(t)) = Lower(PathUnescape(u)) =>
    t.escaped = u.escaped /\ (folded \/ t.upper = u.upper)

Folded(res, name) == \E i \in DOMAIN res.keys : res.keys[i].name = name /\ res.keys[i].fold

\* A write purges the resource of each read of what it is about, and names what
\* it purges as that is read.
PurgesNameRows(w) ==
  LET s == Worlds[w].spec
  IN  \A b \in Writers(w), a \in {c \in Readers(w) : ~c.plan.route.list} :
        LET matched == MatchPurges(s, b.req)
            purges  == \E j \in matched : s.purges[j].resource = a.plan.route.resource
        IN  /\ Concerns(b.req, a) => purges
            /\ purges =>
                 /\ OwnColumns(a.plan.res, a.plan.route)
                 /\ Along(s.purges[First(matched)].path, a.plan.res, a.plan.route)
                 /\ \A i \in DOMAIN b.req.path :
                      a.plan.route.path[i].param =>
                        SpeltAlike(a.req.path[i], b.req.path[i],
                                   Folded(a.plan.res,
                                          Column(a.plan.route, a.plan.route.path[i].name)))
------------------------------------------------------------------------------
(* What is stored, under a specification that describes its upstream. *)

Listed(w, path) == \E i \in Worlds[w].items : Reads(path) = i.in

\* The row of an item that some fetch stores.
IsRow(w, r, i) ==
  \E f \in Fetches(w) :
    i \in Heard(w, f) /\ Absorbable(Filed(f.plan, i.doc)) /\ r = RowFor(f, i)

Covers(w, stored, a, i) == \E r \in stored : IsRow(w, r, i) /\ Finds(a.plan, r)

\* What a fresh mark promises each reader of its key.
Current(w, left, dropped, stored, status, a) ==
  /\ status \in {200, 404}
  /\ status = 200 => Listed(w, a.plan.path) = a.plan.route.list
  /\ status = 404 => ~Listed(w, a.plan.path) /\ Heard(w, ByReader(a)) \cap left = {}
  /\ \A i \in Heard(w, ByReader(a)) \cap (left \ dropped) : Covers(w, stored, a, i)

\* Whoever fetches the item stores a row of it for all its readers.
Reached(w, i) ==
  \A f \in Fetches(w), a \in Readers(w) :
    i \in Heard(w, f) /\ i \in Heard(w, ByReader(a)) => Finds(a.plan, RowFor(f, i))

\* Every row is of an item the upstream has or had.  While a mark is fresh each
\* reader of its key finds a row of every item it asks for that is left, but for
\* those whose rows a write dropped, and the remembered status is what the
\* upstream said of that reader's path, whoever fetched (fetch, absorbAnswer,
\* forwardAndPurge).  An item whose rows were dropped comes back for all its
\* readers with the first of them.
StoreInv ==
  /\ truth \subseteq Items
  /\ \A r \in rows : \E i \in Items : IsRow(world, r, i)
  /\ \A i \in wiped : Reached(world, i)
  /\ \A k \in DOMAIN marks : \A a \in Readers(world) :
       marks[k].fresh /\ MarkKey(a.plan) = k =>
         Current(world, truth, wiped, rows, marks[k].status, a)
=============================================================================
