------------------------------ MODULE Validation ------------------------------
(***************************************************************************)
(* What a specification must be before it is served                        *)
(* (internal/mirror/validate.go): its resources, routes, purges and        *)
(* rewrites.  A specification is a record:                                 *)
(*                                                                         *)
(*   resources  name -> [name, keys, fields, store, drop, keep, reveal]    *)
(*   routes     sequence of [method, path, resource, list, complete,       *)
(*              params, query, accept, absorb, bodyKey]                    *)
(*   purges     sequence of [method, path, resource]                       *)
(*   rewrites   sequence of [from, to]                                     *)
(*   relays     set of [method, path]                                      *)
(*   own        paths of the dashboard, the health checks and the events   *)
(*                                                                         *)
(* The checks of spelling (names that are missing, media types, URLs) are  *)
(* left out, and so are those of the parts no request is answered from.    *)
(***************************************************************************)
EXTENDS Documents

Distinct(names) == Cardinality({names[i] : i \in DOMAIN names}) = Len(names)

ColumnNames(res) ==
  [i \in DOMAIN res.keys |-> res.keys[i].name]
    \o [i \in DOMAIN res.fields |-> res.fields[i].name]

\* A stored fact needs a rule about who may read it, and a proof that expires.
ValidReveal(reveal) ==
  IF reveal.credential THEN ~reveal.public /\ ~reveal.probe
  ELSE /\ reveal.public \/ reveal.probe
       /\ reveal.probe => reveal.grantTTL > 0 /\ reveal.denyTTL > 0

\* A fact with no identity cannot be stored once.
ValidResource(res) ==
  /\ Len(res.keys) > 0
  /\ Distinct(ColumnNames(res))
  /\ \A i \in DOMAIN res.keys : res.keys[i].credential => res.keys[i].from = ""
  /\ \/ res.store = "columns" /\ Len(res.fields) > 0
     \/ res.store = "document" /\ Len(res.fields) = 0
  /\ \A i \in DOMAIN res.fields :
       res.fields[i].type \in {"text", "int", "bool", "time", "json"}
  /\ res.keep # {} => res.drop # {}
  /\ res.reveal.credential => CredentialKeys(res) # {}
  /\ ValidReveal(res.reveal)

\* A query value is text, int or bool; without a key it needs a default.
ValidQuery(rt) ==
  /\ Distinct([i \in DOMAIN rt.query |-> rt.query[i].name])
  /\ \A i \in DOMAIN rt.query :
       /\ rt.query[i].type \in {"text", "int", "bool"}
       /\ rt.query[i].key \/ rt.query[i].default # NoText
  \* No transient failure is remembered.
  /\ \A status \in rt.absorb : status \in 100 .. 499 \ {429}

\* What the path, the keyed query and the body supply.
Supplied(rt) ==
  {Column(rt, p) : p \in PathParams(rt.path) \cup KeyedParams(rt)}
    \cup ({rt.bodyKey} \ {""})

\* Reads are cached, and mints that only their own caller is shown; a single
\* answer is keyed in full.
ValidRoute(spec, rt) ==
  /\ rt.resource \in DOMAIN spec.resources
  /\ LET res == spec.resources[rt.resource]
     IN  /\ rt.method \in {"GET", "HEAD"} \/ (rt.method = "POST" /\ res.reveal.credential)
         /\ rt.bodyKey # "" =>
              rt.method \notin {"GET", "HEAD"} /\ rt.bodyKey \in KeyNames(res)
         /\ rt.complete => rt.list
         /\ ~rt.list => KeyNames(res) \ CredentialKeys(res) \subseteq Supplied(rt)
  /\ ValidQuery(rt)

\* A purge names its resource's keys from the first one on, one at least.
ValidPurge(spec, p) ==
  /\ p.method \in {"POST", "PUT", "PATCH", "DELETE"}
  /\ p.resource \in DOMAIN spec.resources
  /\ LET res   == spec.resources[p.resource]
         plain == {i \in DOMAIN res.keys : ~res.keys[i].credential}
         Named(i) == res.keys[i].name \in PathParams(p.path)
     IN  /\ \A i, j \in plain : Named(j) /\ i <= j => Named(i)
         /\ (\E i \in plain : Named(i)) \/ CredentialKeys(res) # {}

ValidRewrite(rw) == Len(rw.from) > 0 /\ rw.from # rw.to

\* A relay forwards to a fixed URL, so its path takes no parameter.
ValidRelay(rl) == PathParams(rl.path) = {}

Valid(spec) ==
  /\ \A name \in DOMAIN spec.resources :
       /\ spec.resources[name].name = name
       /\ ValidResource(spec.resources[name])
  /\ \A i \in DOMAIN spec.routes : ValidRoute(spec, spec.routes[i])
  /\ \A i \in DOMAIN spec.purges : ValidPurge(spec, spec.purges[i])
  /\ \A i \in DOMAIN spec.rewrites : ValidRewrite(spec.rewrites[i])
  /\ \A rl \in spec.relays : ValidRelay(rl)
=============================================================================
