---------------------------- MODULE ServingProofs ----------------------------
(***************************************************************************)
(* What holds of Serving under any specification and before any upstream.  *)
(*                                                                         *)
(* Keys: a key string gives its key back (plan.go), and requests that      *)
(* share one ask the same.  The sweep: a route puts each parameter of a    *)
(* request under a column of its own and takes it from there again.        *)
(* Purges: the columns a write fills in are those its rows were stored     *)
(* under.  Answers: what is stored is what the upstream has (StoreInv), so *)
(* that an answer out of the store is the upstream's.                      *)
(***************************************************************************)
EXTENDS Described, TLAPS, WellFoundedInduction

------------------------------------------------------------------------------
(* Texts. *)

LEMMA Fields ==
  ASSUME NEW word, NEW upper, NEW escaped
  PROVE  /\ Spelt(word, upper, escaped).word = word
         /\ Spelt(word, upper, escaped).upper = upper
         /\ Spelt(word, upper, escaped).escaped = escaped
  BY DEF Spelt

LEMMA TextIs ==
  ASSUME NEW t \in Texts
  PROVE  /\ t = Spelt(t.word, t.upper, t.escaped)
         /\ t.word \in STRING /\ t.upper \in BOOLEAN /\ t.escaped \in Nat
         /\ t.upper => t.word # ""
         /\ t.word \notin Special => t.escaped = 0
  BY DEF Texts, Spelt

LEMMA Escapes == ASSUME NEW t \in Texts PROVE t.escaped \in Nat
  BY DEF Texts

LEMMA LowerFields ==
  ASSUME NEW t
  PROVE  /\ Lower(t).word = t.word
         /\ Lower(t).escaped = t.escaped
  BY DEF Lower, Spelt

LEMMA NothingFields == NoText.word = "" /\ NoText.escaped = 0 /\ Lower(NoText) = NoText
  BY DEF Lower, NoText, Text, Spelt

LEMMA IsText ==
  ASSUME NEW word \in STRING, NEW upper \in BOOLEAN, NEW escaped \in Nat,
         upper => word # "", word \notin Special => escaped = 0
  PROVE  Spelt(word, upper, escaped) \in Texts
  BY DEF Texts, Spelt

LEMMA WordIsText == ASSUME NEW word \in STRING PROVE Text(word) \in Texts
  BY IsText DEF Text

LEMMA LowerIsText == ASSUME NEW t \in Texts PROVE Lower(t) \in Texts
  BY TextIs, IsText DEF Lower

LEMMA EscapeIsText == ASSUME NEW t \in Texts PROVE PathEscape(t) \in Texts
<1>1. CASE t.word \in Special
  <2>1. t.escaped + 1 \in Nat
    BY Escapes
  <2>2. Spelt(t.word, t.upper, t.escaped + 1) \in Texts
    BY <1>1, <2>1, TextIs, IsText
  <2>3. QED
    BY <1>1, <2>2, Zenon DEF PathEscape
<1>2. CASE t.word \notin Special
  BY <1>2 DEF PathEscape
<1>3. QED
  BY <1>1, <1>2

LEMMA SpeltComesBack ==
  ASSUME NEW word, NEW upper, NEW escaped \in Nat, word \notin Special => escaped = 0
  PROVE  PathUnescape(PathEscape(Spelt(word, upper, escaped))) = Spelt(word, upper, escaped)
<1>1. CASE word \in Special
  <2>1. PathEscape(Spelt(word, upper, escaped)) = Spelt(word, upper, escaped + 1)
    BY <1>1, Fields DEF PathEscape
  <2>2. PathUnescape(Spelt(word, upper, escaped + 1)) = Spelt(word, upper, (escaped + 1) - 1)
    BY Fields DEF PathUnescape
  <2>3. QED
    BY <2>1, <2>2
<1>2. CASE word \notin Special
  BY <1>2, Fields DEF PathEscape, PathUnescape
<1>3. QED
  BY <1>1, <1>2

LEMMA EscapeComesBack ==
  ASSUME NEW t \in Texts PROVE PathUnescape(PathEscape(t)) = t
<1>1. t = Spelt(t.word, t.upper, t.escaped) /\ t.escaped \in Nat
      /\ (t.word \notin Special => t.escaped = 0)
  BY TextIs
<1>2. PathUnescape(PathEscape(Spelt(t.word, t.upper, t.escaped))) =
        Spelt(t.word, t.upper, t.escaped)
  BY <1>1, SpeltComesBack
<1>3. QED
  BY <1>1, <1>2, Zenon

LEMMA NothingComesBack == PathUnescape(PathEscape(NoText)) = NoText
  BY SpeltComesBack DEF NoText, Text

LEMMA LowerTwice ==
  ASSUME NEW t \in Texts
  PROVE  /\ Lower(Lower(t)) = Lower(t)
         /\ Lower(t) = NoText <=> t = NoText
<1>1. Lower(Lower(t)) = Lower(t)
  BY LowerFields DEF Lower
<1>2. ASSUME Lower(t) = NoText PROVE t = NoText
  <2>1. t.word = "" /\ t.escaped = 0
    BY <1>2, LowerFields, NothingFields
  <2>2. QED
    BY <2>1, TextIs DEF NoText, Text
<1>3. Lower(NoText) = NoText
  BY NothingFields
<1>4. QED
  BY <1>1, <1>2, <1>3

LEMMA FoldIsText ==
  ASSUME NEW res, NEW name, NEW t \in Texts
  PROVE  /\ FoldFor(res, name, t) \in Texts
         /\ Lower(FoldFor(res, name, t)) = Lower(t)
         /\ FoldFor(res, name, t) = NoText <=> t = NoText
  BY LowerIsText, LowerTwice DEF FoldFor

------------------------------------------------------------------------------
(* Key strings. *)

\* A key string gives back the key it was made of, and the components the key
\* does not name as empty text, for any declaration and any values
\* (keyString, parseKeyString).
THEOREM KeysComeBack ==
  ASSUME NEW res, NEW key, \A name \in DOMAIN key : key[name] \in Texts
  PROVE  ParseKeyString(res, KeyString(res, key)) =
           [name \in KeyNames(res) \cup DOMAIN key |->
              IF name \in DOMAIN key THEN key[name] ELSE NoText]
<1> DEFINE s == KeyString(res, key)
           Part(name) == PathEscape(IF name \in DOMAIN key THEN key[name] ELSE NoText)
<1>1. DOMAIN s.extras = DOMAIN key \ KeyNames(res)
  BY DEF KeyString
<1>2. ASSUME NEW name \in DOMAIN s.extras PROVE PathUnescape(s.extras[name]) = key[name]
  <2>1. s.extras[name] = PathEscape(key[name])
    BY <1>2 DEF KeyString
  <2>2. QED
    BY <1>1, <1>2, <2>1, EscapeComesBack
<1>3. ASSUME NEW name \in KeyNames(res)
      PROVE  PathUnescape(s.parts[CHOOSE i \in DOMAIN res.keys : res.keys[i].name = name])
               = IF name \in DOMAIN key THEN key[name] ELSE NoText
  <2> DEFINE i == CHOOSE j \in DOMAIN res.keys : res.keys[j].name = name
  <2>1. i \in DOMAIN res.keys /\ res.keys[i].name = name
    BY <1>3 DEF KeyNames
  <2>2. s.parts[i] = Part(name)
    BY <2>1 DEF KeyString
  <2>3. QED
    BY <2>2, NothingComesBack, EscapeComesBack
<1> DEFINE Back(name) ==
             IF name \in DOMAIN s.extras THEN PathUnescape(s.extras[name])
             ELSE PathUnescape(s.parts[CHOOSE i \in DOMAIN res.keys : res.keys[i].name = name])
           Given(name) == IF name \in DOMAIN key THEN key[name] ELSE NoText
<1>4. ParseKeyString(res, s) = [name \in KeyNames(res) \cup DOMAIN s.extras |-> Back(name)]
  BY Zenon DEF ParseKeyString
<1>5. KeyNames(res) \cup DOMAIN s.extras = KeyNames(res) \cup DOMAIN key
  BY <1>1
<1>6. \A name \in KeyNames(res) \cup DOMAIN key : Back(name) = Given(name)
  BY <1>1, <1>2, <1>3, Zenon
<1> HIDE DEF Back, Given
<1>7. [name \in KeyNames(res) \cup DOMAIN key |-> Back(name)] =
        [name \in KeyNames(res) \cup DOMAIN key |-> Given(name)]
  BY <1>6
<1>8. QED
  BY <1>4, <1>5, <1>7, Zenon DEF Given

------------------------------------------------------------------------------
(* The key of a request. *)

Segments == [param : BOOLEAN, name : STRING]

\* What a route makes of the parameters of a request.
PathColumns(rt) == {Column(rt, p) : p \in PathParams(rt.path)}
ArgColumns(rt)  == {Column(rt, p) : p \in KeyedParams(rt)}

KeyColumns(res, rt) ==
  PathColumns(rt) \cup ArgColumns(rt) \cup CredentialKeys(res) \cup BodyColumns(rt)

FromPath(rt, req, name) ==
  Bindings(rt.path, req.path)
    [CHOOSE p \in DOMAIN Bindings(rt.path, req.path) : Column(rt, p) = name]
FromArgs(rt, req, name) ==
  FilledQuery(rt, req.query)[CHOOSE p \in KeyedParams(rt) : Column(rt, p) = name]

\* A request that a route takes.
Taken(res, rt, req) ==
  /\ OwnColumns(res, rt)
  /\ rt.path \in Seq(Segments) /\ req.path \in Seq(Texts)
  /\ MatchPath(rt.path, req.path)
  /\ \A name \in DOMAIN req.query : req.query[name] \in Texts
  /\ \A i \in DOMAIN rt.query : rt.query[i].default \in Texts

LEMMA PlacesMatch ==
  ASSUME NEW res, NEW rt, NEW req, Taken(res, rt, req)
  PROVE  /\ DOMAIN rt.path = DOMAIN req.path
         /\ \A i \in DOMAIN req.path : req.path[i] \in Texts
<1>1. rt.path \in Seq(Segments) /\ req.path \in Seq(Texts) /\ Len(rt.path) = Len(req.path)
  BY DEF Taken, MatchPath
<1>2. QED
  BY <1>1

LEMMA KeyHas ==
  ASSUME NEW res, NEW rt, NEW req, Taken(res, rt, req)
  PROVE  /\ DOMAIN KeyOf(res, rt, req) = KeyColumns(res, rt)
         /\ \A name \in CredentialKeys(res) : KeyOf(res, rt, req)[name] = req.auth
         /\ \A name \in ArgColumns(rt) :
              KeyOf(res, rt, req)[name] = FoldFor(res, name, FromArgs(rt, req, name))
         /\ \A name \in PathColumns(rt) \ ArgColumns(rt) :
              KeyOf(res, rt, req)[name] = FoldFor(res, name, FromPath(rt, req, name))
<1> DEFINE body == BodyColumns(rt)
           columns == KeyColumns(res, rt)
           Value(name) ==
             CASE name \in body                -> req.body
               [] name \in CredentialKeys(res) -> req.auth
               [] name \in ArgColumns(rt)      -> FoldFor(res, name, FromArgs(rt, req, name))
               [] OTHER                        -> FoldFor(res, name, FromPath(rt, req, name))
<1>1. KeyOf(res, rt, req) = [name \in columns |-> Value(name)]
  BY Zenon DEF KeyOf, PathColumns, ArgColumns, KeyColumns, BodyColumns, FromPath, FromArgs
<1>2. /\ body \cap CredentialKeys(res) = {}
      /\ (PathColumns(rt) \cup ArgColumns(rt)) \cap (body \cup CredentialKeys(res)) = {}
  BY DEF Taken, OwnColumns, PathColumns, ArgColumns
<1>0. PathColumns(rt) \cup ArgColumns(rt) \cup CredentialKeys(res) \subseteq columns
  BY DEF KeyColumns
<1>3. \A name \in ArgColumns(rt) : Value(name) = FoldFor(res, name, FromArgs(rt, req, name))
  BY <1>2
<1>4. \A name \in PathColumns(rt) \ ArgColumns(rt) :
        Value(name) = FoldFor(res, name, FromPath(rt, req, name))
  BY <1>2
<1>5. \A name \in CredentialKeys(res) : Value(name) = req.auth
  BY <1>2
<1> HIDE DEF Value
<1>6. QED
  BY <1>0, <1>1, <1>3, <1>4, <1>5

LEMMA BoundTo ==
  ASSUME NEW res, NEW rt, NEW req, Taken(res, rt, req),
         NEW i \in DOMAIN rt.path, rt.path[i].param
  PROVE  /\ FromPath(rt, req, Column(rt, rt.path[i].name)) = req.path[i]
         /\ Column(rt, rt.path[i].name) \in PathColumns(rt) \ ArgColumns(rt)
<1> DEFINE p == rt.path[i].name
           bound == Bindings(rt.path, req.path)
<1>0. OneColumnEach(rt) /\ rt.path \in Seq(Segments)
  BY DEF Taken, OwnColumns
<1>1. p \in PathParams(rt.path)
  BY DEF PathParams
<1>2. rt.path[i] \in Segments
  BY <1>0
<1>3. rt.path[i] = Param(p)
  BY <1>2 DEF Segments, Param
<1>4. (CHOOSE j \in DOMAIN rt.path : rt.path[j] = Param(p)) = i
  BY <1>0, <1>3 DEF OneColumnEach
<1>5. bound[p] = req.path[i]
  BY <1>1, <1>4 DEF Bindings
<1>6. DOMAIN bound = PathParams(rt.path)
  BY DEF Bindings
<1>7. (CHOOSE q \in DOMAIN bound : Column(rt, q) = Column(rt, p)) = p
  BY <1>0, <1>1, <1>6 DEF OneColumnEach
<1>8. Column(rt, p) \in PathColumns(rt) \ ArgColumns(rt)
  BY <1>0, <1>1 DEF OneColumnEach, PathColumns, ArgColumns
<1>9. QED
  BY <1>5, <1>7, <1>8, Zenon DEF FromPath

LEMMA ArgIs ==
  ASSUME NEW rt, NEW req, OneColumnEach(rt), NEW p \in KeyedParams(rt)
  PROVE  /\ FromArgs(rt, req, Column(rt, p)) = FilledQuery(rt, req.query)[p]
         /\ Column(rt, p) \in ArgColumns(rt)
         /\ p \in DOMAIN FilledQuery(rt, req.query)
<1>1. (CHOOSE q \in KeyedParams(rt) : Column(rt, q) = Column(rt, p)) = p
  BY DEF OneColumnEach
<1>2. p \in {rt.query[i].name : i \in DOMAIN rt.query}
  BY DEF KeyedParams
<1>3. QED
  BY <1>1, <1>2, Zenon DEF FromArgs, ArgColumns, FilledQuery

LEMMA QueryIsText ==
  ASSUME NEW rt, NEW query,
         \A name \in DOMAIN query : query[name] \in Texts,
         \A i \in DOMAIN rt.query : rt.query[i].default \in Texts
  PROVE  \A p \in DOMAIN FilledQuery(rt, query) : FilledQuery(rt, query)[p] \in Texts
<1> SUFFICES ASSUME NEW p \in DOMAIN FilledQuery(rt, query)
             PROVE  FilledQuery(rt, query)[p] \in Texts
  OBVIOUS
<1>1. PICK i \in DOMAIN rt.query : rt.query[i].name = p
  BY DEF FilledQuery
<1> DEFINE j == CHOOSE n \in DOMAIN rt.query : rt.query[n].name = p
<1>2. j \in DOMAIN rt.query
  BY <1>1
<1>3. FilledQuery(rt, query)[p] =
        IF p \in DOMAIN query THEN query[p] ELSE rt.query[j].default
  BY <1>1 DEF FilledQuery
<1>4. QED
  BY <1>2, <1>3

\* A parameter of the path is under its column, folded.
LEMMA PathKey ==
  ASSUME NEW res, NEW rt, NEW req, Taken(res, rt, req),
         NEW i \in DOMAIN rt.path, rt.path[i].param,
         NEW name, name = Column(rt, rt.path[i].name)
  PROVE  /\ name \in DOMAIN KeyOf(res, rt, req)
         /\ KeyOf(res, rt, req)[name] = FoldFor(res, name, req.path[i])
         /\ req.path[i] \in Texts
<1>1. FromPath(rt, req, name) = req.path[i] /\ name \in PathColumns(rt) \ ArgColumns(rt)
  BY BoundTo
<1>2. req.path[i] \in Texts
  BY PlacesMatch
<1>3. QED
  BY <1>1, <1>2, KeyHas DEF KeyColumns

\* And so is a keyed parameter of the query, given or left to its default.
LEMMA ArgKey ==
  ASSUME NEW res, NEW rt, NEW req, Taken(res, rt, req), NEW p \in KeyedParams(rt),
         NEW name, name = Column(rt, p)
  PROVE  /\ name \in DOMAIN KeyOf(res, rt, req)
         /\ KeyOf(res, rt, req)[name] = FoldFor(res, name, FilledQuery(rt, req.query)[p])
         /\ p \in DOMAIN FilledQuery(rt, req.query)
         /\ FilledQuery(rt, req.query)[p] \in Texts
<1>1. /\ FromArgs(rt, req, name) = FilledQuery(rt, req.query)[p]
      /\ name \in ArgColumns(rt) /\ p \in DOMAIN FilledQuery(rt, req.query)
  BY ArgIs DEF Taken, OwnColumns
<1>2. FilledQuery(rt, req.query)[p] \in Texts
  BY <1>1, QueryIsText DEF Taken
<1>3. name \in DOMAIN KeyOf(res, rt, req)
  BY <1>1, KeyHas DEF KeyColumns
<1>4. KeyOf(res, rt, req)[name] = FoldFor(res, name, FromArgs(rt, req, name))
  <2>1. \A n \in ArgColumns(rt) :
          KeyOf(res, rt, req)[n] = FoldFor(res, n, FromArgs(rt, req, n))
    BY KeyHas
  <2>2. QED
    BY <1>1, <2>1, Zenon
<1>5. QED
  BY <1>1, <1>2, <1>3, <1>4, Zenon

LEMMA KeyHasBody ==
  ASSUME NEW res, NEW rt, NEW req, Taken(res, rt, req), NEW name \in BodyColumns(rt)
  PROVE  KeyOf(res, rt, req)[name] = req.body
<1> DEFINE Value(n) ==
             CASE n \in BodyColumns(rt)     -> req.body
               [] n \in CredentialKeys(res) -> req.auth
               [] n \in ArgColumns(rt)      -> FoldFor(res, n, FromArgs(rt, req, n))
               [] OTHER                     -> FoldFor(res, n, FromPath(rt, req, n))
<1>1. KeyOf(res, rt, req) = [n \in KeyColumns(res, rt) |-> Value(n)]
  BY Zenon DEF KeyOf, PathColumns, ArgColumns, KeyColumns, BodyColumns, FromPath, FromArgs
<1>2. name \in KeyColumns(res, rt)
  BY DEF KeyColumns
<1>3. name \notin CredentialKeys(res) /\ name \notin ArgColumns(rt)
  BY DEF Taken, OwnColumns, ArgColumns
<1>4. Value(name) = req.body
  BY <1>3
<1> HIDE DEF Value
<1>5. QED
  BY <1>1, <1>2, <1>4

\* Whatever a key is made of is text.
LEMMA KeyIsText ==
  ASSUME NEW res, NEW rt, NEW req, Taken(res, rt, req),
         req.auth \in Texts, req.body \in Texts
  PROVE  \A name \in DOMAIN KeyOf(res, rt, req) : KeyOf(res, rt, req)[name] \in Texts
<1> SUFFICES ASSUME NEW name \in DOMAIN KeyOf(res, rt, req)
             PROVE  KeyOf(res, rt, req)[name] \in Texts
  OBVIOUS
<1>1. CASE name \in ArgColumns(rt)
  <2>1. PICK p \in KeyedParams(rt) : name = Column(rt, p)
    BY <1>1 DEF ArgColumns
  <2>2. QED
    BY <2>1, ArgKey, FoldIsText
<1>2. CASE name \in PathColumns(rt)
  <2>1. PICK i \in DOMAIN rt.path : rt.path[i].param /\ name = Column(rt, rt.path[i].name)
    BY <1>2 DEF PathColumns, PathParams
  <2>2. QED
    BY <2>1, PathKey, FoldIsText
<1>3. CASE name \in CredentialKeys(res)
  BY <1>3, KeyHas
<1>4. CASE name \in BodyColumns(rt)
  BY <1>4, KeyHasBody
<1>5. name \in KeyColumns(res, rt)
  BY KeyHas, Zenon
<1>6. QED
  BY <1>1, <1>2, <1>3, <1>4, <1>5 DEF KeyColumns

------------------------------------------------------------------------------
(* The plan of the sweep beside the reader's. *)

\* Every set of numbers that has a member has a least one.
LEMMA FirstIsOne ==
  ASSUME NEW S \in SUBSET Nat, S # {} PROVE First(S) \in S
<1>1. PICK i \in S : \A j \in S : ~(<<j, i>> \in OpToRel(<, Nat))
  BY WFMin, NatLessThanWellFounded, Zenon
<1>2. \A j \in S : ~(j < i)
  BY <1>1, Zenon DEF OpToRel
<1>3. \A j \in S : i <= j
  BY <1>2
<1>4. QED
  BY <1>3, Zenon DEF First

LEMMA FirstOfKind ==
  ASSUME NEW s, DOMAIN s.routes \subseteq Nat, NEW i \in DOMAIN s.routes
  PROVE  s.routes[First(RoutesOfKind(s, RouteKind(s.routes[i])))].resource = s.routes[i].resource
<1> DEFINE same == RoutesOfKind(s, RouteKind(s.routes[i]))
           first == First(same)
<1>1. first \in same
  BY FirstIsOne DEF RoutesOfKind
<1>2. RouteKind(s.routes[first]) = RouteKind(s.routes[i])
  BY <1>1 DEF RoutesOfKind
<1>3. QED
  BY <1>2 DEF RouteKind

\* The values of the parameters that tell one answer from another.
Keyed(rt, query) ==
  [p \in KeyedParams(rt) \cap {n \in DOMAIN query : query[n] # NoText} |-> Lower(query[p])]

\* What the sweep fills in again, on a route of a resource without a credential.
LEMMA SamePath ==
  ASSUME NEW res, NEW rt, NEW req, Taken(res, rt, req), \A i \in DOMAIN req.path : req.path[i].escaped = 0,
         NEW back,
         \A name \in DOMAIN KeyOf(res, rt, req) : back[name] = KeyOf(res, rt, req)[name]
  PROVE  Reads(FillPath(rt, back)) = Reads(req.path)
<1> DEFINE filled == FillPath(rt, back)
           key == KeyOf(res, rt, req)
<1>1. DOMAIN filled = DOMAIN req.path /\ DOMAIN rt.path = DOMAIN req.path
  BY PlacesMatch DEF FillPath
<1>2. ASSUME NEW i \in DOMAIN req.path
      PROVE  Lower(PathUnescape(filled[i])) = Lower(PathUnescape(req.path[i]))
  <2>0. i \in DOMAIN rt.path
    BY <1>1
  <2>1. CASE rt.path[i].param
    <3> DEFINE col == Column(rt, rt.path[i].name)
    <3>1. /\ col \in DOMAIN key /\ key[col] = FoldFor(res, col, req.path[i])
          /\ req.path[i] \in Texts
      BY <2>0, <2>1, PathKey
    <3>2. back[col] = FoldFor(res, col, req.path[i])
      BY <3>1
    <3>3. back[col] \in Texts /\ Lower(back[col]) = Lower(req.path[i])
      BY <3>1, <3>2, FoldIsText
    <3>4. filled[i] = PathEscape(back[col])
      BY <2>0, <2>1 DEF FillPath
    <3>5. PathUnescape(filled[i]) = back[col]
      BY <3>3, <3>4, EscapeComesBack
    <3>6. PathUnescape(req.path[i]) = req.path[i]
      <4>1. ~(req.path[i].escaped > 0)
        <5>1. req.path[i].escaped = 0
          OBVIOUS
        <5>2. QED
          BY <5>1
      <4>2. QED
        BY <4>1, Zenon DEF PathUnescape
    <3>7. QED
      BY <3>3, <3>5, <3>6
  <2>2. CASE ~rt.path[i].param
    <3>1. filled[i] = Text(rt.path[i].name)
      BY <2>0, <2>2 DEF FillPath
    <3>2. req.path[i] = Text(rt.path[i].name)
      BY <2>0, <2>2 DEF Taken, MatchPath
    <3>3. QED
      BY <3>1, <3>2
  <2>3. QED
    BY <2>1, <2>2
<1> HIDE DEF filled
<1>3. QED
  BY <1>1, <1>2 DEF Reads, filled

LEMMA SameQuery ==
  ASSUME NEW res, NEW rt, NEW req, Taken(res, rt, req), NEW back,
         DOMAIN KeyOf(res, rt, req) \subseteq DOMAIN back,
         \A name \in DOMAIN KeyOf(res, rt, req) : back[name] = KeyOf(res, rt, req)[name],
         NEW given,
         given = [p \in {q \in KeyedParams(rt) : Column(rt, q) \in DOMAIN back} |->
                    back[Column(rt, p)]]
  PROVE  Keyed(rt, FilledQuery(rt, given)) = Keyed(rt, FilledQuery(rt, req.query))
<1> DEFINE key == KeyOf(res, rt, req)
           asked == FilledQuery(rt, req.query)
           again == FilledQuery(rt, given)
<1>1. ASSUME NEW p \in KeyedParams(rt)
      PROVE  /\ p \in DOMAIN asked /\ p \in DOMAIN again
             /\ again[p] = NoText <=> asked[p] = NoText
             /\ Lower(again[p]) = Lower(asked[p])
  <2> DEFINE col == Column(rt, p)
  <2>1. /\ col \in DOMAIN key /\ key[col] = FoldFor(res, col, asked[p])
        /\ p \in DOMAIN asked /\ asked[p] \in Texts
    BY ArgKey
  <2>2. p \in DOMAIN given /\ given[p] = FoldFor(res, col, asked[p])
    BY <2>1
  <2>3. p \in DOMAIN again /\ again[p] = given[p]
    BY <2>1, <2>2 DEF FilledQuery
  <2>4. QED
    BY <2>1, <2>2, <2>3, FoldIsText
<1> HIDE DEF asked, again
<1>2. KeyedParams(rt) \cap {n \in DOMAIN again : again[n] # NoText} =
        KeyedParams(rt) \cap {n \in DOMAIN asked : asked[n] # NoText}
  BY <1>1
<1>3. Keyed(rt, again) = Keyed(rt, asked)
  BY <1>1, <1>2 DEF Keyed
<1>4. QED
  BY <1>3 DEF asked, again

------------------------------------------------------------------------------
(* What a handler is given. *)

LEMMA RestIsText ==
  ASSUME NEW path \in Seq(Texts), NEW n \in Nat, n <= Len(path)
  PROVE  [i \in DOMAIN SubSeq(path, n + 1, Len(path)) |->
            PathEscape(SubSeq(path, n + 1, Len(path))[i])] \in Seq(Texts)
<1> DEFINE rest == SubSeq(path, n + 1, Len(path))
<1>1. rest \in Seq(Texts)
  OBVIOUS
<1> HIDE DEF rest
<1>2. \A i \in DOMAIN rest : PathEscape(rest[i]) \in Texts
  BY <1>1, EscapeIsText
<1>3. [i \in DOMAIN rest |-> PathEscape(rest[i])] \in [1 .. Len(rest) -> Texts]
  BY <1>1, <1>2
<1>4. Len(rest) \in Nat
  BY <1>1
<1>5. QED
  BY <1>3, <1>4 DEF rest

LEMMA WordsAreText ==
  ASSUME NEW words \in Seq(STRING)
  PROVE  [i \in DOMAIN words |-> Text(words[i])] \in Seq(Texts)
<1>1. ASSUME NEW i \in DOMAIN words PROVE Text(words[i]) \in Texts
  <2>1. words[i] \in STRING
    OBVIOUS
  <2>2. QED
    BY <2>1, WordIsText
<1>2. [i \in DOMAIN words |-> Text(words[i])] \in [1 .. Len(words) -> Texts]
  BY <1>1
<1>3. QED
  BY <1>2

\* A rewritten path is one of texts, too.
LEMMA RewriteIsText ==
  ASSUME NEW s, DOMAIN s.rewrites \subseteq Nat,
         \A i \in DOMAIN s.rewrites :
           s.rewrites[i].from \in Seq(STRING) /\ s.rewrites[i].to \in Seq(STRING),
         NEW path \in Seq(Texts)
  PROVE  RewritePath(s, path) \in Seq(Texts)
<1> DEFINE rules == {i \in DOMAIN s.rewrites : Prefixed(s.rewrites[i], path)}
           rw    == s.rewrites[First(rules)]
           to    == [i \in DOMAIN rw.to |-> Text(rw.to[i])]
           rest  == SubSeq(path, Len(rw.from) + 1, Len(path))
           escaped == [i \in DOMAIN rest |-> PathEscape(rest[i])]
<1>1. RewritePath(s, path) = IF rules = {} THEN path ELSE to \o escaped
  BY Zenon DEF RewritePath
<1>2. CASE rules # {}
  <2>1. First(rules) \in rules
    BY <1>2, FirstIsOne
  <2>2. rw.from \in Seq(STRING) /\ rw.to \in Seq(STRING) /\ Len(rw.from) <= Len(path)
    BY <2>1 DEF Prefixed
  <2>3. to \in Seq(Texts)
    BY <2>2, WordsAreText
  <2>4. escaped \in Seq(Texts)
    <3>1. Len(rw.from) \in Nat
      BY <2>2
    <3>2. QED
      BY <2>2, <3>1, RestIsText, Zenon
  <2> HIDE DEF to, escaped, rules
  <2>5. QED
    BY <1>1, <1>2, <2>3, <2>4
<1>3. CASE rules = {}
  BY <1>1, <1>3
<1>4. QED
  BY <1>2, <1>3

\* The plan of a request on a route.
PlannedBy(s, i, req, plan) ==
  LET rt  == s.routes[i]
      res == s.resources[rt.resource]
  IN  /\ plan.route = rt /\ plan.res = res
      /\ plan.key = KeyOf(res, rt, req) /\ plan.query = FilledQuery(rt, req.query)
      /\ plan.path = req.path
      /\ MatchPath(rt.path, req.path)

LEMMA ResolvePlans ==
  ASSUME NEW s, DOMAIN s.routes \subseteq Nat, NEW req, Resolves(s, req)
  PROVE  \E i \in DOMAIN s.routes : PlannedBy(s, i, req, Resolve(s, req))
<1> DEFINE i == First(Candidates(s, req))
<1>1. i \in Candidates(s, req)
  BY FirstIsOne DEF Resolves, Candidates
<1>2. i \in DOMAIN s.routes /\ MatchPath(s.routes[i].path, req.path)
  BY <1>1 DEF Candidates
<1>3. PlannedBy(s, i, req, Resolve(s, req))
  BY <1>2 DEF PlannedBy, Resolve, ResourceOf
<1>4. QED
  BY <1>2, <1>3

LEMMA ArrivalIs ==
  ASSUME NEW w \in DOMAIN Arrivals, NEW a \in Readers(w)
  PROVE  /\ w \in DOMAIN Worlds /\ Valid(Worlds[w].spec) /\ WellFormed(Worlds[w])
         /\ a.req.path \in Seq(Texts)
         /\ \A name \in DOMAIN a.req.query : a.req.query[name] \in Texts
         /\ \E i \in DOMAIN Worlds[w].spec.routes :
              PlannedBy(Worlds[w].spec, i, a.req, a.plan)
<1> DEFINE s == Worlds[w].spec
<1>1. w \in DOMAIN Worlds /\ Valid(s)
  BY DEF Arrivals
<1>2. WellFormed(Worlds[w])
  BY <1>1, ServingAssumption
<1>3. PICK asked \in Worlds[w].requests : a = Dispatched(s, asked)
  BY <1>1 DEF Arrivals, Readers
<1> DEFINE req == Rewritten(s, asked)
<1>4. /\ a.by = Answerer(s, req) /\ a.req = req
      /\ a.by = "route" => a.plan = Resolve(s, req)
  BY <1>3, Zenon DEF Dispatched
<1>5. Resolves(s, req)
  <2>1. Answerer(s, req) = "route"
    BY <1>4 DEF Readers
  <2>2. QED
    BY <2>1 DEF Answerer
<1>6. /\ req.path = RewritePath(s, asked.path)
      /\ req.query = asked.query
  BY <1>2 DEF WellFormed, Rewritten
<1>7. req.path \in Seq(Texts)
  <2>1. /\ DOMAIN s.rewrites \subseteq Nat
        /\ \A i \in DOMAIN s.rewrites :
             s.rewrites[i].from \in Seq(STRING) /\ s.rewrites[i].to \in Seq(STRING)
        /\ asked.path \in Seq(Texts)
    BY <1>2 DEF WellFormed
  <2> HIDE DEF s
  <2>2. QED
    BY <1>6, <2>1, RewriteIsText
<1>8. \A name \in DOMAIN req.query : req.query[name] \in Texts
  BY <1>2, <1>6 DEF WellFormed
<1>9. \E i \in DOMAIN s.routes : PlannedBy(s, i, req, Resolve(s, req))
  BY <1>2, <1>5, ResolvePlans DEF WellFormed
<1> HIDE DEF req, s
<1>10. QED
  BY <1>1, <1>2, <1>4, <1>7, <1>8, <1>9 DEF Readers, s

------------------------------------------------------------------------------
(* Requests of one key. *)

LEMMA GivenIsText ==
  ASSUME NEW w \in DOMAIN Arrivals, NEW a \in Readers(w)
  PROVE  a.req.auth \in Texts /\ a.req.body \in Texts
<1> DEFINE s == Worlds[w].spec
<1>1. w \in DOMAIN Worlds /\ WellFormed(Worlds[w])
  BY ServingAssumption DEF Arrivals
<1>2. PICK asked \in Worlds[w].requests : a = Dispatched(s, asked)
  BY <1>1 DEF Arrivals, Readers
<1>3. a.req = Rewritten(s, asked)
  BY <1>2, Zenon DEF Dispatched
<1>4. a.req.auth = asked.auth /\ a.req.body = asked.body
  BY <1>1, <1>3 DEF Rewritten, WellFormed
<1>5. QED
  BY <1>1, <1>4 DEF WellFormed

LEMMA ReaderTaken ==
  ASSUME NEW w \in DOMAIN Arrivals, NEW a \in Readers(w), OwnColumns(a.plan.res, a.plan.route)
  PROVE  /\ Taken(a.plan.res, a.plan.route, a.req)
         /\ a.plan.key = KeyOf(a.plan.res, a.plan.route, a.req)
         /\ a.plan.query = FilledQuery(a.plan.route, a.req.query)
<1> DEFINE s == Worlds[w].spec
<1>1. PICK i \in DOMAIN s.routes : PlannedBy(s, i, a.req, a.plan)
  BY ArrivalIs
<1>2. /\ a.plan.route = s.routes[i] /\ a.plan.key = KeyOf(a.plan.res, a.plan.route, a.req)
      /\ a.plan.query = FilledQuery(a.plan.route, a.req.query)
      /\ MatchPath(a.plan.route.path, a.req.path)
  BY <1>1 DEF PlannedBy
<1>3. /\ a.plan.route.path \in Seq(Segments)
      /\ \A j \in DOMAIN a.plan.route.query : a.plan.route.query[j].default \in Texts
  BY <1>2, ArrivalIs DEF WellFormed, Segments
<1>4. /\ a.req.path \in Seq(Texts)
      /\ \A name \in DOMAIN a.req.query : a.req.query[name] \in Texts
  BY ArrivalIs
<1>5. QED
  BY <1>2, <1>3, <1>4 DEF Taken

LEMMA ReadAlike ==
  ASSUME NEW t \in Texts, NEW u \in Texts, Lower(t) = Lower(u)
  PROVE  Lower(PathUnescape(t)) = Lower(PathUnescape(u))
<1>1. t.word = u.word /\ t.escaped = u.escaped
  BY LowerFields
<1>2. PathUnescape(t).word = PathUnescape(u).word
  BY <1>1, Fields DEF PathUnescape
<1>3. PathUnescape(t).escaped = PathUnescape(u).escaped
  BY <1>1, Fields DEF PathUnescape
<1>4. QED
  BY <1>2, <1>3 DEF Lower

\* The key of one of two requests is the key of the other.
LEMMA SameKey ==
  ASSUME NEW res, NEW rt, NEW one, NEW other, Taken(res, rt, one), Taken(res, rt, other),
         one.auth \in Texts, one.body \in Texts, other.auth \in Texts, other.body \in Texts,
         KeyString(res, KeyOf(res, rt, one)) = KeyString(res, KeyOf(res, rt, other))
  PROVE  /\ DOMAIN KeyOf(res, rt, one) = DOMAIN KeyOf(res, rt, other)
         /\ \A name \in DOMAIN KeyOf(res, rt, one) :
              KeyOf(res, rt, one)[name] = KeyOf(res, rt, other)[name]
<1> DEFINE key  == KeyOf(res, rt, one)
           same == KeyOf(res, rt, other)
           all  == KeyNames(res) \cup DOMAIN key
           Back(name) == ParseKeyString(res, KeyString(res, key))[name]
<1>1. DOMAIN key = KeyColumns(res, rt) /\ DOMAIN same = KeyColumns(res, rt)
  BY KeyHas
<1>2. /\ \A name \in DOMAIN key : key[name] \in Texts
      /\ \A name \in DOMAIN same : same[name] \in Texts
  BY KeyIsText
<1> HIDE DEF key, same
<1>3. /\ ParseKeyString(res, KeyString(res, key)) =
           [name \in all |-> IF name \in DOMAIN key THEN key[name] ELSE NoText]
      /\ ParseKeyString(res, KeyString(res, same)) =
           [name \in KeyNames(res) \cup DOMAIN same |->
              IF name \in DOMAIN same THEN same[name] ELSE NoText]
  BY <1>2, KeysComeBack
<1>4. \A name \in DOMAIN key : key[name] = Back(name) /\ same[name] = Back(name)
  <2>1. KeyString(res, key) = KeyString(res, same)
    BY DEF key, same
  <2>2. QED
    BY <1>1, <1>3, <2>1
<1>5. QED
  BY <1>1, <1>4 DEF key, same

\* Two requests that one route puts under one key ask the upstream alike: at the
\* same path and for the same values of the keyed parameters, whatever their case,
\* and, where they are in the key, with the same credential and the same body
\* (resolve, keyString in reveal.go).  No caller is answered from the key of
\* another question.
THEOREM KeysTellRequestsApart ==
  ASSUME NEW w \in DOMAIN Arrivals, NEW a \in Readers(w), NEW b \in Readers(w),
         MarkKey(a.plan) = MarkKey(b.plan), a.plan.route = b.plan.route,
         OwnColumns(a.plan.res, a.plan.route)
  PROVE  /\ Reads(a.req.path) = Reads(b.req.path)
         /\ Keyed(a.plan.route, a.plan.query) = Keyed(a.plan.route, b.plan.query)
         /\ CredentialKeys(a.plan.res) # {} => a.req.auth = b.req.auth
         /\ BodyColumns(a.plan.route) # {} => a.req.body = b.req.body
<1> DEFINE rt  == a.plan.route
           res == a.plan.res
           key == KeyOf(res, rt, a.req)
           same == KeyOf(res, rt, b.req)
<1>1. b.plan.res = res
  <2>1. \A c \in Readers(w) : c.plan.res = Worlds[w].spec.resources[c.plan.route.resource]
    BY ArrivalIs DEF PlannedBy
  <2>2. QED
    BY <2>1
<1>2. /\ Taken(res, rt, a.req) /\ a.plan.key = key /\ a.plan.query = FilledQuery(rt, a.req.query)
      /\ Taken(res, rt, b.req) /\ b.plan.key = same /\ b.plan.query = FilledQuery(rt, b.req.query)
  BY <1>1, ReaderTaken
<1>3. KeyString(res, key) = KeyString(res, same)
  BY <1>1, <1>2 DEF MarkKey
<1> HIDE DEF rt, res
<1>4. DOMAIN key = DOMAIN same /\ \A name \in DOMAIN key : key[name] = same[name]
  BY <1>2, <1>3, GivenIsText, SameKey
<1>5. Reads(a.req.path) = Reads(b.req.path)
  <2>1. DOMAIN a.req.path = DOMAIN rt.path /\ DOMAIN b.req.path = DOMAIN rt.path
    BY <1>2, PlacesMatch
  <2>2. ASSUME NEW i \in DOMAIN rt.path
        PROVE  Lower(PathUnescape(a.req.path[i])) = Lower(PathUnescape(b.req.path[i]))
    <3>1. CASE rt.path[i].param
      <4> DEFINE col == Column(rt, rt.path[i].name)
      <4>1. /\ col \in DOMAIN key /\ key[col] = FoldFor(res, col, a.req.path[i])
            /\ a.req.path[i] \in Texts
        BY <1>2, <3>1, PathKey
      <4>2. same[col] = FoldFor(res, col, b.req.path[i]) /\ b.req.path[i] \in Texts
        BY <1>2, <3>1, PathKey
      <4>3. Lower(a.req.path[i]) = Lower(b.req.path[i])
        BY <1>4, <4>1, <4>2, FoldIsText
      <4>4. QED
        BY <4>1, <4>2, <4>3, ReadAlike
    <3>2. CASE ~rt.path[i].param
      <4>1. a.req.path[i] = Text(rt.path[i].name) /\ b.req.path[i] = Text(rt.path[i].name)
        BY <1>2, <3>2 DEF Taken, MatchPath
      <4>2. QED
        BY <4>1
    <3>3. QED
      BY <3>1, <3>2
  <2>3. QED
    BY <2>1, <2>2 DEF Reads
<1>6. Keyed(rt, a.plan.query) = Keyed(rt, b.plan.query)
  <2> DEFINE asked == FilledQuery(rt, a.req.query)
             again == FilledQuery(rt, b.req.query)
  <2>1. ASSUME NEW p \in KeyedParams(rt)
        PROVE  /\ p \in DOMAIN asked /\ p \in DOMAIN again
               /\ again[p] = NoText <=> asked[p] = NoText
               /\ Lower(again[p]) = Lower(asked[p])
    <3> DEFINE col == Column(rt, p)
    <3>1. /\ col \in DOMAIN key /\ key[col] = FoldFor(res, col, asked[p])
          /\ p \in DOMAIN asked /\ asked[p] \in Texts
      BY <1>2, ArgKey
    <3>2. /\ same[col] = FoldFor(res, col, again[p])
          /\ p \in DOMAIN again /\ again[p] \in Texts
      BY <1>2, ArgKey
    <3>3. QED
      BY <1>4, <3>1, <3>2, FoldIsText
  <2> HIDE DEF asked, again
  <2>2. KeyedParams(rt) \cap {n \in DOMAIN again : again[n] # NoText} =
          KeyedParams(rt) \cap {n \in DOMAIN asked : asked[n] # NoText}
    BY <2>1
  <2>3. Keyed(rt, again) = Keyed(rt, asked)
    BY <2>1, <2>2 DEF Keyed
  <2>4. QED
    BY <1>2, <2>3 DEF asked, again
<1>7. ASSUME NEW name \in CredentialKeys(res) PROVE a.req.auth = b.req.auth
  <2>1. name \in DOMAIN key
    <3>1. DOMAIN key = KeyColumns(res, rt)
      BY <1>2, KeyHas
    <3>2. QED
      BY <3>1 DEF KeyColumns
  <2>2. key[name] = a.req.auth /\ same[name] = b.req.auth
    BY <1>2, KeyHas
  <2>3. QED
    BY <1>4, <2>1, <2>2
<1>8. ASSUME NEW name \in BodyColumns(rt) PROVE a.req.body = b.req.body
  <2>1. name \in DOMAIN key
    <3>1. DOMAIN key = KeyColumns(res, rt)
      BY <1>2, KeyHas
    <3>2. QED
      BY <3>1 DEF KeyColumns
  <2>2. key[name] = a.req.body /\ same[name] = b.req.body
    BY <1>2, KeyHasBody
  <2>3. QED
    BY <1>4, <2>1, <2>2
<1>9. QED
  BY <1>5, <1>6, <1>7, <1>8 DEF rt, res

------------------------------------------------------------------------------
(* The marks. *)

\* A mint is keyed by its body and by its caller.
LEMMA SweptHasNoBody ==
  ASSUME NEW s, Valid(s), NEW i \in DOMAIN s.routes,
         CredentialKeys(s.resources[s.routes[i].resource]) = {}
  PROVE  BodyColumns(s.routes[i]) = {}
<1> DEFINE rt == s.routes[i]
           res == s.resources[rt.resource]
<1>1. ValidRoute(s, rt)
  BY DEF Valid
<1>2. rt.resource \in DOMAIN s.resources
  BY <1>1 DEF ValidRoute
<1>3. ValidResource(res)
  BY <1>2 DEF Valid
<1>4. ~res.reveal.credential
  BY <1>3 DEF ValidResource
<1>5. rt.method \in {"GET", "HEAD"}
  BY <1>1, <1>4 DEF ValidRoute
<1>6. rt.bodyKey = ""
  BY <1>1, <1>5 DEF ValidRoute
<1>7. QED
  BY <1>6, Zenon DEF BodyColumns

\* The plan made of a reader's key string asks what the reader asked.
LEMMA PlanComesBack ==
  ASSUME NEW w \in DOMAIN Arrivals, Sweepable(w), NEW a \in Readers(w),
         CanPlan(Worlds[w].spec, RouteKind(a.plan.route), KeyString(a.plan.res, a.plan.key))
  PROVE  LET plan == PlanFor(Worlds[w].spec, RouteKind(a.plan.route),
                             KeyString(a.plan.res, a.plan.key))
         IN  /\ Reads(plan.path) = Reads(a.plan.path)
             /\ Keyed(a.plan.route, plan.query) = Keyed(a.plan.route, a.plan.query)
<1> DEFINE s == Worlds[w].spec
<1>1. PICK i \in DOMAIN s.routes : PlannedBy(s, i, a.req, a.plan)
  BY ArrivalIs
<1> DEFINE rt   == s.routes[i]
           res  == s.resources[rt.resource]
           key  == KeyOf(res, rt, a.req)
           back == ParseKeyString(res, KeyString(res, key))
           known == {p \in KeyedParams(rt) : Column(rt, p) \in DOMAIN back}
           given == [p \in known |-> back[Column(rt, p)]]
           plan == PlanFor(s, RouteKind(rt), KeyString(res, key))
<1>2. /\ a.plan.route = rt /\ a.plan.res = res /\ a.plan.key = key
      /\ a.plan.query = FilledQuery(rt, a.req.query) /\ a.plan.path = a.req.path
      /\ MatchPath(rt.path, a.req.path)
  BY <1>1 DEF PlannedBy
<1>3. DOMAIN s.routes \subseteq Nat /\ Valid(s)
  BY ArrivalIs DEF WellFormed
<1> DEFINE first == s.routes[First(RoutesOfKind(s, RouteKind(rt)))]
<1>4. CredentialKeys(res) = {}
  <2>1. CanPlan(s, RouteKind(rt), KeyString(res, key))
    BY <1>2
  <2>2. CredentialKeys(s.resources[first.resource]) = {}
    BY <2>1 DEF CanPlan, ResourceOf
  <2>3. first.resource = rt.resource
    BY <1>3, FirstOfKind
  <2>4. QED
    BY <2>2, <2>3
<1>5. /\ first = rt /\ OneColumnEach(rt)
      /\ \A j \in DOMAIN a.req.path : a.req.path[j].escaped = 0
  BY <1>2, <1>4 DEF Sweepable, Readers
<1>0. BodyColumns(rt) = {}
  BY <1>3, <1>4, SweptHasNoBody
<1>6. Taken(res, rt, a.req)
  <2>2. /\ rt.path \in Seq(Segments)
        /\ \A j \in DOMAIN rt.query : rt.query[j].default \in Texts
    BY ArrivalIs DEF WellFormed, Segments
  <2>3. /\ a.req.path \in Seq(Texts)
        /\ \A name \in DOMAIN a.req.query : a.req.query[name] \in Texts
    BY ArrivalIs
  <2>4. QED
    <3>1. OwnColumns(res, rt)
      BY <1>0, <1>4, <1>5 DEF OwnColumns
    <3>2. QED
      BY <1>2, <2>2, <2>3, <3>1 DEF Taken
<1>7. back = [name \in KeyNames(res) \cup DOMAIN key |->
                IF name \in DOMAIN key THEN key[name] ELSE NoText]
  BY <1>6, GivenIsText, KeyIsText, KeysComeBack
<1>8. DOMAIN key \subseteq DOMAIN back /\ \A name \in DOMAIN key : back[name] = key[name]
  <2> HIDE DEF back, key
  <2>1. QED
    BY <1>7
<1>9. plan.path = FillPath(rt, back) /\ plan.query = FilledQuery(rt, given)
  BY <1>5, Zenon DEF PlanFor, ResourceOf
<1>10. Reads(FillPath(rt, back)) = Reads(a.req.path)
  <2> HIDE DEF back, rt, res
  <2>1. QED
    BY <1>5, <1>6, <1>8, SamePath
<1>11. Keyed(rt, FilledQuery(rt, given)) = Keyed(rt, FilledQuery(rt, a.req.query))
  <2> HIDE DEF back, rt, res
  <2>1. QED
    BY <1>6, <1>8, SameQuery
<1>12. Reads(plan.path) = Reads(a.plan.path) /\ Keyed(rt, plan.query) = Keyed(rt, a.plan.query)
  BY <1>2, <1>9, <1>10, <1>11
<1> HIDE DEF rt, res, key
<1>13. QED
  BY <1>2, <1>12

IsMark(m) == m = [fresh |-> m.fresh, status |-> m.status, plan |-> m.plan]

\* A mark is under the key of its last reader.
MarkOf(k, m) ==
  /\ IsMark(m)
  /\ \E a \in Readers(world) :
       /\ m.plan = a.plan
       /\ k = <<RouteKind(a.plan.route), KeyString(a.plan.res, a.plan.key)>>

MarksInv ==
  /\ world \in DOMAIN Arrivals
  /\ \A k \in DOMAIN marks : MarkOf(k, marks[k])

LEMMA MarkSet ==
  ASSUME NEW k, NEW m, MarkOf(k, m), NEW x
  PROVE  MarkOf(k, [m EXCEPT !.fresh = x]) /\ MarkOf(k, [m EXCEPT !.status = x])
<1>1. m = [fresh |-> m.fresh, status |-> m.status, plan |-> m.plan]
  BY DEF MarkOf, IsMark
<1>2. /\ [m EXCEPT !.fresh = x] = [fresh |-> x, status |-> m.status, plan |-> m.plan]
      /\ [m EXCEPT !.status = x] = [fresh |-> m.fresh, status |-> x, plan |-> m.plan]
  BY <1>1
<1>3. QED
  BY <1>2 DEF MarkOf, IsMark

LEMMA MarkReads ==
  ASSUME NEW m, IsMark(m), NEW x
  PROVE  [m EXCEPT !.fresh = x].fresh = x /\ [m EXCEPT !.fresh = x].status = m.status
  BY DEF IsMark

LEMMA MarksStep ==
  ASSUME MarksInv, [Next]_vars PROVE MarksInv'
<1>1. ASSUME world' = world, \A k \in DOMAIN marks' : MarkOf(k, marks'[k]) PROVE MarksInv'
  BY <1>1 DEF MarksInv, MarkOf, Readers
<1>2. ASSUME world' = world, marks' = marks PROVE MarksInv'
  BY <1>1, <1>2 DEF MarksInv
<1>3. ASSUME NEW a \in Arrivals[world], Ask(a) PROVE MarksInv'
  <2>1. CASE a.by = "route" /\ Serve(a.req, a.plan)
    <3> DEFINE k == <<RouteKind(a.plan.route), KeyString(a.plan.res, a.plan.key)>>
               hit == k \in DOMAIN marks /\ marks[k].fresh
               mark == [fresh |-> TRUE,
                        status |-> UpstreamAnswer(truth, UpstreamRequest(a.plan), a.req.auth).status,
                        plan |-> a.plan]
    <3>1. /\ world' = world
          /\ \/ marks' = marks
             \/ marks' = [j \in DOMAIN marks \cup {k} |-> IF j = k THEN mark ELSE marks[j]]
      BY <2>1, Zenon DEF Serve, FreshKey
    <3>2. IsMark(mark) /\ mark.plan = a.plan
      BY DEF IsMark
    <3>3. MarkOf(k, mark)
      BY <2>1, <3>2 DEF MarkOf, Readers
    <3> HIDE DEF mark, k
    <3>4. CASE marks' = [j \in DOMAIN marks \cup {k} |-> IF j = k THEN mark ELSE marks[j]]
      BY <1>1, <3>1, <3>3, <3>4 DEF MarksInv
    <3>5. QED
      BY <1>2, <3>1, <3>4
  <2>2. CASE a.by = "purge" /\ (Purge(a.req, a.purged) \/ Refused(a.req))
    BY <1>2, <2>2 DEF Purge, Refused
  <2>3. CASE PassOn(a.req, a.by)
    BY <1>2, <2>3 DEF PassOn
  <2>4. QED
    BY <1>3, <2>1, <2>2, <2>3 DEF Ask
<1>4. ASSUME NEW k \in DOMAIN marks, Expire(k) PROVE MarksInv'
  <2>1. world' = world /\ marks' = [marks EXCEPT ![k].fresh = FALSE]
    BY <1>4 DEF Expire
  <2>2. /\ DOMAIN marks' = DOMAIN marks
        /\ \A j \in DOMAIN marks :
             marks'[j] = IF j = k THEN [marks[k] EXCEPT !.fresh = FALSE] ELSE marks[j]
    BY <2>1
  <2>3. QED
    BY <1>1, <2>1, <2>2, MarkSet DEF MarksInv
<1>5. ASSUME NEW k \in DOMAIN marks, Sweep(k) PROVE MarksInv'
  <2>1. PICK status : /\ world' = world
                      /\ marks' = [marks EXCEPT ![k].fresh = TRUE, ![k].status = status]
    BY <1>5 DEF Sweep
  <2>2. /\ DOMAIN marks' = DOMAIN marks
        /\ \A j \in DOMAIN marks :
             marks'[j] = IF j = k THEN [[marks[k] EXCEPT !.fresh = TRUE] EXCEPT !.status = status]
                         ELSE marks[j]
    BY <2>1
  <2>3. QED
    BY <1>1, <2>1, <2>2, MarkSet DEF MarksInv
<1>6. ASSUME NEW i \in truth, Vanish(i) PROVE MarksInv'
  BY <1>2, <1>6 DEF Vanish
<1>7. CASE UNCHANGED vars
  BY <1>2, <1>7 DEF vars
<1>8. QED
  BY <1>3, <1>4, <1>5, <1>6, <1>7 DEF Next

\* The sweep asks the upstream for what the last reader of a key asked for, under
\* any specification that is served and before any upstream, where readers come
\* by the first route of a kind, parameters share no column and no path is
\* escaped (planFor, fillPath, parseKeyString).
THEOREM SweepAsksAlways ==
  ASSUME \A w \in DOMAIN Arrivals : Sweepable(w)
  PROVE  Spec => []SweepAsksAsReadsDo
<1>1. Init => MarksInv
  BY DEF Init, MarksInv
<1>2. MarksInv /\ [Next]_vars => MarksInv'
  BY MarksStep
<1>3. MarksInv => SweepAsksAsReadsDo
  <2> SUFFICES ASSUME MarksInv, NEW k \in DOMAIN marks, CanPlan(spec, k[1], k[2])
               PROVE  LET sweep == UpstreamRequest(PlanFor(spec, k[1], k[2]))
                          read  == UpstreamRequest(marks[k].plan)
                          keyed == KeyedParams(marks[k].plan.route)
                          Args(asked) ==
                            [p \in keyed \cap DOMAIN asked.query |-> Lower(asked.query[p])]
                      IN  /\ Reads(sweep.path) = Reads(read.path)
                          /\ Args(sweep) = Args(read)
    BY Zenon DEF SweepAsksAsReadsDo
  <2>1. PICK a \in Readers(world) :
               /\ marks[k].plan = a.plan
               /\ k = <<RouteKind(a.plan.route), KeyString(a.plan.res, a.plan.key)>>
    BY DEF MarksInv, MarkOf
  <2>2. k[1] = RouteKind(a.plan.route) /\ k[2] = KeyString(a.plan.res, a.plan.key)
    BY <2>1
  <2> DEFINE plan == PlanFor(spec, k[1], k[2])
             rt   == a.plan.route
  <2>3. Reads(plan.path) = Reads(a.plan.path) /\ Keyed(rt, plan.query) = Keyed(rt, a.plan.query)
    BY <2>1, <2>2, PlanComesBack DEF MarksInv, spec
  <2> DEFINE Args(asked) ==
               [p \in KeyedParams(rt) \cap DOMAIN asked.query |-> Lower(asked.query[p])]
  <2>4. ASSUME NEW p
        PROVE  /\ UpstreamRequest(p).path = p.path
               /\ Args(UpstreamRequest(p)) = Keyed(rt, p.query)
    BY DEF UpstreamRequest, Keyed
  <2> HIDE DEF plan, Args
  <2>5. Reads(UpstreamRequest(plan).path) = Reads(UpstreamRequest(a.plan).path)
    BY <2>3, <2>4, Zenon
  <2>6. Args(UpstreamRequest(plan)) = Args(UpstreamRequest(a.plan))
    BY <2>3, <2>4, Zenon
  <2>7. QED
    BY <2>1, <2>5, <2>6, Zenon DEF plan, Args
<1>4. QED
  BY <1>1, <1>2, <1>3, PTL DEF Spec
------------------------------------------------------------------------------
(* What a write purges, beside what is read. *)

LEMMA ReadsIs ==
  ASSUME NEW path \in Seq(Texts)
  PROVE  /\ Reads(path) \in Seq({Lower(PathUnescape(t)) : t \in Texts})
         /\ Len(Reads(path)) = Len(path)
         /\ \A i \in 1 .. Len(path) : Reads(path)[i] = Lower(PathUnescape(path[i]))
<1> DEFINE Spoken == {Lower(PathUnescape(t)) : t \in Texts}
<1>1. \A i \in 1 .. Len(path) : Lower(PathUnescape(path[i])) \in Spoken
  OBVIOUS
<1> HIDE DEF Spoken
<1>2. Reads(path) = [i \in 1 .. Len(path) |-> Lower(PathUnescape(path[i]))]
  BY DEF Reads
<1>3. Reads(path) \in [1 .. Len(path) -> Spoken]
  BY <1>1, <1>2
<1>4. Len(path) \in Nat
  OBVIOUS
<1>5. Reads(path) \in Seq(Spoken) /\ Len(Reads(path)) = Len(path)
  BY <1>3, <1>4
<1>6. QED
  BY <1>2, <1>5 DEF Spoken

LEMMA PrefixIs ==
  ASSUME NEW S, NEW above \in Seq(S), NEW here \in Seq(S), Len(above) <= Len(here)
  PROVE  SubSeq(here, 1, Len(above)) = above <=> \A i \in 1 .. Len(above) : here[i] = above[i]
<1>1. /\ SubSeq(here, 1, Len(above)) \in Seq(S)
      /\ Len(SubSeq(here, 1, Len(above))) = Len(above)
      /\ \A i \in 1 .. Len(above) : SubSeq(here, 1, Len(above))[i] = here[i]
  OBVIOUS
<1>2. QED
  BY <1>1

\* Two spellings of one thing are one key, and one key is of one thing.
LEMMA SpellingsFold ==
  ASSUME NEW res, NEW name, NEW t \in Texts, NEW u \in Texts
  PROVE  /\ /\ Lower(PathUnescape(t)) = Lower(PathUnescape(u))
            /\ SpeltAlike(t, u, Folded(res, name))
            => FoldFor(res, name, t) = FoldFor(res, name, u)
         /\ FoldFor(res, name, t) = FoldFor(res, name, u) =>
              Lower(PathUnescape(t)) = Lower(PathUnescape(u))
<1>1. /\ t.escaped \in Nat /\ u.escaped \in Nat
      /\ t = Spelt(t.word, t.upper, t.escaped) /\ u = Spelt(u.word, u.upper, u.escaped)
  BY Escapes, TextIs
<1> DEFINE Once(n) == IF n > 0 THEN n - 1 ELSE n
<1>2. ASSUME NEW v \in Texts
      PROVE  /\ Lower(PathUnescape(v)) = Spelt(v.word, FALSE, Once(v.escaped))
             /\ Lower(PathUnescape(v)).word = v.word
             /\ Lower(v) = Spelt(v.word, FALSE, v.escaped)
             /\ Lower(v).word = v.word /\ Lower(v).escaped = v.escaped
  <2>1. CASE v.escaped > 0
    <3>1. PathUnescape(v) = Spelt(v.word, v.upper, v.escaped - 1)
      BY <2>1, Zenon DEF PathUnescape
    <3>2. PathUnescape(v).word = v.word /\ PathUnescape(v).escaped = v.escaped - 1
      BY <3>1, Fields
    <3>3. QED
      BY <2>1, <3>2, LowerFields DEF Lower
  <2>2. CASE ~(v.escaped > 0)
    <3>1. PathUnescape(v) = v
      BY <2>2, Zenon DEF PathUnescape
    <3>2. QED
      BY <2>2, <3>1, LowerFields DEF Lower
  <2>3. QED
    BY <2>1, <2>2
<1> HIDE DEF Once
<1>3. ASSUME Lower(PathUnescape(t)) = Lower(PathUnescape(u)),
             SpeltAlike(t, u, Folded(res, name))
      PROVE  FoldFor(res, name, t) = FoldFor(res, name, u)
  <2>1. t.word = u.word
    BY <1>2, <1>3
  <2>2. t.escaped = u.escaped /\ (Folded(res, name) \/ t.upper = u.upper)
    BY <1>3 DEF SpeltAlike
  <2>3. Lower(t) = Lower(u)
    BY <1>2, <2>1, <2>2
  <2>4. CASE Folded(res, name)
    BY <2>3, <2>4 DEF Folded, FoldFor
  <2>5. CASE t.upper = u.upper
    <3>1. t = u
      BY <1>1, <2>1, <2>2, <2>5
    <3>2. QED
      BY <3>1
  <2>6. QED
    BY <2>2, <2>4, <2>5
<1>4. ASSUME FoldFor(res, name, t) = FoldFor(res, name, u)
      PROVE  Lower(PathUnescape(t)) = Lower(PathUnescape(u))
  <2>1. Lower(t) = Lower(u)
    BY <1>4, FoldIsText
  <2>2. t.word = u.word /\ t.escaped = u.escaped
    BY <1>2, <2>1
  <2>3. QED
    BY <1>2, <2>2
<1>5. QED
  BY <1>3, <1>4

\* What a purge along a route names, and what the route names there.
NamesAlong(named, key, res, req, pattern, path, auth) ==
  /\ DOMAIN named = CredentialKeys(res) \cup PathParams(pattern)
  /\ DOMAIN named \subseteq KeyNames(res)
  /\ DOMAIN named \subseteq DOMAIN key
  /\ \A name \in CredentialKeys(res) : named[name] = auth /\ key[name] = req.auth
  /\ \A i \in DOMAIN pattern :
       pattern[i].param =>
         /\ pattern[i].name \in DOMAIN named
         /\ named[pattern[i].name] = FoldFor(res, pattern[i].name, path[i])
         /\ key[pattern[i].name] = FoldFor(res, pattern[i].name, req.path[i])

LEMMA AlongKeys ==
  ASSUME NEW res, NEW rt, NEW req, Taken(res, rt, req),
         NEW pattern \in Seq(Segments), Along(pattern, res, rt), NEW path, NEW auth
  PROVE  NamesAlong(PurgeKey(res, Bindings(pattern, path), auth), KeyOf(res, rt, req),
                    res, req, pattern, path, auth)
<1> DEFINE key    == KeyOf(res, rt, req)
           bound  == Bindings(pattern, path)
           named  == PurgeKey(res, bound, auth)
<1>1. OwnColumns(res, rt) /\ OneColumnEach(rt) /\ rt.path \in Seq(Segments)
  BY DEF Taken, OwnColumns
<1>2. ASSUME NEW i \in DOMAIN pattern, pattern[i].param
      PROVE  /\ i \in DOMAIN rt.path /\ rt.path[i].param
             /\ pattern[i].name = Column(rt, rt.path[i].name)
             /\ pattern[i].name \in KeyNames(res) \ CredentialKeys(res)
             /\ pattern[i] = Param(pattern[i].name)
  <2>1. i \in DOMAIN rt.path
    BY <1>1 DEF Along
  <2>2. /\ rt.path[i].param /\ pattern[i].name = Column(rt, rt.path[i].name)
        /\ pattern[i].name \in KeyNames(res)
    BY <1>2 DEF Along
  <2>3. rt.path[i].name \in PathParams(rt.path)
    BY <2>1, <2>2 DEF PathParams
  <2>4. pattern[i].name \notin CredentialKeys(res)
    BY <1>1, <2>2, <2>3 DEF OwnColumns
  <2>5. pattern[i] \in Segments
    OBVIOUS
  <2>6. pattern[i] = Param(pattern[i].name)
    BY <1>2, <2>5 DEF Segments, Param
  <2>7. QED
    BY <2>1, <2>2, <2>4, <2>6
<1>3. ASSUME NEW i \in DOMAIN pattern, pattern[i].param,
             NEW j \in DOMAIN pattern, pattern[j] = pattern[i]
      PROVE  j = i
  <2>1. /\ i \in DOMAIN rt.path /\ rt.path[i].param
        /\ j \in DOMAIN rt.path /\ rt.path[j].param
        /\ Column(rt, rt.path[i].name) = Column(rt, rt.path[j].name)
    BY <1>2, <1>3
  <2>2. rt.path[i].name \in PathParams(rt.path) /\ rt.path[j].name \in PathParams(rt.path)
    BY <2>1 DEF PathParams
  <2>3. rt.path[i].name = rt.path[j].name
    BY <1>1, <2>1, <2>2 DEF OneColumnEach
  <2>4. rt.path[i] \in Segments /\ rt.path[j] \in Segments
    BY <1>1, <2>1
  <2>5. rt.path[i] = rt.path[j]
    BY <2>1, <2>3, <2>4 DEF Segments
  <2>6. QED
    BY <1>1, <2>1, <2>5 DEF OneColumnEach
<1>4. DOMAIN bound = PathParams(pattern)
  BY DEF Bindings
<1>5. CredentialKeys(res) \subseteq KeyNames(res)
  BY DEF CredentialKeys, KeyNames
<1>6. PathParams(pattern) \subseteq KeyNames(res)
  BY <1>2 DEF PathParams
<1>7. DOMAIN named = CredentialKeys(res) \cup PathParams(pattern)
  BY <1>4, <1>6 DEF PurgeKey
<1>8. ASSUME NEW name \in CredentialKeys(res)
      PROVE  named[name] = auth /\ name \in DOMAIN key /\ key[name] = req.auth
  <2>1. named[name] = auth
    BY <1>8 DEF PurgeKey
  <2>2. name \in KeyColumns(res, rt)
    BY <1>8 DEF KeyColumns
  <2>3. QED
    BY <1>8, <2>1, <2>2, KeyHas
<1>9. ASSUME NEW i \in DOMAIN pattern, pattern[i].param, NEW name, name = pattern[i].name
      PROVE  /\ name \in PathParams(pattern) /\ name \in DOMAIN key
             /\ named[name] = FoldFor(res, name, path[i])
             /\ key[name] = FoldFor(res, name, req.path[i])
  <2>1. name \in PathParams(pattern)
    BY <1>9 DEF PathParams
  <2>2. (CHOOSE j \in DOMAIN pattern : pattern[j] = Param(name)) = i
    BY <1>2, <1>3, <1>9
  <2>3. bound[name] = path[i]
    BY <2>1, <2>2 DEF Bindings
  <2>4. name \in KeyNames(res) \ CredentialKeys(res)
    BY <1>2, <1>9
  <2>5. named[name] = FoldFor(res, name, bound[name])
    BY <1>4, <2>1, <2>4 DEF PurgeKey
  <2>6. i \in DOMAIN rt.path /\ rt.path[i].param /\ name = Column(rt, rt.path[i].name)
    BY <1>2, <1>9
  <2>7. name \in DOMAIN key /\ key[name] = FoldFor(res, name, req.path[i])
    BY <2>6, PathKey
  <2>8. QED
    BY <2>1, <2>3, <2>5, <2>7
<1>10. PathParams(pattern) \subseteq DOMAIN key
  BY <1>9 DEF PathParams
<1> HIDE DEF key, named, bound
<1>11. /\ DOMAIN named \subseteq KeyNames(res) /\ DOMAIN named \subseteq DOMAIN key
       /\ \A i \in DOMAIN pattern : pattern[i].param =>
            /\ pattern[i].name \in DOMAIN named
            /\ named[pattern[i].name] = FoldFor(res, pattern[i].name, path[i])
            /\ key[pattern[i].name] = FoldFor(res, pattern[i].name, req.path[i])
  BY <1>5, <1>6, <1>7, <1>8, <1>9, <1>10
<1>12. NamesAlong(named, key, res, req, pattern, path, auth)
  BY <1>7, <1>8, <1>11, Zenon DEF NamesAlong
<1>13. QED
  BY <1>12 DEF key, named, bound

\* A purge names the key of a read exactly where the read is about what the write
\* is about.
About(path, auth, res, req) ==
  LET above == Reads(path)
      here  == Reads(req.path)
  IN  /\ Len(above) <= Len(here) /\ SubSeq(here, 1, Len(above)) = above
      /\ CredentialKeys(res) # {} => req.auth = auth

NamesIt(named, key, res, about) ==
  /\ DOMAIN named \subseteq DOMAIN key \cap KeyNames(res)
  /\ about <=> \A name \in DOMAIN named : named[name] = key[name]

LEMMA PurgeNames ==
  ASSUME NEW res, NEW rt, NEW req, Taken(res, rt, req),
         NEW pattern \in Seq(Segments), Along(pattern, res, rt),
         NEW path \in Seq(Texts), MatchPath(pattern, path), NEW auth,
         \A i \in DOMAIN path :
           rt.path[i].param =>
             SpeltAlike(req.path[i], path[i], Folded(res, Column(rt, rt.path[i].name)))
  PROVE  NamesIt(PurgeKey(res, Bindings(pattern, path), auth), KeyOf(res, rt, req), res,
                 About(path, auth, res, req))
<1> DEFINE key   == KeyOf(res, rt, req)
           named == PurgeKey(res, Bindings(pattern, path), auth)
           above == Reads(path)
           here  == Reads(req.path)
           Spoken == {Lower(PathUnescape(t)) : t \in Texts}
           prefix == Len(above) <= Len(here) /\ SubSeq(here, 1, Len(above)) = above
           mine == CredentialKeys(res) # {} => req.auth = auth
<1>0. NamesAlong(named, key, res, req, pattern, path, auth)
  BY AlongKeys, Zenon
<1>1. /\ DOMAIN named = CredentialKeys(res) \cup PathParams(pattern)
      /\ DOMAIN named \subseteq KeyNames(res) /\ DOMAIN named \subseteq DOMAIN key
      /\ \A name \in CredentialKeys(res) : named[name] = auth /\ key[name] = req.auth
      /\ \A i \in DOMAIN pattern :
           pattern[i].param =>
             /\ pattern[i].name \in DOMAIN named
             /\ named[pattern[i].name] = FoldFor(res, pattern[i].name, path[i])
             /\ key[pattern[i].name] = FoldFor(res, pattern[i].name, req.path[i])
  <2> HIDE DEF named, key
  <2>1. QED
    BY <1>0, Zenon DEF NamesAlong
<1>2. /\ req.path \in Seq(Texts) /\ rt.path \in Seq(Segments)
      /\ DOMAIN rt.path = DOMAIN req.path /\ Len(rt.path) = Len(req.path)
  BY PlacesMatch DEF Taken, MatchPath
<1>3. Len(pattern) = Len(path) /\ DOMAIN pattern = 1 .. Len(path) /\ Len(path) <= Len(req.path)
  BY <1>2 DEF MatchPath, Along
<1>4. /\ above \in Seq(Spoken) /\ here \in Seq(Spoken)
      /\ Len(above) = Len(path) /\ Len(here) = Len(req.path)
      /\ \A i \in 1 .. Len(path) : above[i] = Lower(PathUnescape(path[i]))
      /\ \A i \in 1 .. Len(req.path) : here[i] = Lower(PathUnescape(req.path[i]))
  BY <1>2, ReadsIs, Zenon
<1>5. prefix <=> \A i \in 1 .. Len(path) : here[i] = above[i]
  <2>1. SubSeq(here, 1, Len(above)) = above <=> \A i \in 1 .. Len(above) : here[i] = above[i]
    <3> HIDE DEF above, here, Spoken
    <3>1. Len(above) <= Len(here)
      BY <1>3, <1>4
    <3>2. QED
      BY <1>4, <3>1, PrefixIs
  <2> HIDE DEF above, here
  <2>2. QED
    BY <1>3, <1>4, <2>1
\* Where both have a literal it is the same.
<1>6. ASSUME NEW i \in 1 .. Len(path)
      PROVE  IF pattern[i].param
             THEN here[i] = above[i] <=> named[pattern[i].name] = key[pattern[i].name]
             ELSE here[i] = above[i]
  <2>1. /\ i \in DOMAIN pattern /\ i \in DOMAIN path /\ i \in DOMAIN req.path
        /\ path[i] \in Texts /\ req.path[i] \in Texts
    BY <1>2, <1>3
  <2>2. here[i] = Lower(PathUnescape(req.path[i])) /\ above[i] = Lower(PathUnescape(path[i]))
    <3>1. i \in 1 .. Len(req.path)
      BY <1>2, <1>3
    <3>2. QED
      BY <1>4, <3>1, Zenon
  <2> HIDE DEF above, here, named, key
  <2>3. CASE pattern[i].param
    <3> DEFINE name == pattern[i].name
    <3>1. rt.path[i].param /\ name = Column(rt, rt.path[i].name)
      BY <2>1, <2>3 DEF Along
    <3>2. SpeltAlike(req.path[i], path[i], Folded(res, name))
      BY <2>1, <3>1
    <3>3. named[name] = FoldFor(res, name, path[i]) /\ key[name] = FoldFor(res, name, req.path[i])
      BY <1>1, <2>1, <2>3
    <3> HIDE DEF name
    <3>4. here[i] = above[i] <=> named[name] = key[name]
      BY <2>1, <2>2, <3>2, <3>3, SpellingsFold
    <3>5. QED
      BY <2>3, <3>4 DEF name
  <2>4. CASE ~pattern[i].param
    <3>1. rt.path[i] = pattern[i] /\ i \in DOMAIN rt.path
      BY <1>2, <2>1, <2>4 DEF Along
    <3>2. path[i] = Text(pattern[i].name)
      BY <2>1, <2>4 DEF MatchPath
    <3>3. req.path[i] = Text(rt.path[i].name)
      BY <2>4, <3>1 DEF Taken, MatchPath
    <3>4. QED
      BY <2>2, <2>4, <3>1, <3>2, <3>3
  <2>5. QED
    BY <2>3, <2>4
<1> HIDE DEF above, here, named, key, prefix
<1>7. prefix <=> \A name \in PathParams(pattern) : named[name] = key[name]
  <2>1. prefix <=> \A i \in 1 .. Len(path) :
                     pattern[i].param => named[pattern[i].name] = key[pattern[i].name]
    BY <1>5, <1>6
  <2>2. QED
    BY <1>3, <2>1 DEF PathParams
<1>8. mine <=> \A name \in CredentialKeys(res) : named[name] = key[name]
  BY <1>1
<1>9. prefix /\ mine <=> \A name \in DOMAIN named : named[name] = key[name]
  BY <1>1, <1>7, <1>8
<1>10. DOMAIN named \subseteq DOMAIN key \cap KeyNames(res)
  BY <1>1
<1>11. About(path, auth, res, req) <=> prefix /\ mine
  BY Zenon DEF About, above, here, prefix, mine
<1> HIDE DEF mine
<1>12. NamesIt(named, key, res, About(path, auth, res, req))
  BY <1>9, <1>10, <1>11, Zenon DEF NamesIt
<1>13. QED
  BY <1>12 DEF named, key

\* So the rows it selects are those of that key, or others.
LEMMA SelectedAlong ==
  ASSUME NEW stored, NEW res, NEW key, NEW named,
         DOMAIN named \subseteq DOMAIN key \cap KeyNames(res)
  PROVE  IF \A name \in DOMAIN named : named[name] = key[name]
         THEN Selected(stored, res, key) \subseteq Selected(stored, res, named)
         ELSE Selected(stored, res, key) \cap Selected(stored, res, named) = {}
<1>1. CASE \A name \in DOMAIN named : named[name] = key[name]
  BY <1>1 DEF Selected
<1>2. ASSUME NEW name \in DOMAIN named, named[name] # key[name]
      PROVE  Selected(stored, res, key) \cap Selected(stored, res, named) = {}
  BY <1>2 DEF Selected
<1>3. QED
  BY <1>1, <1>2

LEMMA WriterIs ==
  ASSUME NEW w \in DOMAIN Arrivals, NEW b \in Writers(w)
  PROVE  /\ b.req.path \in Seq(Texts)
         /\ MatchPurges(Worlds[w].spec, b.req) # {}
         /\ b.purged = Purged(Worlds[w].spec, b.req)
<1> DEFINE s == Worlds[w].spec
<1>1. w \in DOMAIN Worlds /\ WellFormed(Worlds[w])
  BY ServingAssumption DEF Arrivals
<1>2. PICK asked \in Worlds[w].requests : b = Dispatched(s, asked)
  BY <1>1 DEF Arrivals, Writers
<1> DEFINE req == Rewritten(s, asked)
<1>3. /\ b.by = Answerer(s, req) /\ b.req = req
      /\ b.by = "purge" => b.purged = Purged(s, req)
  BY <1>2, Zenon DEF Dispatched
<1>4. b.by = "purge"
  BY DEF Writers
<1>5. MatchPurges(s, req) # {}
  BY <1>3, <1>4 DEF Answerer
<1>6. req.path = RewritePath(s, asked.path)
  BY <1>1 DEF WellFormed, Rewritten
<1>7. req.path \in Seq(Texts)
  <2>1. asked.path \in Seq(Texts)
    BY <1>1 DEF WellFormed
  <2>2. /\ DOMAIN s.rewrites \subseteq Nat
        /\ \A i \in DOMAIN s.rewrites :
             s.rewrites[i].from \in Seq(STRING) /\ s.rewrites[i].to \in Seq(STRING)
    BY <1>1 DEF WellFormed
  <2> HIDE DEF s
  <2>3. QED
    BY <1>6, <2>1, <2>2, RewriteIsText
<1> HIDE DEF req, s
<1>8. QED
  BY <1>3, <1>4, <1>5, <1>7 DEF s

LEMMA NamedRows ==
  ASSUME NEW w \in DOMAIN Arrivals, PurgesNameRows(w),
         NEW b \in Writers(w), NEW a \in Readers(w), ~a.plan.route.list, NEW stored
  PROVE  LET read == Selected(stored, a.plan.res, a.plan.key)
         IN  IF Concerns(b.req, a)
             THEN \E p \in b.purged : read \subseteq Selected(stored, p.res, p.key)
             ELSE \A p \in b.purged : read \cap Selected(stored, p.res, p.key) = {}
<1> DEFINE s       == Worlds[w].spec
           matched == MatchPurges(s, b.req)
           pattern == s.purges[First(matched)].path
           Res(j)  == s.resources[s.purges[j].resource]
           Named(j) == PurgeKey(Res(j), Bindings(pattern, b.req.path), b.req.auth)
           read == Selected(stored, a.plan.res, a.plan.key)
           Alike(j) == s.purges[j].resource = a.plan.route.resource
<1>1. PICK n \in DOMAIN s.routes : PlannedBy(s, n, a.req, a.plan)
  BY ArrivalIs
<1> DEFINE rt  == s.routes[n]
           res == s.resources[rt.resource]
<1>2. /\ a.plan.route = rt /\ a.plan.res = res /\ a.plan.key = KeyOf(res, rt, a.req)
      /\ MatchPath(rt.path, a.req.path)
  BY <1>1 DEF PlannedBy
<1>3. Valid(s) /\ WellFormed(Worlds[w])
  BY ArrivalIs
<1>4. matched \subseteq DOMAIN s.purges /\ matched # {} /\ First(matched) \in matched
  <2>1. matched \subseteq DOMAIN s.purges /\ DOMAIN s.purges \subseteq Nat
    BY <1>3 DEF MatchPurges, WellFormed
  <2>2. matched # {}
    BY WriterIs
  <2>3. QED
    BY <2>1, <2>2, FirstIsOne
<1>5. b.purged = {[res |-> Res(j), key |-> Named(j)] : j \in matched}
  BY WriterIs, Zenon DEF Purged
<1>6. pattern \in Seq(Segments) /\ MatchPath(pattern, b.req.path)
  BY <1>3, <1>4 DEF WellFormed, Segments, MatchPurges
<1>7. ASSUME NEW j \in matched, Alike(j)
      PROVE  /\ Res(j) = a.plan.res
             /\ IF Concerns(b.req, a)
                THEN read \subseteq Selected(stored, Res(j), Named(j))
                ELSE read \cap Selected(stored, Res(j), Named(j)) = {}
  <2>0. \E i \in matched : s.purges[i].resource = a.plan.route.resource
    BY <1>7
  <2>1. /\ OwnColumns(res, rt) /\ Along(pattern, res, rt)
        /\ \A i \in DOMAIN b.req.path :
             rt.path[i].param =>
               SpeltAlike(a.req.path[i], b.req.path[i], Folded(res, Column(rt, rt.path[i].name)))
    BY <1>2, <2>0 DEF PurgesNameRows
  <2>2. Taken(res, rt, a.req)
    <3>1. /\ rt.path \in Seq(Segments)
          /\ \A i \in DOMAIN rt.query : rt.query[i].default \in Texts
      BY <1>3 DEF WellFormed, Segments
    <3>2. /\ a.req.path \in Seq(Texts)
          /\ \A name \in DOMAIN a.req.query : a.req.query[name] \in Texts
      BY ArrivalIs
    <3>3. QED
      BY <1>2, <2>1, <3>1, <3>2 DEF Taken
  <2>3. Res(j) = res
    BY <1>2, <1>7
  <2> DEFINE named == PurgeKey(res, Bindings(pattern, b.req.path), b.req.auth)
             key   == KeyOf(res, rt, a.req)
  <2>4. /\ DOMAIN named \subseteq DOMAIN key \cap KeyNames(res)
        /\ Concerns(b.req, a) <=> \A name \in DOMAIN named : named[name] = key[name]
    <3>1. b.req.path \in Seq(Texts)
      BY WriterIs
    <3>2. Concerns(b.req, a) <=> About(b.req.path, b.req.auth, res, a.req)
      BY <1>2, Zenon DEF Concerns, About
    <3> HIDE DEF rt, res, pattern, matched
    <3>3. NamesIt(named, key, res, About(b.req.path, b.req.auth, res, a.req))
      BY <1>6, <2>1, <2>2, <3>1, PurgeNames, Zenon
    <3> HIDE DEF named, key
    <3>4. QED
      BY <3>2, <3>3, Zenon DEF NamesIt
  <2>5. IF \A name \in DOMAIN named : named[name] = key[name]
        THEN Selected(stored, res, key) \subseteq Selected(stored, res, named)
        ELSE Selected(stored, res, key) \cap Selected(stored, res, named) = {}
    <3> HIDE DEF named, key, res
    <3>1. DOMAIN named \subseteq DOMAIN key \cap KeyNames(res)
      BY <2>4
    <3>2. QED
      BY <3>1, SelectedAlong, Zenon
  <2>6. Named(j) = named
    BY <2>3
  <2> HIDE DEF named, key, res
  <2>7. QED
    BY <1>2, <2>3, <2>4, <2>5, <2>6 DEF key
<1>8. ASSUME NEW j \in matched, ~Alike(j)
      PROVE  read \cap Selected(stored, Res(j), Named(j)) = {}
  <2>1. s.purges[j].resource \in DOMAIN s.resources /\ rt.resource \in DOMAIN s.resources
    BY <1>3, <1>4 DEF Valid, ValidPurge, ValidRoute
  <2>2. Res(j).name # a.plan.res.name
    BY <1>2, <1>3, <1>8, <2>1 DEF Valid
  <2>3. QED
    BY <2>2 DEF Selected
<1>9. Concerns(b.req, a) => \E j \in matched : Alike(j)
  BY DEF PurgesNameRows
<1> HIDE DEF Named, Res, Alike, matched, read
<1>10. CASE Concerns(b.req, a)
  <2>1. PICK j \in matched : Alike(j)
    BY <1>9, <1>10
  <2> DEFINE p == [res |-> Res(j), key |-> Named(j)]
  <2>2. p \in b.purged /\ p.res = Res(j) /\ p.key = Named(j)
    BY <1>5
  <2>3. read \subseteq Selected(stored, p.res, p.key)
    BY <1>7, <1>10, <2>1, <2>2
  <2>4. QED
    BY <1>10, <2>2, <2>3 DEF read
<1>11. CASE ~Concerns(b.req, a)
  <2>1. \A j \in matched : read \cap Selected(stored, Res(j), Named(j)) = {}
    BY <1>7, <1>8, <1>11
  <2>2. \A p \in b.purged : read \cap Selected(stored, p.res, p.key) = {}
    BY <1>5, <2>1
  <2>3. QED
    BY <1>11, <2>2 DEF read
<1>12. QED
  BY <1>10, <1>11

\* After a confirmed write no read of what it names finds a row, and every other
\* read finds what it found, in any store, under any specification that is served
\* and whose purges go along its routes, where what is named alike is spelt alike
\* but for the case of a folded key (forwardAndPurge, purgeKey, foldFor).
THEOREM PurgesAreExact ==
  ASSUME \A w \in DOMAIN Arrivals : PurgesNameRows(w)
  PROVE  Spec => PurgeDropsWhatItNames
<1> DEFINE Served == world \in DOMAIN Arrivals
           Exact ==
             told'.by = "purge" =>
               \A a \in ReadsOfOne :
                 IF Concerns(told'.req, a) THEN ReadRows(rows', a.plan) = {}
                 ELSE ReadRows(rows', a.plan) = ReadRows(rows, a.plan)
<1>1. Init => Served
  BY DEF Init
<1>2. Served /\ [Next]_vars => Served'
  BY DEF Next, vars, Ask, Serve, Purge, Refused, PassOn, Expire, Sweep, Vanish
<1>3. Served /\ [Next]_vars => [Exact]_vars
  <2> SUFFICES ASSUME Served, Next, told'.by = "purge", NEW a \in ReadsOfOne
               PROVE  IF Concerns(told'.req, a) THEN ReadRows(rows', a.plan) = {}
                      ELSE ReadRows(rows', a.plan) = ReadRows(rows, a.plan)
    BY DEF vars
  <2>1. PICK b \in Writers(world) : Purge(b.req, b.purged)
    <3>1. told'.by # "route" /\ told'.by # "nobody" /\ told'.by # "sweep"
      OBVIOUS
    <3>2. ASSUME NEW k, Expire(k) \/ Vanish(k) PROVE FALSE
      BY <3>1, <3>2 DEF Expire, Vanish, Silent
    <3>3. ASSUME NEW k \in DOMAIN marks, Sweep(k) PROVE FALSE
      BY <3>1, <3>3 DEF Sweep
    <3>4. PICK b \in Arrivals[world] : Ask(b)
      BY <3>2, <3>3 DEF Next
    <3>5. CASE b.by = "route" /\ Serve(b.req, b.plan)
      BY <3>1, <3>5 DEF Serve
    <3>6. CASE b.by = "purge" /\ Refused(b.req)
      BY <3>1, <3>6 DEF Refused, Silent
    <3>7. CASE PassOn(b.req, b.by)
      BY <3>1, <3>7 DEF PassOn, Silent
    <3>8. CASE b.by = "purge" /\ Purge(b.req, b.purged)
      BY <3>8 DEF Writers
    <3>9. QED
      BY <3>4, <3>5, <3>6, <3>7, <3>8 DEF Ask
  <2> DEFINE read    == Selected(rows, a.plan.res, a.plan.key)
             dropped == UNION {Selected(rows, p.res, p.key) : p \in b.purged}
  <2>2. told'.req = b.req /\ rows' = rows \ dropped
    BY <2>1 DEF Purge
  <2>3. a \in Readers(world) /\ ~a.plan.route.list
    BY DEF ReadsOfOne, Readers
  <2>4. IF Concerns(b.req, a)
        THEN \E p \in b.purged : read \subseteq Selected(rows, p.res, p.key)
        ELSE \A p \in b.purged : read \cap Selected(rows, p.res, p.key) = {}
    BY <2>3, NamedRows, Zenon
  <2>5. Selected(rows', a.plan.res, a.plan.key) = read \ dropped
    BY <2>2 DEF Selected
  <2> HIDE DEF read
  <2>6. IF Concerns(b.req, a) THEN read \ dropped = {} ELSE read \ dropped = read
    BY <2>4
  <2> HIDE DEF dropped
  <2>7. CASE Concerns(b.req, a)
    BY <2>2, <2>5, <2>6, <2>7 DEF ReadRows
  <2>8. CASE ~Concerns(b.req, a)
    BY <2>2, <2>5, <2>6, <2>8 DEF ReadRows, read
  <2>9. QED
    BY <2>7, <2>8
<1>4. QED
  BY <1>1, <1>2, <1>3, PTL DEF Spec, PurgeDropsWhatItNames

------------------------------------------------------------------------------
(* What the upstream is asked for a reader. *)

\* A value a request gives is asked for, and one it leaves out is the upstream's
\* default, whether the route fills it in or leaves it out.
LEMMA FilledIsMeant ==
  ASSUME NEW rt, NEW query, ModelledQuery(rt, query),
         \A name \in DOMAIN query : query[name] # NoText,
         \A i \in DOMAIN rt.query : rt.query[i].default \in {NoText, Defaults[rt.query[i].name]},
         NEW filled, filled = FilledQuery(rt, query),
         NEW sent, sent = [n \in {m \in DOMAIN filled : filled[m] # NoText} |-> filled[n]],
         NEW name
  PROVE  (IF name \in DOMAIN sent THEN sent[name] ELSE Defaults[name]) =
           (IF name \in DOMAIN query THEN query[name] ELSE Defaults[name])
<1> DEFINE names == {rt.query[i].name : i \in DOMAIN rt.query}
           at == CHOOSE i \in DOMAIN rt.query : rt.query[i].name = name
<1>1. DOMAIN filled = names
  BY DEF FilledQuery
<1>2. name \in names =>
        filled[name] = IF name \in DOMAIN query THEN query[name] ELSE rt.query[at].default
  BY DEF FilledQuery
<1>3. name \in names => at \in DOMAIN rt.query /\ rt.query[at].name = name
  OBVIOUS
<1>4. name \in DOMAIN query => name \in names
  BY DEF ModelledQuery
<1>5. name \in DOMAIN sent <=> name \in DOMAIN filled /\ filled[name] # NoText
  OBVIOUS
<1>6. name \in DOMAIN sent => sent[name] = filled[name]
  OBVIOUS
<1>7. name \in names => rt.query[at].default \in {NoText, Defaults[name]}
  BY <1>3
<1> HIDE DEF at, names
<1>8. CASE name \in DOMAIN query
  BY <1>1, <1>2, <1>4, <1>5, <1>6, <1>8
<1>9. CASE name \notin DOMAIN query
  BY <1>1, <1>2, <1>5, <1>6, <1>7, <1>9
<1>10. QED
  BY <1>8, <1>9

LEMMA MeantBy ==
  ASSUME NEW items, NEW asked, NEW other, NEW auth,
         asked.method = other.method, asked.path = other.path, asked.body = other.body,
         \A name : (IF name \in DOMAIN asked.query THEN asked.query[name] ELSE Defaults[name]) =
                   (IF name \in DOMAIN other.query THEN other.query[name] ELSE Defaults[name])
  PROVE  Meant(items, asked, auth) = Meant(items, other, auth)
<1> DEFINE Where(i, path) == IF Reads(path) = i.in THEN i.where ELSE i.under
           Value(query, name) == IF name \in DOMAIN query THEN query[name] ELSE Defaults[name]
           Fits(i, req) ==
             /\ i.method = req.method
             /\ Reads(req.path) \in {i.at, i.in}
             /\ i.viewer \in {NoText, auth}
             /\ i.body = req.body
             /\ \A name \in DOMAIN Where(i, req.path) :
                  Where(i, req.path)[name] = Value(req.query, name)
<1>1. \A req : Meant(items, req, auth) = {i \in items : Fits(i, req)}
  BY Zenon DEF Meant
<1>2. \A name : Value(asked.query, name) = Value(other.query, name)
  OBVIOUS
<1> HIDE DEF Value, Where
<1>3. \A i \in items : Fits(i, asked) <=> Fits(i, other)
  BY <1>2
<1> HIDE DEF Fits
<1>4. QED
  BY <1>1, <1>3

LEMMA MeantOf ==
  ASSUME NEW all, NEW items \in SUBSET all, NEW asked, NEW auth
  PROVE  Meant(items, asked, auth) = Meant(all, asked, auth) \cap items
<1> DEFINE Fits(i) ==
             /\ i.method = asked.method
             /\ Reads(asked.path) \in {i.at, i.in}
             /\ i.viewer \in {NoText, auth}
             /\ i.body = asked.body
             /\ LET where == IF Reads(asked.path) = i.in THEN i.where ELSE i.under
                IN  \A name \in DOMAIN where :
                      where[name] = IF name \in DOMAIN asked.query THEN asked.query[name]
                                    ELSE Defaults[name]
<1>1. \A some : Meant(some, asked, auth) = {i \in some : Fits(i)}
  BY Zenon DEF Meant
<1> HIDE DEF Fits
<1>2. QED
  BY <1>1

BodyOf(rt, req) == IF rt.bodyKey = "" THEN NoText ELSE req.body

\* A plan asks what its request asks.
AskedBy(plan, req) ==
  /\ plan.route.method = req.method /\ plan.path = req.path
  /\ ModelledQuery(plan.route, req.query)
  /\ plan.query = FilledQuery(plan.route, req.query)
  /\ plan.body = BodyOf(plan.route, req)

LEMMA ReaderAsks ==
  ASSUME NEW w \in DOMAIN Arrivals, NEW a \in Readers(w)
  PROVE  AskedBy(a.plan, a.req)
<1> DEFINE s == Worlds[w].spec
           i == First(Candidates(s, a.req))
<1>1. w \in DOMAIN Worlds /\ WellFormed(Worlds[w])
  BY ServingAssumption DEF Arrivals
<1>2. PICK asked \in Worlds[w].requests : a = Dispatched(s, asked)
  BY <1>1 DEF Arrivals, Readers
<1>3. /\ a.by = Answerer(s, a.req)
      /\ a.by = "route" => a.plan = Resolve(s, a.req)
  BY <1>2, Zenon DEF Dispatched
<1>4. a.by = "route"
  BY DEF Readers
<1>5. Resolves(s, a.req)
  BY <1>3, <1>4 DEF Answerer
<1>6. i \in Candidates(s, a.req)
  <2>1. Candidates(s, a.req) \in SUBSET Nat /\ Candidates(s, a.req) # {}
    BY <1>1, <1>5 DEF Candidates, Resolves, WellFormed
  <2>2. QED
    BY <2>1, FirstIsOne
<1>7. s.routes[i].method = a.req.method
  BY <1>6 DEF Candidates
<1>8. ModelledQuery(s.routes[i], a.req.query)
  BY <1>5 DEF Resolves, Takes
<1>9. a.plan = Resolve(s, a.req)
  BY <1>3, <1>4
<1> DEFINE res == s.resources[s.routes[i].resource]
<1>10. a.plan = [route |-> s.routes[i], res |-> res, key |-> KeyOf(res, s.routes[i], a.req),
                 query |-> FilledQuery(s.routes[i], a.req.query), path |-> a.req.path,
                 body |-> BodyOf(s.routes[i], a.req)]
  BY <1>9, Zenon DEF Resolve, ResourceOf, BodyOf
<1> HIDE DEF s, i, res
<1>11. QED
  BY <1>7, <1>8, <1>10 DEF AskedBy

\* A reader's fetch asks the upstream for what the reader would have asked for.
LEMMA AsksTheSame ==
  ASSUME NEW w \in DOMAIN Arrivals, DefaultsAgree(w), NEW a \in Readers(w), NEW items
  PROVE  Meant(items, UpstreamRequest(a.plan), a.req.auth) =
           Meant(items, Direct(a.req), a.req.auth)
<1> DEFINE asked == UpstreamRequest(a.plan)
           own   == Direct(a.req)
<1>1. AskedBy(a.plan, a.req)
  BY ReaderAsks
<1>2. asked.method = own.method /\ asked.path = own.path
  BY <1>1 DEF AskedBy, UpstreamRequest, Direct
<1>3. asked.body = own.body
  <2>1. a.plan.route.bodyKey = "" => a.req.body = NoText
    BY Zenon DEF DefaultsAgree
  <2>2. a.plan.body = a.req.body
    BY <1>1, <2>1, Zenon DEF AskedBy, BodyOf
  <2>3. QED
    BY <2>2 DEF UpstreamRequest, Direct
<1>4. /\ \A name \in DOMAIN a.req.query : a.req.query[name] # NoText
      /\ \A i \in DOMAIN a.plan.route.query :
           a.plan.route.query[i].default \in {NoText, Defaults[a.plan.route.query[i].name]}
  BY Zenon DEF DefaultsAgree
<1>5. /\ ModelledQuery(a.plan.route, a.req.query)
      /\ a.plan.query = FilledQuery(a.plan.route, a.req.query)
  BY <1>1, Zenon DEF AskedBy
<1>6. /\ asked.query = [n \in {m \in DOMAIN a.plan.query : a.plan.query[m] # NoText} |->
                          a.plan.query[n]]
      /\ own.query = a.req.query
  BY DEF UpstreamRequest, Direct
<1> HIDE DEF asked, own
<1>7. \A name : (IF name \in DOMAIN asked.query THEN asked.query[name] ELSE Defaults[name]) =
                  (IF name \in DOMAIN own.query THEN own.query[name] ELSE Defaults[name])
  <2> SUFFICES ASSUME NEW name
               PROVE  (IF name \in DOMAIN asked.query THEN asked.query[name] ELSE Defaults[name]) =
                        (IF name \in DOMAIN own.query THEN own.query[name] ELSE Defaults[name])
    OBVIOUS
  <2> DEFINE sent == asked.query
             query == own.query
  <2>1. /\ ModelledQuery(a.plan.route, query) /\ a.plan.query = FilledQuery(a.plan.route, query)
        /\ \A n \in DOMAIN query : query[n] # NoText
        /\ sent = [n \in {m \in DOMAIN a.plan.query : a.plan.query[m] # NoText} |->
                     a.plan.query[n]]
    BY <1>4, <1>5, <1>6
  <2> HIDE DEF sent, query
  <2>2. (IF name \in DOMAIN sent THEN sent[name] ELSE Defaults[name]) =
          (IF name \in DOMAIN query THEN query[name] ELSE Defaults[name])
    BY <1>4, <2>1, FilledIsMeant
  <2>3. QED
    BY <2>2 DEF sent, query
<1>8. QED
  BY <1>2, <1>3, <1>7, MeantBy, Zenon DEF asked, own

------------------------------------------------------------------------------
(* What is fetched, and what is stored of it. *)

\* A fetch is of a route, and of the resource that the route names.
LEMMA FetchIs ==
  ASSUME NEW w \in DOMAIN Arrivals, NEW f \in Fetches(w)
  PROVE  \E i \in DOMAIN Worlds[w].spec.routes :
           /\ f.plan.route = Worlds[w].spec.routes[i]
           /\ f.plan.res = Worlds[w].spec.resources[f.plan.route.resource]
<1> DEFINE s == Worlds[w].spec
<1>1. CASE \E a \in Readers(w) : f = ByReader(a)
  <2>1. PICK a \in Readers(w) : f = ByReader(a)
    BY <1>1
  <2>2. PICK i \in DOMAIN s.routes : PlannedBy(s, i, a.req, a.plan)
    BY ArrivalIs
  <2>3. QED
    BY <2>1, <2>2 DEF PlannedBy, ByReader
<1>2. CASE \E k \in Due(w) : f = BySweep(w, k)
  <2>1. PICK k \in Due(w) : f = BySweep(w, k)
    BY <1>2
  <2> DEFINE kind == RoutesOfKind(s, k[1])
  <2>2. kind # {}
    BY <2>1 DEF Due, CanPlan
  <2>3. kind \in SUBSET Nat /\ kind \subseteq DOMAIN s.routes
    BY ServingAssumption DEF RoutesOfKind, WellFormed, Arrivals
  <2>4. First(kind) \in DOMAIN s.routes
    BY <2>2, <2>3, FirstIsOne
  <2>5. /\ f.plan.route = s.routes[First(kind)]
        /\ f.plan.res = s.resources[f.plan.route.resource]
    BY <2>1 DEF BySweep, PlanFor, ResourceOf
  <2>6. QED
    BY <2>4, <2>5
<1>3. QED
  BY <1>1, <1>2 DEF Fetches

LEMMA FetchValid ==
  ASSUME NEW w \in DOMAIN Arrivals, NEW f \in Fetches(w)
  PROVE  /\ f.plan.res = Worlds[w].spec.resources[f.plan.res.name]
         /\ f.plan.route.complete => f.plan.route.list
<1> DEFINE s == Worlds[w].spec
<1>1. PICK i \in DOMAIN s.routes :
        f.plan.route = s.routes[i] /\ f.plan.res = s.resources[f.plan.route.resource]
  BY FetchIs
<1>2. Valid(s)
  BY DEF Arrivals
<1>3. ValidRoute(s, s.routes[i])
  BY <1>2 DEF Valid
<1>4. s.routes[i].resource \in DOMAIN s.resources /\ (s.routes[i].complete => s.routes[i].list)
  BY <1>3, Zenon DEF ValidRoute
<1>5. s.resources[s.routes[i].resource].name = s.routes[i].resource
  BY <1>2, <1>4 DEF Valid
<1>6. QED
  BY <1>1, <1>4, <1>5

\* Resources of a name are one.
LEMMA ResourceIs ==
  ASSUME NEW w \in DOMAIN Arrivals, NEW f \in Fetches(w), NEW g \in Fetches(w),
         f.plan.res.name = g.plan.res.name
  PROVE  f.plan.res = g.plan.res
  BY FetchValid

LEMMA ReaderFetches ==
  ASSUME NEW w, NEW a \in Readers(w)
  PROVE  /\ ByReader(a) \in Fetches(w) /\ ByReader(a) \in Refills(w, MarkKey(a.plan))
         /\ ByReader(a).plan = a.plan /\ ByReader(a).auth = a.req.auth
  BY DEF Fetches, Refills, ByReader

LEMMA SweepFetches ==
  ASSUME NEW w, NEW k \in Due(w)
  PROVE  BySweep(w, k) \in Fetches(w) /\ BySweep(w, k) \in Refills(w, k)
  BY DEF Fetches, Refills

LEMMA RefillIs ==
  ASSUME NEW w \in DOMAIN Arrivals, NEW k, NEW f \in Refills(w, k)
  PROVE  f \in Fetches(w) /\ RouteKind(f.plan.route) = k[1]
<1>1. CASE \E a \in Readers(w) : MarkKey(a.plan) = k /\ f = ByReader(a)
  BY <1>1, ReaderFetches DEF MarkKey
<1>2. CASE k \in Due(w) /\ f = BySweep(w, k)
  <2> DEFINE s == Worlds[w].spec
             kind == RoutesOfKind(s, k[1])
  <2>1. kind # {}
    BY <1>2 DEF Due, CanPlan
  <2>2. kind \in SUBSET Nat
    BY ServingAssumption DEF RoutesOfKind, WellFormed, Arrivals
  <2>3. First(kind) \in kind
    BY <2>1, <2>2, FirstIsOne
  <2>4. f.plan.route = s.routes[First(kind)]
    BY <1>2 DEF BySweep, PlanFor
  <2>5. RouteKind(f.plan.route) = k[1]
    BY <2>3, <2>4 DEF RoutesOfKind
  <2>6. QED
    BY <1>2, <2>5, SweepFetches
<1>3. QED
  BY <1>1, <1>2 DEF Refills

\* A plan reads the rows that it finds.
LEMMA FindsIn ==
  ASSUME NEW plan, NEW stored, NEW r
  PROVE  /\ r \in Selected(stored, plan.res, plan.key) <=> r \in stored /\ Finds(plan, r)
         /\ Finds(plan, r) => r.res = plan.res.name
  BY DEF Finds, Selected

LEMMA RowForIs ==
  ASSUME NEW f, NEW i
  PROVE  RowFor(f, i).res = f.plan.res.name
  BY DEF RowFor, RowOf

\* What an answer adds, keeps and drops.
Turns(f, stored, new, after) ==
  /\ new \subseteq after /\ after \subseteq stored \cup new
  /\ \A r \in stored \ after :
       \/ f.plan.route.complete /\ Finds(f.plan, r)
       \/ /\ r.res = f.plan.res.name
          /\ \E n \in new : KeyCells(f.plan.res, r.cells) = KeyCells(f.plan.res, n.cells)
  /\ f.plan.route.complete => \A r \in after : Finds(f.plan, r) => r \in new

LEMMA Absorbed ==
  ASSUME NEW f, NEW stored, NEW answer, answer.status = 200,
         NEW after, after = AbsorbAnswer(stored, f.plan, answer),
         NEW new, new = {RowFor(f, i) : i \in answer.items}
  PROVE  Turns(f, stored, new, after)
<1> DEFINE res  == f.plan.res
           kept == IF f.plan.route.complete THEN Delete(stored, res, f.plan.key) ELSE stored
<1>1. new = {RowOf(res, Filed(f.plan, i.doc)) : i \in answer.items}
  BY DEF RowFor
<1>2. after = PutMany(kept, res, new)
  BY <1>1, Zenon DEF AbsorbAnswer, ReplaceMany
<1>3. \A r : r \in kept <=> r \in stored /\ ~(f.plan.route.complete /\ Finds(f.plan, r))
  BY FindsIn DEF Delete
<1> HIDE DEF kept
<1>4. QED
  BY <1>2, <1>3 DEF PutMany, Turns

------------------------------------------------------------------------------
(* Rows and what they stand for. *)

\* An answer that is stored: of the items that are left, those heard of.
Stores(w, f, left, answer, stored, after) ==
  /\ answer.status = 200
  /\ answer.items = Heard(w, f) \cap left
  /\ \A i \in answer.items : Absorbable(Filed(f.plan, i.doc))
  /\ after = AbsorbAnswer(stored, f.plan, answer)

LEMMA StoredIs ==
  ASSUME NEW w, NEW f, NEW left, NEW answer, NEW stored, NEW after,
         Stores(w, f, left, answer, stored, after),
         NEW new, new = {RowFor(f, i) : i \in answer.items}
  PROVE  Turns(f, stored, new, after)
<1>1. answer.status = 200 /\ after = AbsorbAnswer(stored, f.plan, answer)
  BY DEF Stores
<1>2. QED
  BY <1>1, Absorbed

LEMMA NewRows ==
  ASSUME NEW w, NEW f \in Fetches(w), NEW left, NEW answer, NEW stored, NEW after,
         Stores(w, f, left, answer, stored, after), NEW i \in answer.items
  PROVE  RowFor(f, i) \in after /\ IsRow(w, RowFor(f, i), i)
<1>1. i \in Heard(w, f) /\ Absorbable(Filed(f.plan, i.doc))
  BY DEF Stores
<1>2. IsRow(w, RowFor(f, i), i)
  BY <1>1 DEF IsRow
<1> DEFINE new == {RowFor(f, j) : j \in answer.items}
<1>3. RowFor(f, i) \in new
  OBVIOUS
<1>4. Turns(f, stored, new, after)
  BY StoredIs
<1>5. QED
  BY <1>2, <1>3, <1>4 DEF Turns

LEMMA RowsAreRows ==
  ASSUME NEW w, NEW f \in Fetches(w), NEW left, NEW answer, NEW stored, NEW after,
         Stores(w, f, left, answer, stored, after), left \subseteq Worlds[w].items,
         \A r \in stored : \E i \in Worlds[w].items : IsRow(w, r, i)
  PROVE  \A r \in after : \E i \in Worlds[w].items : IsRow(w, r, i)
<1> DEFINE new == {RowFor(f, j) : j \in answer.items}
<1>0. Turns(f, stored, new, after)
  BY StoredIs
<1>1. after \subseteq stored \cup new
  BY <1>0 DEF Turns
<1>2. answer.items \subseteq Worlds[w].items
  BY DEF Stores
<1>3. \A j \in answer.items : IsRow(w, RowFor(f, j), j)
  BY NewRows
<1>4. QED
  BY <1>1, <1>2, <1>3

\* What a reader finds an item by it finds it by after another fetch, too.
LEMMA StaysCovered ==
  ASSUME NEW w \in DOMAIN Arrivals, RowsAreMeant(w), RowsGiveWay(w),
         NEW f \in Fetches(w), NEW left, NEW answer, NEW stored, NEW after,
         Stores(w, f, left, answer, stored, after),
         NEW a \in Readers(w), NEW i \in left, Covers(w, stored, a, i)
  PROVE  Covers(w, after, a, i)
<1>1. PICK r \in stored : IsRow(w, r, i) /\ Finds(a.plan, r)
  BY DEF Covers
<1>2. CASE r \in after
  BY <1>1, <1>2 DEF Covers
<1>3. CASE r \notin after
  <2>1. PICK g \in Fetches(w) : i \in Heard(w, g) /\ r = RowFor(g, i)
    BY <1>1 DEF IsRow
  <2> DEFINE new == {RowFor(f, j) : j \in answer.items}
  <2>2. \/ f.plan.route.complete /\ Finds(f.plan, r)
        \/ /\ r.res = f.plan.res.name
           /\ \E n \in new : KeyCells(f.plan.res, r.cells) = KeyCells(f.plan.res, n.cells)
    <3>1. Turns(f, stored, new, after)
      BY StoredIs
    <3>2. QED
      BY <1>3, <3>1 DEF Turns
  <2>3. \A j \in answer.items : j \in Heard(w, f) /\ j \in left
    BY DEF Stores
  <2>4. ASSUME NEW j \in answer.items,
               \/ /\ g.plan.res = f.plan.res
                  /\ KeyCells(f.plan.res, r.cells) = KeyCells(f.plan.res, RowFor(f, j).cells)
               \/ f.plan.route.complete /\ i = j /\ Finds(f.plan, r)
        PROVE  Covers(w, after, a, i)
    <3>1. i = j /\ \A b \in Readers(w) : Finds(b.plan, r) => Finds(b.plan, RowFor(f, j))
      BY <2>1, <2>3, <2>4 DEF RowsGiveWay
    <3>2. RowFor(f, j) \in after /\ IsRow(w, RowFor(f, j), j)
      BY NewRows
    <3>3. QED
      BY <1>1, <3>1, <3>2 DEF Covers
  <2>5. CASE f.plan.route.complete /\ Finds(f.plan, r)
    <3>1. i \in Heard(w, f)
      BY <2>1, <2>5 DEF RowsAreMeant
    <3>2. i \in answer.items
      BY <3>1 DEF Stores
    <3>3. QED
      BY <2>4, <2>5, <3>2
  <2>6. CASE /\ r.res = f.plan.res.name
             /\ \E n \in new : KeyCells(f.plan.res, r.cells) = KeyCells(f.plan.res, n.cells)
    <3>1. g.plan.res = f.plan.res
      BY <2>1, <2>6, RowForIs, ResourceIs
    <3>2. PICK j \in answer.items :
            KeyCells(f.plan.res, r.cells) = KeyCells(f.plan.res, RowFor(f, j).cells)
      BY <2>6
    <3>3. QED
      BY <2>4, <3>1, <3>2
  <2>7. QED
    BY <2>2, <2>5, <2>6
<1>4. QED
  BY <1>2, <1>3

\* The upstream answers of the items that are left.
Answers(w, left, f, answer) ==
  /\ answer.items = Heard(w, f) \cap left
  /\ answer.list = Listed(w, f.plan.path)
  /\ answer.status \in {200, 404}
  /\ answer.status = 404 => ~Listed(w, f.plan.path) /\ answer.items = {}

LEMMA AnswerIs ==
  ASSUME truth \subseteq Items, NEW f, NEW answer,
         answer = UpstreamAnswer(truth, UpstreamRequest(f.plan), f.auth)
  PROVE  Answers(world, truth, f, answer)
<1> DEFINE asked == UpstreamRequest(f.plan)
           meant == Meant(truth, asked, f.auth)
           list  == \E i \in Items : Reads(asked.path) = i.in
<1>1. answer = [status |-> IF list \/ meant # {} THEN 200 ELSE 404,
                list |-> list, items |-> meant]
  BY Zenon DEF UpstreamAnswer
<1>2. meant = Meant(Items, asked, f.auth) \cap truth
  BY MeantOf
<1>3. Meant(Items, asked, f.auth) = Heard(world, f)
  BY DEF Heard, Items
<1>4. asked.path = f.plan.path
  BY DEF UpstreamRequest
<1>5. list = Listed(world, f.plan.path)
  BY <1>4 DEF Listed, Items
<1> HIDE DEF list, meant
<1>6. QED
  BY <1>1, <1>2, <1>3, <1>5 DEF Answers

\* The answer to a fetch of a key, as its readers see it.
LEMMA FetchServes ==
  ASSUME world \in DOMAIN Arrivals, KeysTellApart(world), truth \subseteq Items,
         NEW a \in Readers(world), NEW f \in Refills(world, MarkKey(a.plan)),
         NEW answer, answer = UpstreamAnswer(truth, UpstreamRequest(f.plan), f.auth),
         Storable(f.plan, answer),
         NEW dropped,
         NEW after, after = AbsorbAnswer(rows, f.plan, answer)
  PROVE  Current(world, truth, dropped, after, answer.status, a)
<1>1. f \in Fetches(world) /\ RouteKind(f.plan.route) = MarkKey(a.plan)[1]
  BY RefillIs
<1>2. f.plan.route.list = a.plan.route.list
  BY <1>1 DEF MarkKey, RouteKind
<1>3. /\ Heard(world, f) = Heard(world, ByReader(a))
      /\ Reads(f.plan.path) = Reads(a.plan.path)
      /\ \A i \in Heard(world, f) : Finds(a.plan, RowFor(f, i))
  BY DEF KeysTellApart
<1>4. Listed(world, f.plan.path) = Listed(world, a.plan.path)
  BY <1>3 DEF Listed
<1>0. Answers(world, truth, f, answer)
  BY AnswerIs
<1>5. /\ answer.items = Heard(world, f) \cap truth
      /\ answer.list = Listed(world, f.plan.path)
      /\ answer.status \in {200, 404}
      /\ answer.status = 404 => ~Listed(world, f.plan.path) /\ answer.items = {}
  BY <1>0, Zenon DEF Answers
<1>6. answer.status = 200 => Listed(world, a.plan.path) = a.plan.route.list
  BY <1>2, <1>4, <1>5 DEF Storable
<1>7. ASSUME NEW i \in Heard(world, ByReader(a)) \cap truth PROVE Covers(world, after, a, i)
  <2>1. i \in answer.items /\ answer.status = 200
    BY <1>3, <1>5, <1>7
  <2>2. Stores(world, f, truth, answer, rows, after)
    BY <1>5, <2>1 DEF Stores, Storable
  <2>3. RowFor(f, i) \in after /\ IsRow(world, RowFor(f, i), i)
    BY <1>1, <2>1, <2>2, NewRows
  <2>4. QED
    BY <1>3, <1>7, <2>3 DEF Covers
<1>8. QED
  BY <1>3, <1>4, <1>5, <1>6, <1>7 DEF Current

\* A fetch that is stored keeps the promises of every mark.
LEMMA FetchStep ==
  ASSUME world \in DOMAIN Arrivals, StoreInv, Describes(world),
         NEW k, NEW f \in Refills(world, k),
         NEW answer, answer = UpstreamAnswer(truth, UpstreamRequest(f.plan), f.auth),
         Storable(f.plan, answer),
         world' = world, truth' = truth, wiped' = wiped \ answer.items,
         rows' = AbsorbAnswer(rows, f.plan, answer),
         \A j \in DOMAIN marks' :
           IF j = k THEN marks'[j].status = answer.status
           ELSE j \in DOMAIN marks /\ marks'[j] = marks[j]
  PROVE  StoreInv'
<1>0. f \in Fetches(world)
  BY RefillIs
<1>1. truth \subseteq Items /\ truth' \subseteq Items'
  BY DEF StoreInv, Items
<1>2. /\ answer.items = Heard(world, f) \cap truth
      /\ answer.status \in {200, 404}
      /\ answer.status = 404 => answer.items = {}
  <2>1. Answers(world, truth, f, answer)
    BY <1>1, AnswerIs
  <2>2. QED
    BY <2>1 DEF Answers
<1>3. CASE answer.status = 404
  <2>1. rows' = rows
    BY <1>3 DEF AbsorbAnswer
  <2>2. wiped' = wiped
    BY <1>2, <1>3
  <2>3. ASSUME NEW j \in DOMAIN marks', NEW a \in Readers(world),
               marks'[j].fresh, MarkKey(a.plan) = j
        PROVE  Current(world, truth, wiped, rows, marks'[j].status, a)
    <3>1. CASE j = k
      BY <1>1, <2>1, <2>3, <3>1, FetchServes DEF Describes
    <3>2. CASE j # k
      BY <2>3, <3>2 DEF StoreInv
    <3>3. QED
      BY <3>1, <3>2
  <2>4. QED
    BY <1>1, <2>1, <2>2, <2>3 DEF StoreInv, Items
<1>4. CASE answer.status = 200
  <2>1. Stores(world, f, truth, answer, rows, rows')
    BY <1>2, <1>4 DEF Stores, Storable
  <2>2. \A r \in rows' : \E i \in Items : IsRow(world, r, i)
    BY <1>0, <1>1, <2>1, RowsAreRows DEF StoreInv, Items
  <2>3. \A i \in wiped' : Reached(world, i)
    BY DEF StoreInv
  <2>4. ASSUME NEW j \in DOMAIN marks', NEW a \in Readers(world),
               marks'[j].fresh, MarkKey(a.plan) = j
        PROVE  Current(world, truth, wiped', rows', marks'[j].status, a)
    <3>1. CASE j = k
      BY <1>1, <2>4, <3>1, FetchServes DEF Describes
    <3>2. CASE j # k
      <4>1. Current(world, truth, wiped, rows, marks'[j].status, a)
        BY <2>4, <3>2 DEF StoreInv
      <4>2. ASSUME NEW i \in Heard(world, ByReader(a)) \cap (truth \ wiped')
            PROVE  Covers(world, rows', a, i)
        <5>1. CASE i \in wiped
          <6>1. i \in answer.items /\ Reached(world, i)
            BY <4>2, <5>1 DEF StoreInv
          <6>2. RowFor(f, i) \in rows' /\ IsRow(world, RowFor(f, i), i)
            BY <1>0, <2>1, <6>1, NewRows
          <6>3. Finds(a.plan, RowFor(f, i))
            BY <1>0, <1>2, <4>2, <6>1 DEF Reached
          <6>4. QED
            BY <6>2, <6>3 DEF Covers
        <5>2. CASE i \notin wiped
          <6>1. Covers(world, rows, a, i)
            BY <4>1, <4>2, <5>2 DEF Current
          <6>2. QED
            BY <1>0, <2>1, <4>2, <6>1, StaysCovered DEF Describes
        <5>3. QED
          BY <5>1, <5>2
      <4>3. QED
        BY <4>1, <4>2 DEF Current
    <3>3. QED
      BY <3>1, <3>2
  <2>5. QED
    BY <1>1, <2>2, <2>3, <2>4 DEF StoreInv, Items
<1>5. QED
  BY <1>2, <1>3, <1>4

\* A step that fetches nothing keeps them, where it drops rows only of items that
\* are gone or that it wipes.
LEMMA OtherStep ==
  ASSUME StoreInv, world' = world, truth' \subseteq truth, wiped \subseteq wiped',
         rows' \subseteq rows, \A i \in wiped' : Reached(world, i),
         \A r \in rows : \A i \in truth' \ wiped' : IsRow(world, r, i) => r \in rows',
         \A j \in DOMAIN marks' :
           /\ j \in DOMAIN marks /\ marks'[j].status = marks[j].status
           /\ marks'[j].fresh => marks[j].fresh
  PROVE  StoreInv'
<1>1. Items' = Items
  BY DEF Items
<1>2. ASSUME NEW j \in DOMAIN marks', NEW a \in Readers(world),
             marks'[j].fresh, MarkKey(a.plan) = j
      PROVE  Current(world, truth', wiped', rows', marks'[j].status, a)
  <2>1. Current(world, truth, wiped, rows, marks'[j].status, a)
    BY <1>2 DEF StoreInv
  <2>2. ASSUME NEW i \in Heard(world, ByReader(a)) \cap (truth' \ wiped')
        PROVE  Covers(world, rows', a, i)
    <3>1. Covers(world, rows, a, i)
      BY <2>1, <2>2 DEF Current
    <3>2. QED
      BY <2>2, <3>1 DEF Covers
  <2>3. QED
    BY <2>1, <2>2 DEF Current
<1>3. QED
  BY <1>1, <1>2 DEF StoreInv

LEMMA PurgeStep ==
  ASSUME world \in DOMAIN Arrivals, StoreInv, PurgesReach(world),
         NEW b \in Writers(world), Purge(b.req, b.purged)
  PROVE  StoreInv'
<1> DEFINE at == Reads(b.req.path)
           Under(i) == \E n \in 1 .. Len(i.at) : SubSeq(i.at, 1, n) = at
           Gone(i) == b.req.method = "DELETE" /\ i.at = at /\ i.viewer \in {NoText, b.req.auth}
           dropped == UNION {Selected(rows, p.res, p.key) : p \in b.purged}
<1>1. /\ world' = world /\ marks' = marks /\ truth' = {i \in truth : ~Gone(i)}
      /\ rows' = rows \ dropped /\ wiped' = wiped \cup {i \in truth' : Under(i)}
  BY Zenon DEF Purge, Applied
<1>2. ASSUME NEW f \in Fetches(world), NEW i \in Heard(world, f)
      PROVE  /\ \A p \in b.purged :
                  RowFor(f, i) \in Selected({RowFor(f, i)}, p.res, p.key) => Under(i)
             /\ Under(i) /\ ~Gone(i) =>
                  \A a \in Readers(world) :
                    i \in Heard(world, ByReader(a)) => Finds(a.plan, RowFor(f, i))
  BY Zenon DEF PurgesReach
<1> HIDE DEF Under, Gone, at
<1>3. ASSUME NEW r \in rows, NEW i \in truth' \ wiped', IsRow(world, r, i) PROVE r \in rows'
  <2>1. PICK f \in Fetches(world) : i \in Heard(world, f) /\ r = RowFor(f, i)
    BY <1>3 DEF IsRow
  <2>2. ASSUME NEW p \in b.purged, r \in Selected(rows, p.res, p.key) PROVE FALSE
    <3>1. r \in Selected({r}, p.res, p.key)
      BY <2>2 DEF Selected
    <3>2. Under(i)
      BY <1>2, <2>1, <3>1
    <3>3. QED
      BY <1>1, <1>3, <3>2
  <2>3. QED
    BY <1>1, <1>3, <2>2
<1>4. ASSUME NEW i \in wiped' PROVE Reached(world, i)
  <2>1. CASE i \in wiped
    BY <2>1 DEF StoreInv
  <2>2. CASE i \in truth' /\ Under(i)
    BY <1>1, <1>2, <2>2 DEF Reached
  <2>3. QED
    BY <1>1, <1>4, <2>1, <2>2
<1>5. /\ truth' \subseteq truth /\ wiped \subseteq wiped' /\ rows' \subseteq rows
  BY <1>1
<1>6. QED
  BY <1>1, <1>3, <1>4, <1>5, OtherStep

LEMMA SweepStep ==
  ASSUME MarksInv, StoreInv, Describes(world), NEW k \in DOMAIN marks, Sweep(k)
  PROVE  StoreInv'
<1> DEFINE f      == BySweep(world, k)
           answer == UpstreamAnswer(truth, UpstreamRequest(f.plan), f.auth)
<1>1. f.plan = PlanFor(spec, k[1], k[2]) /\ f.auth = NoText
  BY DEF BySweep, spec
<1>2. PICK a \in Readers(world) : k = MarkKey(a.plan)
  BY DEF MarksInv, MarkOf, MarkKey
<1>3. k \in Due(world)
  BY <1>2 DEF Sweep, Due, spec
<1>4. f \in Refills(world, k)
  BY <1>3, SweepFetches
<1> HIDE DEF f
<1>5. /\ world' = world /\ truth' = truth /\ Storable(f.plan, answer)
      /\ rows' = AbsorbAnswer(rows, f.plan, answer) /\ wiped' = wiped \ answer.items
      /\ marks' = [marks EXCEPT ![k].fresh = TRUE, ![k].status = answer.status]
  BY <1>1, Zenon DEF Sweep
<1> HIDE DEF answer
<1>6. /\ DOMAIN marks' = DOMAIN marks
      /\ \A j \in DOMAIN marks :
           marks'[j] = IF j = k THEN [[marks[k] EXCEPT !.fresh = TRUE] EXCEPT !.status = answer.status]
                       ELSE marks[j]
  BY <1>5
<1>7. "status" \in DOMAIN [marks[k] EXCEPT !.fresh = TRUE]
  BY DEF MarksInv, MarkOf, IsMark
<1>8. \A j \in DOMAIN marks' :
        IF j = k THEN marks'[j].status = answer.status
        ELSE j \in DOMAIN marks /\ marks'[j] = marks[j]
  BY <1>6, <1>7
<1>9. world \in DOMAIN Arrivals /\ answer = UpstreamAnswer(truth, UpstreamRequest(f.plan), f.auth)
  BY DEF MarksInv, answer
<1>10. QED
  BY <1>4, <1>5, <1>8, <1>9, FetchStep

LEMMA ServeStep ==
  ASSUME world \in DOMAIN Arrivals, StoreInv, Describes(world),
         NEW a \in Readers(world), Serve(a.req, a.plan)
  PROVE  StoreInv'
<1> DEFINE f      == ByReader(a)
           k      == MarkKey(a.plan)
           hit    == k \in DOMAIN marks /\ marks[k].fresh
           answer == UpstreamAnswer(truth, UpstreamRequest(f.plan), f.auth)
           mark   == [fresh |-> TRUE, status |-> answer.status, plan |-> a.plan]
<1>1. f \in Refills(world, k) /\ f.plan = a.plan /\ f.auth = a.req.auth
  BY ReaderFetches
<1> HIDE DEF f
<1>2. /\ world' = world /\ truth' = truth
      /\ \/ rows' = rows /\ marks' = marks /\ wiped' = wiped
         \/ /\ Storable(f.plan, answer)
            /\ rows' = AbsorbAnswer(rows, f.plan, answer)
            /\ marks' = [j \in DOMAIN marks \cup {k} |-> IF j = k THEN mark ELSE marks[j]]
            /\ wiped' = wiped \ answer.items
  BY <1>1, Zenon DEF Serve, FreshKey, MarkKey
<1> HIDE DEF answer, k
<1>3. CASE rows' = rows /\ marks' = marks /\ wiped' = wiped
  BY <1>2, <1>3, OtherStep DEF StoreInv
<1>4. CASE /\ Storable(f.plan, answer)
           /\ rows' = AbsorbAnswer(rows, f.plan, answer)
           /\ marks' = [j \in DOMAIN marks \cup {k} |-> IF j = k THEN mark ELSE marks[j]]
           /\ wiped' = wiped \ answer.items
  <2>1. \A j \in DOMAIN marks' :
          IF j = k THEN marks'[j].status = answer.status
          ELSE j \in DOMAIN marks /\ marks'[j] = marks[j]
    BY <1>4
  <2>2. answer = UpstreamAnswer(truth, UpstreamRequest(f.plan), f.auth)
    BY DEF answer
  <2>3. QED
    BY <1>1, <1>2, <1>4, <2>1, <2>2, FetchStep
<1>5. QED
  BY <1>2, <1>3, <1>4

LEMMA StoreStep ==
  ASSUME MarksInv, StoreInv, Describes(world), [Next]_vars PROVE StoreInv'
<1>0. world \in DOMAIN Arrivals
  BY DEF MarksInv
<1>1. ASSUME NEW a \in Arrivals[world], Ask(a) PROVE StoreInv'
  <2>1. CASE a.by = "route" /\ Serve(a.req, a.plan)
    BY <1>0, <2>1, ServeStep DEF Readers
  <2>2. CASE a.by = "purge" /\ Purge(a.req, a.purged)
    BY <1>0, <2>2, PurgeStep DEF Writers, Describes
  <2>3. CASE a.by = "purge" /\ Refused(a.req)
    BY <2>3, OtherStep DEF Refused, StoreInv
  <2>4. CASE PassOn(a.req, a.by)
    <3>1. truth' \subseteq truth
      BY <2>4 DEF PassOn, Applied
    <3>2. QED
      BY <2>4, <3>1, OtherStep DEF PassOn, StoreInv
  <2>5. QED
    BY <1>1, <2>1, <2>2, <2>3, <2>4 DEF Ask
<1>2. ASSUME NEW k \in DOMAIN marks, Expire(k) PROVE StoreInv'
  <2>1. marks' = [marks EXCEPT ![k].fresh = FALSE]
    BY <1>2 DEF Expire
  <2>2. \A j \in DOMAIN marks' :
          j \in DOMAIN marks /\ marks'[j] = IF j = k THEN [marks[k] EXCEPT !.fresh = FALSE] ELSE marks[j]
    BY <2>1
  <2>3. /\ [marks[k] EXCEPT !.fresh = FALSE].fresh = FALSE
        /\ [marks[k] EXCEPT !.fresh = FALSE].status = marks[k].status
    BY MarkReads DEF MarksInv, MarkOf
  <2>4. \A j \in DOMAIN marks' :
          /\ j \in DOMAIN marks /\ marks'[j].status = marks[j].status
          /\ marks'[j].fresh => marks[j].fresh
    BY <2>2, <2>3
  <2>5. QED
    BY <1>2, <2>4, OtherStep DEF Expire, StoreInv
<1>3. ASSUME NEW k \in DOMAIN marks, Sweep(k) PROVE StoreInv'
  BY <1>3, SweepStep
<1>4. ASSUME NEW i \in truth, Vanish(i) PROVE StoreInv'
  BY <1>4, OtherStep DEF Vanish, StoreInv
<1>5. CASE UNCHANGED vars
  BY <1>5, OtherStep DEF vars, StoreInv
<1>6. QED
  BY <1>1, <1>2, <1>3, <1>4, <1>5 DEF Next

------------------------------------------------------------------------------
(* What a reader is told. *)

\* A row that a reader finds is of what the reader asks for, and reads as it.
LEMMA RowReads ==
  ASSUME NEW w \in DOMAIN Arrivals, RowsReadBack(w), RowsAreMeant(w),
         NEW a \in Readers(w), NEW r, NEW i, IsRow(w, r, i), Finds(a.plan, r)
  PROVE  /\ i \in Heard(w, ByReader(a))
         /\ MeaningOf(Rebuild(a.plan.res, r.cells)) = Shown(a.plan.res, i.doc)
<1>1. PICK f \in Fetches(w) : /\ i \in Heard(w, f) /\ r = RowFor(f, i)
                              /\ Absorbable(Filed(f.plan, i.doc))
  BY DEF IsRow
<1>2. ByReader(a) \in Fetches(w) /\ ByReader(a).plan = a.plan
  BY ReaderFetches
<1>3. i \in Heard(w, ByReader(a))
  BY <1>1, <1>2 DEF RowsAreMeant
<1>4. f.plan.res = a.plan.res
  BY <1>1, <1>2, FindsIn, RowForIs, ResourceIs
<1>5. MeaningOf(Rebuild(f.plan.res, r.cells)) = Shown(f.plan.res, i.doc)
  BY <1>1 DEF RowsReadBack
<1>6. QED
  BY <1>3, <1>4, <1>5

Read(stored, plan) == {MeaningOf(d) : d \in ReadRows(stored, plan)}
Seen(plan, items)  == {Shown(plan.res, i.doc) : i \in items}

LEMMA ReadIs ==
  ASSUME NEW w \in DOMAIN Arrivals, RowsReadBack(w), RowsAreMeant(w),
         NEW a \in Readers(w), NEW stored
  PROVE  /\ (\A r \in stored : \E i \in Worlds[w].items : IsRow(w, r, i)) =>
              Read(stored, a.plan) \subseteq Seen(a.plan, Heard(w, ByReader(a)))
         /\ \A items : (\A i \in items : Covers(w, stored, a, i)) =>
              Seen(a.plan, items) \subseteq Read(stored, a.plan)
<1> DEFINE Doc(r) == MeaningOf(Rebuild(a.plan.res, r.cells))
<1>1. Read(stored, a.plan) = {Doc(r) : r \in Selected(stored, a.plan.res, a.plan.key)}
  BY DEF Read, ReadRows
<1>2. \A r : r \in Selected(stored, a.plan.res, a.plan.key) <=> r \in stored /\ Finds(a.plan, r)
  BY FindsIn
<1>3. \A r, i : IsRow(w, r, i) /\ Finds(a.plan, r) =>
        i \in Heard(w, ByReader(a)) /\ Doc(r) = Shown(a.plan.res, i.doc)
  BY RowReads
<1> HIDE DEF Doc
<1>4. ASSUME \A r \in stored : \E i \in Worlds[w].items : IsRow(w, r, i)
      PROVE  Read(stored, a.plan) \subseteq Seen(a.plan, Heard(w, ByReader(a)))
  BY <1>1, <1>2, <1>3, <1>4 DEF Seen
<1>5. ASSUME NEW items, \A i \in items : Covers(w, stored, a, i)
      PROVE  Seen(a.plan, items) \subseteq Read(stored, a.plan)
  BY <1>1, <1>2, <1>3, <1>5 DEF Seen, Covers
<1>6. QED
  BY <1>4, <1>5

\* After its own fetch of a complete list a reader sees what the fetch heard of.
LEMMA CompleteIs ==
  ASSUME NEW w \in DOMAIN Arrivals, RowsReadBack(w), RowsAreMeant(w),
         NEW a \in Readers(w), NEW left, NEW answer, NEW stored, NEW after,
         Stores(w, ByReader(a), left, answer, stored, after), a.plan.route.complete
  PROVE  Read(after, a.plan) \subseteq Seen(a.plan, answer.items)
<1> DEFINE f == ByReader(a)
           new == {RowFor(f, j) : j \in answer.items}
           Doc(r) == MeaningOf(Rebuild(a.plan.res, r.cells))
<1>1. Read(after, a.plan) = {Doc(r) : r \in Selected(after, a.plan.res, a.plan.key)}
  BY DEF Read, ReadRows
<1>2. \A r : r \in Selected(after, a.plan.res, a.plan.key) <=> r \in after /\ Finds(a.plan, r)
  BY FindsIn
<1>3. f \in Fetches(w) /\ f.plan = a.plan
  BY ReaderFetches
<1>4. Turns(f, stored, new, after)
  BY StoredIs
<1> HIDE DEF f
<1>5. \A r \in after : Finds(a.plan, r) => r \in new
  BY <1>3, <1>4 DEF Turns
<1>6. ASSUME NEW j \in answer.items, Finds(a.plan, RowFor(f, j))
      PROVE  Doc(RowFor(f, j)) = Shown(a.plan.res, j.doc)
  <2>1. IsRow(w, RowFor(f, j), j)
    BY <1>3, NewRows DEF f
  <2>2. QED
    BY <1>6, <2>1, RowReads
<1> HIDE DEF Doc
<1>7. QED
  BY <1>1, <1>2, <1>5, <1>6 DEF Seen

\* What a reader is told of the items that are left, but for those dropped.
Right(w, a, left, dropped, answer) ==
  LET shown == {MeaningOf(d) : d \in answer.docs}
      heard == Heard(w, ByReader(a))
  IN  /\ answer.req = a.req /\ answer.plan = a.plan
      /\ shown \subseteq Seen(a.plan, heard)
      /\ answer.status # 502 => Seen(a.plan, heard \cap (left \ dropped)) \subseteq shown
      /\ answer.status = 404 => ~Listed(w, a.plan.path)
      /\ answer.fetched /\ a.plan.route.complete /\ answer.status = 200 =>
           shown = Seen(a.plan, heard \cap left)

LEMMA RightAnswers ==
  ASSUME world \in DOMAIN Arrivals, DefaultsAgree(world), truth' \subseteq Items,
         world' = world, NEW a \in Readers(world), Right(world, a, truth', wiped', told')
  PROVE  AnswersTheQuestion'
<1> DEFINE shown == {MeaningOf(d) : d \in told'.docs}
           heard == Heard(world, ByReader(a))
<1>0. /\ told'.req = a.req /\ told'.plan = a.plan
      /\ shown \subseteq Seen(a.plan, heard)
      /\ told'.status # 502 => Seen(a.plan, heard \cap (truth' \ wiped')) \subseteq shown
      /\ told'.status = 404 => ~Listed(world, a.plan.path)
      /\ told'.fetched /\ a.plan.route.complete /\ told'.status = 200 =>
           shown = Seen(a.plan, heard \cap truth')
  BY Zenon DEF Right
<1> DEFINE Asked(items) == Meant(items, Direct(a.req), a.req.auth)
<1>1. Items' = Items /\ Items = Worlds[world].items
  BY DEF Items
<1>2. Asked(Items) = heard
  BY <1>1, AsksTheSame DEF Heard, ByReader
<1>3. \A items \in SUBSET Items : Asked(items) = heard \cap items
  BY <1>2, MeantOf
<1>4. a.plan.path = a.req.path
  BY ReaderAsks DEF AskedBy
<1>5. UpstreamAnswer(Items, Direct(told.req), told.req.auth)'.list = Listed(world, a.plan.path)
  BY <1>0, <1>1, <1>4 DEF UpstreamAnswer, Direct, Listed
<1>6. ShownOf(Items, told.req)' = Seen(a.plan, heard)
  BY <1>0, <1>1, <1>2 DEF ShownOf, Seen
<1>7. ShownOf(truth \ wiped, told.req)' = Seen(a.plan, heard \cap (truth' \ wiped'))
  <2>1. Asked(truth' \ wiped') = heard \cap (truth' \ wiped')
    BY <1>3
  <2>2. QED
    BY <1>0, <2>1 DEF ShownOf, Seen
<1>8. ShownOf(truth, told.req)' = Seen(a.plan, heard \cap truth')
  <2>1. Asked(truth') = heard \cap truth'
    BY <1>3
  <2>2. QED
    BY <1>0, <2>1 DEF ShownOf, Seen
<1> HIDE DEF Asked
<1>9. QED
  BY <1>0, <1>5, <1>6, <1>7, <1>8 DEF AnswersTheQuestion

LEMMA ServeAnswers ==
  ASSUME world \in DOMAIN Arrivals, StoreInv, Describes(world),
         NEW a \in Readers(world), Serve(a.req, a.plan)
  PROVE  AnswersTheQuestion'
<1> DEFINE f      == ByReader(a)
           k      == MarkKey(a.plan)
           hit    == k \in DOMAIN marks /\ marks[k].fresh
           answer == UpstreamAnswer(truth, UpstreamRequest(a.plan), a.req.auth)
           status == IF hit THEN marks[k].status ELSE answer.status
           heard  == Heard(world, ByReader(a))
           docs   == ReadRows(rows', a.plan)
           shown  == {MeaningOf(d) : d \in told'.docs}
           Tells(code, found) ==
             /\ told'.req = a.req /\ told'.plan = a.plan /\ told'.status = code
             /\ told'.docs = found /\ told'.fetched = ~hit
<1>1. /\ f \in Fetches(world) /\ f \in Refills(world, k) /\ f.plan = a.plan
      /\ answer = UpstreamAnswer(truth, UpstreamRequest(f.plan), f.auth)
  BY ReaderFetches
<1>2. world' = world /\ truth' = truth /\ truth' \subseteq Items
  BY DEF Serve, StoreInv
<1>3. StoreInv'
  BY ServeStep
<1>4. /\ shown = {MeaningOf(d) : d \in told'.docs} /\ heard = Heard(world, ByReader(a))
      /\ DefaultsAgree(world)
  BY DEF Describes
<1>5. /\ \/ /\ ~hit /\ ~Storable(a.plan, answer) /\ Tells(502, {})
         \/ /\ hit \/ Storable(a.plan, answer)
            /\ rows' = IF hit THEN rows ELSE AbsorbAnswer(rows, a.plan, answer)
            /\ wiped' = IF hit THEN wiped ELSE wiped \ answer.items
            /\ IF status = 404 \/ (~a.plan.route.list /\ docs = {}) THEN Tells(404, {})
               ELSE Tells(200, docs)
  <2> DEFINE stored == IF hit THEN rows ELSE AbsorbAnswer(rows, a.plan, answer)
             Answer(code, found) ==
               [by |-> "route", req |-> a.req, plan |-> a.plan, status |-> code, docs |-> found,
                fetched |-> ~hit]
             Nothing(d) == status = 404 \/ (~a.plan.route.list /\ d = {})
  <2>1. \/ ~(hit \/ Storable(a.plan, answer)) /\ told' = Answer(502, {})
        \/ /\ hit \/ Storable(a.plan, answer)
           /\ rows' = stored
           /\ wiped' = IF hit THEN wiped ELSE wiped \ answer.items
           /\ told' = IF Nothing(ReadRows(stored, a.plan)) THEN Answer(404, {})
                      ELSE Answer(200, ReadRows(stored, a.plan))
    BY Zenon DEF Serve, FreshKey, MarkKey
  <2>2. \A code, found : told' = Answer(code, found) => Tells(code, found)
    OBVIOUS
  <2> HIDE DEF Answer, Tells, hit, answer, status
  <2>3. QED
    BY <2>1, <2>2
<1> HIDE DEF f, shown, hit, answer, heard, status, k
<1>6. CASE ~hit /\ ~Storable(a.plan, answer) /\ Tells(502, {})
  <2>1. shown = {}
    BY <1>4, <1>6
  <2>2. Right(world, a, truth', wiped', told')
    BY <1>4, <1>6, <2>1 DEF Right
  <2>3. QED
    BY <1>2, <1>4, <2>2, RightAnswers
<1>7. CASE /\ hit \/ Storable(a.plan, answer)
           /\ rows' = IF hit THEN rows ELSE AbsorbAnswer(rows, a.plan, answer)
           /\ wiped' = IF hit THEN wiped ELSE wiped \ answer.items
           /\ IF status = 404 \/ (~a.plan.route.list /\ docs = {}) THEN Tells(404, {})
              ELSE Tells(200, docs)
  <2> DEFINE read == Read(rows', a.plan)
  <2>0. /\ KeysTellApart(world) /\ RowsReadBack(world) /\ RowsAreMeant(world)
        /\ truth \subseteq Items
    BY DEF Describes, StoreInv
  <2>1. ASSUME ~hit, NEW dropped PROVE Current(world, truth, dropped, rows', status, a)
    <3>1. Current(world, truth, dropped, rows', answer.status, a)
      BY <1>1, <1>7, <2>0, <2>1, FetchServes DEF k
    <3>2. QED
      BY <2>1, <3>1 DEF status
  <2>2. Current(world, truth, wiped', rows', status, a)
    <3>1. CASE hit
      BY <1>7, <3>1 DEF StoreInv, hit, k, status
    <3>2. QED
      BY <2>1, <3>1
  <2>3. read \subseteq Seen(a.plan, heard)
    <3>1. \A r \in rows' : \E i \in Worlds[world].items : IsRow(world, r, i)
      BY <1>2, <1>3 DEF StoreInv, Items
    <3>2. QED
      BY <2>0, <3>1, ReadIs DEF heard
  <2>4. ASSUME NEW dropped, Current(world, truth, dropped, rows', status, a)
        PROVE  Seen(a.plan, heard \cap (truth \ dropped)) \subseteq read
    <3>1. \A i \in heard \cap (truth \ dropped) : Covers(world, rows', a, i)
      BY <2>4 DEF Current, heard
    <3>2. QED
      BY <2>0, <3>1, ReadIs
  <2>5. Seen(a.plan, heard \cap (truth \ wiped')) \subseteq read
    BY <2>2, <2>4
  <2>6. read = {MeaningOf(d) : d \in docs}
    BY DEF Read
  <2>7. /\ status \in {200, 404}
        /\ status = 200 => Listed(world, a.plan.path) = a.plan.route.list
        /\ status = 404 => ~Listed(world, a.plan.path) /\ heard \cap truth = {}
    BY <2>2 DEF Current, heard
  <2>8. CASE (status = 404 \/ (~a.plan.route.list /\ docs = {})) /\ Tells(404, {})
    <3>1. shown = {}
      BY <1>4, <2>8
    <3>2. Seen(a.plan, heard \cap (truth \ wiped')) = {}
      <4>1. CASE status = 404
        BY <2>7, <4>1 DEF Seen
      <4>2. CASE docs = {}
        BY <2>5, <2>6, <4>2
      <4>3. QED
        BY <2>8, <4>1, <4>2
    <3>3. ~Listed(world, a.plan.path)
      BY <2>7, <2>8
    <3>4. Seen(a.plan, heard \cap (truth' \ wiped')) \subseteq shown
      BY <1>2, <3>2
    <3>5. told'.req = a.req /\ told'.plan = a.plan /\ told'.status = 404
      BY <2>8
    <3>6. Right(world, a, truth', wiped', told')
      BY <1>4, <3>1, <3>3, <3>4, <3>5 DEF Right
    <3>7. QED
      BY <1>2, <1>4, <3>6, RightAnswers
  <2>9. CASE status # 404 /\ Tells(200, docs)
    <3>1. shown = read
      BY <1>4, <2>6, <2>9
    <3>2. ASSUME told'.fetched, a.plan.route.complete
          PROVE  shown = Seen(a.plan, heard \cap truth)
      <4>1. ~hit
        BY <2>9, <3>2
      <4>2. Answers(world, truth, f, answer)
        BY <1>1, <2>0, AnswerIs
      <4>3. answer.items = heard \cap truth /\ answer.status = 200
        BY <2>7, <2>9, <4>1, <4>2 DEF Answers, heard, f, status
      <4>4. Stores(world, f, truth, answer, rows, rows')
        BY <1>1, <1>7, <4>1, <4>3 DEF Stores, Storable, heard, f
      <4>5. read \subseteq Seen(a.plan, heard \cap truth)
        BY <2>0, <3>2, <4>3, <4>4, CompleteIs DEF f
      <4>6. Seen(a.plan, heard \cap (truth \ {})) \subseteq read
        BY <2>1, <2>4, <4>1
      <4>7. truth \ {} = truth
        OBVIOUS
      <4>8. QED
        BY <3>1, <4>5, <4>6, <4>7
    <3>3. /\ shown \subseteq Seen(a.plan, heard)
          /\ Seen(a.plan, heard \cap (truth' \ wiped')) \subseteq shown
      BY <1>2, <2>3, <2>5, <3>1
    <3>4. told'.req = a.req /\ told'.plan = a.plan /\ told'.status = 200
      BY <2>9
    <3>5. told'.fetched /\ a.plan.route.complete /\ told'.status = 200 =>
            shown = Seen(a.plan, heard \cap truth')
      BY <1>2, <3>2
    <3>6. Right(world, a, truth', wiped', told')
      BY <1>4, <2>9, <3>3, <3>4, <3>5 DEF Right
    <3>7. QED
      BY <1>2, <1>4, <3>6, RightAnswers
  <2>10. QED
    BY <1>7, <2>8, <2>9
<1>8. QED
  BY <1>5, <1>6, <1>7

\* The promises of the store are kept under any specification that is served and
\* describes its upstream (fetch, absorbAnswer, forwardAndPurge).
THEOREM StoreKeepsItsWord ==
  ASSUME \A w \in DOMAIN Arrivals : Describes(w)
  PROVE  Spec => []StoreInv
<1>1. Init => MarksInv /\ StoreInv
  <2> SUFFICES ASSUME Init PROVE MarksInv /\ StoreInv
    OBVIOUS
  <2>1. rows = {} /\ wiped = {} /\ DOMAIN marks = {} /\ truth = Items
    BY DEF Init
  <2>2. QED
    BY <2>1 DEF Init, MarksInv, StoreInv
<1>2. (MarksInv /\ StoreInv) /\ [Next]_vars => (MarksInv /\ StoreInv)'
  <2> SUFFICES ASSUME MarksInv, StoreInv, [Next]_vars PROVE (MarksInv /\ StoreInv)'
    OBVIOUS
  <2>1. Describes(world)
    BY DEF MarksInv
  <2>2. QED
    BY <2>1, MarksStep, StoreStep
<1>3. QED
  BY <1>1, <1>2, PTL DEF Spec

AnswerInv == MarksInv /\ StoreInv /\ AnswersTheQuestion

\* Whatever readers, writes, expiries, sweeps and the upstream do in between, a
\* reader is told what the upstream would say of the reader's own request, under
\* any specification that is served and describes its upstream: one whose keys
\* tell its requests apart and whose rows read back (keyString, resolve, fetch,
\* absorbAnswer, read).
THEOREM AnswersAlways ==
  ASSUME \A w \in DOMAIN Arrivals : Describes(w)
  PROVE  Spec => []AnswersTheQuestion
<1>1. Init => AnswerInv
  <2> SUFFICES ASSUME Init PROVE AnswerInv
    OBVIOUS
  <2>1. told.by # "route" /\ rows = {} /\ wiped = {} /\ DOMAIN marks = {} /\ truth = Items
    BY DEF Init, Silent
  <2>2. QED
    BY <2>1 DEF Init, AnswerInv, MarksInv, StoreInv, AnswersTheQuestion
<1>2. AnswerInv /\ [Next]_vars => AnswerInv'
  <2> SUFFICES ASSUME AnswerInv, [Next]_vars PROVE AnswerInv'
    OBVIOUS
  <2>1. MarksInv /\ StoreInv /\ world \in DOMAIN Arrivals /\ Describes(world)
    BY DEF AnswerInv, MarksInv
  <2>2. MarksInv'
    BY <2>1, MarksStep
  <2>3. StoreInv'
    BY <2>1, StoreStep
  <2>4. ASSUME told'.by # "route" PROVE AnswersTheQuestion'
    BY <2>4 DEF AnswersTheQuestion
  <2>5. ASSUME NEW a \in Arrivals[world], Ask(a) PROVE AnswersTheQuestion'
    <3>1. CASE a.by = "route" /\ Serve(a.req, a.plan)
      BY <2>1, <3>1, ServeAnswers DEF Readers
    <3>2. CASE Purge(a.req, a.purged)
      BY <2>4, <3>2 DEF Purge
    <3>3. CASE Refused(a.req) \/ PassOn(a.req, a.by)
      BY <2>4, <3>3 DEF Refused, PassOn, Silent
    <3>4. QED
      BY <2>5, <3>1, <3>2, <3>3 DEF Ask
  <2>6. ASSUME NEW k \in DOMAIN marks, Expire(k) \/ Sweep(k) PROVE AnswersTheQuestion'
    BY <2>4, <2>6 DEF Expire, Sweep, Silent
  <2>7. ASSUME NEW i \in truth, Vanish(i) PROVE AnswersTheQuestion'
    BY <2>4, <2>7 DEF Vanish, Silent
  <2>8. ASSUME UNCHANGED vars PROVE AnswersTheQuestion'
    <3>1. AnswersTheQuestion
      BY DEF AnswerInv
    <3>2. /\ told' = told /\ world' = world /\ truth' = truth /\ wiped' = wiped
          /\ Items' = Items
      BY <2>8 DEF vars, Items
    <3>3. /\ ShownOf(Items, told.req)' = ShownOf(Items, told.req)
          /\ ShownOf(truth \ wiped, told.req)' = ShownOf(truth \ wiped, told.req)
          /\ ShownOf(truth, told.req)' = ShownOf(truth, told.req)
      BY <3>2 DEF ShownOf
    <3>4. UpstreamAnswer(Items, Direct(told.req), told.req.auth)' =
            UpstreamAnswer(Items, Direct(told.req), told.req.auth)
      BY <3>2 DEF UpstreamAnswer
    <3>5. QED
      BY <3>1, <3>2, <3>3, <3>4 DEF AnswersTheQuestion
  <2>9. AnswersTheQuestion'
    BY <2>5, <2>6, <2>7, <2>8 DEF Next
  <2>10. QED
    BY <2>2, <2>3, <2>9 DEF AnswerInv
<1>3. AnswerInv => AnswersTheQuestion
  BY DEF AnswerInv
<1>4. QED
  BY <1>1, <1>2, <1>3, PTL DEF Spec
=============================================================================
