------------------------------ MODULE Documents ------------------------------
(***************************************************************************)
(* From a document to a row and back (internal/mirror/absorb.go,           *)
(* paths.go).                                                              *)
(*                                                                         *)
(* A value of a document is its JSON type, what it reads as ("word",       *)
(* "integer", "decimal", "date" or "truth") and its content, a text; a     *)
(* date and the number of its seconds have the same content.  A document   *)
(* is a function from paths to values.                                     *)
(***************************************************************************)
EXTENDS Routes

Null   == [null |-> TRUE]
Failed == [failed |-> TRUE]

String(reads, content) == [json |-> "string", reads |-> reads, content |-> content]
Number(reads, content) == [json |-> "number", reads |-> reads, content |-> content]
Bool(content)          == [json |-> "bool", reads |-> "truth", content |-> content]

\* lookupPath: what is not there is null.
At(doc, path) == IF path \in DOMAIN doc THEN doc[path] ELSE Null

\* What the types can hold: a value outside them is an error, never a zero.
Holds(type, v) ==
  CASE type = "text" -> TRUE
    [] type = "json" -> TRUE
    [] type = "int"  -> v.reads = "integer" \/ v.json = "bool"
    [] type = "bool" -> v.json \in {"bool", "string"}
    [] type = "time" -> v.reads \in {"integer", "date"}

\* isTruthy of api-dsl.
Truthy(content) ==
  IF content \in {NoText, Text("false"), Text("0")} THEN Text("false") ELSE Text("true")

\* coerce: the cell of a value in a column of this type.
Coerce(type, v) ==
  CASE v = Null \/ (type = "time" /\ v.content = NoText) -> Null
    [] ~Holds(type, v)                                   -> Failed
    [] type = "json"                                     -> v
    [] type = "bool"                                     -> Truthy(v.content)
    [] OTHER                                             -> v.content

\* present: the JSON value of a cell.
Present(type, cell) ==
  CASE cell = Null    -> Null
    [] type = "json"  -> cell
    [] type = "bool"  -> Bool(cell)
    [] type = "time"  -> String("date", cell)
    [] type = "int"   -> Number("integer", cell)
    [] type = "text"  -> String("word", cell)

\* trim: declared names are dropped from a document, but for those rescued.
Trim(res, doc) ==
  [path \in DOMAIN doc \ (res.drop \ res.keep) |-> doc[path]]

FieldNames(res) == {res.fields[i].name : i \in DOMAIN res.fields}

Columns(res) ==
  KeyNames(res) \cup IF res.store = "document" THEN {"document"} ELSE FieldNames(res)

\* absorb: the declared columns a document supplies, keys folded.  A key the
\* document does not carry is left to the request.
Absorb(res, doc) ==
  LET Key(name)   == res.keys[CHOOSE i \in DOMAIN res.keys : res.keys[i].name = name]
      Field(name) == res.fields[CHOOSE i \in DOMAIN res.fields : res.fields[i].name = name]
      From(k)     == IF k.from = "" THEN k.name ELSE k.from
      carried     == {n \in KeyNames(res) : At(doc, From(Key(n))) # Null}
  IN  [name \in carried \cup FieldNames(res) |->
         IF name \in KeyNames(res)
         THEN FoldFor(res, name, At(doc, From(Key(name))).content)
         ELSE Coerce(Field(name).type, At(doc, Field(name).from))]

Absorbable(cells) == \A name \in DOMAIN cells : cells[name] # Failed

\* requireKeys: a row whose identity is incomplete is refused.
Identified(res, cells) ==
  \A name \in KeyNames(res) :
    name \in DOMAIN cells /\ cells[name] \notin {Null, NoText}

\* rebuild: the document of a row.
Rebuild(res, cells) ==
  IF res.store = "document" THEN cells["document"]
  ELSE [name \in KeyNames(res) \cup FieldNames(res) |->
          IF name \in KeyNames(res) THEN String("word", cells[name])
          ELSE Present(res.fields[CHOOSE i \in DOMAIN res.fields :
                                    res.fields[i].name = name].type, cells[name])]
=============================================================================
