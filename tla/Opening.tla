------------------------------- MODULE Opening -------------------------------
(***************************************************************************)
(* Opening the cache file at a start (internal/mirror/store.go Open,       *)
(* schema.go, internal/database/fingerprint.go).                           *)
(*                                                                         *)
(* The file holds the tables one specification's DDL built, the            *)
(* fingerprint recorded when all of it had run, and rows.  SQLite commits  *)
(* each CREATE TABLE by itself, so a crash or a failing statement leaves a *)
(* prefix of the schema.  A process runs one specification; which one may  *)
(* change between two processes, never within one.                         *)
(*                                                                         *)
(* Two specifications whose DDL scrubs to the same text are one member of  *)
(* Specs here: Fingerprint is then injective.  Statements are one action   *)
(* each; the sidecars of WAL mode are empty once the database is closed,   *)
(* which it is before the file is removed.                                 *)
(***************************************************************************)
EXTENDS Naturals

CONSTANTS
  Specs,     \* the schemas a deployment may run
  Bad,       \* those validateNames refuses
  Nothing,   \* no schema, no fingerprint
  Tables     \* how many CREATE TABLE statements a schema has, mirror_meta first

ASSUME OpeningAssumption ==
  /\ Bad \subseteq Specs
  /\ Nothing \notin Specs
  /\ Tables \in Nat \ {0}

VARIABLES
  spec,   \* the specification of the process (of the last one, when none runs)
  phase,  \* where Open is
  ran,    \* how many statements of its DDL this Open has run
  built,  \* how many tables the file has
  shape,  \* the specification whose DDL built them
  fp,     \* the fingerprint the file records
  rows,   \* the specifications whose processes wrote the rows it holds
  cut     \* history: has an Open died between its first table and its fingerprint?

file  == <<built, shape, fp, rows>>
start == <<spec, phase, ran, built, shape, fp, rows, cut>>

Phases == {"down", "reading", "nuking", "applying", "recording", "open", "failed"}

\* Type invariant: in particular a file without tables has no fingerprint and
\* no rows.
OpeningTypeOK ==
  /\ spec \in Specs
  /\ phase \in Phases
  /\ ran \in 0 .. built
  /\ built \in 0 .. Tables
  /\ shape \in Specs \cup {Nothing}
  /\ fp \in Specs \cup {Nothing}
  /\ rows \in SUBSET Specs
  /\ cut \in BOOLEAN
  /\ built = 0 => shape = Nothing /\ fp = Nothing /\ rows = {}

OpeningInit ==
  /\ spec \in Specs
  /\ phase = "down"
  /\ ran = 0
  /\ built = 0
  /\ shape = Nothing
  /\ fp = Nothing
  /\ rows = {}
  /\ cut = FALSE

\* Open begins, under the specification of this deployment.
Boot ==
  /\ phase = "down"
  /\ spec' \in Specs
  /\ phase' = IF spec' \in Bad THEN "failed" ELSE "reading"
  /\ ran' = 0
  /\ UNCHANGED <<file, cut>>

\* Any fingerprint is taken for a stale one.
MutantAfter(recorded) == IF recorded = Nothing THEN "applying" ELSE "nuking"

\* What Open makes of the fingerprint it reads; none is a file without
\* mirror_meta, or whose mirror_meta has no fingerprint yet.
After(recorded) ==
  CASE recorded = spec    -> "open"
    [] recorded = Nothing -> "applying"
    [] OTHER              -> "nuking"

ReadFingerprint ==
  /\ phase = "reading"
  /\ phase' = After(fp)
  /\ UNCHANGED <<spec, ran, file, cut>>

\* Removing the file takes its fingerprint and leaves its tables.
MutantNuke ==
  /\ phase = "nuking"
  /\ phase' = "applying"
  /\ fp' = Nothing
  /\ rows' = {}
  /\ UNCHANGED <<spec, ran, built, shape, cut>>

\* removeDB, and a new file in its place.
Nuke ==
  /\ phase = "nuking"
  /\ phase' = "applying"
  /\ built' = 0
  /\ shape' = Nothing
  /\ fp' = Nothing
  /\ rows' = {}
  /\ UNCHANGED <<spec, ran, cut>>

\* The statements say CREATE TABLE, without IF NOT EXISTS: one whose table is
\* there already fails.
Clashes == phase = "applying" /\ ran < built

\* The fingerprint recorded as soon as there is a table for it.
MutantCreateTable ==
  /\ phase = "applying"
  /\ ~Clashes
  /\ ran' = ran + 1
  /\ built' = built + 1
  /\ shape' = spec
  /\ fp' = spec
  /\ phase' = IF built' = Tables THEN "recording" ELSE "applying"
  /\ UNCHANGED <<spec, rows, cut>>

CreateTable ==
  /\ phase = "applying"
  /\ ~Clashes
  /\ ran' = ran + 1
  /\ built' = built + 1
  /\ shape' = spec
  /\ phase' = IF built' = Tables THEN "recording" ELSE "applying"
  /\ UNCHANGED <<spec, fp, rows, cut>>

RecordFingerprint ==
  /\ phase = "recording"
  /\ fp' = spec
  /\ phase' = "open"
  /\ UNCHANGED <<spec, ran, built, shape, rows, cut>>

\* A row of this process's own schema.
WriteRow ==
  /\ phase = "open"
  /\ rows' = rows \cup {spec}
  /\ UNCHANGED <<spec, phase, ran, built, shape, fp, cut>>

\* The process is over, or Open is: what the file holds stays.
Ends(next) ==
  /\ phase' = next
  /\ cut' = (cut \/ (phase \in {"applying", "recording"} /\ ran > 0))
  /\ UNCHANGED <<spec, ran, file>>

\* Open returns the error of a statement, or of removing the file.
StatementFails ==
  /\ phase \in {"reading", "nuking", "applying", "recording"}
  /\ Ends("failed")

\* run returns: the error of Open, or the end of an orderly shutdown.
Exit == phase \in {"failed", "open"} /\ Ends("down")

\* A crash, at any step of Open and after it.
Crash == phase \notin {"down", "failed"} /\ Ends("down")

OpeningNext ==
  \/ Boot \/ ReadFingerprint \/ Nuke
  \/ CreateTable \/ RecordFingerprint \/ WriteRow
  \/ StatementFails \/ Exit \/ Crash

------------------------------------------------------------------------------
(* What Open promises. *)

\* A process that serves reads and writes tables of its own schema, all of
\* them, and no row another schema's process wrote.  Open compares the
\* fingerprint once, and a crash at any statement of an earlier process, under
\* another schema, must not leave a file that passes.
ServesItsOwn ==
  phase = "open" =>
    /\ built = Tables
    /\ shape = spec
    /\ fp = spec
    /\ rows \subseteq {spec}

\* Rows are thrown away by one thing only: a process of another schema that
\* opens the file.  A restart, a crash and a failing statement keep the cache.
KeepsItsCache ==
  [][(rows \ rows' # {}) => (phase = "nuking" /\ rows \cap {spec} = {})]_start

\* A file on which every start fails, because a table it creates is there
\* already, is the work of an Open that died between its first table and its
\* fingerprint; a change of schema alone never leads there.
OnlyACutStopsIt == Clashes => cut

OpeningSpec == OpeningInit /\ [][OpeningNext]_start
=============================================================================
