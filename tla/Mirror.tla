------------------------------- MODULE Mirror -------------------------------
(***************************************************************************)
(* A key's whole life: the upstream's copy, the stored row, the freshness  *)
(* row of module Freshness, and the four actors that meet on them: readers *)
(* and the sweep (engine.go, fetch.go, refresh.go), deliveries (events.go) *)
(* and writes forwarded to the upstream (forwardAndPurge).                 *)
(*                                                                         *)
(* The routes of one resource store their answers in the same rows, and a  *)
(* key's mutex guards the key and not the row: a list and a single route   *)
(* may be fetched at once for one row.  Of a list the model follows one    *)
(* item, which the list names while there is one.                          *)
(*                                                                         *)
(* A document is its version: the upstream counts its changes, and a row   *)
(* is the version it was built from, 0 where there is no row.  A delivery  *)
(* states one version whole; the fields of a partial one are module        *)
(* Ingest's.                                                               *)
(***************************************************************************)
EXTENDS Freshness

CONSTANTS
  RowOf,            \* the row a key's fetches store and its readers read
  Shape,            \* its route: "single", "list", or a "complete" list
  MaxVersion,       \* bound: how often the upstream's copy may change
  Absent,           \* the versions the upstream answers 404 for
  AbsorbsNotFound,  \* does the route declare <absorb status="404"/>?
  Hook,             \* what the key's event does: "none", "merge", "invalidate"
  WritesThrough,    \* is there a <purge> for the key?
  Conditional,      \* are readers' conditional headers forwarded?
  PerSecond,        \* how many changes share one second of a delivery's clock
  Sweepers          \* the callers that are the background sweep

Rows == {RowOf[k] : k \in Keys}

ASSUME MirrorAssumption ==
  /\ DOMAIN RowOf = Keys
  /\ Shape \in [Keys -> {"single", "list", "complete"}]
  /\ MaxVersion \in Nat \ {0}
  /\ Absent \subseteq 1 .. MaxVersion
  /\ AbsorbsNotFound \in BOOLEAN
  /\ Hook \in {"none", "merge", "invalidate"}
  /\ WritesThrough \in BOOLEAN
  /\ Conditional \in BOOLEAN
  /\ PerSecond \in Nat \ {0}
  /\ Sweepers \subseteq Callers

VARIABLES
  truth,    \* the upstream's version of what a row is about
  stored,   \* the version in a row, 0 where there is none
  seen,     \* the version the upstream answered a caller's fetch with
  mark,     \* mirror_watermark.applied_at of the row's subject
  purging,  \* the rows of writes the upstream confirmed and nobody purged yet
  reply,    \* how far a reader is past Ensure, and what it answers
  body      \* the version a reader answers with

reading == <<reply, body>>
mvars   == <<vars, truth, stored, seen, mark, purging, reading>>

Versions == 1 .. MaxVersion

MirrorTypeOK ==
  /\ truth \in [Rows -> Versions]
  /\ stored \in [Rows -> Versions \cup {0}]
  /\ seen \in [Callers -> Versions \cup {0}]
  /\ mark \in [Rows -> 0 .. MaxVersion]
  /\ purging \subseteq Rows
  /\ reply \in [Callers -> {"none", "lookup", "refusal", "empty", "served"}]
  /\ body \in [Callers -> Versions \cup {0}]

\* The clock a delivery of version v carries, in whole seconds.
Clock(v) == v \div PerSecond

MirrorInit ==
  /\ Init
  /\ truth = [r \in Rows |-> 1]
  /\ stored = [r \in Rows |-> 0]
  /\ seen = [c \in Callers |-> 0]
  /\ mark = [r \in Rows |-> 0]
  /\ purging = {}
  /\ reply = [c \in Callers |-> "none"]
  /\ body = [c \in Callers |-> 0]

------------------------------------------------------------------------------
(* The upstream, and writes that pass through the mirror on their way.      *)

Change(r) ==
  /\ truth[r] < MaxVersion
  /\ truth' = [truth EXCEPT ![r] = @ + 1]
  /\ UNCHANGED <<vars, stored, seen, mark, purging, reading>>

\* forwardAndPurge, its first half: the upstream confirms the write and the
\* client has its answer.
Write(r) ==
  /\ WritesThrough
  /\ truth[r] < MaxVersion
  /\ truth' = [truth EXCEPT ![r] = @ + 1]
  /\ purging' = purging \cup {r}
  /\ UNCHANGED <<vars, stored, seen, mark, reading>>

\* Its second half deletes the row and leaves the freshness row alone.  A
\* client that has hung up by then has cancelled the statement's context.
Purge(r) ==
  /\ r \in purging
  /\ purging' = purging \ {r}
  /\ \/ stored' = [stored EXCEPT ![r] = 0]
     \/ UNCHANGED stored
  /\ UNCHANGED <<vars, truth, seen, mark, reading>>

\* A delivery of any change so far, for the first time or again: a watermark
\* older than it or as old lets it through, and the one refused does nothing.
\* A watermark that cannot be written lets it through too.  The notification
\* goes out once the row is written.
Deliver(r, v) ==
  /\ Hook # "none"
  /\ v \in 2 .. truth[r]
  /\ \/ /\ Clock(v) >= mark[r]
        /\ mark' = [mark EXCEPT ![r] = Clock(v)]
     \/ StoreMayFail /\ UNCHANGED mark
  /\ stored' = [stored EXCEPT ![r] =
                  IF Hook = "invalidate" \/ v \in Absent THEN 0 ELSE v]
  /\ UNCHANGED <<vars, truth, seen, purging, reading>>

------------------------------------------------------------------------------
(* A fetch: Engine.fetch, run by doFetch between Begin and its outcome.     *)

\* The upstream answers from its own copy, at some moment of the call.
Respond(c) ==
  /\ pc[c] = "asking"
  /\ seen[c] = 0
  /\ seen' = [seen EXCEPT ![c] = truth[RowOf[at[c]]]]
  /\ UNCHANGED <<vars, truth, stored, mark, purging, reading>>

\* What a list leaves of an item that it no longer names: the row, or nothing
\* where it is complete.  The sweep's key may find nothing to replace (Serving).
Forgets(c) ==
  \/ /\ Shape[at[c]] = "list" \/ c \in Sweepers
     /\ UNCHANGED stored
  \/ /\ Shape[at[c]] = "complete"
     /\ stored' = [stored EXCEPT ![RowOf[at[c]]] = 0]

\* Put and PutMany insert, and ignore what is there already.
MutantAbsorbKeepsRow(c) ==
  /\ seen[c] # 0
  /\ \/ /\ seen[c] \notin Absent
        /\ stored' = [stored EXCEPT ![RowOf[at[c]]] = IF @ = 0 THEN seen[c] ELSE @]
        /\ Answer(c, "ok")
     \/ /\ seen[c] \in Absent
        /\ Shape[at[c]] = "single"
        /\ Answer(c, IF AbsorbsNotFound THEN "refused" ELSE "failed")
        /\ UNCHANGED stored
     \/ /\ seen[c] \in Absent
        /\ Shape[at[c]] # "single"
        /\ Answer(c, "ok")
        /\ Forgets(c)
  /\ UNCHANGED <<truth, seen, mark, purging, reading>>

\* An absorbed refusal is recorded without its status.
MutantStatusDropped(c) ==
  /\ seen[c] # 0
  /\ \/ /\ seen[c] \notin Absent
        /\ stored' = [stored EXCEPT ![RowOf[at[c]]] = seen[c]]
     \/ /\ seen[c] \in Absent
        /\ UNCHANGED stored
  /\ Answer(c, "ok")
  /\ UNCHANGED <<truth, seen, mark, purging, reading>>

\* A document is stored before the fetch is recorded.  A 404 the route absorbs
\* is recorded and the row stays as it is; any other is a failure.  A list is
\* answered without the item.
Absorb(c) ==
  /\ seen[c] # 0
  /\ \/ /\ seen[c] \notin Absent
        /\ stored' = [stored EXCEPT ![RowOf[at[c]]] = seen[c]]
        /\ Answer(c, "ok")
     \/ /\ seen[c] \in Absent
        /\ Shape[at[c]] = "single"
        /\ Answer(c, IF AbsorbsNotFound THEN "refused" ELSE "failed")
        /\ UNCHANGED stored
     \/ /\ seen[c] \in Absent
        /\ Shape[at[c]] # "single"
        /\ Answer(c, "ok")
        /\ Forgets(c)
  /\ UNCHANGED <<truth, seen, mark, purging, reading>>

\* A 304: the caller's own validator holds, and a success is recorded of which
\* nothing is stored, whatever the row holds.  The sweep forwards no header.
NotModified(c) ==
  /\ Conditional
  /\ c \notin Sweepers
  /\ seen[c] = 0
  /\ Answer(c, "unchanged")
  /\ UNCHANGED <<truth, stored, seen, mark, purging, reading>>

\* A transport error, the timeout, a 5xx, a body that does not decode or a row
\* that cannot be stored.
Fail(c) ==
  /\ Answer(c, "failed")
  /\ UNCHANGED <<truth, stored, seen, mark, purging, reading>>

\* The steps of doFetch that touch only what Freshness keeps.
Bookkeep(c) ==
  /\ Enter(c) \/ Begin(c) \/ RecordError(c) \/ RecordFetched(c)
  /\ UNCHANGED <<truth, stored, seen, mark, purging, reading>>

------------------------------------------------------------------------------
(* Readers (Engine.serve) and the sweep (Refresher.refreshOne).             *)

Arrives(c, k) ==
  /\ c \notin Sweepers
  /\ Ensure(c, k)
  /\ UNCHANGED <<truth, stored, seen, mark, purging, reading>>

\* The sweep lists the keys that have a freshness row and have aged out, and
\* takes them one by one: by the time a key's turn comes it may be fresh.
Sweep(c, k) ==
  /\ c \in Sweepers
  /\ state[k] # "unknown"
  /\ Refresh(c, k)
  /\ UNCHANGED <<truth, stored, seen, mark, purging, reading>>

\* rememberedRefusal reads the freshness row again.  A row that cannot be read
\* tells of no refusal.
ReadRefusal(c) ==
  /\ mode[c] = "ensure"
  /\ pc[c] \in {"hit", "miss"}
  /\ reply[c] = "none"
  /\ \/ refused[at[c]] /\ reply' = [reply EXCEPT ![c] = "refusal"]
     \/ /\ ~refused[at[c]] \/ StoreMayFail
        /\ reply' = [reply EXCEPT ![c] = "lookup"]
  /\ UNCHANGED <<vars, truth, stored, seen, mark, purging, body>>

\* Hit or miss, the answer is read back from the row; no row is a 404, or a
\* list without it.
ReadRow(c) ==
  /\ reply[c] = "lookup"
  /\ reply' = [reply EXCEPT ![c] = IF stored[RowOf[at[c]]] = 0 THEN "empty" ELSE "served"]
  /\ body' = [body EXCEPT ![c] = stored[RowOf[at[c]]]]
  /\ UNCHANGED <<vars, truth, stored, seen, mark, purging>>

Done(c) ==
  /\ \/ mode[c] = "refresh"
     \/ pc[c] = "error"
     \/ reply[c] \in {"refusal", "empty", "served"}
  /\ Return(c)
  /\ seen' = [seen EXCEPT ![c] = 0]
  /\ reply' = [reply EXCEPT ![c] = "none"]
  /\ body' = [body EXCEPT ![c] = 0]
  /\ UNCHANGED <<truth, stored, mark, purging>>

------------------------------------------------------------------------------
Passes ==
  /\ Tick
  /\ UNCHANGED <<truth, stored, seen, mark, purging, reading>>

\* A crash between a confirmed write and its purge forgets the purge.
Reboot ==
  /\ Restart
  /\ seen' = [c \in Callers |-> 0]
  /\ purging' = {}
  /\ reply' = [c \in Callers |-> "none"]
  /\ body' = [c \in Callers |-> 0]
  /\ UNCHANGED <<truth, stored, mark>>

\* What a caller that has come in does next.
Proceed(c) ==
  \/ Bookkeep(c) \/ Respond(c) \/ Absorb(c) \/ NotModified(c) \/ Fail(c)
  \/ ReadRefusal(c) \/ ReadRow(c) \/ Done(c)

Move(c) ==
  \/ \E k \in Keys : Arrives(c, k) \/ Sweep(c, k)
  \/ Proceed(c)

MirrorNext ==
  \/ \E c \in Callers : Move(c)
  \/ \E r \in Rows : Change(r) \/ Write(r) \/ Purge(r)
  \/ \E r \in Rows, v \in Versions : Deliver(r, v)
  \/ Passes
  \/ Reboot

MirrorSpec == MirrorInit /\ [][MirrorNext]_mvars

\* A goroutine that has come in goes on, through a mutex that is handed to who
\* has starved for it, and the clock does.  The sweep asks about every stored
\* key again and again; for it the upstream and the store may fail as often as
\* they like, but not every time.  Crashes come to an end, and so do 304s: each
\* would keep the sweep away for another lifetime.  Readers, writes and
\* deliveries owe nothing.
MirrorFairness ==
  /\ <>[][~Reboot /\ \A c \in Callers : ~NotModified(c)]_mvars
  /\ WF_mvars(Passes)
  /\ \A c \in Callers :
       /\ SF_mvars(Enter(c) /\ Bookkeep(c))
       /\ WF_mvars(Proceed(c))
  /\ \A c \in Sweepers :
       /\ \A k \in Keys : SF_mvars(Sweep(c, k) /\ pc'[c] = "queued")
       /\ SF_mvars(Respond(c))
       /\ SF_mvars(Absorb(c))
       /\ SF_mvars(Bookkeep(c) /\ pc'[c] = "miss")

FairMirror == MirrorSpec /\ MirrorFairness

------------------------------------------------------------------------------
(* Properties. *)

\* A key of a single route that counts as fresh and not as refused has a row to
\* answer from, so a hit is never an empty 404 (the row is stored before the
\* fetch is recorded).
RowBehindFresh ==
  \A k \in Keys :
    Shape[k] = "single" /\ state[k] = "fresh" /\ ~refused[k] => stored[RowOf[k]] # 0

\* A row shows the upstream's document, or a key its 404.
Agrees(k) ==
  \/ stored[RowOf[k]] = truth[RowOf[k]]
  \/ truth[RowOf[k]] \in Absent /\ (refused[k] \/ stored[RowOf[k]] = 0)

\* However many deliveries are lost or late and however many fetches fail, the
\* sweep alone brings the row of a key once fetched back to what the upstream
\* holds, again and again, once no crash and no 304 keeps it away any more.
CatchesUp ==
  \A k \in Keys : [](state[k] # "unknown" => <>Agrees(k))

\* Nobody who waits for a key's mutex waits for ever, whatever the holder's
\* fetch comes to and whichever bookkeeping write fails.
Responds == \A c \in Callers : pc[c] = "queued" ~> pc[c] \in Final \cup {"idle"}
=============================================================================
