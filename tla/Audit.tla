-------------------------------- MODULE Audit --------------------------------
(***************************************************************************)
(* The consistency check (internal/mirror/check.go, admin_check.go) beside *)
(* the mirror it checks.  It takes neither a key's mutex nor a watermark,  *)
(* so fetches, deliveries and writes go on between any two of its steps.   *)
(*                                                                         *)
(* changed_at is moved by RecordFetched alone, and only as far as the      *)
(* current second.  A Tick of Freshness is a second or more, so a key was  *)
(* recorded in the current one when all of its lifetime is left.  It is the *)
(* key's: of a row that another route writes it says nothing.              *)
(***************************************************************************)
EXTENDS Mirror

VARIABLES
  audit, \* how far the check is with a key: "idle" where none is under way
  todo,  \* the keys it listed and has not come to yet, but for those of lists,
         \* which it calls unsupported and leaves alone
  still, \* of the keys it has yet to look at again, those whose listed
         \* changed_at is in the second that still runs
  moved, \* of these, those whose changed_at is after the listed one
  on,    \* the key it is at
  was,   \* the row it read
  heard, \* the version the upstream answered it with
  slips  \* history: the fetches that stored the row since it was read and that
         \* changed_at has not told of in time; NoOne once a delivery, a purge
         \* or an unreadable changed_at made sure that it cannot

checking == <<audit, todo, still, moved, on, was, heard, slips>>
avars    == <<mvars, checking>>

Compares == {"read", "asked", "drifted"}

AuditTypeOK ==
  /\ MirrorTypeOK
  /\ audit \in {"idle", "listed"} \cup Compares
  /\ todo \subseteq Keys /\ still \subseteq Keys /\ moved \subseteq Keys
  /\ on \in Keys
  /\ was \in Versions \cup {0} /\ heard \in Versions \cup {0}
  /\ slips \subseteq Callers \cup {NoOne}

AuditInit ==
  /\ MirrorInit
  /\ audit = "idle"
  /\ todo = {} /\ still = {} /\ moved = {}
  /\ on \in Keys
  /\ was = 0 /\ heard = 0
  /\ slips = {}

ThisSecond(k) == left[k] = Ttl

------------------------------------------------------------------------------
(* The check. *)

\* FreshnessByKind: every key that has a bookkeeping row, with its changed_at.
List ==
  /\ audit = "idle"
  /\ todo' = {k \in Keys : state[k] # "unknown" /\ Shape[k] = "single"}
  /\ todo' # {}
  /\ still' = {k \in todo' : ThisSecond(k)}
  /\ audit' = "listed"
  /\ UNCHANGED <<mvars, moved, on, was, heard, slips>>

\* checkOne, its first statement.  A row that cannot be read ends the key.
ReadStored(k) ==
  /\ audit = "listed"
  /\ k \in todo
  /\ todo' = todo \ {k}
  /\ on' = k
  /\ was' = stored[RowOf[k]]
  /\ audit' = "read"
  /\ UNCHANGED <<mvars, still, moved, heard, slips>>

\* What is known of a key's changed_at has been used.
Looked ==
  /\ still' = still \ {on}
  /\ moved' = moved \ {on}

\* The verdict on a key is out, and the next one's turn comes.
Finish ==
  /\ audit' = IF todo = {} THEN "idle" ELSE "listed"
  /\ was' = 0 /\ heard' = 0 /\ slips' = {}
  /\ Looked
  /\ UNCHANGED <<todo, on>>

\* No check is under way.
Stopped ==
  /\ audit' = "idle"
  /\ todo' = {} /\ still' = {} /\ moved' = {}
  /\ was' = 0 /\ heard' = 0 /\ slips' = {}
  /\ UNCHANGED on

\* The upstream answers.  An answer of 404 is the verdict "gone".
Hear ==
  /\ audit = "read"
  /\ truth[RowOf[on]] \notin Absent
  /\ heard' = truth[RowOf[on]]
  /\ audit' = "asked"
  /\ UNCHANGED <<mvars, todo, still, moved, on, was, slips>>

\* The verdicts "gone" and "unreachable": nothing is compared.
NoAnswer ==
  /\ audit = "read"
  /\ Finish
  /\ UNCHANGED mvars

Agree ==
  /\ audit = "asked"
  /\ was = heard
  /\ Finish
  /\ UNCHANGED mvars

\* The row read and the answer differ, and so do the two changed_at: it was a
\* race.
Raced ==
  /\ audit = "asked"
  /\ was # heard
  /\ on \in moved
  /\ Finish
  /\ UNCHANGED mvars

MutantDrift ==
  /\ audit = "asked"
  /\ was # heard
  /\ Looked
  /\ audit' = "drifted"
  /\ UNCHANGED <<mvars, todo, on, was, heard, slips>>

\* They differ and changed_at has not moved, or cannot be read.
Drift ==
  /\ audit = "asked"
  /\ was # heard
  /\ \/ /\ on \notin moved
        /\ UNCHANGED slips
     \/ /\ StoreMayFail
        /\ slips' = IF on \in moved THEN {NoOne} ELSE slips
  /\ Looked
  /\ audit' = "drifted"
  /\ UNCHANGED <<mvars, todo, on, was, heard>>

\* A check that only reports, or whose write fails, leaves the row alone.
Report ==
  /\ audit = "drifted"
  /\ Finish
  /\ UNCHANGED mvars

\* absorbAnswerRow writes what the upstream answered over whatever the row
\* holds by now; the bookkeeping row is left alone.
Repair ==
  /\ audit = "drifted"
  /\ stored' = [stored EXCEPT ![RowOf[on]] = heard]
  /\ Finish
  /\ UNCHANGED <<vars, truth, seen, mark, purging, reading>>

\* The request that started it is gone: what is under way fails.
Abandon ==
  /\ audit # "idle"
  /\ Stopped
  /\ UNCHANGED mvars

------------------------------------------------------------------------------
(* The mirror goes on, and changed_at and the history with it. *)

Watched(r) == audit \in Compares /\ RowOf[on] = r

\* The check is to look at k's changed_at again.
Pending(k) == audit \in {"read", "asked"} /\ on = k

\* A row changes under the check.
Slips(r, who) ==
  slips' = IF ~Watched(r) \/ stored'[r] = stored[r] THEN slips
           ELSE IF NoOne \in slips \cup {who} THEN {NoOne}
           ELSE slips \cup {who}

\* A fetch stores its answer.
Fetches(c) ==
  /\ Absorb(c)
  /\ Slips(RowOf[at[c]], c)
  /\ UNCHANGED <<audit, todo, still, moved, on, was, heard>>

\* It is written down, and the check finds it where it has yet to look.
Books(c) ==
  /\ Bookkeep(c)
  /\ IF pc[c] = "answered" /\ pc'[c] = "miss"
     THEN LET k     == at[c]
              moves == k \notin still
          IN  /\ moved' = IF moves /\ (k \in todo \/ Pending(k)) THEN moved \cup {k} ELSE moved
              /\ slips' = IF moves /\ Pending(k) THEN slips \ {c} ELSE slips
     ELSE UNCHANGED <<moved, slips>>
  /\ UNCHANGED <<audit, todo, still, on, was, heard>>

Others(c) ==
  /\ \/ \E k \in Keys : Arrives(c, k) \/ Sweep(c, k)
     \/ Respond(c) \/ NotModified(c) \/ Fail(c) \/ ReadRefusal(c) \/ ReadRow(c) \/ Done(c)
  /\ UNCHANGED checking

Elsewhere(r) ==
  /\ Change(r) \/ Write(r) \/ Purge(r) \/ \E v \in Versions : Deliver(r, v)
  /\ Slips(r, NoOne)
  /\ UNCHANGED <<audit, todo, still, moved, on, was, heard>>

Clocks ==
  /\ Passes
  /\ still' = {}
  /\ UNCHANGED <<audit, todo, moved, on, was, heard, slips>>

\* A crash ends the check.
Crash ==
  /\ Reboot
  /\ Stopped

Check ==
  \/ List \/ Hear \/ NoAnswer \/ Agree \/ Raced \/ Drift
  \/ Report \/ Repair \/ Abandon
  \/ \E k \in Keys : ReadStored(k)

AuditNext ==
  \/ Check
  \/ \E c \in Callers : Fetches(c) \/ Books(c) \/ Others(c)
  \/ \E r \in Rows : Elsewhere(r)
  \/ Clocks \/ Crash

AuditSpec == AuditInit /\ [][AuditNext]_avars

------------------------------------------------------------------------------
(* Properties. *)

\* A key that is reported as drifted still has the row that was compared, and
\* with it something else than what the upstream answered, when it is reported
\* and until it is repaired: whatever fetch, delivery, purge or crash came in
\* between, but for a write that changed_at does not tell of (a delivery, a
\* purge, a fetch through another route of the row, of the second that was
\* listed or not written down yet when the check looked again, a bookkeeping row
\* that cannot be read).  So a repair undoes no other write (checkOne, its second
\* read of changed_at).
DriftIsReal ==
  audit = "drifted" /\ slips = {} =>
    stored[RowOf[on]] = was /\ stored[RowOf[on]] # heard
=============================================================================
