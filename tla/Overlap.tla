------------------------------- MODULE Overlap -------------------------------
(***************************************************************************)
(* Mirror with the history of the answers that were overtaken.  Keys that  *)
(* share a row have mutexes of their own (lockFor), so a fetch of one may  *)
(* store what it heard before a fetch of another stored something newer    *)
(* (PutMany and Put in fetch.go); a delivery takes no mutex at all; and a  *)
(* 304 vouches for whatever the row holds.                                 *)
(***************************************************************************)
EXTENDS Mirror

VARIABLES
  late, \* the callers that hold an answer for a row and heard it before a
        \* delivery, a fetch of another key or a 304 came in for that row
  back  \* the rows to which such an answer, a delivery or a 304 came in last

history == <<late, back>>
ovars   == <<mvars, history>>

OverlapTypeOK ==
  /\ MirrorTypeOK
  /\ late \subseteq Callers
  /\ back \subseteq Rows

OverlapInit ==
  /\ MirrorInit
  /\ late = {}
  /\ back = {}

\* The callers that hold an answer for r, not stored yet.
Holders(r) == {c \in Callers : pc[c] = "asking" /\ seen[c] # 0 /\ RowOf[at[c]] = r}

\* A fetch stores its document.
Stores(c) ==
  LET r == RowOf[at[c]]
  IN  /\ Absorb(c)
      /\ IF seen[c] \in Absent
         THEN UNCHANGED back /\ late' = late \ {c}
         ELSE /\ back' = IF c \in late THEN back \cup {r} ELSE back \ {r}
              /\ late' = (late \cup {d \in Holders(r) : at[d] # at[c]}) \ {c}

\* Something that owes nothing to the upstream's latest comes in for r.
Overtakes(r) ==
  /\ late' = late \cup Holders(r)
  /\ back' = back \cup {r}

Delivers(r) ==
  /\ \E v \in Versions : Deliver(r, v)
  /\ IF stored'[r] = 0 THEN UNCHANGED history ELSE Overtakes(r)

Records(c) ==
  /\ Bookkeep(c)
  /\ IF got[c] = "unchanged" /\ pc'[c] = "miss" THEN Overtakes(RowOf[at[c]])
     ELSE UNCHANGED history

\* What is heard later is not late, and neither is who has let go of an answer.
Goes(c) ==
  /\ \/ \E k \in Keys : Arrives(c, k) \/ Sweep(c, k)
     \/ Respond(c) \/ NotModified(c) \/ ReadRefusal(c) \/ ReadRow(c) \/ Done(c)
  /\ UNCHANGED history

Fails(c) ==
  /\ Fail(c)
  /\ late' = late \ {c}
  /\ UNCHANGED back

Writes(r) ==
  /\ Change(r) \/ Write(r) \/ Purge(r)
  /\ UNCHANGED history

Ages ==
  /\ Passes
  /\ UNCHANGED history

\* The shutdown waits for the fetches, and gives up on them.
Shuts ==
  /\ StartDrain \/ EndDrain
  /\ UNCHANGED <<truth, stored, seen, mark, purging, reading, history>>

Dies ==
  /\ Reboot
  /\ late' = {}
  /\ UNCHANGED back

OverlapNext ==
  \/ \E c \in Callers : Stores(c) \/ Records(c) \/ Fails(c) \/ Goes(c)
  \/ \E r \in Rows : Delivers(r) \/ Writes(r)
  \/ Ages \/ Shuts \/ Dies

OverlapSpec == OverlapInit /\ [][OverlapNext]_ovars

------------------------------------------------------------------------------
(* Properties. *)

\* A row is replaced by an older one only by a delivery, or by a fetch that
\* heard its answer before a delivery, a fetch of another key of the row or a
\* 304 came in for it.  Fetches of one key never do: each stores what it was
\* told before the next one asks, whatever fails, is purged or restarts between.
NeverGoesBack ==
  [][\A r \in Rows :
       stored[r] # 0 /\ stored'[r] # 0 /\ stored'[r] < stored[r] => r \in back']_ovars

\* A reader whose own fetch the upstream answered is answered nothing older,
\* whoever fetched, failed or restarted between its fetch and its read, unless
\* what came in last for the row it reads is a delivery, a 304 or an answer that
\* was overtaken.  A 404 it was told may be lost too, where the statement that
\* reads it back fails, and so may the news that its list names an item no more.
OwnFetchVisible ==
  [][\A c \in Callers :
       LET told == seen[c] \notin Absent \/ (Shape[at[c]] = "single" /\ ~StoreMayFail)
       IN  reply'[c] = "served" /\ reply[c] # "served" /\ pc[c] = "miss" /\ told =>
             body'[c] >= seen[c] \/ RowOf[at[c]] \in back]_ovars
===============================================================================
