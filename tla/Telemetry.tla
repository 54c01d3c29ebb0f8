------------------------------ MODULE Telemetry ------------------------------
(***************************************************************************)
(* The two rings behind the dashboard: the chart of exchanges              *)
(* (internal/mirror/timeline.go) and the log of requests (requestlog.go).  *)
(*                                                                         *)
(* A ring is a slot per place, the place of its oldest entry and the       *)
(* number of entries.  Counters and tallies are left out.                  *)
(***************************************************************************)
EXTENDS Naturals, Sequences, FiniteSets

Ring(places, blank) ==
  [slot |-> [i \in 0 .. places - 1 |-> blank], head |-> 0, size |-> 0]

Places(r) == Cardinality(DOMAIN r.slot)

\* The place of the entry that has i older ones before it.
Place(r, i) == (r.head + i) % Places(r)

\* Timeline.Observe: a full ring gives up its oldest frame, which is where the
\* new one goes.
MutantObserve(r, f) ==
  IF r.size = Places(r)
  THEN [r EXCEPT !.slot[r.head] = f]
  ELSE [r EXCEPT !.slot[Place(r, r.size)] = f, !.size = @ + 1]

Observe(r, f) ==
  IF r.size = Places(r)
  THEN [r EXCEPT !.slot[r.head] = f, !.head = Place(r, 1)]
  ELSE [r EXCEPT !.slot[Place(r, r.size)] = f, !.size = @ + 1]

\* The n-th of a set of numbers, the smallest first.
Nth(S, n) == CHOOSE i \in S : Cardinality({j \in S : j < i}) = n - 1

\* Timeline.Frames walks the entries from the oldest one.  At the first that is
\* inside the window it moves the head there, and goes on counting from the new
\* head; what it returns becomes the size.  `window` holds the frames inside.
Frames(r, window) ==
  LET inside == {i \in 0 .. r.size - 1 : r.slot[Place(r, i)] \in window}
  IN  IF inside = {}
      THEN [out |-> <<>>, ring |-> [r EXCEPT !.size = 0]]
      ELSE LET first == Nth(inside, 1)
               moved == [r EXCEPT !.head = Place(r, first)]
               rest == {i \in first + 1 .. r.size - 1 :
                          moved.slot[Place(moved, i)] \in window}
               out == <<moved.slot[moved.head]>> \o
                        [n \in 1 .. Cardinality(rest) |->
                           moved.slot[Place(moved, Nth(rest, n))]]
           IN  [out |-> out, ring |-> [moved EXCEPT !.size = Len(out)]]

\* RequestLog.Record: a full ring drops its oldest entry first.
Record(r, e) ==
  LET room == IF r.size = Places(r)
              THEN [r EXCEPT !.head = Place(r, 1), !.size = @ - 1] ELSE r
  IN  [room EXCEPT !.slot[Place(room, room.size)] = e, !.size = @ + 1]

\* RequestLog.Recent: the n newest entries, newest first.
MutantRecent(r, n) ==
  LET m == IF n = 0 \/ n > r.size THEN r.size ELSE n
  IN  [i \in 1 .. m |-> r.slot[Place(r, i - 1)]]

Recent(r, n) ==
  LET m == IF n = 0 \/ n > r.size THEN r.size ELSE n
  IN  [i \in 1 .. m |-> r.slot[Place(r, r.size - i + Places(r))]]
=============================================================================
