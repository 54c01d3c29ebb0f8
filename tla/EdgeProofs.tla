------------------------------ MODULE EdgeProofs ------------------------------
(***************************************************************************)
(* What holds of Edge for any number of callers and URLs, any window and   *)
(* rings of any size: first the rings (Telemetry), then the coalescer      *)
(* (Debounce), then the two together.                                      *)
(***************************************************************************)
EXTENDS Edge, TLAPS, FiniteSetTheorems

------------------------------------------------------------------------------
(* A ring and the sequence it stands for.                                   *)

\* The rings of n places whose entries are of E.
Rings(n, E) == [slot : [0 .. n - 1 -> E], head : 0 .. n - 1, size : 0 .. n]

\* The place y steps on from place x, no more than once round.
Turn(n, x, y) == IF x + y < n THEN x + y ELSE x + y - n

\* Ring r holds the entries s, the oldest first.
Shows(r, n, s) ==
  /\ r.size = Len(s)
  /\ \A i \in 1 .. Len(s) : r.slot[Turn(n, r.head, i - 1)] = s[i]

LEMMA Slots ==
  ASSUME NEW n \in Nat \ {0}, NEW E, NEW r \in Rings(n, E)
  PROVE  /\ r.slot \in [0 .. n - 1 -> E]
         /\ r = [slot |-> r.slot, head |-> r.head, size |-> r.size]
  BY DEF Rings

LEMMA Parts ==
  ASSUME NEW n \in Nat \ {0}, NEW E, NEW r \in Rings(n, E)
  PROVE  r.head \in 0 .. n - 1 /\ r.size \in 0 .. n
  BY DEF Rings

LEMMA Round ==
  ASSUME NEW n \in Nat \ {0}, NEW x \in 0 .. n - 1, NEW y \in 0 .. n
  PROVE  (x + y) % n = Turn(n, x, y) /\ Turn(n, x, y) \in 0 .. n - 1
<1>1. CASE x + y < n
  BY <1>1 DEF Turn
<1>2. CASE ~(x + y < n)
  BY <1>2 DEF Turn
<1>3. QED
  BY <1>1, <1>2

LEMMA RoundAgain ==
  ASSUME NEW n \in Nat \ {0}, NEW x \in 0 .. n - 1, NEW y \in 0 .. n - 1
  PROVE  (x + (y + n)) % n = Turn(n, x, y)
<1> DEFINE z == x + (y + n)
<1>1. /\ z \in n .. 3 * n - 1
      /\ Turn(n, x, y) = IF z < 2 * n THEN z - n ELSE z - 2 * n
  BY DEF Turn
<1> HIDE DEF z
<1>2. z \in n .. 2 * n - 1 => z % n = z - n
  OBVIOUS
<1>3. z \in 2 * n .. 3 * n - 1 => z % n = z - 2 * n
  OBVIOUS
<1>4. z % n = Turn(n, x, y)
  BY <1>1, <1>2, <1>3
<1>5. QED
  BY <1>4 DEF z

LEMMA PlacesOf ==
  ASSUME NEW n \in Nat \ {0}, NEW E, NEW r \in Rings(n, E)
  PROVE  Places(r) = n
<1>1. DOMAIN r.slot = 0 .. n - 1
  BY DEF Rings
<1>2. Cardinality(0 .. n - 1) = n
  BY FS_Interval
<1>3. QED
  BY <1>1, <1>2 DEF Places

LEMMA PlaceIs ==
  ASSUME NEW n \in Nat \ {0}, NEW E, NEW r \in Rings(n, E), NEW i \in 0 .. n
  PROVE  Place(r, i) = Turn(n, r.head, i)
<1>1. Place(r, i) = (r.head + i) % n
  BY PlacesOf, Zenon DEF Place
<1>2. r.head \in 0 .. n - 1
  BY Parts
<1>3. (r.head + i) % n = Turn(n, r.head, i)
  BY <1>2, Round
<1>4. QED
  BY <1>1, <1>3

LEMMA MoveIs ==
  ASSUME NEW r, r = [slot |-> r.slot, head |-> r.head, size |-> r.size], NEW h
  PROVE  [r EXCEPT !.head = h, !.size = @ - 1]
           = [slot |-> r.slot, head |-> h, size |-> r.size - 1]
<1>1. [r EXCEPT !.head = h, !.size = @ - 1] = [[r EXCEPT !.head = h] EXCEPT !.size = @ - 1]
  OBVIOUS
<1>2. [r EXCEPT !.head = h] = [slot |-> r.slot, head |-> h, size |-> r.size]
  OBVIOUS
<1>3. [[slot |-> r.slot, head |-> h, size |-> r.size] EXCEPT !.size = @ - 1]
        = [slot |-> r.slot, head |-> h, size |-> r.size - 1]
  OBVIOUS
<1>4. QED
  BY <1>1, <1>2, <1>3

LEMMA PutIs ==
  ASSUME NEW r, r = [slot |-> r.slot, head |-> r.head, size |-> r.size], NEW x, NEW e
  PROVE  [r EXCEPT !.slot[x] = e, !.size = @ + 1]
           = [slot |-> [r.slot EXCEPT ![x] = e], head |-> r.head, size |-> r.size + 1]
<1>1. [r EXCEPT !.slot[x] = e, !.size = @ + 1]
        = [[r EXCEPT !.slot[x] = e] EXCEPT !.size = @ + 1]
  OBVIOUS
<1>2. [r EXCEPT !.slot[x] = e]
        = [slot |-> [r.slot EXCEPT ![x] = e], head |-> r.head, size |-> r.size]
  OBVIOUS
<1>3. [[slot |-> [r.slot EXCEPT ![x] = e], head |-> r.head, size |-> r.size]
         EXCEPT !.size = @ + 1]
        = [slot |-> [r.slot EXCEPT ![x] = e], head |-> r.head, size |-> r.size + 1]
  OBVIOUS
<1>4. QED
  BY <1>1, <1>2, <1>3

\* What Record does, full or not.
LEMMA RecordIs ==
  ASSUME NEW n \in Nat \ {0}, NEW E, NEW r \in Rings(n, E), NEW e \in E
  PROVE  Record(r, e) =
           IF r.size = n
           THEN [slot |-> [r.slot EXCEPT ![r.head] = e],
                 head |-> Turn(n, r.head, 1), size |-> n]
           ELSE [slot |-> [r.slot EXCEPT ![Turn(n, r.head, r.size)] = e],
                 head |-> r.head, size |-> r.size + 1]
<1>1. r.head \in 0 .. n - 1 /\ r.size \in 0 .. n
  BY Parts
<1>2. /\ r.slot \in [0 .. n - 1 -> E]
      /\ r = [slot |-> r.slot, head |-> r.head, size |-> r.size]
  BY Slots
<1>3. Places(r) = n
  BY PlacesOf
<1>4. CASE r.size = n
  <2> DEFINE h == Turn(n, r.head, 1)
             room == [slot |-> r.slot, head |-> h, size |-> n - 1]
  <2>1. 1 \in 0 .. n /\ n - 1 \in 0 .. n
    OBVIOUS
  <2>2. Place(r, 1) = h
    BY <2>1, PlaceIs
  <2>3. h \in 0 .. n - 1
    BY <1>1, <2>1, Round
  <2>4. Turn(n, h, n - 1) = r.head
    BY <1>1 DEF Turn
  <2> HIDE DEF h
  <2>5. [r EXCEPT !.head = Place(r, 1), !.size = @ - 1] = room
    <3>1. [r EXCEPT !.head = h, !.size = @ - 1]
            = [slot |-> r.slot, head |-> h, size |-> r.size - 1]
      BY <1>2, MoveIs
    <3>2. QED
      BY <1>4, <2>2, <3>1
  <2>6. room \in Rings(n, E)
    BY <1>2, <2>1, <2>3 DEF Rings
  <2>7. Place(room, room.size) = r.head
    <3>1. room.size = n - 1 /\ room.head = h
      OBVIOUS
    <3> HIDE DEF room
    <3>2. Place(room, n - 1) = Turn(n, room.head, n - 1)
      BY <2>1, <2>6, PlaceIs
    <3>3. QED
      BY <2>4, <3>1, <3>2
  <2>8. Record(r, e) = [room EXCEPT !.slot[Place(room, room.size)] = e, !.size = @ + 1]
    BY <1>3, <1>4, <2>5, Zenon DEF Record
  <2>9. Record(r, e) = [room EXCEPT !.slot[r.head] = e, !.size = @ + 1]
    BY <2>7, <2>8, Zenon
  <2>10. [room EXCEPT !.slot[r.head] = e, !.size = @ + 1]
           = [slot |-> [r.slot EXCEPT ![r.head] = e], head |-> h, size |-> (n - 1) + 1]
    <3>1. /\ room.slot = r.slot /\ room.head = h /\ room.size = n - 1
          /\ room = [slot |-> room.slot, head |-> room.head, size |-> room.size]
      OBVIOUS
    <3> HIDE DEF room
    <3>2. [room EXCEPT !.slot[r.head] = e, !.size = @ + 1]
            = [slot |-> [room.slot EXCEPT ![r.head] = e], head |-> room.head,
               size |-> room.size + 1]
      BY <3>1, PutIs
    <3>3. QED
      BY <3>1, <3>2
  <2>11. (n - 1) + 1 = n
    OBVIOUS
  <2>12. QED
    BY <1>4, <2>9, <2>10, <2>11 DEF h
<1>5. CASE r.size # n
  <2>1. Place(r, r.size) = Turn(n, r.head, r.size)
    BY <1>1, PlaceIs
  <2>2. Record(r, e) = [r EXCEPT !.slot[Turn(n, r.head, r.size)] = e, !.size = @ + 1]
    BY <1>3, <1>5, <2>1, Zenon DEF Record
  <2>3. [r EXCEPT !.slot[Turn(n, r.head, r.size)] = e, !.size = @ + 1]
          = [slot |-> [r.slot EXCEPT ![Turn(n, r.head, r.size)] = e],
             head |-> r.head, size |-> r.size + 1]
    BY <1>2, PutIs
  <2>4. QED
    BY <1>5, <2>2, <2>3
<1>6. QED
  BY <1>4, <1>5

LEMMA RecordRing ==
  ASSUME NEW n \in Nat \ {0}, NEW E, NEW r \in Rings(n, E), NEW e \in E
  PROVE  Record(r, e) \in Rings(n, E)
<1>1. r.head \in 0 .. n - 1 /\ r.size \in 0 .. n
  BY Parts
<1>2. r.slot \in [0 .. n - 1 -> E]
  BY Slots
<1>3. 1 \in 0 .. n
  OBVIOUS
<1>4. Turn(n, r.head, 1) \in 0 .. n - 1
  BY <1>1, <1>3, Round
<1>5. r.size # n => r.size + 1 \in 0 .. n
  BY <1>1
<1>6. n \in 0 .. n
  OBVIOUS
<1>7. CASE r.size = n
  <2>1. Record(r, e) = [slot |-> [r.slot EXCEPT ![r.head] = e],
                        head |-> Turn(n, r.head, 1), size |-> n]
    BY <1>7, RecordIs
  <2>2. QED
    BY <1>2, <1>4, <1>6, <2>1 DEF Rings
<1>8. CASE r.size # n
  <2>1. Record(r, e) = [slot |-> [r.slot EXCEPT ![Turn(n, r.head, r.size)] = e],
                        head |-> r.head, size |-> r.size + 1]
    BY <1>8, RecordIs
  <2>2. [r.slot EXCEPT ![Turn(n, r.head, r.size)] = e] \in [0 .. n - 1 -> E]
    BY <1>2
  <2>3. QED
    BY <1>1, <1>5, <1>8, <2>1, <2>2 DEF Rings
<1>9. QED
  BY <1>7, <1>8

\* One entry more: the ring drops its oldest where it is full, and so does s.
LEMMA RecordShows ==
  ASSUME NEW n \in Nat \ {0}, NEW E, NEW r \in Rings(n, E), NEW e \in E,
         NEW s \in Seq(E), Shows(r, n, s)
  PROVE  Shows(Record(r, e), n, Last(Append(s, e), n))
<1> DEFINE t == Record(r, e)
<1>1. r.head \in 0 .. n - 1 /\ r.size = Len(s) /\ r.size \in 0 .. n
  BY Parts DEF Shows
<1>2. r.slot \in [0 .. n - 1 -> E]
  BY Slots
<1>3. CASE r.size = n
  <2>1. t = [slot |-> [r.slot EXCEPT ![r.head] = e],
             head |-> Turn(n, r.head, 1), size |-> n]
    BY <1>3, RecordIs
  <2>2. t.slot = [r.slot EXCEPT ![r.head] = e] /\ t.head = Turn(n, r.head, 1) /\ t.size = n
    BY <2>1
  <2> DEFINE u == Tail(Append(s, e))
  <2>3. Len(Append(s, e)) = n + 1 /\ Append(s, e) \in Seq(E)
    <3>1. Append(s, e) \in Seq(E) /\ Len(Append(s, e)) = Len(s) + 1
      OBVIOUS
    <3>2. QED
      BY <1>1, <1>3, <3>1
  <2>4. Last(Append(s, e), n) = u
    BY <2>3 DEF Last
  <2>5. Append(s, e) # <<>>
    BY <2>3
  <2>6. Len(u) = n /\ \A i \in 1 .. n : u[i] = Append(s, e)[i + 1]
    BY <2>3, <2>5
  <2>7. \A i \in 1 .. n : Append(s, e)[i + 1] = IF i = n THEN e ELSE s[i + 1]
    <3>1. \A i \in 1 .. Len(s) : Append(s, e)[i + 1] = IF i = Len(s) THEN e ELSE s[i + 1]
      OBVIOUS
    <3>2. Len(s) = n
      BY <1>1, <1>3
    <3>3. QED
      BY <3>1, <3>2
  <2> HIDE DEF t, u
  <2>8. ASSUME NEW i \in 1 .. n PROVE t.slot[Turn(n, t.head, i - 1)] = u[i]
    <3>1. Turn(n, t.head, i - 1) = Turn(n, r.head, i)
      <4>1. Turn(n, Turn(n, r.head, 1), i - 1) = Turn(n, r.head, i)
        BY <1>1 DEF Turn
      <4>2. QED
        BY <2>2, <4>1
    <3>2. CASE i = n
      <4>1. Turn(n, r.head, i) = r.head
        BY <1>1, <3>2 DEF Turn
      <4>2. t.slot[r.head] = e
        BY <1>1, <1>2, <2>2
      <4>3. QED
        BY <2>6, <2>7, <3>1, <3>2, <4>1, <4>2
    <3>3. CASE i # n
      <4>1. Turn(n, r.head, i) # r.head /\ Turn(n, r.head, i) \in 0 .. n - 1
        BY <1>1, <3>3 DEF Turn
      <4>2. i + 1 \in 1 .. Len(s) /\ (i + 1) - 1 = i
        BY <1>1, <1>3, <3>3
      <4>3. r.slot[Turn(n, r.head, i)] = s[i + 1]
        BY <4>2 DEF Shows
      <4>4. t.slot[Turn(n, r.head, i)] = r.slot[Turn(n, r.head, i)]
        BY <1>2, <2>2, <4>1
      <4>5. QED
        BY <2>6, <2>7, <3>1, <3>3, <4>3, <4>4
    <3>4. QED
      BY <3>2, <3>3
  <2>9. QED
    BY <2>2, <2>4, <2>6, <2>8 DEF Shows, t
<1>4. CASE r.size # n
  <2> DEFINE x == Turn(n, r.head, r.size)
             u == Append(s, e)
  <2>1. t = [slot |-> [r.slot EXCEPT ![x] = e], head |-> r.head, size |-> r.size + 1]
    BY <1>4, RecordIs
  <2>2. t.slot = [r.slot EXCEPT ![x] = e] /\ t.head = r.head /\ t.size = r.size + 1
    BY <2>1
  <2>3. Last(u, n) = u /\ Len(u) = r.size + 1
    BY <1>1, <1>4 DEF Last
  <2>4. ASSUME NEW i \in 1 .. r.size + 1 PROVE u[i] = IF i = r.size + 1 THEN e ELSE s[i]
    BY <1>1
  <2> HIDE DEF t, u
  <2>5. ASSUME NEW i \in 1 .. r.size + 1 PROVE t.slot[Turn(n, t.head, i - 1)] = u[i]
    <3>1. Turn(n, r.head, i - 1) \in 0 .. n - 1
      BY <1>1, <1>4 DEF Turn
    <3>2. CASE i = r.size + 1
      <4>1. i - 1 = r.size
        BY <1>1, <3>2
      <4>2. QED
        BY <1>2, <2>2, <2>4, <3>1, <3>2, <4>1
    <3>3. CASE i # r.size + 1
      <4>1. Turn(n, r.head, i - 1) # x
        BY <1>1, <1>4, <3>3 DEF Turn
      <4>2. i \in 1 .. Len(s)
        BY <1>1, <3>3
      <4>3. r.slot[Turn(n, r.head, i - 1)] = s[i]
        BY <4>2 DEF Shows
      <4>4. t.slot[Turn(n, t.head, i - 1)] = r.slot[Turn(n, r.head, i - 1)]
        BY <1>2, <2>2, <3>1, <4>1
      <4>5. QED
        BY <2>4, <3>3, <4>3, <4>4
    <3>4. QED
      BY <3>2, <3>3
  <2>6. QED
    BY <2>2, <2>3, <2>5 DEF Shows, t, u
<1>5. QED
  BY <1>3, <1>4

\* RequestLog.Record and Timeline.Observe make room in different ways and come
\* to the same.
LEMMA ObserveIsRecord ==
  ASSUME NEW n \in Nat \ {0}, NEW E, NEW r \in Rings(n, E), NEW e \in E
  PROVE  Observe(r, e) = Record(r, e)
<1>1. r.head \in 0 .. n - 1 /\ r.size \in 0 .. n
  BY Parts
<1>2. r = [slot |-> r.slot, head |-> r.head, size |-> r.size]
  BY Slots
<1>3. Places(r) = n
  BY PlacesOf
<1>4. CASE r.size = n
  <2>1. 1 \in 0 .. n
    OBVIOUS
  <2>2. Place(r, 1) = Turn(n, r.head, 1)
    BY <2>1, PlaceIs
  <2>3. Observe(r, e) = [r EXCEPT !.slot[r.head] = e, !.head = Turn(n, r.head, 1)]
    BY <1>3, <1>4, <2>2, Zenon DEF Observe
  <2>4. [r EXCEPT !.slot[r.head] = e, !.head = Turn(n, r.head, 1)]
          = [[r EXCEPT !.slot[r.head] = e] EXCEPT !.head = Turn(n, r.head, 1)]
    OBVIOUS
  <2>5. [r EXCEPT !.slot[r.head] = e]
          = [slot |-> [r.slot EXCEPT ![r.head] = e], head |-> r.head, size |-> r.size]
    BY <1>2
  <2>6. [[slot |-> [r.slot EXCEPT ![r.head] = e], head |-> r.head, size |-> r.size]
            EXCEPT !.head = Turn(n, r.head, 1)]
          = [slot |-> [r.slot EXCEPT ![r.head] = e], head |-> Turn(n, r.head, 1),
             size |-> r.size]
    OBVIOUS
  <2>7. Record(r, e) = [slot |-> [r.slot EXCEPT ![r.head] = e],
                        head |-> Turn(n, r.head, 1), size |-> n]
    BY <1>4, RecordIs
  <2>8. QED
    BY <1>4, <2>3, <2>4, <2>5, <2>6, <2>7
<1>5. CASE r.size # n
  <2>1. Observe(r, e) = [r EXCEPT !.slot[Place(r, r.size)] = e, !.size = @ + 1]
    BY <1>3, <1>5, Zenon DEF Observe
  <2>2. Record(r, e) = [r EXCEPT !.slot[Place(r, r.size)] = e, !.size = @ + 1]
    BY <1>3, <1>5, Zenon DEF Record
  <2>3. QED
    BY <2>1, <2>2
<1>6. QED
  BY <1>4, <1>5

\* What Recent returns, however often the ring has gone round.
LEMMA RecentShows ==
  ASSUME NEW n \in Nat \ {0}, NEW E, NEW r \in Rings(n, E),
         NEW s \in Seq(E), Shows(r, n, s), NEW k \in Nat
  PROVE  LET m == IF k = 0 \/ k > Len(s) THEN Len(s) ELSE k
         IN  Recent(r, k) = [i \in 1 .. m |-> s[Len(s) - i + 1]]
<1> DEFINE m == IF k = 0 \/ k > Len(s) THEN Len(s) ELSE k
<1>1. r.head \in 0 .. n - 1 /\ r.size = Len(s) /\ Len(s) \in 0 .. n
  BY Parts DEF Shows
<1>2. Places(r) = n
  BY PlacesOf
<1>3. Recent(r, k) = [i \in 1 .. m |-> r.slot[Place(r, r.size - i + n)]]
  BY <1>1, <1>2, Zenon DEF Recent
<1>4. ASSUME NEW i \in 1 .. m PROVE r.slot[Place(r, r.size - i + n)] = s[Len(s) - i + 1]
  <2>1. i \in 1 .. Len(s)
    BY <1>1
  <2> DEFINE y == Len(s) - i
  <2>2. y \in 0 .. n - 1
    BY <1>1, <2>1
  <2>3. Place(r, r.size - i + n) = (r.head + (y + n)) % n
    BY <1>1, <1>2 DEF Place
  <2>4. (r.head + (y + n)) % n = Turn(n, r.head, y)
    BY <1>1, <2>2, RoundAgain
  <2>5. y + 1 \in 1 .. Len(s) /\ (y + 1) - 1 = y
    BY <2>1, <1>1
  <2>6. r.slot[Turn(n, r.head, y)] = s[y + 1]
    BY <2>5 DEF Shows
  <2>7. QED
    BY <2>3, <2>4, <2>6
<1>5. QED
  BY <1>3, <1>4

------------------------------------------------------------------------------
(* Timeline.Frames on a ring.                                               *)

\* Every set of numbers that has a member has a least one.
LEMMA Least ==
  ASSUME NEW S \in SUBSET Nat, S # {}
  PROVE  \E i \in S : \A j \in S : i <= j
<1>1. PICK i \in S : \A j \in S : ~(<<j, i>> \in OpToRel(<, Nat))
  BY WFMin, NatLessThanWellFounded, Zenon
<1>2. \A j \in S : ~(j < i)
  BY <1>1, Zenon DEF OpToRel
<1>3. QED
  BY <1>2

LEMMA FirstIsIn ==
  ASSUME NEW S \in SUBSET Nat, S # {}
  PROVE  Nth(S, 1) \in S
<1>1. PICK i \in S : \A j \in S : i <= j
  BY Least
<1>2. {j \in S : j < i} = {}
  <2>1. \A j \in S : ~(j < i)
    <3>1. ASSUME NEW j \in S PROVE ~(j < i)
      BY <1>1
    <3>2. QED
      BY <3>1
  <2>2. QED
    BY <2>1, Zenon
<1>3. Cardinality({j \in S : j < i}) = 1 - 1
  BY <1>2, FS_EmptySet
<1>4. QED
  BY <1>3, Zenon DEF Nth

LEMMA NthOfRun ==
  ASSUME NEW a \in Nat, NEW b \in Nat, NEW k \in Nat, a + k <= b
  PROVE  Nth(a .. b, k + 1) = a + k
<1>1. ASSUME NEW i \in a .. b PROVE Cardinality({j \in a .. b : j < i}) = i - a
  <2>1. {j \in a .. b : j < i} = a .. i - 1
    OBVIOUS
  <2>2. Cardinality(a .. i - 1) = IF a > i - 1 THEN 0 ELSE (i - 1) - a + 1
    BY FS_Interval
  <2>3. Cardinality(a .. i - 1) = i - a
    BY <2>2
  <2>4. QED
    BY <2>1, <2>3, Zenon
<1>2. Nth(a .. b, k + 1) = CHOOSE i \in a .. b : Cardinality({j \in a .. b : j < i}) = (k + 1) - 1
  BY DEF Nth
<1>3. a + k \in a .. b
  OBVIOUS
<1>4. Cardinality({j \in a .. b : j < a + k}) = (k + 1) - 1
  BY <1>1, <1>3
<1>5. \A i \in a .. b : Cardinality({j \in a .. b : j < i}) = (k + 1) - 1 => i = a + k
  BY <1>1
<1>6. QED
  BY <1>2, <1>3, <1>4, <1>5

\* The one step by which Frames changes a ring.
LEMMA MoveTo ==
  ASSUME NEW r, r = [slot |-> r.slot, head |-> r.head, size |-> r.size], NEW h, NEW c
  PROVE  [[r EXCEPT !.head = h] EXCEPT !.size = c] = [slot |-> r.slot, head |-> h, size |-> c]
<1>1. [r EXCEPT !.head = h] = [slot |-> r.slot, head |-> h, size |-> r.size]
  OBVIOUS
<1>2. [[slot |-> r.slot, head |-> h, size |-> r.size] EXCEPT !.size = c]
        = [slot |-> r.slot, head |-> h, size |-> c]
  OBVIOUS
<1>3. QED
  BY <1>1, <1>2

\* Where every entry is inside the window, all are shown and the ring stays.
LEMMA FramesShow ==
  ASSUME NEW n \in Nat \ {0}, NEW E, NEW r \in Rings(n, E),
         NEW s \in Seq(E), Shows(r, n, s), NEW W, \A i \in 1 .. Len(s) : s[i] \in W
  PROVE  Frames(r, W) = [out |-> s, ring |-> r]
<1> DEFINE inside == {i \in 0 .. r.size - 1 : r.slot[Place(r, i)] \in W}
           first == Nth(inside, 1)
           moved == [r EXCEPT !.head = Place(r, first)]
           rest == {i \in first + 1 .. r.size - 1 : moved.slot[Place(moved, i)] \in W}
           more == [k \in 1 .. Cardinality(rest) |-> moved.slot[Place(moved, Nth(rest, k))]]
           out == <<moved.slot[moved.head]>> \o more
<1>1. Frames(r, W) = IF inside = {} THEN [out |-> <<>>, ring |-> [r EXCEPT !.size = 0]]
                     ELSE [out |-> out, ring |-> [moved EXCEPT !.size = Len(out)]]
  BY DEF Frames
<1>2. r.head \in 0 .. n - 1 /\ r.size = Len(s) /\ Len(s) \in 0 .. n
  BY Parts DEF Shows
<1>3. r = [slot |-> r.slot, head |-> r.head, size |-> r.size]
  BY Slots
<1>4. ASSUME NEW i \in 0 .. r.size - 1
      PROVE  r.slot[Place(r, i)] = s[i + 1] /\ s[i + 1] \in W /\ s[i + 1] \in E
  <2>1. i \in 0 .. n /\ i + 1 \in 1 .. Len(s) /\ (i + 1) - 1 = i
    BY <1>2
  <2>2. Place(r, i) = Turn(n, r.head, i)
    BY <2>1, PlaceIs
  <2>3. r.slot[Turn(n, r.head, i)] = s[i + 1]
    BY <2>1 DEF Shows
  <2>4. s[i + 1] \in E
    BY <2>1
  <2>5. QED
    BY <2>1, <2>2, <2>3, <2>4
<1>5. inside = 0 .. r.size - 1
  BY <1>4
<1> HIDE DEF inside, first, moved, rest, more, out
<1>6. CASE r.size = 0
  <2>1. inside = {}
    BY <1>5, <1>6
  <2>2. [r EXCEPT !.size = 0] = r
    BY <1>3, <1>6
  <2>3. s = <<>>
    <3>1. Len(s) = 0
      BY <1>2, <1>6
    <3>2. QED
      BY <3>1
  <2>4. QED
    BY <1>1, <2>1, <2>2, <2>3
<1>7. CASE r.size # 0
  <2> DEFINE b == r.size - 1
  <2>1. b \in Nat /\ b < n /\ b + 1 = r.size /\ r.size - 1 = b
    BY <1>2, <1>7
  <2> HIDE DEF b
  <2>2. first = 0
    <3>1. Nth(0 .. b, 1) = 0
      <4>1. 0 + 0 <= b /\ 0 + 1 = 1 /\ 0 + 0 = 0
        BY <2>1
      <4>2. Nth(0 .. b, 0 + 1) = 0 + 0
        BY <2>1, <4>1, NthOfRun
      <4>3. QED
        BY <4>1, <4>2
    <3>2. QED
      BY <1>5, <2>1, <3>1 DEF first
  <2>3. moved = r
    <3>1. 0 \in 0 .. n
      OBVIOUS
    <3>2. Place(r, 0) = Turn(n, r.head, 0)
      BY <3>1, PlaceIs
    <3>3. Turn(n, r.head, 0) = r.head
      BY <1>2 DEF Turn
    <3>4. [r EXCEPT !.head = r.head] = r
      BY <1>3
    <3>5. QED
      BY <2>2, <3>2, <3>3, <3>4 DEF moved
  <2>4. rest = 1 .. b
    <3>1. rest = {i \in 0 + 1 .. r.size - 1 : r.slot[Place(r, i)] \in W}
      BY <2>2, <2>3 DEF rest
    <3>2. \A i \in 1 .. b : r.slot[Place(r, i)] \in W
      BY <1>4, <2>1
    <3>3. 0 + 1 .. r.size - 1 = 1 .. b
      BY <2>1
    <3>4. QED
      BY <3>1, <3>2, <3>3
  <2>5. Cardinality(rest) = b
    <3>1. Cardinality(1 .. b) = IF 1 > b THEN 0 ELSE b - 1 + 1
      <4>1. 1 \in Int /\ b \in Int
        BY <2>1
      <4>2. QED
        BY <4>1, FS_Interval
    <3>2. Cardinality(1 .. b) = b
      BY <2>1, <3>1
    <3>3. QED
      BY <2>4, <3>2
  <2>6. more = [k \in 1 .. b |-> s[k + 1]]
    <3>1. ASSUME NEW k \in 1 .. b PROVE moved.slot[Place(moved, Nth(rest, k))] = s[k + 1]
      <4>1. k - 1 \in Nat /\ 1 + (k - 1) <= b /\ (k - 1) + 1 = k /\ 1 + (k - 1) = k
        BY <2>1
      <4>2. Nth(1 .. b, (k - 1) + 1) = 1 + (k - 1)
        BY <2>1, <4>1, NthOfRun
      <4>3. Nth(rest, k) = k
        BY <2>4, <4>1, <4>2
      <4>4. r.slot[Place(r, k)] = s[k + 1]
        BY <1>4, <2>1
      <4>5. QED
        BY <2>3, <4>3, <4>4
    <3>2. more = [k \in 1 .. b |-> moved.slot[Place(moved, Nth(rest, k))]]
      BY <2>5, Zenon DEF more
    <3>3. QED
      BY <3>1, <3>2
  <2>7. moved.slot[moved.head] = s[1]
    <3>1. Turn(n, r.head, 1 - 1) = r.head
      BY <1>2 DEF Turn
    <3>2. 1 \in 1 .. Len(s)
      BY <1>2, <1>7
    <3>3. QED
      BY <2>3, <3>1, <3>2 DEF Shows
  <2>8. out = s
    <3>1. out = <<s[1]>> \o [k \in 1 .. b |-> s[k + 1]]
      BY <2>6, <2>7, Zenon DEF out
    <3>2. Len(s) = b + 1
      BY <1>2, <2>1
    <3> DEFINE m == [k \in 1 .. b |-> s[k + 1]]
    <3>3. m \in Seq(E) /\ Len(m) = b /\ \A k \in 1 .. b : m[k] = s[k + 1]
      BY <2>1, <3>2
    <3>4. <<s[1]>> \in Seq(E) /\ Len(<<s[1]>>) = 1 /\ <<s[1]>>[1] = s[1]
      <4>1. s[1] \in E
        BY <2>1, <3>2
      <4>2. QED
        BY <4>1
    <3> HIDE DEF m
    <3> DEFINE w == <<s[1]>> \o m
    <3>5. w \in Seq(E) /\ Len(w) = b + 1
      BY <3>3, <3>4, <2>1
    <3>6. ASSUME NEW i \in 1 .. Len(s) PROVE w[i] = s[i]
      <4>1. CASE i = 1
        BY <2>1, <3>3, <3>4, <4>1
      <4>2. CASE i # 1
        <5>1. i - 1 \in 1 .. b /\ (i - 1) + 1 = i
          BY <2>1, <3>2, <4>2
        <5>2. w[i] = m[i - 1]
          BY <2>1, <3>2, <3>3, <3>4, <4>2
        <5>3. QED
          BY <3>3, <5>1, <5>2
      <4>3. QED
        BY <4>1, <4>2
    <3> HIDE DEF w
    <3>7. w = s
      BY <3>2, <3>5, <3>6
    <3>8. QED
      BY <3>1, <3>7 DEF w, m
  <2>9. [moved EXCEPT !.size = Len(out)] = r
    BY <1>2, <1>3, <2>3, <2>8
  <2>10. inside # {}
    <3>1. 0 \in 0 .. r.size - 1
      BY <2>1
    <3>2. QED
      BY <1>5, <3>1
  <2>11. QED
    BY <1>1, <2>8, <2>9, <2>10
<1>8. QED
  BY <1>6, <1>7

\* Whatever Frames drops, a ring of its size is left.
LEMMA FramesRing ==
  ASSUME NEW n \in Nat \ {0}, NEW E, NEW r \in Rings(n, E), NEW W
  PROVE  Frames(r, W).ring \in Rings(n, E)
<1> DEFINE inside == {i \in 0 .. r.size - 1 : r.slot[Place(r, i)] \in W}
           first == Nth(inside, 1)
           moved == [r EXCEPT !.head = Place(r, first)]
           rest == {i \in first + 1 .. r.size - 1 : moved.slot[Place(moved, i)] \in W}
           more == [k \in 1 .. Cardinality(rest) |-> moved.slot[Place(moved, Nth(rest, k))]]
           out == <<moved.slot[moved.head]>> \o more
<1>1. /\ inside = {} => Frames(r, W).ring = [r EXCEPT !.size = 0]
      /\ inside # {} => Frames(r, W).ring = [moved EXCEPT !.size = Len(out)]
  <2>1. Frames(r, W) = IF inside = {} THEN [out |-> <<>>, ring |-> [r EXCEPT !.size = 0]]
                       ELSE [out |-> out, ring |-> [moved EXCEPT !.size = Len(out)]]
    BY DEF Frames
  <2> HIDE DEF inside, first, moved, rest, more, out
  <2>2. QED
    BY <2>1
<1>2. r.head \in 0 .. n - 1 /\ r.size \in 0 .. n
  BY Parts
<1>3. /\ r.slot \in [0 .. n - 1 -> E]
      /\ r = [slot |-> r.slot, head |-> r.head, size |-> r.size]
  BY Slots
<1>4. inside \in SUBSET Nat /\ inside \subseteq 0 .. r.size - 1
  BY <1>2
<1> HIDE DEF inside, first, moved, rest, more, out
<1>5. CASE inside = {}
  <2>1. [r EXCEPT !.size = 0] = [slot |-> r.slot, head |-> r.head, size |-> 0]
    BY <1>3
  <2>2. QED
    BY <1>1, <1>2, <1>3, <1>5, <2>1 DEF Rings
<1>6. CASE inside # {}
  <2>1. first \in 0 .. r.size - 1
    BY <1>4, <1>6, FirstIsIn DEF first
  <2>2. Place(r, first) = Turn(n, r.head, first)
    <3>1. first \in 0 .. n
      BY <1>2, <2>1
    <3>2. QED
      BY <3>1, PlaceIs
  <2>3. Turn(n, r.head, first) \in 0 .. n - 1
    BY <1>2, <2>1 DEF Turn
  <2>4. Cardinality(rest) \in 0 .. n - 1
    <3>1. rest \in SUBSET (1 .. n - 1)
      BY <1>2, <2>1 DEF rest
    <3>2. IsFiniteSet(1 .. n - 1) /\ Cardinality(1 .. n - 1) = IF 1 > n - 1 THEN 0 ELSE (n - 1) - 1 + 1
      BY FS_Interval
    <3>3. IsFiniteSet(rest) /\ Cardinality(rest) <= Cardinality(1 .. n - 1)
      BY <3>1, <3>2, FS_Subset
    <3>4. Cardinality(rest) \in Nat
      BY <3>3, FS_CardinalityType
    <3>5. QED
      BY <3>2, <3>3, <3>4
  <2>5. Len(out) \in 0 .. n
    <3> DEFINE c == Cardinality(rest)
               A == {moved.slot[Place(moved, Nth(rest, k))] : k \in 1 .. c}
                      \cup {moved.slot[moved.head]}
    <3>1. more = [k \in 1 .. c |-> moved.slot[Place(moved, Nth(rest, k))]]
      BY DEF more
    <3>2. \A k \in 1 .. c : moved.slot[Place(moved, Nth(rest, k))] \in A
      OBVIOUS
    <3>3. moved.slot[moved.head] \in A
      OBVIOUS
    <3> HIDE DEF c, A
    <3>4. c \in 0 .. n - 1
      BY <2>4 DEF c
    <3>5. more \in Seq(A) /\ Len(more) = c
      BY <3>1, <3>2, <3>4
    <3>6. <<moved.slot[moved.head]>> \in Seq(A) /\ Len(<<moved.slot[moved.head]>>) = 1
      BY <3>3
    <3>7. Len(out) = 1 + c
      BY <3>4, <3>5, <3>6 DEF out
    <3>8. QED
      BY <3>4, <3>7
  <2>6. [moved EXCEPT !.size = Len(out)]
          = [slot |-> r.slot, head |-> Turn(n, r.head, first), size |-> Len(out)]
    BY <1>3, <2>2, MoveTo DEF moved
  <2>7. QED
    BY <1>1, <1>3, <1>6, <2>3, <2>5, <2>6 DEF Rings
<1>7. QED
  BY <1>5, <1>6

\* A tick ages a ring's places and what it shows alike.
Aging(r) == [r EXCEPT !.slot = [i \in DOMAIN @ |-> Aged(@[i])]]

LEMMA AgedRing ==
  ASSUME NEW n \in Nat \ {0}, NEW r \in Rings(n, 0 .. Blank)
  PROVE  /\ Aging(r) \in Rings(n, 0 .. Blank)
         /\ \A s \in Seq(0 .. Blank) :
              Shows(r, n, s) => Shows(Aging(r), n, [i \in DOMAIN s |-> Aged(s[i])])
<1>1. r.head \in 0 .. n - 1 /\ r.size \in 0 .. n
  BY Parts
<1>2. /\ r.slot \in [0 .. n - 1 -> 0 .. Blank]
      /\ r = [slot |-> r.slot, head |-> r.head, size |-> r.size]
  BY Slots
<1> DEFINE a == [i \in 0 .. n - 1 |-> Aged(r.slot[i])]
<1>3. Aging(r) = [slot |-> a, head |-> r.head, size |-> r.size]
  <2>1. [i \in DOMAIN r.slot |-> Aged(r.slot[i])] = a
    BY <1>2
  <2> HIDE DEF a
  <2>2. Aging(r) = [r EXCEPT !.slot = a]
    BY <2>1, Zenon DEF Aging
  <2>3. QED
    BY <1>2, <2>2
<1>4. a \in [0 .. n - 1 -> 0 .. Blank]
  <2>1. \A x \in 0 .. Blank : Aged(x) \in 0 .. Blank
    BY EdgeAssumption DEF Aged, Blank
  <2>2. QED
    BY <1>2, <2>1
<1> HIDE DEF a
<1>5. Aging(r) \in Rings(n, 0 .. Blank)
  BY <1>1, <1>3, <1>4 DEF Rings
<1>6. ASSUME NEW s \in Seq(0 .. Blank), Shows(r, n, s)
      PROVE  Shows(Aging(r), n, [i \in DOMAIN s |-> Aged(s[i])])
  <2> DEFINE u == [i \in 1 .. Len(s) |-> Aged(s[i])]
  <2>1. [i \in DOMAIN s |-> Aged(s[i])] = u
    <3>1. DOMAIN s = 1 .. Len(s)
      OBVIOUS
    <3>2. QED
      BY <3>1
  <2>2. Len(u) = Len(s) /\ r.size = Len(s)
    BY <1>6 DEF Shows
  <2>3. ASSUME NEW i \in 1 .. Len(s) PROVE a[Turn(n, r.head, i - 1)] = u[i]
    <3>1. i - 1 \in 0 .. n
      BY <1>1, <2>2
    <3>2. Turn(n, r.head, i - 1) \in 0 .. n - 1
      BY <1>1, <3>1, Round
    <3>3. r.slot[Turn(n, r.head, i - 1)] = s[i]
      BY <1>6 DEF Shows
    <3>4. QED
      BY <3>2, <3>3 DEF a
  <2> HIDE DEF u
  <2>4. Shows(Aging(r), n, u)
    BY <1>3, <2>2, <2>3 DEF Shows
  <2>5. QED
    BY <2>1, <2>4
<1>7. QED
  BY <1>5, <1>6

LEMMA EntryType == ASSUME NEW E, NEW s \in Seq(E), NEW i \in 1 .. Len(s) PROVE s[i] \in E
  OBVIOUS

LEMMA AgedSeq ==
  ASSUME NEW s \in Seq(0 .. Blank)
  PROVE  [i \in DOMAIN s |-> Aged(s[i])] \in Seq(0 .. Blank)
<1>1. ASSUME NEW i \in 1 .. Len(s) PROVE Aged(s[i]) \in 0 .. Blank
  <2>1. s[i] \in 0 .. Blank
    BY EntryType
  <2>2. QED
    BY <2>1, EdgeAssumption DEF Aged, Blank
<1>2. DOMAIN s = 1 .. Len(s) /\ Len(s) \in Nat
  OBVIOUS
<1>3. [i \in 1 .. Len(s) |-> Aged(s[i])] \in Seq(0 .. Blank)
  BY <1>1, <1>2
<1>4. QED
  BY <1>2, <1>3

\* A ring that nothing was put into.
LEMMA RingShows ==
  ASSUME NEW n \in Nat \ {0}, NEW E, NEW e \in E
  PROVE  Ring(n, e) \in Rings(n, E) /\ Shows(Ring(n, e), n, <<>>)
  BY DEF Ring, Rings, Shows

------------------------------------------------------------------------------
(* The two rings in every state.                                            *)

Handled == {"none", "called", "joined"}

\* Rings, histories and calls keep their types.
RingsOK ==
  /\ began \in [Callers -> 0 .. Blank]
  /\ timeline \in Rings(Charted, 0 .. Blank)
  /\ log \in Rings(Logged, Handled)
  /\ frames \in Seq(0 .. Blank)
  /\ entries \in Seq(Handled)

\* Each ring shows its history: the chart until it has dropped a frame.
RingsInv ==
  /\ RingsOK
  /\ Shows(log, Logged, entries)
  /\ ~expired => Shows(timeline, Charted, frames)

LEMMA LastType ==
  ASSUME NEW E, NEW s \in Seq(E), NEW e \in E, NEW n \in Nat
  PROVE  Last(Append(s, e), n) \in Seq(E)
<1>1. Append(s, e) \in Seq(E) /\ Append(s, e) # <<>>
  <2>1. Append(s, e) \in Seq(E) /\ Len(Append(s, e)) = Len(s) + 1 /\ Len(s) \in Nat
    OBVIOUS
  <2>2. Len(Append(s, e)) # 0
    BY <2>1
  <2>3. QED
    BY <2>1, <2>2
<1>2. Tail(Append(s, e)) \in Seq(E)
  BY <1>1
<1>3. QED
  BY <1>1, <1>2 DEF Last

\* What a step may do to the chart.
LEMMA ChartCases ==
  ASSUME [Next]_vars
  PROVE  \/ UNCHANGED <<timeline, frames, expired>>
         \/ \E c \in Callers : Charts(c) /\ UNCHANGED expired
         \/ Look
         \/ Passes
<1>1. ASSUME NEW c \in Callers, Calls(c) \/ Joins(c) \/ Returns(c) \/ Expires(c)
      PROVE  UNCHANGED <<timeline, frames, expired>>
  BY <1>1 DEF Calls, Joins, Returns, Expires
<1>2. ASSUME NEW c \in Callers, Ends(c) PROVE Charts(c) /\ UNCHANGED expired
  BY <1>2 DEF Ends
<1>3. CASE UNCHANGED vars
  BY <1>3 DEF vars
<1>4. QED
  BY <1>1, <1>2, <1>3, Zenon DEF Next

\* And to the log.
LEMMA LogCases ==
  ASSUME [Next]_vars
  PROVE  UNCHANGED <<log, entries>> \/ Logs("called") \/ Logs("joined")
<1>1. ASSUME NEW c \in Callers, Calls(c) \/ Joins(c) \/ Expires(c)
      PROVE  UNCHANGED <<log, entries>>
  BY <1>1 DEF Calls, Joins, Expires
<1>2. ASSUME NEW c \in Callers, Ends(c) \/ Returns(c)
      PROVE  UNCHANGED <<log, entries>> \/ Logs("called") \/ Logs("joined")
  BY <1>2 DEF Ends, Returns
<1>3. CASE Look \/ Passes \/ UNCHANGED vars
  BY <1>3 DEF Look, Passes, vars
<1>4. QED
  BY <1>1, <1>2, <1>3, Zenon DEF Next

LEMMA RingsStep ==
  ASSUME RingsInv, [Next]_vars
  PROVE  RingsInv'
<1>1. /\ Charted \in Nat \ {0} /\ Logged \in Nat \ {0}
      /\ Blank \in Nat /\ 0 \in 0 .. Blank
  BY EdgeAssumption DEF Blank
<1>2. /\ timeline \in Rings(Charted, 0 .. Blank) /\ frames \in Seq(0 .. Blank)
      /\ ~expired => Shows(timeline, Charted, frames)
  BY DEF RingsInv, RingsOK
<1>3. /\ log \in Rings(Logged, Handled) /\ entries \in Seq(Handled)
      /\ Shows(log, Logged, entries)
  BY DEF RingsInv, RingsOK
<1>4. began' \in [Callers -> 0 .. Blank]
  <2>1. began \in [Callers -> 0 .. Blank]
    BY DEF RingsInv, RingsOK
  <2>2. \A x \in 0 .. Blank : Aged(x) \in 0 .. Blank
    BY <1>1 DEF Aged
  <2>3. ASSUME NEW c \in Callers, Calls(c) \/ Joins(c) \/ Ends(c) \/ Returns(c) \/ Expires(c)
        PROVE  UNCHANGED began \/ began' = [began EXCEPT ![c] = 0]
    BY <2>3 DEF Calls, Joins, Ends, Returns, Expires
  <2>4. ASSUME Passes PROVE began' \in [Callers -> 0 .. Blank]
    <3>1. began' = [c \in Callers |->
                      IF pc[c] \in {"alone", "leading"} THEN Aged(began[c]) ELSE 0]
      BY <2>4 DEF Passes
    <3>2. QED
      BY <1>1, <2>1, <2>2, <3>1
  <2>5. Look \/ UNCHANGED vars => UNCHANGED began
    BY DEF Look, vars
  <2>6. QED
    BY <1>1, <2>1, <2>3, <2>4, <2>5 DEF Next
<1>5. /\ log' \in Rings(Logged, Handled) /\ entries' \in Seq(Handled)
      /\ Shows(log', Logged, entries')
  <2>1. CASE UNCHANGED <<log, entries>>
    BY <1>3, <2>1
  <2>2. ASSUME NEW e \in {"called", "joined"}, Logs(e)
        PROVE  /\ log' \in Rings(Logged, Handled) /\ entries' \in Seq(Handled)
               /\ Shows(log', Logged, entries')
    <3>1. log' = Record(log, e) /\ entries' = Last(Append(entries, e), Logged)
      BY <2>2 DEF Logs
    <3>2. e \in Handled
      BY DEF Handled
    <3>3. Record(log, e) \in Rings(Logged, Handled)
      BY <1>1, <1>3, <3>2, RecordRing
    <3>4. Last(Append(entries, e), Logged) \in Seq(Handled)
      BY <1>1, <1>3, <3>2, LastType
    <3>5. Shows(Record(log, e), Logged, Last(Append(entries, e), Logged))
      BY <1>1, <1>3, <3>2, RecordShows
    <3>6. QED
      BY <3>1, <3>3, <3>4, <3>5
  <2>3. QED
    BY <2>1, <2>2, LogCases
<1>6. /\ timeline' \in Rings(Charted, 0 .. Blank) /\ frames' \in Seq(0 .. Blank)
      /\ ~expired' => Shows(timeline', Charted, frames')
  <2>1. CASE UNCHANGED <<timeline, frames, expired>>
    BY <1>2, <2>1
  <2>2. ASSUME NEW c \in Callers, Charts(c), UNCHANGED expired
        PROVE  /\ timeline' \in Rings(Charted, 0 .. Blank) /\ frames' \in Seq(0 .. Blank)
               /\ ~expired' => Shows(timeline', Charted, frames')
    <3> DEFINE f == began[c]
    <3>1. timeline' = Observe(timeline, f) /\ frames' = Last(Append(frames, f), Charted)
      BY <2>2 DEF Charts
    <3>2. f \in 0 .. Blank
      BY DEF RingsInv, RingsOK
    <3> HIDE DEF f
    <3>3. Observe(timeline, f) = Record(timeline, f)
      BY <1>1, <1>2, <3>2, ObserveIsRecord
    <3>4. Record(timeline, f) \in Rings(Charted, 0 .. Blank)
      BY <1>1, <1>2, <3>2, RecordRing
    <3>5. Last(Append(frames, f), Charted) \in Seq(0 .. Blank)
      BY <1>1, <1>2, <3>2, LastType
    <3>6. ~expired => Shows(Record(timeline, f), Charted, Last(Append(frames, f), Charted))
      BY <1>1, <1>2, <3>2, RecordShows
    <3>7. QED
      BY <2>2, <3>1, <3>3, <3>4, <3>5, <3>6
  <2>3. ASSUME Look
        PROVE  /\ timeline' \in Rings(Charted, 0 .. Blank) /\ frames' \in Seq(0 .. Blank)
               /\ ~expired' => Shows(timeline', Charted, frames')
    <3>1. /\ timeline' = Frames(timeline, Inside).ring
          /\ expired' = (expired \/ \E i \in DOMAIN frames : frames[i] \notin Inside)
          /\ frames' = frames
      BY <2>3 DEF Look
    <3>2. Frames(timeline, Inside).ring \in Rings(Charted, 0 .. Blank)
      BY <1>1, <1>2, FramesRing
    <3>3. ASSUME ~expired' PROVE timeline' = timeline /\ ~expired
      <4>1. ~expired /\ \A i \in 1 .. Len(frames) : frames[i] \in Inside
        <5>1. DOMAIN frames = 1 .. Len(frames)
          BY <1>2
        <5>2. ~(expired \/ \E i \in DOMAIN frames : frames[i] \notin Inside)
          BY <3>1, <3>3, Zenon
        <5>3. QED
          BY <5>1, <5>2, Zenon
      <4>2. Frames(timeline, Inside) = [out |-> frames, ring |-> timeline]
        BY <1>1, <1>2, <4>1, FramesShow
      <4>3. QED
        BY <3>1, <4>1, <4>2
    <3>4. QED
      BY <1>2, <3>1, <3>2, <3>3
  <2>4. ASSUME Passes
        PROVE  /\ timeline' \in Rings(Charted, 0 .. Blank) /\ frames' \in Seq(0 .. Blank)
               /\ ~expired' => Shows(timeline', Charted, frames')
    <3>1. /\ timeline' = Aging(timeline)
          /\ frames' = [i \in DOMAIN frames |-> Aged(frames[i])]
          /\ expired' = expired
      BY <2>4 DEF Passes, Aging
    <3>2. Aging(timeline) \in Rings(Charted, 0 .. Blank)
      BY <1>1, <1>2, AgedRing
    <3>3. [i \in DOMAIN frames |-> Aged(frames[i])] \in Seq(0 .. Blank)
      BY <1>2, AgedSeq
    <3>4. ~expired => Shows(Aging(timeline), Charted, [i \in DOMAIN frames |-> Aged(frames[i])])
      BY <1>1, <1>2, AgedRing
    <3>5. QED
      BY <3>1, <3>2, <3>3, <3>4
  <2>5. QED
    BY <2>1, <2>2, <2>3, <2>4, ChartCases
<1>7. QED
  BY <1>4, <1>5, <1>6 DEF RingsInv, RingsOK

------------------------------------------------------------------------------
(* The coalescer.                                                           *)

\* What a step of Edge is to Debounce.
DebounceNext ==
  \/ \E c \in Callers, k \in Keys : Lead(c, k) \/ Join(c, k)
  \/ \E c \in Callers : Alone(c) \/ Forwarded(c) \/ Take(c) \/ Quit(c)
  \/ \E c \in Callers : Answer(c) \/ Break(c) \/ Hold(c) \/ Expire(c)
  \/ Tick
  \/ UNCHANGED dvars

LEMMA DebounceStep == ASSUME [Next]_vars PROVE DebounceNext
<1>1. ASSUME NEW c \in Callers, Calls(c) \/ Joins(c) PROVE DebounceNext
  BY <1>1, Zenon DEF Calls, Joins, DebounceNext
<1>2. ASSUME NEW c \in Callers, Ends(c) \/ Returns(c) \/ Expires(c) PROVE DebounceNext
  BY <1>2, Zenon DEF Ends, Returns, Expires, DebounceNext
<1>3. CASE Look \/ Passes \/ UNCHANGED vars
  BY <1>3 DEF Look, Passes, vars, DebounceNext
<1>4. QED
  BY <1>1, <1>2, <1>3, Zenon DEF Next

LEMMA DebounceTypeStep ==
  ASSUME DebounceTypeOK, DebounceNext
  PROVE  DebounceTypeOK'
<1> USE DebounceAssumption DEF DebounceTypeOK
<1>1. ASSUME NEW c \in Callers, NEW k \in Keys, Lead(c, k) PROVE DebounceTypeOK'
  BY <1>1 DEF Lead
<1>2. ASSUME NEW c \in Callers, NEW k \in Keys, Join(c, k) PROVE DebounceTypeOK'
  BY <1>2 DEF Join
<1>3. ASSUME NEW c \in Callers, Alone(c) \/ Forwarded(c) \/ Take(c) \/ Quit(c)
      PROVE  DebounceTypeOK'
  BY <1>3 DEF Alone, Forwarded, Take, Quit
<1>4. ASSUME NEW c \in Callers, Answer(c) \/ Break(c) PROVE DebounceTypeOK'
  BY <1>4 DEF Answer, Break, Late
<1>5. ASSUME NEW c \in Callers, Hold(c) PROVE DebounceTypeOK'
  BY <1>5 DEF Hold
<1>6. ASSUME NEW c \in Callers, Expire(c) PROVE DebounceTypeOK'
  BY <1>6 DEF Expire
<1>7. CASE Tick
  <2>1. ASSUME NEW c \in Callers
        PROVE  (IF left[c] = Never THEN Never ELSE left[c] - 1) \in 0 .. Window \cup {Never}
    BY <1>7 DEF Tick
  <2>2. ASSUME NEW k \in Keys PROVE Older(since[k]) \in 0 .. Late \cup {Never}
    BY DEF Older, Late
  <2>3. QED
    BY <1>7, <2>1, <2>2 DEF Tick
<1>8. CASE UNCHANGED dvars
  BY <1>8 DEF dvars
<1>9. QED
  BY <1>1, <1>2, <1>3, <1>4, <1>5, <1>6, <1>7, <1>8 DEF DebounceNext

Leads == {"leading", "replaying"}

\* A URL's entry is its leader's, from the call on until the window after the
\* answer is over; and it is not removed before that.  Never is an age too, so
\* every age is one before it is compared.
FlightInv ==
  /\ \A k \in Keys : flight[k] # NoOne => asks[flight[k]] = k
  /\ \A c \in Callers :
       /\ pc[c] \in Leads \/ left[c] # Never => flight[asks[c]] = c
       /\ pc[c] \in Leads => left[c] = Never
       /\ pc[c] = "leading" => shared[c] = "open"
       /\ pc[c] = "replaying" => since[asks[c]] # Never
       /\ flight[asks[c]] = c /\ shared[c] = "done" => pc[c] = "replaying" \/ left[c] # Never
       /\ left[c] # Never => since[asks[c]] # Never /\ since[asks[c]] + left[c] >= Window
  /\ \A k \in Keys : flight[k] = NoOne /\ since[k] # Never => since[k] >= Window

\* Where no client stalls, the window starts with the answer, not after it.
OnTime ==
  \A c \in Callers :
    /\ pc[c] = "replaying" => since[asks[c]] = 0
    /\ left[c] # Never => since[asks[c]] + left[c] = Window

LEMMA FlightStep ==
  ASSUME DebounceTypeOK, FlightInv, DebounceNext
  PROVE  FlightInv'
<1> USE DebounceAssumption DEF DebounceTypeOK, FlightInv, Leads
<1>1. ASSUME NEW c \in Callers, NEW k \in Keys, Lead(c, k) PROVE FlightInv'
  BY <1>1 DEF Lead, New
<1>2. ASSUME NEW c \in Callers, NEW k \in Keys, Join(c, k) PROVE FlightInv'
  BY <1>2 DEF Join, New
<1>3. ASSUME NEW c \in Callers, Alone(c) \/ Forwarded(c) \/ Take(c) \/ Quit(c)
      PROVE  FlightInv'
  BY <1>3 DEF Alone, New, Forwarded, Take, Quit
<1>4. ASSUME NEW c \in Callers, Answer(c) PROVE FlightInv'
  BY <1>4 DEF Answer
<1>5. ASSUME NEW c \in Callers, Break(c) PROVE FlightInv'
  BY <1>5 DEF Break
<1>6. ASSUME NEW c \in Callers, Hold(c) PROVE FlightInv'
  BY <1>6 DEF Hold
<1>7. ASSUME NEW c \in Callers, Expire(c) PROVE FlightInv'
  BY <1>7 DEF Expire
<1>8. CASE Tick
  <2>1. /\ left' = [c \in Callers |-> IF left[c] = Never THEN Never ELSE left[c] - 1]
        /\ since' = [k \in Keys |-> Older(since[k])]
        /\ UNCHANGED <<pc, asks, flight, shared>>
        /\ \A c \in Callers : left[c] # 0
    BY <1>8 DEF Tick
  <2>2. \A k \in Keys : /\ since'[k] = Never <=> since[k] = Never
                        /\ since[k] # Never => since'[k] >= since[k]
    BY <2>1 DEF Older, Late
  <2>3. ASSUME NEW c \in Callers
        PROVE  /\ left'[c] = Never <=> left[c] = Never
               /\ left[c] # Never =>
                    since'[asks[c]] # Never /\ since'[asks[c]] + left'[c] >= Window
    BY <2>1 DEF Older, Late
  <2>4. ASSUME NEW k \in Keys, flight[k] = NoOne, since'[k] # Never
        PROVE  since'[k] >= Window
    BY <2>1, <2>4 DEF Older, Late
  <2>5. QED
    BY <2>1, <2>2, <2>3, <2>4
<1>9. CASE UNCHANGED dvars
  BY <1>9 DEF dvars
<1>10. QED
  BY <1>1, <1>2, <1>3, <1>4, <1>5, <1>6, <1>7, <1>8, <1>9 DEF DebounceNext

LEMMA OnTimeStep ==
  ASSUME ~Stalls, DebounceTypeOK, FlightInv, OnTime, DebounceNext
  PROVE  OnTime'
<1> USE DebounceAssumption DEF DebounceTypeOK, OnTime, FlightInv, Leads
<1>1. ASSUME NEW c \in Callers, NEW k \in Keys, Lead(c, k) PROVE OnTime'
  BY <1>1 DEF Lead, New
<1>2. ASSUME NEW c \in Callers, NEW k \in Keys, Join(c, k) PROVE OnTime'
  BY <1>2 DEF Join, New
<1>3. ASSUME NEW c \in Callers, Alone(c) \/ Forwarded(c) \/ Take(c) \/ Quit(c)
      PROVE  OnTime'
  BY <1>3 DEF Alone, Forwarded, Take, Quit
<1>4. ASSUME NEW c \in Callers, Answer(c) PROVE OnTime'
  BY <1>4 DEF Answer
<1>5. ASSUME NEW c \in Callers, Break(c) PROVE OnTime'
  BY <1>5 DEF Break
<1>6. ASSUME NEW c \in Callers, Hold(c) PROVE OnTime'
  BY <1>6 DEF Hold
<1>7. ASSUME NEW c \in Callers, Expire(c) PROVE OnTime'
  BY <1>7 DEF Expire
<1>8. CASE Tick
  <2>1. ASSUME NEW c \in Callers
        PROVE  /\ pc'[c] # "replaying"
               /\ left'[c] # Never => since'[asks[c]] + left'[c] = Window
    BY <1>8 DEF Tick, Older, Late
  <2>2. QED
    BY <1>8, <2>1 DEF Tick
<1>9. CASE UNCHANGED dvars
  BY <1>9 DEF dvars
<1>10. QED
  BY <1>1, <1>2, <1>3, <1>4, <1>5, <1>6, <1>7, <1>8, <1>9 DEF DebounceNext

------------------------------------------------------------------------------
LEMMA EdgeAlways == Spec => [](DebounceTypeOK /\ RingsInv)
<1>1. Init => DebounceTypeOK
  BY DebounceAssumption DEF Init, DebounceInit, DebounceTypeOK
<1>2. ASSUME Init PROVE RingsInv
  <2>1. /\ began = [c \in Callers |-> 0]
        /\ timeline = Ring(Charted, Blank) /\ log = Ring(Logged, "none")
        /\ frames = <<>> /\ entries = <<>>
    BY <1>2 DEF Init
  <2>2. /\ Charted \in Nat \ {0} /\ Logged \in Nat \ {0}
        /\ Blank \in 0 .. Blank /\ 0 \in 0 .. Blank
    BY EdgeAssumption DEF Blank
  <2>3. "none" \in Handled
    BY DEF Handled
  <2>4. timeline \in Rings(Charted, 0 .. Blank) /\ Shows(timeline, Charted, frames)
    BY <2>1, <2>2, RingShows
  <2>5. log \in Rings(Logged, Handled) /\ Shows(log, Logged, entries)
    BY <2>1, <2>2, <2>3, RingShows
  <2>6. frames \in Seq(0 .. Blank) /\ entries \in Seq(Handled)
    BY <2>1
  <2>7. QED
    BY <2>1, <2>2, <2>4, <2>5, <2>6 DEF RingsInv, RingsOK
<1>3. DebounceTypeOK /\ [Next]_vars => DebounceTypeOK'
  BY DebounceStep, DebounceTypeStep
<1>4. RingsInv /\ [Next]_vars => RingsInv'
  BY RingsStep
<1>5. QED
  BY <1>1, <1>2, <1>3, <1>4, PTL DEF Spec

\* Calls, windows and rings keep their types: no ring holds more than its
\* places, and no window is longer than declared.
THEOREM EdgeTypeCorrect == Spec => []EdgeTypeOK
<1>1. DebounceTypeOK /\ RingsInv => EdgeTypeOK
  BY EdgeAssumption DEF RingsInv, RingsOK, Rings, EdgeTypeOK
<1>2. QED
  BY <1>1, EdgeAlways, PTL

\* The request log gives the last requests back, newest first, for a ring of any
\* size that has gone round any number of times (RequestLog.Record and Recent).
THEOREM RecentAlways == Spec => []RecentIsRecent
<1>1. ASSUME RingsInv PROVE RecentIsRecent
  <2>1. /\ log \in Rings(Logged, Handled) /\ entries \in Seq(Handled)
        /\ Shows(log, Logged, entries) /\ Logged \in Nat \ {0}
    BY <1>1, EdgeAssumption DEF RingsInv, RingsOK
  <2>2. ASSUME NEW n \in 0 .. Logged + 1
        PROVE  LET m == IF n = 0 \/ n > Len(entries) THEN Len(entries) ELSE n
               IN  Recent(log, n) = [i \in 1 .. m |-> entries[Len(entries) - i + 1]]
    <3>1. n \in Nat
      BY <2>1
    <3>2. QED
      BY <2>1, <3>1, RecentShows
  <2>3. QED
    BY <2>2, Zenon DEF RecentIsRecent
<1>2. QED
  BY <1>1, EdgeAlways, PTL

\* Until the dashboard has met a frame out of its window, the chart shows the last
\* exchanges that fit, in the order they ended (Timeline.Observe and Frames).
THEOREM ChartAlways == Spec => []ChartIsComplete
<1>1. ASSUME RingsInv PROVE ChartIsComplete
  <2>1. /\ timeline \in Rings(Charted, 0 .. Blank) /\ frames \in Seq(0 .. Blank)
        /\ Charted \in Nat \ {0}
    BY <1>1, EdgeAssumption DEF RingsInv, RingsOK
  <2>2. ASSUME ~expired, \A i \in DOMAIN frames : frames[i] \in Inside
        PROVE  Frames(timeline, Inside).out = frames
    <3>1. Shows(timeline, Charted, frames)
      BY <1>1, <2>2 DEF RingsInv
    <3>2. DOMAIN frames = 1 .. Len(frames)
      BY <2>1
    <3>3. \A i \in 1 .. Len(frames) : frames[i] \in Inside
      BY <2>2, <3>2, Zenon
    <3>4. Frames(timeline, Inside) = [out |-> frames, ring |-> timeline]
      BY <2>1, <3>1, <3>3, FramesShow
    <3>5. QED
      BY <3>4
  <2>3. QED
    BY <2>2, Zenon DEF ChartIsComplete
<1>2. QED
  BY <1>1, EdgeAlways, PTL

LEMMA FlightAlways == Spec => []FlightInv
<1>1. Init => FlightInv
  BY DebounceAssumption DEF Init, DebounceInit, FlightInv, Leads
<1>2. DebounceTypeOK /\ FlightInv /\ [Next]_vars => FlightInv'
  BY DebounceStep, FlightStep
<1>3. QED
  BY <1>1, <1>2, EdgeAlways, PTL DEF Spec

\* The upstream is asked for a URL again only a window after the last shared
\* answer, for any number of readers, broken bodies and stalling clients: a
\* URL's entry goes only with its own timer (Debouncer.Share).
THEOREM SpacedAlways == Spec => Spaced
<1>1. FlightInv => \A c \in Callers, k \in Keys :
                     (Lead(c, k) /\ since[k] # Never) => since[k] >= Window
  BY DEF FlightInv, Lead
<1>2. QED
  BY <1>1, FlightAlways, PTL DEF Spaced

\* Where clients take their answers, nobody is handed one older than the window,
\* however many readers have joined before (Debouncer.Share).
THEOREM NeverACache == ASSUME ~Stalls PROVE Spec => NotACache
<1>1. Init => OnTime
  BY DebounceAssumption DEF Init, DebounceInit, OnTime
<1>2. DebounceTypeOK /\ FlightInv /\ OnTime /\ [Next]_vars => OnTime'
  BY DebounceStep, OnTimeStep
<1>3. ASSUME DebounceTypeOK, FlightInv, OnTime, NEW c \in Callers, NEW k \in Keys,
             Join(c, k), shared[flight[k]] = "done"
      PROVE  since[k] \in 0 .. Window
  <2> DEFINE l == flight[k]
  <2>1. l \in Callers /\ asks[l] = k /\ flight[asks[l]] = l
    BY <1>3 DEF Join, FlightInv, DebounceTypeOK
  <2> HIDE DEF l
  <2>2. pc[l] = "replaying" \/ left[l] # Never
    BY <1>3, <2>1 DEF FlightInv, l
  <2>3. CASE pc[l] = "replaying"
    BY <1>3, <2>1, <2>3, DebounceAssumption DEF OnTime
  <2>4. CASE left[l] # Never
    <3>1. since[k] # Never /\ since[k] + left[l] = Window
      BY <1>3, <2>1, <2>4 DEF OnTime, FlightInv
    <3>2. left[l] \in 0 .. Window /\ since[k] \in 0 .. Late
      BY <1>3, <2>1, <2>4, <3>1 DEF DebounceTypeOK
    <3>3. QED
      BY <3>1, <3>2, DebounceAssumption DEF Late
  <2>5. QED
    BY <2>2, <2>3, <2>4
<1>4. DebounceTypeOK /\ FlightInv /\ OnTime =>
        \A c \in Callers, k \in Keys :
          (Join(c, k) /\ shared[flight[k]] = "done") => since[k] \in 0 .. Window
  BY <1>3
<1>5. QED
  BY <1>1, <1>2, <1>4, EdgeAlways, FlightAlways, PTL DEF Spec, NotACache
=============================================================================
