---------------------------- MODULE IngestProofs ----------------------------
(***************************************************************************)
(* What holds of Ingest for any deliveries, any number of batches applied  *)
(* at a time, crashes and failing statements included.                     *)
(***************************************************************************)
EXTENDS Ingest, SequenceTheorems, TLAPS

\* Taking one element out of a sequence leaves a sequence of the others.
LEMMA RemoveAtType ==
  ASSUME NEW S, NEW q \in Seq(S), NEW i \in DOMAIN q
  PROVE  RemoveAt(q, i) \in Seq(S)
<1>1. i \in 1 .. Len(q) /\ Len(q) \in Nat
  OBVIOUS
<1>2. SubSeq(q, 1, i - 1) \in Seq(S)
  BY <1>1, SubSeqProperties
<1>3. SubSeq(q, i + 1, Len(q)) \in Seq(S)
  BY <1>1, SubSeqProperties
<1>4. QED
  BY <1>2, <1>3, ConcatProperties DEF RemoveAt

LEMMA IngestTypeStep ==
  ASSUME IngestTypeOK, [Next]_vars
  PROVE  IngestTypeOK'
<1> USE IngestAssumption DEF IngestTypeOK, Rows, Blank, Statuses, Settled,
      window, applier, ending
<1>s. \A d \in Deliveries : Subject[d] \in Subjects
  BY DEF Subjects
<1>1. ASSUME NEW d \in Deliveries, Submit(d) PROVE IngestTypeOK'
  BY <1>1, <1>s DEF Submit
<1>2. ASSUME NEW s \in Subjects, Expire(s) PROVE IngestTypeOK'
  BY <1>2 DEF Expire
<1>n. ASSUME NEW d \in Deliveries, NEW a \in Appliers, SubmitNow(d, a)
      PROVE  IngestTypeOK'
  <2>1. <<d>> \in Seq(Deliveries)
    OBVIOUS
  <2>2. QED
    BY <1>n, <2>1 DEF SubmitNow
<1>p. Prune => mark' \in [Subjects -> Nat]
  BY DEF Prune
<1>3. ASSUME NEW s \in Subjects, NEW a \in Appliers,
             CloseExpired(s, a) \/ StopTimer(s, a)
      PROVE  IngestTypeOK'
  <2>1. /\ items' = [items EXCEPT ![a] = batch[s]]
        /\ pc' = [pc EXCEPT ![a] = "taken"]
        /\ batch' = [batch EXCEPT ![s] = <<>>]
        /\ timer' = [timer EXCEPT ![s] = "none"]
        /\ UNCHANGED <<status, windowed, doing, late, view, counted, mark, horizon, row, drain>>
        /\ drainer' \in {drainer, a}
    BY <1>3 DEF CloseExpired, StopTimer, Close
  <2>2. <<>> \in Seq(Deliveries) /\ batch[s] \in Seq(Deliveries)
    BY EmptySeq
  <2>3. items' \in [Appliers -> Seq(Deliveries)]
    BY <2>1, <2>2
  <2>4. batch' \in [Subjects -> Seq(Deliveries)]
    BY <2>1, <2>2
  <2>5. QED
    BY <2>1, <2>3, <2>4
<1>4. ASSUME NEW a \in Appliers, Apply(a) PROVE IngestTypeOK'
  <2>1. CASE Count(a)
    BY <2>1 DEF Count
  <2>2. CASE Order(a)
    <3>1. PICK i \in DOMAIN items[a] :
            /\ items' = [items EXCEPT ![a] = RemoveAt(@, i)]
            /\ \/ mark' = [mark EXCEPT ![Subject[items[a][i]]] = At[items[a][i]]]
               \/ UNCHANGED mark
            /\ pc' = [pc EXCEPT ![a] = "reading"] \/ UNCHANGED pc
            /\ doing' = [doing EXCEPT ![a] = items[a][i]] \/ UNCHANGED doing
            /\ \/ late' = [late EXCEPT ![a] = TRUE]
               \/ late' = [late EXCEPT ![a] = FALSE]
               \/ UNCHANGED late
            /\ \/ status' = [status EXCEPT ![items[a][i]] = "superseded"]
               \/ status' = [status EXCEPT ![items[a][i]] = "failed"]
               \/ UNCHANGED status
            /\ UNCHANGED <<window, view, counted, horizon, row, ending>>
      BY <2>2 DEF Order, Admit, TurnAway
    <3>2. items[a] \in Seq(Deliveries) /\ items[a][i] \in Deliveries
      BY <3>1
    <3>3. RemoveAt(items[a], i) \in Seq(Deliveries)
      BY <3>1, <3>2, RemoveAtType
    <3>4. items' \in [Appliers -> Seq(Deliveries)]
      BY <3>1, <3>3
    <3>5. mark' \in [Subjects -> Nat]
      <4>1. Subject[items[a][i]] \in Subjects /\ At[items[a][i]] \in Nat
        BY <3>2, <1>s
      <4>2. QED
        BY <3>1, <4>1
    <3>6. late' \in [Appliers -> BOOLEAN]
      BY <3>1
    <3>7. /\ pc' \in [Appliers -> {"free", "taken", "picking", "reading", "writing"}]
          /\ doing' \in [Appliers -> Deliveries \cup {0}]
      BY <3>1, <3>2
    <3>8. status' \in [Deliveries -> Statuses]
      BY <3>1, <3>2
    <3>9. QED
      BY <3>1, <3>4, <3>5, <3>6, <3>7, <3>8
  <2>3. CASE Invalidate(a)
    BY <2>3, <1>p DEF Invalidate, Settle
  <2>4. CASE Read(a)
    BY <2>4 DEF Read
  <2>5. CASE Write(a)
    <3>1. row' \in Rows
      BY <2>5 DEF Write, Overlaid
    <3>2. Outcome(a) \in Statuses
      BY DEF Outcome
    <3>3. status' \in [Deliveries -> Statuses]
      BY <2>5, <3>2 DEF Write, Settle
    <3>4. QED
      BY <2>5, <3>1, <3>3, <1>p DEF Write, Settle
  <2>6. CASE FailApply(a)
    BY <2>6 DEF FailApply, Settle
  <2>7. CASE Finish(a)
    BY <2>7 DEF Finish
  <2>8. QED
    BY <1>4, <2>1, <2>2, <2>3, <2>4, <2>5, <2>6, <2>7 DEF Apply
<1>a. CASE Age
  BY <1>a DEF Age
<1>5. CASE StartDrain
  BY <1>5 DEF StartDrain
<1>6. CASE StartWait
  BY <1>6 DEF StartWait
<1>7. CASE EndWait
  BY <1>7 DEF EndWait
<1>8. CASE Restart
  BY <1>8 DEF Restart, Durable
<1>9. CASE UNCHANGED vars
  BY <1>9 DEF vars
<1>10. QED
  BY <1>1, <1>2, <1>n, <1>a, <1>3, <1>4, <1>5, <1>6, <1>7, <1>8, <1>9 DEF Next

\* Every variable of Ingest keeps its type.
THEOREM IngestTypeCorrect == Spec => []IngestTypeOK
<1>1. Init => IngestTypeOK
  BY IngestAssumption DEF Init, IngestTypeOK, Rows, Blank, Statuses
<1>2. IngestTypeOK /\ [Next]_vars => IngestTypeOK'
  BY IngestTypeStep
<1>3. QED
  BY <1>1, <1>2, PTL DEF Spec

------------------------------------------------------------------------------
(* The watermark and the row.                                               *)

\* What Order does, case by case, to everything but the batch.
OrderCase(a, d) ==
  /\ Subject[d] \in Subjects
  /\ UNCHANGED <<view, horizon, row>>
  /\ \/ /\ At[d] >= mark[Subject[d]]
        /\ mark' = [mark EXCEPT ![Subject[d]] = At[d]]
        /\ Admit(a, d, FALSE)
     \/ At[d] < mark[Subject[d]] /\ TurnAway(d, "superseded")
     \/ TurnAway(d, "failed")
     \/ /\ d \in Keeps
        /\ At[d] < mark[Subject[d]]
        /\ Admit(a, d, TRUE)
        /\ UNCHANGED mark
     \/ /\ d \in Unordered \/ "mark" \in Failing
        /\ Admit(a, d, FALSE)
        /\ UNCHANGED mark

LEMMA OrderCases ==
  ASSUME IngestTypeOK, NEW a \in Appliers, Order(a)
  PROVE  \E d \in Deliveries :
           /\ OrderCase(a, d)
           /\ UNCHANGED batch
           /\ \E i \in DOMAIN items[a] :
                items[a][i] = d /\ items' = [items EXCEPT ![a] = RemoveAt(@, i)]
<1> USE IngestAssumption DEF IngestTypeOK
<1>1. PICK i \in DOMAIN items[a] :
        /\ items' = [items EXCEPT ![a] = RemoveAt(@, i)]
        /\ UNCHANGED <<window, view, counted, horizon, row, ending>>
        /\ LET d == items[a][i] IN
           \/ /\ Postdates(d)
              /\ mark' = [mark EXCEPT ![Subject[d]] = At[d]]
              /\ Admit(a, d, FALSE)
           \/ ~Postdates(d) /\ TurnAway(d, "superseded")
           \/ TurnAway(d, "failed")
           \/ d \in Keeps /\ ~Postdates(d) /\ Admit(a, d, TRUE) /\ UNCHANGED mark
           \/ /\ d \in Unordered \/ "mark" \in Failing
              /\ Admit(a, d, FALSE)
              /\ UNCHANGED mark
  BY DEF Order
<1>2. items[a][i] \in Deliveries
  OBVIOUS
<1>3. Subject[items[a][i]] \in Subjects
  BY <1>2 DEF Subjects
<1>4. At[items[a][i]] \in Nat /\ mark[Subject[items[a][i]]] \in Nat
  BY <1>2, <1>3
<1>5. ~Postdates(items[a][i]) => At[items[a][i]] < mark[Subject[items[a][i]]]
  BY <1>4 DEF Postdates
<1>6. OrderCase(a, items[a][i])
  BY <1>1, <1>3, <1>5 DEF OrderCase, Postdates
<1>7. QED
  BY <1>1, <1>2, <1>6 DEF window

------------------------------------------------------------------------------
(* The watermark and the row.                                               *)

\* Every delivery is ordered: no event opts out, and no watermark write fails.
AllOrdered == Unordered = {} /\ "mark" \notin Failing

\* A watermark only moves forward, until it is beyond the retention.
LEMMA MarkGrows ==
  ASSUME IngestTypeOK, [Next]_vars, NEW s \in Subjects
  PROVE  /\ mark[s] <= mark'[s] \/ mark[s] < horizon
         /\ horizon <= horizon'
<1> USE IngestAssumption DEF IngestTypeOK
<1>1. ASSUME NEW a \in Appliers, Order(a)
      PROVE  mark[s] <= mark'[s] /\ horizon' = horizon
  <2>1. PICK d \in Deliveries : OrderCase(a, d)
    BY <1>1, OrderCases
  <2>2. At[d] \in Nat /\ mark[s] \in Nat /\ horizon' = horizon
    BY <2>1 DEF OrderCase
  <2>3. CASE UNCHANGED mark
    BY <2>2, <2>3
  <2>4. CASE /\ At[d] >= mark[Subject[d]]
             /\ mark' = [mark EXCEPT ![Subject[d]] = At[d]]
    <3>1. s = Subject[d] => mark'[s] = At[d]
      BY <2>4
    <3>2. s # Subject[d] => mark'[s] = mark[s]
      BY <2>4
    <3>3. QED
      BY <2>2, <2>4, <3>1, <3>2
  <2>5. QED
    BY <2>1, <2>3, <2>4 DEF OrderCase, TurnAway
<1>2. ASSUME NEW a \in Appliers, Invalidate(a) \/ Write(a)
      PROVE  (mark[s] <= mark'[s] \/ mark[s] < horizon) /\ horizon' = horizon
  <2>1. Prune /\ horizon' = horizon
    BY <1>2 DEF Invalidate, Write, Settle
  <2>2. QED
    BY <2>1 DEF Prune
<1>3. CASE Age
  BY <1>3 DEF Age
<1>4. ASSUME ~Age, ~(\E a \in Appliers : Order(a) \/ Invalidate(a) \/ Write(a))
      PROVE  UNCHANGED <<mark, horizon>>
  BY <1>4 DEF Next, Submit, SubmitNow, Expire, CloseExpired, StopTimer, Close, Apply,
     Count, Read, FailApply, Settle, Finish, StartDrain, StartWait, EndWait, Restart,
     Durable, vars
<1>5. CASE UNCHANGED <<mark, horizon>>
  BY <1>5
<1>6. QED
  BY <1>1, <1>2, <1>3, <1>4, <1>5

LEMMA CoversGrows ==
  ASSUME IngestTypeOK, [Next]_vars, NEW d \in Deliveries \cup {0}, Covers(d)
  PROVE  d # 0 => At[d] <= mark'[Subject[d]] \/ At[d] < horizon'
<1>1. CASE d = 0
  BY <1>1
<1>2. CASE d \in Deliveries
  <2>1. Subject[d] \in Subjects
    BY <1>2 DEF Subjects
  <2>2. /\ mark[Subject[d]] \in Nat /\ mark'[Subject[d]] \in Nat /\ At[d] \in Nat
        /\ horizon \in Nat /\ horizon' \in Nat
    BY <1>2, <2>1, IngestTypeStep, IngestAssumption DEF IngestTypeOK
  <2>3. /\ mark[Subject[d]] <= mark'[Subject[d]] \/ mark[Subject[d]] < horizon
        /\ horizon <= horizon'
    BY <2>1, MarkGrows
  <2>4. QED
    BY <2>2, <2>3 DEF Covers
<1>3. QED
  BY <1>1, <1>2

\* The watermark covers the row, every copy of it, and every delivery on its
\* way into it.
MarkInv ==
  /\ \A f \in Fields : Covers(row[f]) /\ \A a \in Appliers : Covers(view[a][f])
  /\ \A a \in Appliers : pc[a] \in {"reading", "writing"} => Covers(doing[a])

\* A step that fills the row, the copies and the appliers' hands with what was
\* in one of them before, or with nothing, keeps MarkInv.
LEMMA MarkKept ==
  ASSUME IngestTypeOK, MarkInv, [Next]_vars,
         \A f \in Fields :
           row'[f] = 0 \/ (\E a \in Appliers : pc[a] = "writing" /\ row'[f] \in {doing[a], view[a][f]})
                       \/ row'[f] = row[f],
         \A a \in Appliers, f \in Fields : view'[a][f] \in {0, view[a][f], row[f]},
         \A a \in Appliers : pc'[a] \in {"reading", "writing"} =>
           \/ doing'[a] = doing[a] /\ pc[a] \in {"reading", "writing"}
           \/ Covers(doing[a])'
  PROVE  MarkInv'
<1> USE DEF IngestTypeOK, Rows
<1>1. ASSUME NEW d \in Deliveries \cup {0}, Covers(d)
      PROVE  d # 0 => At[d] <= mark'[Subject[d]] \/ At[d] < horizon'
  BY <1>1, CoversGrows
<1>2. ASSUME NEW f \in Fields PROVE Covers(row[f])'
  <2>1. CASE row'[f] = 0
    BY <2>1 DEF Covers
  <2>2. CASE row'[f] = row[f]
    BY <2>2, <1>1 DEF Covers, MarkInv
  <2>3. CASE \E a \in Appliers : pc[a] = "writing" /\ row'[f] \in {doing[a], view[a][f]}
    <3>1. PICK a \in Appliers : pc[a] = "writing" /\ row'[f] \in {doing[a], view[a][f]}
      BY <2>3
    <3>2. /\ Covers(doing[a]) /\ doing[a] \in Deliveries \cup {0}
          /\ Covers(view[a][f]) /\ view[a][f] \in Deliveries \cup {0}
      BY <3>1 DEF MarkInv
    <3>3. QED
      BY <3>1, <3>2, <1>1 DEF Covers
  <2>4. QED
    BY <2>1, <2>2, <2>3
<1>3. ASSUME NEW f \in Fields, NEW a \in Appliers PROVE Covers(view[a][f])'
  BY <1>1 DEF Covers, MarkInv
<1>4. ASSUME NEW a \in Appliers, pc'[a] \in {"reading", "writing"}
      PROVE  Covers(doing[a])'
  BY <1>4, <1>1 DEF Covers, MarkInv
<1>5. QED
  BY <1>2, <1>3, <1>4 DEF MarkInv

LEMMA MarkStep ==
  ASSUME IngestTypeOK, AllOrdered, MarkInv, [Next]_vars
  PROVE  MarkInv'
<1> USE DEF IngestTypeOK, Rows
<1>c. ASSUME NEW a \in Appliers, Count(a) PROVE MarkInv'
  BY <1>c, MarkKept DEF Count
<1>f. ASSUME NEW a \in Appliers, FailApply(a) PROVE MarkInv'
  BY <1>f, MarkKept DEF FailApply, Settle, Blank
<1>1. ASSUME NEW a \in Appliers, Finish(a) PROVE MarkInv'
  BY <1>1, MarkKept DEF Finish
<1>2. ASSUME NEW a \in Appliers, Order(a) PROVE MarkInv'
  <2>1. PICK d \in Deliveries : OrderCase(a, d)
    BY <1>2, OrderCases
  <2>2. UNCHANGED <<row, view>>
    BY <2>1 DEF OrderCase
  <2>3. ASSUME NEW b \in Appliers, pc'[b] \in {"reading", "writing"}
        PROVE  \/ doing'[b] = doing[b] /\ pc[b] \in {"reading", "writing"}
               \/ Covers(doing[b])'
    <3>1. CASE UNCHANGED <<pc, doing>>
      BY <2>3, <3>1
    <3>2. CASE /\ pc' = [pc EXCEPT ![a] = "reading"]
               /\ doing' = [doing EXCEPT ![a] = d]
               /\ \/ mark' = [mark EXCEPT ![Subject[d]] = At[d]]
                  \/ At[d] < mark[Subject[d]] /\ UNCHANGED mark
      <4>1. At[d] <= mark'[Subject[d]]
        BY <3>2, <2>1, IngestAssumption DEF OrderCase
      <4>2. CASE b = a
        BY <4>1, <4>2, <3>2 DEF Covers
      <4>3. CASE b # a
        BY <4>3, <3>2, <2>3
      <4>4. QED
        BY <4>2, <4>3
    <3>3. QED
      BY <2>1, <3>1, <3>2 DEF OrderCase, Admit, TurnAway, AllOrdered
  <2>4. QED
    BY <2>2, <2>3, MarkKept
<1>3. ASSUME NEW a \in Appliers, Invalidate(a) PROVE MarkInv'
  BY <1>3, MarkKept DEF Invalidate, Settle, Blank
<1>4. ASSUME NEW a \in Appliers, Read(a) PROVE MarkInv'
  BY <1>4, MarkKept DEF Read
<1>5. ASSUME NEW a \in Appliers, Write(a) PROVE MarkInv'
  <2>1. /\ pc[a] = "writing" /\ pc' = [pc EXCEPT ![a] = "picking"]
        /\ doing' = [doing EXCEPT ![a] = 0]
        /\ view' = [view EXCEPT ![a] = Blank]
        /\ row' = Overlaid(a)
    BY <1>5 DEF Write, Settle
  <2>2. \A f \in Fields : row'[f] \in {doing[a], view[a][f]}
    BY <2>1 DEF Overlaid
  <2>3. QED
    BY <2>1, <2>2, MarkKept DEF Blank
<1>6. ASSUME NEW s \in Subjects, NEW a \in Appliers,
             CloseExpired(s, a) \/ StopTimer(s, a)
      PROVE  MarkInv'
  BY <1>6, MarkKept DEF CloseExpired, StopTimer, Close
<1>7. ASSUME NEW d \in Deliveries, NEW a \in Appliers, SubmitNow(d, a)
      PROVE  MarkInv'
  BY <1>7, MarkKept DEF SubmitNow
<1>8. CASE Restart
  BY <1>8, MarkKept DEF Restart, Durable, Blank
<1>9. CASE \/ \E d \in Deliveries : Submit(d)
           \/ \E s \in Subjects : Expire(s)
           \/ Age \/ StartDrain \/ StartWait \/ EndWait \/ UNCHANGED vars
  BY <1>9, MarkKept DEF Submit, Expire, Age, StartDrain, StartWait, EndWait, vars, applier
<1>10. QED
  BY <1>c, <1>f, <1>1, <1>2, <1>3, <1>4, <1>5, <1>6, <1>7, <1>8, <1>9 DEF Next, Apply

\* No column shows a view the subject's watermark does not cover, so an older
\* view that comes later is refused, whatever failed or crashed in between: the
\* watermark is moved before the row is written, and it only moves forward until
\* it is beyond the retention.
THEOREM MarksCoverRow ==
  ASSUME AllOrdered PROVE Spec => []MarkCoversRow
<1>1. Init => MarkInv
  BY DEF Init, MarkInv, Covers, Blank
<1>2. IngestTypeOK /\ MarkInv /\ [Next]_vars => MarkInv'
  BY MarkStep
<1>3. MarkInv => MarkCoversRow
  BY DEF MarkInv, MarkCoversRow
<1>4. QED
  BY <1>1, <1>2, <1>3, IngestTypeCorrect, PTL DEF Spec

------------------------------------------------------------------------------
(* Refusals.                                                                *)

Sent(d) == status[d] # "unsent"

Newer(d) ==
  \E e \in Deliveries : Subject[e] = Subject[d] /\ At[e] > At[d] /\ Sent(e)

\* A watermark was set by a delivery that came in.
MarksSent ==
  \A s \in Subjects : mark[s] # 0 =>
    \E e \in Deliveries : Subject[e] = s /\ At[e] = mark[s] /\ Sent(e)

\* So was everything that waits to be applied.
WaitersSent ==
  /\ \A s \in Subjects : \A i \in DOMAIN batch[s] : Sent(batch[s][i])
  /\ \A a \in Appliers : \A i \in DOMAIN items[a] : Sent(items[a][i])

\* What was refused, and applied all the same, was refused for a newer view.
LateForNewer ==
  \A a \in Appliers :
    late[a] /\ pc[a] \in {"reading", "writing"} /\ doing[a] # 0 => Newer(doing[a])

RefusedInv == MarksSent /\ WaitersSent /\ LateForNewer /\ RefusedOnlyForNewer

\* What has come in stays so.
LEMMA SentStays ==
  ASSUME IngestTypeOK, [Next]_vars, NEW d \in Deliveries, Sent(d)
  PROVE  Sent(d)'
<1> USE DEF Sent, IngestTypeOK
<1>1. ASSUME NEW a \in Appliers, Order(a) PROVE Sent(d)'
  BY <1>1, OrderCases DEF OrderCase, Admit, TurnAway
<1>2. ASSUME NEW a \in Appliers, Invalidate(a) \/ Write(a) \/ FailApply(a)
      PROVE  Sent(d)'
  BY <1>2 DEF Invalidate, Write, FailApply, Settle, Outcome
<1>3. ASSUME NEW e \in Deliveries, Submit(e) \/ (\E a \in Appliers : SubmitNow(e, a))
      PROVE  Sent(d)'
  BY <1>3 DEF Submit, SubmitNow
<1>4. CASE Restart
  BY <1>4 DEF Restart
<1>5. CASE UNCHANGED status
  BY <1>5
<1>6. ASSUME ~Restart, ~(\E e \in Deliveries : Submit(e) \/ \E a \in Appliers : SubmitNow(e, a)),
             ~(\E a \in Appliers : Order(a) \/ Invalidate(a) \/ Write(a) \/ FailApply(a))
      PROVE  UNCHANGED status
  BY <1>6 DEF Next, Expire, CloseExpired, StopTimer, Close, Apply, Count, Read,
     Finish, Age, StartDrain, StartWait, EndWait, vars
<1>7. QED
  BY <1>1, <1>2, <1>3, <1>4, <1>5, <1>6

LEMMA NewerStays ==
  ASSUME IngestTypeOK, [Next]_vars, NEW d \in Deliveries, Newer(d)
  PROVE  Newer(d)'
BY SentStays DEF Newer

LEMMA RemoveAtKeeps ==
  ASSUME NEW S, NEW q \in Seq(S), NEW i \in DOMAIN q, NEW j \in DOMAIN RemoveAt(q, i)
  PROVE  \E k \in DOMAIN q : RemoveAt(q, i)[j] = q[k]
<1> DEFINE b == SubSeq(q, 1, i - 1)
           c == SubSeq(q, i + 1, Len(q))
<1>1. i \in 1 .. Len(q) /\ Len(q) \in Nat
  OBVIOUS
<1>2. b \in Seq(S) /\ Len(b) = i - 1 /\ \A k \in 1 .. i - 1 : b[k] = q[k]
  BY <1>1, SubSeqProperties
<1>3. c \in Seq(S) /\ Len(c) = Len(q) - i /\ \A k \in 1 .. Len(q) - i : c[k] = q[i + k]
  BY <1>1, SubSeqProperties
<1>4. RemoveAt(q, i) = b \o c
  BY DEF RemoveAt
<1> HIDE DEF b, c
<1>5. /\ Len(b \o c) = Len(q) - 1
      /\ \A k \in 1 .. Len(q) - 1 : (b \o c)[k] = IF k <= i - 1 THEN b[k] ELSE c[k - (i - 1)]
  BY <1>1, <1>2, <1>3, ConcatProperties
<1>6. b \o c \in Seq(S)
  BY <1>2, <1>3, ConcatProperties
<1>7. j \in 1 .. Len(q) - 1
  BY <1>4, <1>5, <1>6
<1>8. CASE j <= i - 1
  <2>1. RemoveAt(q, i)[j] = q[j]
    BY <1>4, <1>5, <1>7, <1>8, <1>2
  <2>2. QED
    BY <2>1, <1>7
<1>9. CASE j > i - 1
  <2>1. j - (i - 1) \in 1 .. Len(q) - i
    BY <1>1, <1>7, <1>9
  <2>2. RemoveAt(q, i)[j] = c[j - (i - 1)]
    <3>1. ~(j <= i - 1)
      BY <1>1, <1>7, <1>9
    <3>2. (b \o c)[j] = IF j <= i - 1 THEN b[j] ELSE c[j - (i - 1)]
      BY <1>5, <1>7, Zenon
    <3>3. QED
      BY <3>1, <3>2, <1>4, Zenon
  <2>3. c[j - (i - 1)] = q[j + 1] /\ j + 1 \in DOMAIN q
    BY <1>1, <1>3, <1>7, <2>1
  <2>4. QED
    BY <2>2, <2>3
<1>10. QED
  BY <1>1, <1>7, <1>8, <1>9

LEMMA MarksSentStep ==
  ASSUME IngestTypeOK, [Next]_vars, MarksSent, WaitersSent
  PROVE  MarksSent'
<1> USE DEF IngestTypeOK
<1> SUFFICES ASSUME NEW s \in Subjects, mark'[s] # 0
             PROVE  \E e \in Deliveries : Subject[e] = s /\ At[e] = mark'[s] /\ Sent(e)'
  BY DEF MarksSent
<1>1. CASE mark'[s] = mark[s]
  <2>1. PICK e \in Deliveries : Subject[e] = s /\ At[e] = mark[s] /\ Sent(e)
    BY <1>1 DEF MarksSent
  <2>2. QED
    BY <1>1, <2>1, SentStays
<1>2. ASSUME NEW a \in Appliers, Order(a), mark'[s] # mark[s]
      PROVE  \E e \in Deliveries : Subject[e] = s /\ At[e] = mark'[s] /\ Sent(e)'
  <2>1. PICK d \in Deliveries :
          /\ OrderCase(a, d)
          /\ \E i \in DOMAIN items[a] : items[a][i] = d
    BY <1>2, OrderCases
  <2>2. mark' = [mark EXCEPT ![Subject[d]] = At[d]]
    BY <1>2, <2>1 DEF OrderCase, TurnAway
  <2>3. Subject[d] = s /\ At[d] = mark'[s]
    BY <1>2, <2>2
  <2>4. Sent(d)'
    BY <2>1, SentStays DEF WaitersSent
  <2>5. QED
    BY <2>3, <2>4
<1>3. ASSUME NEW a \in Appliers, Invalidate(a) \/ Write(a) PROVE mark'[s] = mark[s]
  BY <1>3 DEF Invalidate, Write, Prune
<1>4. ASSUME ~(\E a \in Appliers : Order(a) \/ Invalidate(a) \/ Write(a))
      PROVE  mark'[s] = mark[s]
  BY <1>4 DEF Next, Submit, SubmitNow, Expire, CloseExpired, StopTimer, Close, Apply,
     Count, Read, FailApply, Finish, Age, StartDrain, StartWait, EndWait, Restart,
     Durable, vars
<1>5. QED
  BY <1>1, <1>2, <1>3, <1>4

LEMMA WaitersSentStep ==
  ASSUME IngestTypeOK, [Next]_vars, WaitersSent
  PROVE  WaitersSent'
<1> USE DEF IngestTypeOK
<1>1. ASSUME NEW s \in Subjects, NEW i \in DOMAIN batch'[s] PROVE Sent(batch[s][i])'
  <2>1. batch'[s] \in Seq(Deliveries) /\ batch'[s][i] \in Deliveries
    BY IngestTypeStep
  <2>2. CASE batch'[s] = batch[s]
    BY <2>1, <2>2, SentStays DEF WaitersSent
  <2>3. ASSUME NEW d \in Deliveries, Submit(d), Subject[d] = s
        PROVE  Sent(batch[s][i])'
    <3>1. batch'[s] = Append(batch[s], d) /\ status'[d] = "held" /\ batch[s] \in Seq(Deliveries)
      BY <2>3 DEF Submit
    <3>2. i \in 1 .. Len(batch[s]) + 1
      BY <3>1
    <3>3. CASE i = Len(batch[s]) + 1
      BY <3>1, <3>3 DEF Sent
    <3>4. CASE i \in DOMAIN batch[s]
      <4>1. batch'[s][i] = batch[s][i] /\ batch[s][i] \in Deliveries
        BY <3>1, <3>4
      <4>2. Sent(batch[s][i])
        BY <3>4 DEF WaitersSent
      <4>3. QED
        BY <4>1, <4>2, SentStays DEF Sent
    <3>5. QED
      BY <3>1, <3>2, <3>3, <3>4
  <2>4. ASSUME NEW d \in Deliveries, Submit(d), Subject[d] # s PROVE batch'[s] = batch[s]
    BY <2>4 DEF Submit, Subjects
  <2>5. CASE batch'[s] = <<>>
    BY <2>5
  <2>6. ASSUME ~\E d \in Deliveries : Submit(d)
        PROVE  batch'[s] \in {batch[s], <<>>}
    BY <2>6 DEF Next, SubmitNow, Expire, CloseExpired, StopTimer, Close, Apply, Count,
       Order, Invalidate, Read, Write, FailApply, Settle, Finish, Age, StartDrain,
       StartWait, EndWait, Restart, window, vars
  <2>7. QED
    BY <2>2, <2>3, <2>4, <2>5, <2>6
<1>2. ASSUME NEW a \in Appliers, NEW i \in DOMAIN items'[a] PROVE Sent(items[a][i])'
  <2>1. items'[a] \in Seq(Deliveries) /\ items'[a][i] \in Deliveries
    BY IngestTypeStep
  <2>2. CASE items'[a] = items[a]
    BY <2>1, <2>2, SentStays DEF WaitersSent
  <2>3. CASE items'[a] = <<>>
    BY <2>3
  <2>4. ASSUME NEW s \in Subjects, items'[a] = batch[s] PROVE Sent(items[a][i])'
    <3>1. Sent(batch[s][i]) /\ items'[a][i] = batch[s][i]
      BY <2>4 DEF WaitersSent
    <3>2. QED
      BY <2>1, <3>1, SentStays DEF Sent
  <2>5. ASSUME NEW b \in Appliers, Order(b) PROVE Sent(items[a][i])'
    <3>1. PICK j \in DOMAIN items[b] : items' = [items EXCEPT ![b] = RemoveAt(@, j)]
      BY <2>5, OrderCases
    <3>2. CASE a # b
      BY <3>1, <3>2, <2>2
    <3>3. CASE a = b
      <4>1. items'[a] = RemoveAt(items[a], j)
        BY <3>1, <3>3
      <4>2. PICK k \in DOMAIN items[a] : items'[a][i] = items[a][k]
        BY <4>1, <3>1, <3>3, RemoveAtKeeps
      <4>3. Sent(items[a][k]) /\ items[a][k] \in Deliveries
        BY <4>2 DEF WaitersSent
      <4>4. QED
        BY <4>2, <4>3, SentStays DEF Sent
    <3>4. QED
      BY <3>2, <3>3
  <2>6. ASSUME NEW d \in Deliveries, NEW b \in Appliers, SubmitNow(d, b)
        PROVE  Sent(items[a][i])'
    <3>1. items'[a] = items[a] \/ (items'[a] = <<d>> /\ status'[d] = "held")
      BY <2>6 DEF SubmitNow
    <3>2. QED
      BY <3>1, <2>2 DEF Sent
  <2>7. ASSUME NEW s \in Subjects, NEW b \in Appliers, CloseExpired(s, b) \/ StopTimer(s, b)
        PROVE  items'[a] = items[a] \/ items'[a] = batch[s]
    BY <2>7 DEF CloseExpired, StopTimer, Close
  <2>8. CASE Restart
    BY <2>8, <2>3 DEF Restart
  <2>9. CASE UNCHANGED items
    BY <2>9, <2>2
  <2>10. ASSUME ~Restart, ~(\E b \in Appliers : Order(b)),
                ~(\E d \in Deliveries, b \in Appliers : SubmitNow(d, b)),
                ~(\E s \in Subjects, b \in Appliers : CloseExpired(s, b) \/ StopTimer(s, b))
         PROVE  UNCHANGED items
    BY <2>10 DEF Next, Submit, Expire, Apply, Count, Invalidate, Read, Write, FailApply,
       Settle, Finish, Age, StartDrain, StartWait, EndWait, applier, vars
  <2>11. QED
    BY <2>2, <2>4, <2>5, <2>6, <2>7, <2>8, <2>9, <2>10
<1>3. QED
  BY <1>1, <1>2 DEF WaitersSent, Sent

\* A watermark that refuses a delivery names a newer one that came in.
LEMMA RefusedByNewer ==
  ASSUME IngestTypeOK, MarksSent, NEW d \in Deliveries, At[d] < mark[Subject[d]]
  PROVE  Newer(d)
<1>1. Subject[d] \in Subjects /\ At[d] \in Nat /\ mark[Subject[d]] \in Nat
  BY IngestAssumption DEF Subjects, IngestTypeOK
<1>2. PICK e \in Deliveries : Subject[e] = Subject[d] /\ At[e] = mark[Subject[d]] /\ Sent(e)
  BY <1>1 DEF MarksSent
<1>3. QED
  BY <1>1, <1>2 DEF Newer

LEMMA LateStep ==
  ASSUME IngestTypeOK, [Next]_vars, MarksSent, LateForNewer
  PROVE  LateForNewer'
<1> USE DEF IngestTypeOK
<1> SUFFICES ASSUME NEW a \in Appliers, late'[a], pc'[a] \in {"reading", "writing"}, doing'[a] # 0
             PROVE  Newer(doing[a])'
  BY DEF LateForNewer
<1>1. CASE /\ late[a] /\ pc[a] \in {"reading", "writing"}
           /\ doing'[a] = doing[a]
  <2>1. Newer(doing[a]) /\ doing[a] \in Deliveries
    BY <1>1 DEF LateForNewer
  <2>2. QED
    BY <1>1, <2>1, NewerStays DEF Newer
<1>2. ASSUME NEW b \in Appliers, Order(b) PROVE Newer(doing[a])'
  <2>1. PICK d \in Deliveries : OrderCase(b, d)
    BY <1>2, OrderCases
  <2>2. CASE a # b \/ UNCHANGED <<pc, doing, late>>
    BY <2>1, <2>2, <1>1 DEF OrderCase, Admit, TurnAway
  <2>3. CASE a = b /\ ~UNCHANGED <<pc, doing, late>>
    <3>1. doing'[a] = d /\ At[d] < mark[Subject[d]]
      BY <2>1, <2>3 DEF OrderCase, Admit, TurnAway
    <3>2. QED
      BY <3>1, RefusedByNewer, NewerStays DEF Newer
  <2>4. QED
    BY <2>2, <2>3
<1>3. CASE Restart
  BY <1>3 DEF Restart
<1>4. ASSUME NEW b \in Appliers, Invalidate(b) \/ Write(b) \/ FailApply(b)
      PROVE  Newer(doing[a])'
  BY <1>4, <1>1 DEF Invalidate, Write, FailApply, Settle
<1>5. ASSUME NEW b \in Appliers, Read(b) PROVE Newer(doing[a])'
  BY <1>5, <1>1 DEF Read
<1>6. ASSUME NEW b \in Appliers, Count(b) \/ Finish(b) PROVE Newer(doing[a])'
  BY <1>6, <1>1 DEF Count, Finish
<1>7. ASSUME NEW b \in Appliers,
             \/ \E s \in Subjects : CloseExpired(s, b) \/ StopTimer(s, b)
             \/ \E d \in Deliveries : SubmitNow(d, b)
      PROVE  Newer(doing[a])'
  BY <1>7, <1>1 DEF CloseExpired, StopTimer, Close, SubmitNow
<1>8. CASE UNCHANGED <<pc, doing, late>>
  BY <1>8, <1>1
<1>9. CASE \/ \E d \in Deliveries : Submit(d)
           \/ \E s \in Subjects : Expire(s)
           \/ Age \/ StartDrain \/ StartWait \/ EndWait \/ UNCHANGED vars
  BY <1>9, <1>8 DEF Submit, Expire, Age, StartDrain, StartWait, EndWait, applier, vars
<1>10. QED
  BY <1>2, <1>3, <1>4, <1>5, <1>6, <1>7, <1>9 DEF Next, Apply

LEMMA RefusedStep ==
  ASSUME IngestTypeOK, [Next]_vars, RefusedInv
  PROVE  RefusedOnlyForNewer'
<1> USE DEF IngestTypeOK
<1> SUFFICES ASSUME NEW d \in Deliveries, status'[d] = "superseded"
             PROVE  Newer(d)'
  BY DEF RefusedOnlyForNewer, Newer, Sent
<1>1. CASE status[d] = "superseded"
  <2>1. Newer(d)
    BY <1>1 DEF RefusedInv, RefusedOnlyForNewer, Newer, Sent
  <2>2. QED
    BY <2>1, NewerStays
<1>2. ASSUME NEW a \in Appliers, Order(a), status[d] # "superseded" PROVE Newer(d)'
  <2>1. PICK e \in Deliveries : OrderCase(a, e)
    BY <1>2, OrderCases
  <2>2. d = e /\ At[d] < mark[Subject[d]]
    BY <1>2, <2>1 DEF OrderCase, Admit, TurnAway
  <2>3. QED
    BY <2>2, RefusedByNewer, NewerStays DEF RefusedInv
<1>3. ASSUME NEW a \in Appliers, Write(a), status[d] # "superseded" PROVE Newer(d)'
  <2>1. doing[a] = d /\ late[a] /\ pc[a] = "writing"
    BY <1>3 DEF Write, Settle, Outcome
  <2>2. Newer(d)
    BY <2>1, IngestAssumption DEF RefusedInv, LateForNewer
  <2>3. QED
    BY <2>2, NewerStays
<1>4. ASSUME NEW a \in Appliers, Invalidate(a) \/ FailApply(a)
      PROVE  status[d] = "superseded"
  BY <1>4 DEF Invalidate, FailApply, Settle
<1>5. ASSUME NEW e \in Deliveries, Submit(e) \/ (\E a \in Appliers : SubmitNow(e, a))
      PROVE  status[d] = "superseded"
  BY <1>5 DEF Submit, SubmitNow
<1>6. CASE Restart
  BY <1>6, <1>1 DEF Restart
<1>7. ASSUME ~Restart, ~(\E e \in Deliveries : Submit(e) \/ \E a \in Appliers : SubmitNow(e, a)),
             ~(\E a \in Appliers : Order(a) \/ Invalidate(a) \/ Write(a) \/ FailApply(a))
      PROVE  UNCHANGED status
  BY <1>7 DEF Next, Expire, CloseExpired, StopTimer, Close, Apply, Count, Read,
     Finish, Age, StartDrain, StartWait, EndWait, vars
<1>8. QED
  BY <1>1, <1>2, <1>3, <1>4, <1>5, <1>6, <1>7

\* A delivery is refused only for a newer view of its subject that came in
\* itself, whatever fails, is pruned or crashes: an equal clock is never refused.
THEOREM RefusalsAreFair == Spec => []RefusedOnlyForNewer
<1>1. Init => RefusedInv
  BY DEF Init, RefusedInv, MarksSent, WaitersSent, LateForNewer, RefusedOnlyForNewer
<1>2. IngestTypeOK /\ RefusedInv /\ [Next]_vars => RefusedInv'
  BY MarksSentStep, WaitersSentStep, LateStep, RefusedStep DEF RefusedInv
<1>3. RefusedInv => RefusedOnlyForNewer
  BY DEF RefusedInv
<1>4. QED
  BY <1>1, <1>2, <1>3, IngestTypeCorrect, PTL DEF Spec

------------------------------------------------------------------------------
(* The newest view.                                                         *)

\* One batch is applied at a time, every watermark is written, no event absorbs
\* the superseded.
OneAtATime == \A a, b \in Appliers : a = b
Strict     == OneAtATime /\ "mark" \notin Failing /\ Keeps = {}

\* No view comes after a newer one that is beyond the retention.
InRetention ==
  \A d, e \in Deliveries :
    Subject[d] = Subject[e] /\ At[e] < At[d] => At[d] >= MaxHorizon

\* The watermark covers what the row shows of ordered events.
OrderedCovered == \A f \in Fields : row[f] \notin Unordered => Covers(row[f])

\* While a delivery is applied nothing else moves its watermark or its row: the
\* watermark has its clock, and the copy read for the merge is the row.
InHand ==
  \A a \in Appliers :
    /\ pc[a] \in {"reading", "writing"} /\ doing[a] \in Deliveries \ Unordered =>
         mark[Subject[doing[a]]] = At[doing[a]]
    /\ pc[a] = "writing" => view[a] = row

NewestInv == OrderedCovered /\ InHand

\* A view in hand is no older than any ordered view of its subject in the row.
LEMMA InHandIsNewest ==
  ASSUME IngestTypeOK, NewestInv, InRetention, NEW a \in Appliers,
         pc[a] = "writing", doing[a] \in Deliveries \ Unordered,
         NEW d \in Deliveries \ Unordered, Subject[d] = Subject[doing[a]],
         NEW f \in Fields, row[f] = d
  PROVE  At[d] <= At[doing[a]]
<1>0. /\ d \in Deliveries /\ doing[a] \in Deliveries /\ d # 0
      /\ At[d] \in Nat /\ At[doing[a]] \in Nat
  BY IngestAssumption
<1>h. horizon \in Nat /\ horizon <= MaxHorizon /\ MaxHorizon \in Nat
  BY IngestAssumption DEF IngestTypeOK
<1>1. /\ At[d] \in Nat /\ At[doing[a]] \in Nat /\ d # 0
      /\ horizon \in Nat /\ horizon <= MaxHorizon /\ MaxHorizon \in Nat
  BY <1>0, <1>h
<1>2. At[d] <= mark[Subject[d]] \/ At[d] < horizon
  BY <1>1 DEF NewestInv, OrderedCovered, Covers
<1>3. mark[Subject[d]] = At[doing[a]]
  BY DEF NewestInv, InHand
<1>4. At[doing[a]] < At[d] => At[d] >= MaxHorizon
  BY <1>0 DEF InRetention
<1>5. QED
  BY <1>1, <1>2, <1>3, <1>4

\* A step that leaves the row and the watermarks, and takes no delivery in hand,
\* keeps the invariant.
LEMMA NewestKept ==
  ASSUME IngestTypeOK, NewestInv, [Next]_vars, UNCHANGED <<row, mark>>,
         \A a \in Appliers : pc'[a] \in {"reading", "writing"} =>
           pc'[a] = pc[a] /\ doing'[a] = doing[a] /\ view'[a] = view[a]
  PROVE  NewestInv'
<1>1. ASSUME NEW f \in Fields, row'[f] \notin Unordered PROVE Covers(row[f])'
  <2>1. row[f] \in Deliveries \cup {0} /\ Covers(row[f]) /\ row'[f] = row[f]
    BY <1>1 DEF NewestInv, OrderedCovered, IngestTypeOK, Rows
  <2>2. QED
    BY <2>1, CoversGrows DEF Covers
<1>2. InHand'
  BY DEF NewestInv, InHand
<1>3. QED
  BY <1>1, <1>2 DEF NewestInv, OrderedCovered

LEMMA NewestStep ==
  ASSUME IngestTypeOK, Strict, NewestInv, [Next]_vars
  PROVE  NewestInv'
<1> USE DEF IngestTypeOK
<1>0. IngestTypeOK'
  BY IngestTypeStep
<1>1. ASSUME NEW a \in Appliers, Order(a) PROVE NewestInv'
  <2>1. PICK d \in Deliveries : OrderCase(a, d)
    BY <1>1, OrderCases
  <2>2. \A b \in Appliers : b = a
    BY DEF Strict, OneAtATime
  <2>3. ASSUME NEW f \in Fields, row'[f] \notin Unordered PROVE Covers(row[f])'
    <3>1. row[f] \in Deliveries \cup {0} /\ Covers(row[f]) /\ row'[f] = row[f]
      BY <2>1, <2>3 DEF NewestInv, OrderedCovered, Rows, OrderCase
    <3>2. QED
      BY <3>1, CoversGrows DEF Covers
  <2>4. InHand'
    <3>1. CASE UNCHANGED <<pc, doing>>
      <4>1. pc[a] = "picking"
        BY <1>1 DEF Order
      <4>2. QED
        BY <3>1, <4>1, <2>2 DEF InHand
    <3>2. CASE /\ pc' = [pc EXCEPT ![a] = "reading"]
               /\ doing' = [doing EXCEPT ![a] = d]
               /\ d \in Unordered \/ mark' = [mark EXCEPT ![Subject[d]] = At[d]]
      <4>1. pc'[a] = "reading" /\ doing'[a] = d
        BY <3>2
      <4>2. d \notin Unordered => mark'[Subject[d]] = At[d]
        BY <3>2, <2>1 DEF OrderCase
      <4>3. QED
        BY <4>1, <4>2, <2>2 DEF InHand
    <3>3. QED
      BY <2>1, <3>1, <3>2 DEF OrderCase, Admit, TurnAway, Strict
  <2>5. QED
    BY <2>3, <2>4 DEF NewestInv, OrderedCovered
<1>2. ASSUME NEW a \in Appliers, Read(a) PROVE NewestInv'
  <2>1. \A b \in Appliers : b = a
    BY DEF Strict, OneAtATime
  <2>2. /\ UNCHANGED <<doing, mark, row>> /\ pc[a] = "reading"
        /\ pc'[a] = "writing" /\ view'[a] = row
    BY <1>2 DEF Read
  <2>3. InHand'
    BY <2>1, <2>2 DEF NewestInv, InHand
  <2>4. ASSUME NEW f \in Fields, row'[f] \notin Unordered PROVE Covers(row[f])'
    <3>1. row[f] \in Deliveries \cup {0} /\ Covers(row[f]) /\ row'[f] = row[f]
      BY <2>2, <2>4 DEF NewestInv, OrderedCovered, Rows
    <3>2. QED
      BY <3>1, CoversGrows DEF Covers
  <2>5. QED
    BY <2>3, <2>4 DEF NewestInv, OrderedCovered
<1>3. ASSUME NEW a \in Appliers, Invalidate(a) \/ Write(a) PROVE NewestInv'
  <2>1. \A b \in Appliers : b = a
    BY DEF Strict, OneAtATime
  <2>2. pc'[a] = "picking"
    BY <1>3 DEF Invalidate, Write, Settle
  <2>3. InHand'
    BY <2>1, <2>2 DEF InHand
  <2>4. ASSUME NEW f \in Fields, row'[f] \notin Unordered PROVE Covers(row[f])'
    <3>1. CASE row'[f] = 0
      BY <3>1 DEF Covers
    <3>2. CASE row'[f] = row[f]
      <4>1. row[f] \in Deliveries \cup {0} /\ Covers(row[f])
        BY <2>4, <3>2 DEF NewestInv, OrderedCovered, Rows
      <4>2. QED
        BY <3>2, <4>1, CoversGrows DEF Covers
    <3>3. CASE row'[f] = doing[a] /\ pc[a] = "writing" /\ doing[a] # 0
      <4>1. doing[a] \in Deliveries \ Unordered
        BY <2>4, <3>3
      <4>2. At[doing[a]] = mark[Subject[doing[a]]] /\ At[doing[a]] \in Nat
        BY <3>3, <4>1, IngestAssumption DEF NewestInv, InHand
      <4>3. Covers(doing[a])
        BY <4>2 DEF Covers
      <4>4. QED
        BY <3>3, <4>3, CoversGrows DEF Covers
    <3>4. row'[f] = 0 \/ row'[f] = row[f] \/ (row'[f] = doing[a] /\ pc[a] = "writing")
      <4>1. CASE Invalidate(a)
        BY <4>1 DEF Invalidate, Blank
      <4>2. CASE Write(a)
        <5>1. row' = Overlaid(a) /\ pc[a] = "writing" /\ view[a] = row
          BY <4>2 DEF Write, NewestInv, InHand
        <5>2. QED
          BY <5>1 DEF Overlaid
      <4>3. QED
        BY <1>3, <4>1, <4>2
    <3>5. QED
      BY <3>1, <3>2, <3>3, <3>4
  <2>5. QED
    BY <2>3, <2>4 DEF NewestInv, OrderedCovered
<1>4. ASSUME NEW a \in Appliers, Count(a) \/ FailApply(a) \/ Finish(a) PROVE NewestInv'
  BY <1>4, NewestKept DEF Count, FailApply, Finish, Settle
<1>5. ASSUME NEW a \in Appliers,
             \/ \E s \in Subjects : CloseExpired(s, a) \/ StopTimer(s, a)
             \/ \E d \in Deliveries : SubmitNow(d, a)
      PROVE  NewestInv'
  BY <1>5, NewestKept DEF CloseExpired, StopTimer, Close, SubmitNow
<1>6. CASE Restart
  BY <1>6, NewestKept DEF Restart, Durable
<1>7. CASE \/ \E d \in Deliveries : Submit(d)
           \/ \E s \in Subjects : Expire(s)
           \/ Age \/ StartDrain \/ StartWait \/ EndWait \/ UNCHANGED vars
  BY <1>7, NewestKept DEF Submit, Expire, Age, StartDrain, StartWait, EndWait, vars, applier
<1>8. QED
  BY <1>1, <1>2, <1>3, <1>4, <1>5, <1>6, <1>7 DEF Next, Apply

\* What a step may put over an ordered view of a subject is a view in hand.
LEMMA NewestAction ==
  ASSUME IngestTypeOK, Strict, InRetention, NewestInv, [Next]_vars,
         NEW f \in Fields, row[f] # 0, row'[f] # 0,
         row[f] \notin Unordered, row'[f] \notin Unordered,
         Subject[row[f]] = Subject[row'[f]]
  PROVE  At[row[f]] <= At[row'[f]]
<1>1. row[f] \in Deliveries /\ At[row[f]] \in Nat
  BY IngestAssumption DEF IngestTypeOK, Rows
<1>2. CASE row'[f] = row[f]
  BY <1>1, <1>2
<1>3. ASSUME NEW a \in Appliers, Write(a) PROVE At[row[f]] <= At[row'[f]]
  <2>1. row' = Overlaid(a) /\ pc[a] = "writing" /\ view[a] = row
    BY <1>3 DEF Write, NewestInv, InHand
  <2>2. CASE row'[f] = doing[a]
    <3>1. doing[a] \in Deliveries \ Unordered
      BY <2>2 DEF IngestTypeOK
    <3>2. QED
      BY <1>1, <2>1, <2>2, <3>1, InHandIsNewest
  <2>3. QED
    BY <2>1, <2>2, <1>2 DEF Overlaid
<1>4. ASSUME NEW a \in Appliers, Invalidate(a) PROVE row'[f] = 0
  BY <1>4 DEF Invalidate, Blank
<1>5. ASSUME ~\E a \in Appliers : Write(a) \/ Invalidate(a) PROVE UNCHANGED row
  BY <1>5 DEF Next, Submit, SubmitNow, Expire, CloseExpired, StopTimer, Close, Apply,
     Count, Order, Read, FailApply, Finish, Age, StartDrain, StartWait, EndWait,
     Restart, Durable, vars
<1>6. QED
  BY <1>2, <1>3, <1>4, <1>5

\* A column never goes back to an older ordered view of the same subject, for any
\* deliveries and subjects, whatever fails or crashes, if one batch is applied at
\* a time, watermarks are written, none is passed by on purpose, and no view
\* comes after a newer one that is beyond the retention.
THEOREM NewestStays ==
  ASSUME Strict, InRetention PROVE Spec => NewestWins
<1>1. Init => NewestInv
  BY DEF Init, NewestInv, OrderedCovered, InHand, Covers, Blank
<1>2. IngestTypeOK /\ NewestInv /\ [Next]_vars => NewestInv'
  BY NewestStep
<1>3. IngestTypeOK /\ NewestInv /\ [Next]_vars =>
        [\A f \in Fields : LET d == row[f] e == row'[f] IN
           d # 0 /\ e # 0 /\ {d, e} \cap Unordered = {} /\ Subject[d] = Subject[e] =>
             At[d] <= At[e]]_vars
  BY NewestAction
<1>4. QED
  BY <1>1, <1>2, <1>3, IngestTypeCorrect, PTL DEF Spec, NewestWins
=============================================================================
