----------------------------- MODULE NotifyProofs -----------------------------
(***************************************************************************)
(* What holds of Notify for any number of subscribers and Fans at once.    *)
(*                                                                         *)
(* ParkedIsQuiet is not inductive: nothing in it says why the failures     *)
(* stop.  Budget adds the reason: of a parked subscriber, the failures     *)
(* counted and the slots that still hold it never add up to more, since no *)
(* Fan lists it again.                                                     *)
(***************************************************************************)
EXTENDS Notify, TLAPS, FiniteSetTheorems

\* Where a Fan and its goroutines are: a row waits for its secret, then for its
\* goroutine, and has only the one.
Held(n) == rows[n] \cup chosen[n]

InPlace ==
  \A n \in Slots :
    /\ fan[n] # "matching" => Held(n) = {}
    /\ fan[n] = "idle" => \A s \in Subs : task[<<n, s>>] = "none"
    /\ \A s \in Held(n) : task[<<n, s>>] = "none"

\* The slots that may still count a failure of a subscriber.
Pending(s) == {n \in Slots : s \in Held(n) \/ task[<<n, s>>] \in Active}

Limit == DisableAfter + Cardinality(Slots) - 1

Budget ==
  \A s \in Subs :
    /\ ~disabled[s] => failures[s] < DisableAfter
    /\ disabled[s] => failures[s] + Cardinality(Pending(s)) =< Limit

\* What the drain waits for is in flight.
Waited == promised \subseteq InFlight

ParkInv  == NotifyTypeOK /\ InPlace /\ Budget
DrainInv == NotifyTypeOK /\ Waited /\ DrainWaits

LEMMA PairsAreNotes ==
  /\ \A n \in Slots, s \in Subs : <<n, s>> \in Notes
  /\ \A q \in Notes : q = <<q[1], q[2]>> /\ q[1] \in Slots /\ q[2] \in Subs
  BY DEF Notes

------------------------------------------------------------------------------
LEMMA FanType ==
  ASSUME NotifyTypeOK, NEW n \in Slots, Fan(n)
  PROVE  NotifyTypeOK'
<1> USE NotifyAssumption DEF NotifyTypeOK, table, fans, tasks
<1>1. CASE List(n)
  <2>1. \A named \in SUBSET Choosy : Matched(named) \in SUBSET Subs
    BY DEF Matched, Wanting
  <2>2. PICK named \in SUBSET Choosy :
          /\ fan' = [fan EXCEPT ![n] = "matching"]
          /\ listed' = [listed EXCEPT ![n] = Matched(named)]
          /\ rows' = [rows EXCEPT ![n] = Matched(named)]
    BY <1>1 DEF List
  <2>3. QED
    BY <1>1, <2>1, <2>2 DEF List
<1>2. ASSUME GiveUp(n) PROVE NotifyTypeOK'
  BY <1>2 DEF GiveUp
<1>3. CASE Fails(n)
  BY <1>2, <1>3 DEF Fails
<1>4. ASSUME NEW s \in Subs, Pick(n, s) PROVE NotifyTypeOK'
  BY <1>2, <1>4 DEF Pick
<1>5. ASSUME NEW s \in Subs, Launch(n, s) PROVE NotifyTypeOK'
  BY <1>5, PairsAreNotes DEF Launch, Active
<1>6. CASE Return(n)
  BY <1>6 DEF Return
<1>7. CASE Reuse(n)
  BY <1>7 DEF Reuse
<1>8. QED
  BY <1>1, <1>3, <1>4, <1>5, <1>6, <1>7 DEF Fan

LEMMA DeliverType ==
  ASSUME NotifyTypeOK, NEW p \in Notes, Deliver(p)
  PROVE  NotifyTypeOK'
<1> USE NotifyAssumption DEF NotifyTypeOK, table, fans, Active
<1>1. CASE Begin(p)
  BY <1>1 DEF Begin
<1>2. CASE Post(p)
  BY <1>2 DEF Post
<1>3. ASSUME End(p), failures' \in [Subs -> Nat], disabled' \in [Subs -> BOOLEAN]
      PROVE  NotifyTypeOK'
  BY <1>3 DEF End
<1>4. CASE MarkDelivered(p)
  BY <1>3, <1>4 DEF MarkDelivered
<1>5. CASE MarkFailed(p)
  <2>1. CASE UNCHANGED <<failures, disabled>>
    BY <1>3, <1>5, <2>1 DEF MarkFailed
  <2>2. CASE /\ failures' = [failures EXCEPT ![p[2]] = @ + 1]
             /\ disabled' = [disabled EXCEPT ![p[2]] =
                                @ \/ failures[p[2]] + 1 >= DisableAfter]
    <3>1. failures' \in [Subs -> Nat]
      BY <2>2, PairsAreNotes
    <3>2. disabled' \in [Subs -> BOOLEAN]
      BY <2>2
    <3>3. QED
      BY <1>3, <1>5, <3>1, <3>2 DEF MarkFailed
  <2>3. QED
    BY <1>5, <2>1, <2>2 DEF MarkFailed
<1>6. CASE MarkLost(p)
  BY <1>3, <1>6 DEF MarkLost
<1>7. QED
  BY <1>1, <1>2, <1>4, <1>5, <1>6 DEF Deliver

LEMMA NotifyTypeStep ==
  ASSUME NotifyTypeOK, [Next]_vars
  PROVE  NotifyTypeOK'
<1> USE NotifyAssumption DEF NotifyTypeOK, table, fans, tasks
<1>1. ASSUME NEW s \in Subs, Create(s) \/ Delete(s) PROVE NotifyTypeOK'
  <2>1. CASE Create(s)
    BY <2>1 DEF Create
  <2>2. CASE Delete(s)
    <3>1. disabled' \in [Subs -> BOOLEAN]
      BY <2>2 DEF Delete
    <3>2. QED
      BY <2>2, <3>1 DEF Delete
  <2>3. QED
    BY <1>1, <2>1, <2>2
<1>2. ASSUME NEW n \in Slots, Fan(n) PROVE NotifyTypeOK'
  BY <1>2, FanType
<1>3. ASSUME NEW p \in Notes, Deliver(p) PROVE NotifyTypeOK'
  BY <1>3, DeliverType
<1>4. CASE StartDrain \/ EndDrain
  BY <1>4 DEF StartDrain, EndDrain
<1>5. CASE Restart
  BY <1>5 DEF Restart
<1>6. CASE UNCHANGED vars
  BY <1>6 DEF vars
<1>7. QED
  BY <1>1, <1>2, <1>3, <1>4, <1>5, <1>6 DEF Next

\* Every variable keeps its type: in particular no subscriber is posted to more
\* often than the rule's retries allow (deliver, notify.go:174).
THEOREM NotifyTypeCorrect == Spec => []NotifyTypeOK
<1>1. Init => NotifyTypeOK
  BY NotifyAssumption DEF Init, NotifyTypeOK
<1>2. NotifyTypeOK /\ [Next]_vars => NotifyTypeOK'
  BY NotifyTypeStep
<1>3. QED
  BY <1>1, <1>2, PTL DEF Spec

------------------------------------------------------------------------------
LEMMA DrainStep ==
  ASSUME DrainInv, [Next]_vars
  PROVE  Waited' /\ DrainWaits'
<1> USE DEF DrainInv, Waited, DrainWaits, InFlight, table, fans, tasks
<1>1. ASSUME UNCHANGED <<task, drain, promised>> PROVE Waited' /\ DrainWaits'
  BY <1>1
<1>2. ASSUME NEW s \in Subs, Create(s) \/ Delete(s)
      PROVE  Waited' /\ DrainWaits'
  BY <1>1, <1>2 DEF Create, Delete
<1>3. ASSUME NEW n \in Slots, Fan(n) PROVE Waited' /\ DrainWaits'
  <2>1. CASE List(n) \/ Fails(n) \/ Return(n)
    BY <1>1, <2>1 DEF List, Fails, GiveUp, Return
  <2>2. ASSUME NEW s \in Subs, Pick(n, s) PROVE Waited' /\ DrainWaits'
    BY <1>1, <2>2 DEF Pick, GiveUp
  <2>3. ASSUME NEW s \in Subs, Launch(n, s) PROVE Waited' /\ DrainWaits'
    BY <2>3, PairsAreNotes DEF Launch, NotifyTypeOK, Active
  <2>4. CASE Reuse(n)
    BY <2>4, PairsAreNotes DEF Reuse
  <2>5. QED
    BY <1>3, <2>1, <2>2, <2>3, <2>4 DEF Fan
<1>4. ASSUME NEW p \in Notes, Deliver(p) PROVE Waited' /\ DrainWaits'
  <2>1. CASE Begin(p) \/ Post(p)
    BY <2>1 DEF Begin, Post, NotifyTypeOK, Active
  <2>2. ASSUME End(p) PROVE Waited' /\ DrainWaits'
    BY <2>2 DEF End, NotifyTypeOK
  <2>3. QED
    BY <1>4, <2>1, <2>2 DEF Deliver, MarkDelivered, MarkFailed, MarkLost
<1>5. CASE StartDrain
  BY <1>5 DEF StartDrain
<1>6. CASE EndDrain
  BY <1>6 DEF EndDrain
<1>7. CASE Restart
  BY <1>7 DEF Restart
<1>8. CASE UNCHANGED vars
  BY <1>1, <1>8 DEF vars
<1>9. QED
  BY <1>2, <1>3, <1>4, <1>5, <1>6, <1>7, <1>8 DEF Next

\* A drain that reports success waited for every notification in flight when it
\* began, whatever Fans come meanwhile (Drain, notify.go:146; Add before go,
\* notify.go:136).
THEOREM DrainIsHonest == Spec => []DrainWaits
<1>1. Init => Waited /\ DrainWaits
  BY DEF Init, Waited, DrainWaits, InFlight
<1>2. NotifyTypeOK /\ Waited /\ DrainWaits /\ [Next]_vars =>
        Waited' /\ DrainWaits'
  BY DrainStep DEF DrainInv
<1>3. QED
  BY NotifyTypeCorrect, <1>1, <1>2, PTL DEF Spec

------------------------------------------------------------------------------
LEMMA InPlaceStep ==
  ASSUME NotifyTypeOK, InPlace, [Next]_vars
  PROVE  InPlace'
<1> USE DEF NotifyTypeOK, InPlace, Held, fans, tasks
<1>1. ASSUME UNCHANGED <<fan, rows, chosen, task>> PROVE InPlace'
  BY <1>1
<1>2. ASSUME NEW s \in Subs, Create(s) \/ Delete(s) PROVE InPlace'
  BY <1>1, <1>2 DEF Create, Delete
<1>3. ASSUME NEW n \in Slots, Fan(n) PROVE InPlace'
  <2>1. CASE List(n)
    <3>1. PICK named \in SUBSET Choosy :
            /\ fan' = [fan EXCEPT ![n] = "matching"]
            /\ rows' = [rows EXCEPT ![n] = Matched(named)]
      BY <2>1 DEF List
    <3>2. Matched(named) \subseteq Subs
      BY NotifyAssumption DEF Matched, Wanting
    <3>3. QED
      BY <2>1, <3>1, <3>2 DEF List
  <2>2. ASSUME GiveUp(n) PROVE InPlace'
    <3>1. fan[n] = "idle" => \A s \in Subs : task[<<n, s>>] = "none"
      OBVIOUS
    <3>2. QED
      BY <2>2 DEF GiveUp
  <2>3. ASSUME NEW s \in Subs, Pick(n, s) PROVE InPlace'
    BY <2>2, <2>3 DEF Pick
  <2>4. ASSUME NEW s \in Subs, Launch(n, s) PROVE InPlace'
    <3>1. s \notin Held(n)'
      BY <2>4 DEF Launch
    <3>2. \A m \in Slots : fan'[m] = fan[m] /\ Held(m)' \subseteq Held(m)
      BY <2>4 DEF Launch
    <3>3. \A m \in Slots, t \in Subs :
            (m = n /\ t = s) \/ task'[<<m, t>>] = task[<<m, t>>]
      BY <2>4, PairsAreNotes DEF Launch
    <3>4. fan[n] = "matching"
      BY <2>4 DEF Launch
    <3>5. QED
      BY <3>1, <3>2, <3>3, <3>4
  <2>5. CASE Fails(n) \/ Return(n)
    BY <2>2, <2>5 DEF Fails, Return
  <2>6. CASE Reuse(n)
    BY <2>6, PairsAreNotes DEF Reuse
  <2>7. QED
    BY <1>3, <2>1, <2>3, <2>4, <2>5, <2>6 DEF Fan
<1>4. ASSUME NEW p \in Notes, Deliver(p) PROVE InPlace'
  <2>1. task[p] # "none" /\ UNCHANGED <<fan, rows, chosen>>
    BY <1>4 DEF Deliver, Begin, Post, MarkDelivered, MarkFailed, MarkLost, End
  <2>2. \A q \in Notes : q = p \/ task'[q] = task[q]
    BY <1>4 DEF Deliver, Begin, Post, MarkDelivered, MarkFailed, MarkLost, End
  <2>3. QED
    BY <2>1, <2>2, PairsAreNotes
<1>5. CASE StartDrain \/ EndDrain
  BY <1>1, <1>5 DEF StartDrain, EndDrain
<1>6. CASE Restart
  BY <1>6, PairsAreNotes DEF Restart
<1>7. CASE UNCHANGED vars
  BY <1>1, <1>7 DEF vars
<1>8. QED
  BY <1>2, <1>3, <1>4, <1>5, <1>6, <1>7 DEF Next

------------------------------------------------------------------------------
LEMMA PendingCount ==
  ASSUME NEW s
  PROVE  /\ IsFiniteSet(Pending(s))
         /\ Cardinality(Pending(s)) \in Nat
         /\ Cardinality(Slots) \in Nat
         /\ Cardinality(Pending(s)) =< Cardinality(Slots)
<1>1. Pending(s) \in SUBSET Slots
  BY DEF Pending
<1>2. QED
  BY <1>1, NotifyAssumption, FS_Subset, FS_CardinalityType

LEMMA PendingCountNext ==
  ASSUME NEW s
  PROVE  /\ IsFiniteSet(Pending(s)')
         /\ Cardinality(Pending(s)') \in Nat
         /\ Cardinality(Pending(s)') =< Cardinality(Slots)
<1>1. Pending(s)' \in SUBSET Slots
  BY DEF Pending
<1>2. QED
  BY <1>1, NotifyAssumption, FS_Subset, FS_CardinalityType

\* While nothing is counted, the budget of a parked subscriber is only spent.
LEMMA NothingCounted ==
  ASSUME NotifyTypeOK, Budget, UNCHANGED <<failures, disabled>>,
         \A s \in Subs : disabled[s] => Pending(s)' \subseteq Pending(s)
  PROVE  Budget'
<1>1. ASSUME NEW s \in Subs, disabled[s]
      PROVE  failures[s] + Cardinality(Pending(s)') =< Limit
  <2>1. Cardinality(Pending(s)') =< Cardinality(Pending(s))
    BY <1>1, PendingCount, FS_Subset
  <2>2. failures[s] + Cardinality(Pending(s)) =< Limit
    BY <1>1 DEF Budget
  <2>3. QED
    BY <2>1, <2>2, PendingCount, PendingCountNext, NotifyAssumption
       DEF Limit, NotifyTypeOK
<1>2. QED
  BY <1>1 DEF Budget, Limit

\* The end of a goroutine takes its slot from what its subscriber may still be
\* charged with, and nothing from anybody else's.
LEMMA OneLess ==
  ASSUME NotifyTypeOK, InPlace, NEW n \in Slots, NEW s \in Subs,
         task[<<n, s>>] \in {"good", "bad"}, End(<<n, s>>)
  PROVE  /\ \A t \in Subs : Pending(t)' \subseteq Pending(t)
         /\ Cardinality(Pending(s)') = Cardinality(Pending(s)) - 1
<1>1. UNCHANGED <<rows, chosen>>
  BY DEF End, fans
<1>2. \A q \in Notes : task'[q] = IF q = <<n, s>> THEN "done" ELSE task[q]
  BY DEF End, NotifyTypeOK
<1>3. \A t \in Subs : Pending(t)' \subseteq Pending(t)
  BY <1>1, <1>2, PairsAreNotes DEF Pending, Held, Active
<1>4. n \in Pending(s)
  BY DEF Pending, Active
<1>5. s \notin Held(n)
  BY DEF InPlace
<1>6. Pending(s)' = Pending(s) \ {n}
  BY <1>1, <1>2, <1>5, PairsAreNotes DEF Pending, Held, Active
<1>7. QED
  BY <1>3, <1>4, <1>6, PendingCount, FS_RemoveElement

LEMMA FanBudget ==
  ASSUME ParkInv, NEW n \in Slots, Fan(n)
  PROVE  Budget'
<1> USE DEF ParkInv, NotifyTypeOK, fans, tasks, table
<1>1. UNCHANGED <<failures, disabled>>
  BY DEF Fan, List, Fails, Return, Reuse, Pick, Launch, GiveUp
<1>2. SUFFICES ASSUME NEW s \in Subs, disabled[s]
               PROVE  Pending(s)' \subseteq Pending(s)
  BY <1>1, NothingCounted
<1>3. CASE List(n)
  <2>1. PICK named \in SUBSET Choosy :
          rows' = [rows EXCEPT ![n] = Matched(named)]
    BY <1>3 DEF List
  <2>2. s \notin Matched(named)
    BY <1>2 DEF Matched
  <2>3. QED
    BY <1>3, <2>1, <2>2 DEF List, Pending, Held
<1>4. CASE GiveUp(n)
  BY <1>4 DEF GiveUp, Pending, Held
<1>5. ASSUME NEW t \in Subs, Pick(n, t)
      PROVE  Pending(s)' \subseteq Pending(s)
  BY <1>4, <1>5 DEF Pick, Pending, Held
<1>6. ASSUME NEW t \in Subs, Launch(n, t)
      PROVE  Pending(s)' \subseteq Pending(s)
  <2>1. \A m \in Slots : Held(m)' \subseteq Held(m)
    BY <1>6 DEF Launch, Held
  <2>2. t \in Held(n)
    BY <1>6 DEF Launch, Held
  <2>3. \A q \in Notes : q = <<n, t>> \/ task'[q] = task[q]
    BY <1>6 DEF Launch
  <2>4. QED
    BY <2>1, <2>2, <2>3, PairsAreNotes DEF Pending
<1>7. CASE Return(n)
  BY <1>7 DEF Return, Pending, Held
<1>8. CASE Reuse(n)
  BY <1>8, PairsAreNotes DEF Reuse, Pending, Held, Active
<1>9. QED
  BY <1>3, <1>4, <1>5, <1>6, <1>7, <1>8 DEF Fan, Fails

LEMMA DeliverBudget ==
  ASSUME ParkInv, NEW p \in Notes, Deliver(p)
  PROVE  Budget'
<1> DEFINE n == p[1]
           s == p[2]
<1>1. p = <<n, s>> /\ n \in Slots /\ s \in Subs
  BY PairsAreNotes
<1> HIDE DEF n, s
<1> USE DEF ParkInv
<1>2. CASE Begin(p) \/ Post(p)
  <2>1. UNCHANGED <<failures, disabled, rows, chosen>>
    BY <1>2 DEF Begin, Post, table, fans
  <2>2. task[p] \in Active /\ \A q \in Notes : q = p \/ task'[q] = task[q]
    BY <1>2 DEF Begin, Post, NotifyTypeOK, Active
  <2>3. \A t \in Subs : Pending(t)' \subseteq Pending(t)
    BY <2>1, <2>2, <1>1, PairsAreNotes DEF Pending, Held
  <2>4. QED
    BY <2>1, <2>3, NothingCounted
<1>3. ASSUME End(p), task[p] \in {"good", "bad"}
      PROVE  /\ \A t \in Subs : Pending(t)' \subseteq Pending(t)
             /\ Cardinality(Pending(s)') = Cardinality(Pending(s)) - 1
  BY <1>1, <1>3, OneLess
<1>4. CASE UNCHANGED <<failures, disabled>> /\ End(p) /\ task[p] \in {"good", "bad"}
  BY <1>3, <1>4, NothingCounted
<1>5. CASE MarkDelivered(p)
  <2>1. /\ UNCHANGED disabled
        /\ failures' = [failures EXCEPT ![s] = 0]
        /\ End(p) /\ task[p] = "good"
    BY <1>5 DEF MarkDelivered, s
  <2>2. ASSUME NEW t \in Subs
        PROVE  /\ ~disabled'[t] => failures'[t] < DisableAfter
               /\ disabled'[t] => failures'[t] + Cardinality(Pending(t)') =< Limit
    <3>1. Cardinality(Pending(t)') =< Cardinality(Pending(t))
      BY <1>3, <2>1, PendingCount, FS_Subset
    <3>2. CASE t = s
      <4>1. failures'[t] = 0
        BY <2>1, <1>1, <3>2 DEF NotifyTypeOK
      <4>2. Cardinality(Pending(t)') =< Limit
        BY PendingCountNext, PendingCount, NotifyAssumption DEF Limit
      <4>3. QED
        BY <4>1, <4>2, PendingCountNext, NotifyAssumption
    <3>3. CASE t # s
      <4>1. failures'[t] = failures[t] /\ disabled'[t] = disabled[t]
        BY <2>1, <3>3 DEF NotifyTypeOK
      <4>2. failures[t] \in Nat
        BY DEF NotifyTypeOK
      <4>3. QED
        BY <4>1, <4>2, <3>1, PendingCount, PendingCountNext, NotifyAssumption
           DEF Budget, Limit
    <3>4. QED
      BY <3>2, <3>3
  <2>3. QED
    BY <2>2 DEF Budget, Limit
<1>6. CASE MarkFailed(p)
  <2>1. End(p) /\ task[p] = "bad"
    BY <1>6 DEF MarkFailed
  <2>2. CASE UNCHANGED <<failures, disabled>>
    BY <2>1, <2>2, <1>4
  <2>3. CASE /\ failures' = [failures EXCEPT ![s] = @ + 1]
             /\ disabled' = [disabled EXCEPT ![s] =
                                @ \/ failures[s] + 1 >= DisableAfter]
    <3>1. ASSUME NEW t \in Subs
          PROVE  /\ ~disabled'[t] => failures'[t] < DisableAfter
                 /\ disabled'[t] => failures'[t] + Cardinality(Pending(t)') =< Limit
      <4>1. failures[t] \in Nat
        BY DEF NotifyTypeOK
      <4>2. CASE t = s
        <5>1. failures'[t] = failures[t] + 1
          BY <2>3, <1>1, <4>2 DEF NotifyTypeOK
        <5>2. disabled'[t] <=> disabled[t] \/ failures[t] + 1 >= DisableAfter
          BY Zenon, <2>3, <1>1, <4>2 DEF NotifyTypeOK
        <5>3. Cardinality(Pending(t)') = Cardinality(Pending(t)) - 1
          BY <1>3, <2>1, <4>2
        <5>4. CASE disabled[t]
          <6>1. failures[t] + Cardinality(Pending(t)) =< Limit
            BY <5>4 DEF Budget
          <6>2. QED
            BY <4>1, <5>1, <5>2, <5>3, <5>4, <6>1, PendingCount,
               NotifyAssumption DEF Limit
        <5>5. CASE ~disabled[t]
          <6>1. failures[t] < DisableAfter
            BY <5>5 DEF Budget
          <6>2. QED
            BY <4>1, <5>1, <5>2, <5>3, <5>5, <6>1, PendingCount,
               NotifyAssumption DEF Limit
        <5>6. QED
          BY <5>4, <5>5
      <4>3. CASE t # s
        <5>1. failures'[t] = failures[t] /\ disabled'[t] = disabled[t]
          BY <2>3, <4>3 DEF NotifyTypeOK
        <5>2. Cardinality(Pending(t)') =< Cardinality(Pending(t))
          BY <1>3, <2>1, PendingCount, FS_Subset
        <5>3. QED
          BY <4>1, <5>1, <5>2, PendingCount, PendingCountNext, NotifyAssumption
             DEF Budget, Limit
      <4>4. QED
        BY <4>2, <4>3
    <3>2. QED
      BY <3>1 DEF Budget, Limit
  <2>4. QED
    BY <1>6, <2>2, <2>3 DEF MarkFailed, s
<1>7. CASE MarkLost(p)
  BY <1>4, <1>7 DEF MarkLost
<1>8. QED
  BY <1>2, <1>5, <1>6, <1>7 DEF Deliver

LEMMA BudgetStep ==
  ASSUME ParkInv, [Next]_vars
  PROVE  Budget'
<1> USE DEF ParkInv
<1>1. ASSUME UNCHANGED <<failures, disabled, rows, chosen, task>> PROVE Budget'
  BY <1>1, NothingCounted DEF Pending, Held
<1>2. ASSUME NEW s \in Subs, Create(s) PROVE Budget'
  BY <1>1, <1>2 DEF Create, fans, tasks
<1>3. ASSUME NEW s \in Subs, Delete(s) PROVE Budget'
  <2>1. \A t \in Subs : Pending(t)' = Pending(t)
    BY <1>3 DEF Delete, fans, tasks, Pending, Held
  <2>2. ASSUME NEW t \in Subs
        PROVE  /\ ~disabled'[t] => failures'[t] < DisableAfter
               /\ disabled'[t] => failures'[t] + Cardinality(Pending(t)') =< Limit
    <3>1. CASE t = s
      <4>1. failures'[t] = 0 /\ ~disabled'[t]
        BY <1>3, <3>1 DEF Delete, NotifyTypeOK
      <4>2. QED
        BY <4>1, NotifyAssumption
    <3>2. CASE t # s
      <4>1. failures'[t] = failures[t] /\ disabled'[t] = disabled[t]
        BY <1>3, <3>2 DEF Delete, NotifyTypeOK
      <4>2. QED
        BY <4>1, <2>1 DEF Budget
    <3>3. QED
      BY <3>1, <3>2
  <2>3. QED
    BY <2>2 DEF Budget, Limit
<1>4. ASSUME NEW n \in Slots, Fan(n) PROVE Budget'
  BY <1>4, FanBudget
<1>5. ASSUME NEW p \in Notes, Deliver(p) PROVE Budget'
  BY <1>5, DeliverBudget
<1>6. CASE StartDrain \/ EndDrain
  BY <1>1, <1>6 DEF StartDrain, EndDrain, table, fans, tasks
<1>7. CASE Restart
  <2>1. UNCHANGED <<failures, disabled>>
    BY <1>7 DEF Restart, table
  <2>2. \A s \in Subs : Pending(s)' = {}
    BY <1>7, PairsAreNotes DEF Restart, Pending, Held, Active
  <2>3. QED
    BY <2>1, <2>2, NothingCounted
<1>8. CASE UNCHANGED vars
  BY <1>1, <1>8 DEF vars, table, fans, tasks
<1>9. QED
  BY <1>2, <1>3, <1>4, <1>5, <1>6, <1>7, <1>8 DEF Next

\* The failures of a subscription never pass the limit that parks it by more
\* than the other Fans that had listed it: Matching's disabled = 0 and
\* MarkFailed's comparison together (subscriptions.go:150, :188).
THEOREM ParkingHolds == Spec => []ParkedIsQuiet
<1>1. Init => InPlace /\ Budget
  <2> SUFFICES ASSUME Init PROVE InPlace /\ Budget
    OBVIOUS
  <2>1. InPlace
    BY PairsAreNotes DEF Init, InPlace, Held
  <2>2. \A s \in Subs : failures[s] = 0 /\ ~disabled[s]
    BY DEF Init
  <2>3. QED
    BY <2>1, <2>2, NotifyAssumption DEF Budget
<1>2. NotifyTypeOK /\ InPlace /\ Budget /\ [Next]_vars => InPlace' /\ Budget'
  BY InPlaceStep, BudgetStep DEF ParkInv
<1>3. NotifyTypeOK /\ Budget => ParkedIsQuiet
  <2> SUFFICES ASSUME NotifyTypeOK, Budget, NEW s \in Subs
               PROVE  failures[s] =< Limit
    BY DEF ParkedIsQuiet, Limit
  <2>1. failures[s] \in Nat
    BY DEF NotifyTypeOK
  <2>2. CASE disabled[s]
    BY <2>1, <2>2, PendingCount, NotifyAssumption DEF Budget, Limit
  <2>3. CASE ~disabled[s]
    <3>1. IsFiniteSet(Slots) /\ Cardinality(Slots) \in Nat
      BY PendingCount, NotifyAssumption
    <3>2. QED
      BY <2>1, <2>3, <3>1, NotifyAssumption DEF Budget, Limit
  <2>4. QED
    BY <2>2, <2>3
<1>4. QED
  BY NotifyTypeCorrect, <1>1, <1>2, <1>3, PTL DEF Spec
===============================================================================
