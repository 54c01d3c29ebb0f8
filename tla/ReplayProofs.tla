----------------------------- MODULE ReplayProofs -----------------------------
(***************************************************************************)
(* What holds of Replay for any log, lookback and cap.                     *)
(*                                                                         *)
(* OncePerLookback rests on Memory: what is remembered is the last         *)
(* accepted request, and only an old one is forgotten.  CapIsTheOnlyExcuse *)
(* rests on Ledger: the entries passed over are accounted for one by one,  *)
(* and the cycle's counter is the number of entries it had accepted.       *)
(***************************************************************************)
EXTENDS Replay, TLAPS, FiniteSetTheorems

Inv == ReplayTypeOK /\ Memory /\ Walk /\ Ledger

LEMMA AgesAreNumbers ==
  /\ Ages \subseteq Nat
  /\ Never \notin Ages
  /\ \A a \in Ages \cup {Never} : Older(a) \in Ages \cup {Never}
  /\ \A a \in Ages \cup {Never} : Older(a) = Never <=> a = Never
  /\ \A a \in Ages : a > Lookback => Older(a) > Lookback
  BY ReplayAssumption DEF Ages, Late, Older

LEMMA VerdictType ==
  ASSUME NEW i \in Ids
  PROVE  Verdict(i) \in {"nameless", "old", "remembered", "calling"}
  BY DEF Verdict

\* Type correctness: every step of the cycle, of the provider and of the
\* clock keeps the types, and no cycle exceeds its cap.
LEMMA TypeStep ==
  ASSUME ReplayTypeOK, Walk, [Next]_vars
  PROVE  ReplayTypeOK'
<1> USE ReplayAssumption, AgesAreNumbers DEF ReplayTypeOK, Entries
<1>1. CASE Begin \/ ListFails \/ End
  BY <1>1 DEF Begin, ListFails, End
<1>2. CASE List
  <2>1. \A i \in Ids : (IF log[i] = Never \/ i \in Undated THEN 0 ELSE log[i]) \in Ages
    BY DEF Ages, Late
  <2>2. QED
    BY <1>2, <2>1 DEF List
<1>3. CASE Timeout
  BY <1>3 DEF Timeout
<1>4. CASE Tick
  BY <1>4 DEF Tick
<1>5. CASE Restart
  BY <1>5 DEF Restart
<1>6. ASSUME NEW i \in Ids, Consider(i) PROVE ReplayTypeOK'
  BY <1>6, VerdictType DEF Consider
<1>7. ASSUME NEW i \in Ids, Accepted(i) PROVE ReplayTypeOK'
  <2>1. sent < Cap
    BY <1>7 DEF Accepted, Walk
  <2>2. 0 \in Ages /\ sent + 1 \in 0 .. Cap
    BY <2>1 DEF Ages, Late
  <2>3. QED
    BY <1>7, <2>2 DEF Accepted
<1>8. ASSUME NEW i \in Ids, Refused(i) PROVE ReplayTypeOK'
  BY <1>8 DEF Refused
<1>9. ASSUME NEW i \in Ids, LogChanges(i) PROVE ReplayTypeOK'
  <2>1. 0 \in Ages
    BY DEF Ages, Late
  <2>2. QED
    BY <1>9, <2>1 DEF LogChanges
<1>10. CASE UNCHANGED vars
  BY <1>10 DEF vars
<1>11. QED
  BY <1>1, <1>2, <1>3, <1>4, <1>5, <1>6, <1>7, <1>8, <1>9, <1>10 DEF Next

LEMMA MemoryStep ==
  ASSUME ReplayTypeOK, Memory, [Next]_vars
  PROVE  Memory'
<1> USE ReplayAssumption, AgesAreNumbers DEF ReplayTypeOK, Memory
<1>1. CASE Tick
  BY <1>1 DEF Tick
<1>2. CASE Restart
  BY <1>2 DEF Restart
<1>3. ASSUME NEW i \in Ids, Consider(i) PROVE Memory'
  <2>1. CASE Verdict(i) = "calling"
    <3>1. ~Remembered(i)
      BY <2>1 DEF Verdict
    <3>2. since[i] # Never => since[i] > Lookback
      BY <3>1 DEF Remembered, Ages
    <3>3. QED
      BY <1>3, <2>1, <3>2 DEF Consider
  <2>2. CASE Verdict(i) # "calling"
    BY <1>3, <2>2 DEF Consider
  <2>3. QED
    BY <2>1, <2>2
<1>4. ASSUME NEW i \in Ids, Accepted(i) PROVE Memory'
  BY <1>4 DEF Accepted
<1>5. CASE UNCHANGED <<asked, since>>
  BY <1>5
<1>6. QED
  BY <1>1, <1>2, <1>3, <1>4, <1>5
     DEF Next, Begin, List, ListFails, End, Timeout, Refused, LogChanges, vars

LEMMA WalkStep ==
  ASSUME ReplayTypeOK, Walk, [Next]_vars
  PROVE  Walk'
<1> USE DEF ReplayTypeOK, Walk
<1>1. CASE Begin \/ ListFails
  BY <1>1 DEF Begin, ListFails
<1>2. CASE List
  BY <1>2 DEF List
<1>3. CASE End
  BY <1>3 DEF End, Calling
<1>4. CASE Timeout
  BY <1>4 DEF Timeout
<1>5. CASE Restart
  BY <1>5 DEF Restart
<1>6. ASSUME NEW i \in Ids, Consider(i) PROVE Walk'
  <2>1. /\ entry' = [entry EXCEPT ![i] = Verdict(i)]
        /\ cycle = "walking" /\ cycle' = cycle /\ sent' = sent /\ sent < Cap
        /\ \A j \in Ids : entry[j] # "calling"
    BY <1>6 DEF Consider, Calling, Room
  <2>2. QED
    BY <2>1
<1>7. ASSUME NEW i \in Ids, Accepted(i) PROVE Walk'
  <2>1. \A j \in Ids : entry'[j] # "calling"
    BY <1>7 DEF Accepted
  <2>2. QED
    BY <2>1
<1>8. ASSUME NEW i \in Ids, Refused(i) PROVE Walk'
  BY <1>8 DEF Refused
<1>9. CASE UNCHANGED <<cycle, entry, sent>>
  BY <1>9
<1>10. QED
  BY <1>1, <1>2, <1>3, <1>4, <1>5, <1>6, <1>7, <1>8, <1>9
     DEF Next, Tick, LogChanges, vars

\* Marking one entry moves the number of accepted ones by at most one.
LEMMA Marked ==
  ASSUME NEW f \in [Ids -> Entries], NEW i \in Ids, f[i] # "sent",
         NEW what \in Entries, NEW g, g = [f EXCEPT ![i] = what]
  PROVE  Cardinality({j \in Ids : g[j] = "sent"}) =
           IF what = "sent" THEN Cardinality({j \in Ids : f[j] = "sent"}) + 1
                            ELSE Cardinality({j \in Ids : f[j] = "sent"})
<1> DEFINE S == {j \in Ids : f[j] = "sent"}
<1>1. IsFiniteSet(S) /\ i \notin S
  BY ReplayAssumption, FS_Subset
<1>2. CASE what = "sent"
  <2>1. {j \in Ids : g[j] = "sent"} = S \cup {i}
    BY <1>2
  <2>2. QED
    BY <1>1, <1>2, <2>1, FS_AddElement
<1>3. CASE what # "sent"
  <2>1. {j \in Ids : g[j] = "sent"} = S
    BY <1>3
  <2>2. QED
    BY <1>3, <2>1
<1>4. QED
  BY <1>2, <1>3

LEMMA LedgerStep ==
  ASSUME Inv, [Next]_vars
  PROVE  Ledger'
<1> USE ReplayAssumption, AgesAreNumbers DEF Inv, ReplayTypeOK, Ledger
<1>1. CASE List
  <2>1. {i \in Ids : entry'[i] = "sent"} = {}
    BY <1>1 DEF List
  <2>2. QED
    BY <1>1, <2>1, FS_EmptySet DEF List
<1>2. CASE Begin \/ ListFails \/ End
  BY <1>2 DEF Begin, ListFails, End
<1>3. CASE Timeout
  BY <1>3 DEF Timeout
<1>4. CASE Tick
  BY <1>4 DEF Tick
<1>5. CASE Restart
  BY <1>5 DEF Restart
<1>6. ASSUME NEW i \in Ids, Consider(i) PROVE Ledger'
  <2>1. /\ entry' = [entry EXCEPT ![i] = Verdict(i)]
        /\ entry[i] = "left"
        /\ UNCHANGED <<cycle, aged, sent, since>>
    BY <1>6 DEF Consider
  <2>2. Verdict(i) = "nameless" => i \in Nameless
    BY DEF Verdict
  <2>3. Verdict(i) = "old" => aged[i] > Lookback
    BY DEF Verdict
  <2>4. Verdict(i) = "remembered" => since[i] # Never
    BY DEF Verdict, Remembered, Memory
  <2>5. Cardinality({j \in Ids : entry'[j] = "sent"})
          = Cardinality({j \in Ids : entry[j] = "sent"})
    BY <2>1, VerdictType, Marked DEF Entries
  <2>6. QED
    BY <2>1, <2>2, <2>3, <2>4, <2>5, VerdictType
<1>7. ASSUME NEW i \in Ids, Accepted(i) PROVE Ledger'
  <2>1. /\ entry' = [entry EXCEPT ![i] = "sent"]
        /\ since' = [since EXCEPT ![i] = 0]
        /\ entry[i] = "calling" /\ cycle = "walking"
        /\ sent' = sent + 1
        /\ UNCHANGED <<cycle, aged>>
    BY <1>7 DEF Accepted, Walk
  <2>2. Cardinality({j \in Ids : entry'[j] = "sent"})
          = Cardinality({j \in Ids : entry[j] = "sent"}) + 1
    <3>1. entry \in [Ids -> Entries] /\ "sent" \in Entries /\ entry[i] # "sent"
      BY <2>1 DEF Entries
    <3>2. entry' = [entry EXCEPT ![i] = "sent"]
      BY <2>1
    <3>3. QED
      BY <3>1, <3>2, Marked
  <2>3. QED
    BY <2>1, <2>2
<1>8. ASSUME NEW i \in Ids, Refused(i) PROVE Ledger'
  <2>1. /\ entry' = [entry EXCEPT ![i] = "refused"]
        /\ entry[i] = "calling"
        /\ UNCHANGED <<cycle, aged, sent, since>>
    BY <1>8 DEF Refused
  <2>2. Cardinality({j \in Ids : entry'[j] = "sent"})
          = Cardinality({j \in Ids : entry[j] = "sent"})
    BY <2>1, Marked DEF Entries
  <2>3. QED
    BY <2>1, <2>2
<1>9. CASE UNCHANGED <<cycle, entry, aged, sent, since>>
  BY <1>9
<1>10. QED
  BY <1>1, <1>2, <1>3, <1>4, <1>5, <1>6, <1>7, <1>8, <1>9
     DEF Next, LogChanges, vars

LEMMA Start ==
  Init => Inv
<1> SUFFICES ASSUME Init PROVE Inv
  OBVIOUS
<1>1. ReplayTypeOK
  BY ReplayAssumption, AgesAreNumbers DEF Init, ReplayTypeOK, Entries, Ages, Late
<1>2. Memory /\ Walk /\ Ledger
  BY DEF Init, Memory, Walk, Ledger
<1>3. QED
  BY <1>1, <1>2 DEF Inv

LEMMA Invariance ==
  Spec => []Inv
<1>1. Inv /\ [Next]_vars => Inv'
  BY TypeStep, MemoryStep, WalkStep, LedgerStep DEF Inv
<1>2. QED
  BY <1>1, Start, PTL DEF Spec

------------------------------------------------------------------------------
\* Types, and the cap of a cycle.
THEOREM ReplayTypeCorrect == Spec => []ReplayTypeOK
<1>1. Inv => ReplayTypeOK
  BY DEF Inv
<1>2. QED
  BY <1>1, Invariance, PTL

\* A process asks for a delivery once per lookback.
THEOREM AskedOnce == Spec => OncePerLookback
<1>1. Inv /\ [Next]_vars
      => \A i \in Ids :
           (entry[i] = "left" /\ entry'[i] = "calling" /\ since[i] # Never)
             => since[i] > Lookback
  <2> SUFFICES ASSUME Inv, [Next]_vars, NEW i \in Ids,
                      entry[i] = "left", entry'[i] = "calling", since[i] # Never
               PROVE  since[i] > Lookback
    OBVIOUS
  <2>1. Consider(i) /\ Verdict(i) = "calling"
    <3>1. PICK j \in Ids : Consider(j)
      BY DEF Inv, ReplayTypeOK, Next, Begin, List, ListFails, End, Timeout,
             Tick, Restart, Accepted, Refused, LogChanges, vars
    <3>2. QED
      BY <3>1 DEF Inv, ReplayTypeOK, Consider
  <2>2. ~Remembered(i)
    BY <2>1 DEF Verdict
  <2>3. asked[i] \in Ages \cup {Never}
    BY DEF Inv, ReplayTypeOK
  <2>4. asked[i] # Never => asked[i] = since[i]
    BY DEF Inv, Memory
  <2>5. asked[i] = Never => since[i] > Lookback
    BY DEF Inv, Memory
  <2>6. asked[i] # Never => asked[i] > Lookback
    BY <2>2, <2>3, ReplayAssumption DEF Remembered, Ages, Late
  <2>7. QED
    BY <2>4, <2>5, <2>6
<1>2. QED
  BY <1>1, Invariance, PTL DEF Spec, OncePerLookback

\* A cycle that ends short of its cap has missed nothing it should ask for.
THEOREM NothingMissed == Spec => CapIsTheOnlyExcuse
<1>1. Inv /\ [Next]_vars
      => ((End /\ Cardinality({i \in Ids : entry[i] = "sent"}) < Cap) =>
            \A i \in Ids \ Nameless :
              (entry[i] # "unlisted" /\ aged[i] <= Lookback)
                => (since[i] # Never \/ entry[i] = "refused"))
  <2> SUFFICES ASSUME Inv, End,
                      Cardinality({i \in Ids : entry[i] = "sent"}) < Cap,
                      NEW i \in Ids \ Nameless,
                      entry[i] # "unlisted", aged[i] <= Lookback
               PROVE  since[i] # Never \/ entry[i] = "refused"
    OBVIOUS
  <2>1. Room
    BY DEF Inv, Ledger, End, Room
  <2>2. entry[i] \notin {"left", "calling"}
    BY <2>1 DEF End, Calling
  <2>3. entry[i] \notin {"nameless", "old"}
    <3>1. aged[i] \in Nat /\ Lookback \in Nat
      BY ReplayAssumption, AgesAreNumbers DEF Inv, ReplayTypeOK
    <3>2. entry[i] = "old" => aged[i] > Lookback
      BY DEF Inv, Ledger
    <3>3. entry[i] = "nameless" => i \in Nameless
      BY DEF Inv, Ledger
    <3>4. QED
      BY <3>1, <3>2, <3>3
  <2>4. entry[i] \in {"sent", "remembered", "refused"}
    BY <2>2, <2>3 DEF Inv, ReplayTypeOK, Entries
  <2>5. QED
    BY <2>4 DEF Inv, Ledger
<1>2. QED
  BY <1>1, Invariance, PTL DEF Spec, CapIsTheOnlyExcuse
=============================================================================
