---------------------------- MODULE MirrorProofs ----------------------------
(***************************************************************************)
(* Four layers, each on what is proved of the ones before: the freshness   *)
(* manager alone, the mirror around it, the answers that overtake each     *)
(* other in it, and the consistency check beside it.                       *)
(***************************************************************************)
EXTENDS Audit, Overlap, TLAPS

------------------------------------------------------------------------------
(***************************************************************************)
(* Proofs about Freshness, for any number of callers and keys and any TTL  *)
(* and retry window.                                                       *)
(*                                                                         *)
(* OneFetchPerKey is not inductive: nothing in it says why a second caller *)
(* cannot get in.  Owned adds the reason (whoever is past the mutex owns   *)
(* it).  AnswerKept needs Uncovered beside it: a caller past the mutex     *)
(* found no answer to keep, and none turned up since, because only it may  *)
(* record one.                                                             *)
(***************************************************************************)

\* Whoever is between Lock and Unlock owns the mutex of its key.
Owned == \A c \in Callers : pc[c] \in Holding => lock[at[c]] = c

\* The count Drain waits on is the set of callers whose fetch is open.
CountedInv == inflight = {c \in Callers : pc[c] \in Counted}

\* A caller past the second read has no unexpired answer to protect.
Uncovered == \A c \in Callers : pc[c] \in Holding => left[at[c]] = 0

LockInv == TypeOK /\ Owned /\ CountedInv

AnswerInv == LockInv /\ AnswerKept /\ Uncovered

LEMMA TickRange ==
  ASSUME NEW n \in Nat, NEW x \in 0 .. n
  PROVE  (IF x > 0 THEN x - 1 ELSE 0) \in 0 .. n
  OBVIOUS

------------------------------------------------------------------------------
\* Every variable keeps its type: in particular both deadlines stay within the
\* TTL and the retry window that set them (RecordFetched, MarkError).
THEOREM TypeCorrect == Spec => []TypeOK
<1>1. Init => TypeOK
  BY FreshnessAssumption DEF Init, TypeOK, States, Results, PcValues
<1>2. TypeOK /\ [Next]_vars => TypeOK'
  <2> SUFFICES ASSUME TypeOK, [Next]_vars PROVE TypeOK'
    OBVIOUS
  <2> USE FreshnessAssumption
      DEF TypeOK, States, Results, PcValues, Holding, Counted, Final
  <2>1. ASSUME NEW c \in Callers, Step(c) PROVE TypeOK'
    <3>1. ASSUME NEW k \in Keys, Ensure(c, k) PROVE TypeOK'
      BY <3>1 DEF Ensure, Arrive, row
    <3>2. ASSUME NEW k \in Keys, Refresh(c, k) PROVE TypeOK'
      BY <3>2 DEF Refresh, Arrive, row
    <3>3. CASE Enter(c)
      BY <3>3 DEF Enter, row
    <3>4. CASE Begin(c)
      BY <3>4 DEF Begin
    <3>5. ASSUME NEW r \in Results, Answer(c, r) PROVE TypeOK'
      BY <3>5 DEF Answer, row
    <3>6. CASE RecordError(c)
      BY <3>6 DEF RecordError, Leave
    <3>7. CASE RecordFetched(c)
      <4>1. refused' \in [Keys -> BOOLEAN]
        <5>1. (got[c] = "refused") \in BOOLEAN
          OBVIOUS
        <5>2. CASE refused' = [refused EXCEPT ![at[c]] = got[c] = "refused"]
          BY <5>1, <5>2, Zenon
        <5>3. CASE UNCHANGED refused
          BY <5>3
        <5>4. QED
          BY <3>7, <5>2, <5>3 DEF RecordFetched, row
      <4>2. /\ state' \in [Keys -> States]
            /\ left' \in [Keys -> 0 .. Ttl]
            /\ hold' \in [Keys -> 0 .. ErrorRetry]
            /\ pc' \in [Callers -> PcValues]
        BY <3>7 DEF RecordFetched, row
      <4>3. QED
        BY <3>7, <4>1, <4>2 DEF RecordFetched, Leave
    <3>8. CASE Return(c)
      BY <3>8 DEF Return, row
    <3>9. QED
      BY <2>1, <3>1, <3>2, <3>3, <3>4, <3>5, <3>6, <3>7, <3>8 DEF Step
  <2>2. CASE Tick
    <3>1. left' \in [Keys -> 0 .. Ttl] /\ hold' \in [Keys -> 0 .. ErrorRetry]
      BY <2>2, TickRange DEF Tick
    <3>2. QED
      BY <2>2, <3>1 DEF Tick, caller
  <2>3. CASE StartDrain
    BY <2>3 DEF StartDrain, row, caller
  <2>4. CASE EndDrain
    BY <2>4 DEF EndDrain, row, caller
  <2>5. CASE Restart
    BY <2>5 DEF Restart, row
  <2>6. CASE UNCHANGED vars
    BY <2>6 DEF vars, row, caller
  <2>7. QED
    BY <2>1, <2>2, <2>3, <2>4, <2>5, <2>6 DEF Next
<1>3. QED
  BY <1>1, <1>2, PTL DEF Spec

------------------------------------------------------------------------------
\* The mutex discipline survives every step, whatever the store does.
LEMMA LockStep == LockInv /\ [Next]_vars /\ TypeOK' => LockInv'
<1> SUFFICES ASSUME LockInv, [Next]_vars, TypeOK' PROVE Owned' /\ CountedInv'
  BY DEF LockInv
<1> USE FreshnessAssumption
    DEF LockInv, TypeOK, Owned, CountedInv, PcValues, Holding, Counted, Final
<1>1. ASSUME NEW c \in Callers, Step(c) PROVE Owned' /\ CountedInv'
  <2>1. ASSUME NEW k \in Keys, Ensure(c, k) PROVE Owned' /\ CountedInv'
    <3>1. /\ UNCHANGED <<lock, inflight>>
          /\ pc[c] = "idle" /\ pc' = [pc EXCEPT ![c] = pc'[c]]
          /\ pc'[c] \in {"hit", "error", "queued"}
          /\ \A d \in Callers : d # c => at'[d] = at[d]
      BY <2>1 DEF Ensure, Arrive
    <3>2. QED
      BY <3>1
  <2>2. ASSUME NEW k \in Keys, Refresh(c, k) PROVE Owned' /\ CountedInv'
    <3>1. /\ UNCHANGED <<lock, inflight>>
          /\ pc[c] = "idle" /\ pc' = [pc EXCEPT ![c] = pc'[c]]
          /\ pc'[c] \in {"error", "queued"}
          /\ \A d \in Callers : d # c => at'[d] = at[d]
      BY <2>2 DEF Refresh, Arrive
    <3>2. QED
      BY <3>1
  <2>3. CASE Enter(c)
    BY <2>3 DEF Enter, Free
  <2>4. CASE Begin(c)
    BY <2>4 DEF Begin
  <2>5. ASSUME NEW r \in Results, Answer(c, r) PROVE Owned' /\ CountedInv'
    BY <2>5 DEF Answer
  <2>6. CASE RecordError(c)
    BY <2>6 DEF RecordError, Leave
  <2>7. CASE RecordFetched(c)
    <3>1. /\ pc[c] = "answered" /\ pc' = [pc EXCEPT ![c] = pc'[c]]
          /\ pc'[c] \in {"miss", "error"}
          /\ inflight' = inflight \ {c}
          /\ lock' = [lock EXCEPT ![at[c]] = NoOne]
          /\ UNCHANGED at
      BY <2>7 DEF RecordFetched, Leave
    <3>2. QED
      BY <3>1
  <2>8. CASE Return(c)
    BY <2>8 DEF Return
  <2>9. QED
    BY <1>1, <2>1, <2>2, <2>3, <2>4, <2>5, <2>6, <2>7, <2>8 DEF Step
<1>2. CASE Tick
  BY <1>2 DEF Tick, caller
<1>3. CASE StartDrain
  BY <1>3 DEF StartDrain, caller
<1>4. CASE EndDrain
  BY <1>4 DEF EndDrain, caller
<1>5. CASE Restart
  BY <1>5 DEF Restart
<1>6. CASE UNCHANGED vars
  BY <1>6 DEF vars, caller
<1>7. QED
  BY <1>1, <1>2, <1>3, <1>4, <1>5, <1>6 DEF Next

LEMMA LockAlways == Spec => []LockInv
<1>1. Init => Owned /\ CountedInv
  BY DEF Init, Owned, CountedInv, Holding, Counted
<1>2. QED
  BY <1>1, LockStep, TypeCorrect, PTL DEF Spec, LockInv

\* At most one caller per key is before the upstream (doFetch's mutex): who is
\* counted is past the mutex, and a mutex has one owner.
THEOREM OneFetch == Spec => []OneFetchPerKey
<1>1. LockInv => OneFetchPerKey
  BY DEF LockInv, Owned, OneFetchPerKey, Holding, Counted
<1>2. QED
  BY <1>1, LockAlways, PTL

------------------------------------------------------------------------------
\* Where no bookkeeping statement fails, the second read under the mutex keeps
\* every answer that is still good.
LEMMA AnswerStep ==
  ASSUME ~StoreMayFail, AnswerInv, [Next]_vars, LockInv'
  PROVE  AnswerInv'
<1> USE FreshnessAssumption
    DEF AnswerInv, LockInv, TypeOK, Owned, AnswerKept, Uncovered, PcValues,
        Holding, Final
<1>1. ASSUME NEW c \in Callers, Step(c) PROVE AnswerInv'
  <2>1. ASSUME NEW k \in Keys, Ensure(c, k) PROVE AnswerInv'
    <3>1. /\ UNCHANGED <<state, left>>
          /\ pc[c] = "idle" /\ pc' = [pc EXCEPT ![c] = pc'[c]]
          /\ pc'[c] \in {"hit", "error", "queued"}
          /\ \A d \in Callers : d # c => at'[d] = at[d]
      BY <2>1 DEF Ensure, Arrive, row
    <3>2. QED
      BY <3>1
  <2>2. ASSUME NEW k \in Keys, Refresh(c, k) PROVE AnswerInv'
    <3>1. /\ UNCHANGED <<state, left>>
          /\ pc[c] = "idle" /\ pc' = [pc EXCEPT ![c] = pc'[c]]
          /\ pc'[c] = "queued"
          /\ \A d \in Callers : d # c => at'[d] = at[d]
      BY <2>2 DEF Refresh, Arrive, row
    <3>2. QED
      BY <3>1
  <2>3. CASE Enter(c)
    BY <2>3 DEF Enter, Free, RefreshedMeanwhile, Fresh, row
  <2>4. CASE Begin(c)
    BY <2>4 DEF Begin
  <2>5. ASSUME NEW r \in Results, Answer(c, r) PROVE AnswerInv'
    BY <2>5 DEF Answer, row
  <2>6. CASE RecordError(c)
    BY <2>6 DEF RecordError, Leave
  <2>7. CASE RecordFetched(c)
    <3>1. /\ pc[c] = "answered" /\ pc' = [pc EXCEPT ![c] = "miss"]
          /\ state' = [state EXCEPT ![at[c]] = "fresh"]
          /\ left' = [left EXCEPT ![at[c]] = Ttl]
          /\ UNCHANGED at
      BY <2>7 DEF RecordFetched, Leave
    <3>2. AnswerKept'
      BY <3>1
    <3>3. \A d \in Callers : pc'[d] \in Holding => d # c /\ at[d] # at[c]
      BY <3>1
    <3>4. QED
      BY <3>1, <3>2, <3>3
  <2>8. CASE Return(c)
    BY <2>8 DEF Return, row
  <2>9. QED
    BY <1>1, <2>1, <2>2, <2>3, <2>4, <2>5, <2>6, <2>7, <2>8 DEF Step
<1>2. CASE Tick
  BY <1>2 DEF Tick, caller
<1>3. CASE StartDrain
  BY <1>3 DEF StartDrain, row, caller
<1>4. CASE EndDrain
  BY <1>4 DEF EndDrain, row, caller
<1>5. CASE Restart
  BY <1>5 DEF Restart, row
<1>6. CASE UNCHANGED vars
  BY <1>6 DEF vars, row, caller
<1>7. QED
  BY <1>1, <1>2, <1>3, <1>4, <1>5, <1>6 DEF Next

LEMMA AnswerAlways == ASSUME ~StoreMayFail PROVE Spec => []AnswerInv
<1>1. Init /\ LockInv => AnswerInv
  BY DEF Init, AnswerInv, AnswerKept, Uncovered, Holding
<1>2. AnswerInv /\ [Next]_vars /\ LockInv' => AnswerInv'
  BY AnswerStep
<1>3. QED
  BY <1>1, <1>2, LockAlways, PTL DEF Spec

\* An answer still good is never given up for a fetch (doFetch's second read):
\* whatever queues behind a fetch, the row it recorded stays fresh until its
\* TTL runs out.  A second read that fails breaks this, hence the assumption.
THEOREM AnswersAreKept == ASSUME ~StoreMayFail PROVE Spec => []AnswerKept
<1>1. AnswerInv => AnswerKept
  BY DEF AnswerInv
<1>2. QED
  BY <1>1, AnswerAlways, PTL

------------------------------------------------------------------------------
\* The caller of a step of doFetch is the only one asking about its key.
LEMMA OnlyAsker ==
  ASSUME LockInv, NEW c \in Callers, NEW d \in Callers,
         pc[c] \in Holding, pc[d] \in Holding, at[c] = at[d]
  PROVE  c = d
  BY DEF LockInv, Owned

\* The step simulation behind KeepsPromise.
LEMMA PromiseStep ==
  ASSUME ~StoreMayFail, AnswerInv, [Next]_vars
  PROVE  [Abstract!Next]_(Abstract!vars)
<1> USE FreshnessAssumption
    DEF AnswerInv, LockInv, TypeOK, Abstract!vars, Holding, Counted, Final
<1>1. ASSUME NEW c \in Callers, Step(c) PROVE [Abstract!Next]_(Abstract!vars)
  <2>1. CASE \/ \E k \in Keys : Ensure(c, k) \/ Refresh(c, k)
            \/ Enter(c) \/ Return(c) \/ (\E r \in Results : Answer(c, r))
    <3>1. UNCHANGED left
      BY <2>1 DEF Ensure, Refresh, Arrive, Enter, Return, Answer, row
    <3>2. \A d \in Callers : /\ (pc'[d] \in Counted) = (pc[d] \in Counted)
                             /\ pc[d] \in Counted => at'[d] = at[d]
      BY <2>1 DEF Ensure, Refresh, Arrive, Enter, Return, Answer
    <3>3. Asking' = Asking
      BY <3>2 DEF Asking
    <3>4. QED
      BY <3>1, <3>3
  <2>2. CASE Begin(c)
    <3>1. at[c] \in Keys /\ left[at[c]] = 0 /\ UNCHANGED left
      BY <2>2 DEF Begin, Uncovered
    <3>2. at[c] \notin Asking
      BY <2>2, OnlyAsker DEF Begin, Asking
    <3>3. Asking' = Asking \cup {at[c]}
      BY <2>2 DEF Begin, Asking
    <3>4. Abstract!Ask(at[c])
      BY <3>1, <3>2, <3>3 DEF Abstract!Ask
    <3>5. QED
      BY <3>1, <3>4 DEF Abstract!Next
  <2>3. CASE RecordError(c)
    <3>1. at[c] \in Keys /\ UNCHANGED left
      BY <2>3 DEF RecordError
    <3>2. at[c] \in Asking
      BY <2>3 DEF RecordError, Asking
    <3>3. Asking' = Asking \ {at[c]}
      BY <2>3, OnlyAsker DEF RecordError, Leave, Asking
    <3>4. Abstract!Fail(at[c])
      BY <3>1, <3>2, <3>3 DEF Abstract!Fail
    <3>5. QED
      BY <3>1, <3>4 DEF Abstract!Next
  <2>4. CASE RecordFetched(c)
    <3>1. at[c] \in Keys /\ left' = [left EXCEPT ![at[c]] = Ttl]
      BY <2>4 DEF RecordFetched
    <3>2. at[c] \in Asking
      BY <2>4 DEF RecordFetched, Asking
    <3>3. Asking' = Asking \ {at[c]}
      <4>1. pc[c] = "answered" /\ pc' = [pc EXCEPT ![c] = "miss"] /\ UNCHANGED at
        BY <2>4 DEF RecordFetched, Leave
      <4>2. QED
        BY <4>1, OnlyAsker DEF Asking
    <3>4. Abstract!Learn(at[c])
      BY <3>1, <3>2, <3>3 DEF Abstract!Learn
    <3>5. QED
      BY <3>1, <3>4 DEF Abstract!Next
  <2>5. QED
    BY <1>1, <2>1, <2>2, <2>3, <2>4 DEF Step
<1>2. CASE Tick
  <2>1. Asking' = Asking
    BY <1>2 DEF Tick, caller, Asking
  <2>2. Abstract!Tick
    BY <1>2, <2>1 DEF Tick, Abstract!Tick
  <2>3. QED
    BY <2>2 DEF Abstract!Next
<1>3. CASE Restart
  <2>1. Asking' = {} /\ UNCHANGED left
    BY <1>3 DEF Restart, row, Asking
  <2>2. Abstract!Restart
    BY <2>1 DEF Abstract!Restart
  <2>3. QED
    BY <2>2 DEF Abstract!Next
<1>4. CASE StartDrain \/ EndDrain \/ UNCHANGED vars
  BY <1>4 DEF Asking, StartDrain, EndDrain, vars, row, caller
<1>5. QED
  BY <1>1, <1>2, <1>3, <1>4 DEF Next

\* Freshness implements SingleFlight: however many callers meet, however the
\* fetches end and wherever the process dies, each key has one question at most
\* before the upstream and none while its answer is good.
THEOREM PromiseKept == ASSUME ~StoreMayFail PROVE Spec => KeepsPromise
<1>1. Init => Abstract!Init
  BY DEF Init, Abstract!Init, Asking, Counted
<1>2. AnswerInv /\ [Next]_vars => [Abstract!Next]_(Abstract!vars)
  BY PromiseStep
<1>3. QED
  BY <1>1, <1>2, AnswerAlways, PTL DEF Spec, KeepsPromise, Abstract!Spec

------------------------------------------------------------------------------
(***************************************************************************)
(* What holds of Mirror for any number of callers and keys.  Mirror's      *)
(* steps are steps of Freshness on Freshness's variables, so what is       *)
(* proved there (the mutex above all) may be used here.                    *)
(***************************************************************************)

LEMMA MirrorStep == ASSUME [MirrorNext]_mvars PROVE [Next]_vars
<1>1. ASSUME NEW c \in Callers, Move(c) PROVE [Next]_vars
  <2>1. ASSUME NEW k \in Keys, Arrives(c, k) \/ Sweep(c, k) PROVE Step(c)
    BY <2>1 DEF Arrives, Sweep, Step
  <2>2. CASE Bookkeep(c)
    BY <2>2 DEF Bookkeep, Step, Next
  <2>3. CASE Respond(c) \/ ReadRefusal(c) \/ ReadRow(c)
    BY <2>3 DEF Respond, ReadRefusal, ReadRow
  <2>4. CASE Absorb(c) \/ NotModified(c) \/ Fail(c)
    BY <2>4 DEF Absorb, NotModified, Fail, Step, Next, Results
  <2>5. CASE Done(c)
    BY <2>5 DEF Done, Step, Next
  <2>6. QED
    BY <1>1, <2>1, <2>2, <2>3, <2>4, <2>5 DEF Move, Proceed, Next
<1>2. ASSUME NEW r \in Rows, Change(r) \/ Write(r) \/ Purge(r) PROVE [Next]_vars
  BY <1>2 DEF Change, Write, Purge
<1>3. ASSUME NEW r \in Rows, NEW v \in Versions, Deliver(r, v) PROVE [Next]_vars
  BY <1>3 DEF Deliver
<1>4. CASE Passes \/ Reboot
  BY <1>4 DEF Passes, Reboot, Next
<1>5. CASE UNCHANGED mvars
  BY <1>5 DEF mvars
<1>6. QED
  BY <1>1, <1>2, <1>3, <1>4, <1>5 DEF MirrorNext

\* Mirror is Freshness with a world around it: whatever readers, deliveries,
\* purges and the upstream do, the freshness manager behaves as specified.
THEOREM MirrorIsFresh == MirrorSpec => Spec
<1>1. MirrorInit => Init
  BY DEF MirrorInit
<1>2. [MirrorNext]_mvars => [Next]_vars
  BY MirrorStep
<1>3. QED
  BY <1>1, <1>2, PTL DEF MirrorSpec, Spec

\* So two readers of one key never fetch at the same time here either.
COROLLARY MirrorLocks == MirrorSpec => []LockInv
  BY MirrorIsFresh, LockAlways, PTL

------------------------------------------------------------------------------
LEMMA ClockType == \A v \in Versions : Clock(v) \in 0 .. MaxVersion
  BY MirrorAssumption DEF Versions, Clock

LEMMA RowType == \A k \in Keys : RowOf[k] \in Rows
  BY DEF Rows

LEMMA MirrorTypeStep ==
  ASSUME TypeOK, MirrorTypeOK, [MirrorNext]_mvars
  PROVE  MirrorTypeOK'
<1> USE MirrorAssumption DEF MirrorTypeOK, TypeOK, Versions, reading
<1>1. ASSUME NEW c \in Callers, Move(c) PROVE MirrorTypeOK'
  <2>1. ASSUME NEW k \in Keys, Arrives(c, k) \/ Sweep(c, k) PROVE MirrorTypeOK'
    BY <2>1 DEF Arrives, Sweep
  <2>2. CASE Bookkeep(c) \/ NotModified(c) \/ Fail(c)
    BY <2>2 DEF Bookkeep, NotModified, Fail
  <2>3. CASE Respond(c)
    BY <2>3, RowType DEF Respond
  <2>4. CASE Absorb(c)
    BY <2>4, RowType DEF Absorb, Forgets
  <2>5. CASE ReadRefusal(c)
    BY <2>5 DEF ReadRefusal
  <2>6. CASE ReadRow(c)
    BY <2>6, RowType DEF ReadRow
  <2>7. CASE Done(c)
    BY <2>7 DEF Done
  <2>8. QED
    BY <1>1, <2>1, <2>2, <2>3, <2>4, <2>5, <2>6, <2>7 DEF Move, Proceed
<1>2. ASSUME NEW r \in Rows, Change(r) \/ Write(r) \/ Purge(r) PROVE MirrorTypeOK'
  BY <1>2 DEF Change, Write, Purge
<1>3. ASSUME NEW r \in Rows, NEW v \in Versions, Deliver(r, v) PROVE MirrorTypeOK'
  BY <1>3, ClockType DEF Deliver
<1>4. CASE Passes \/ Reboot
  BY <1>4 DEF Passes, Reboot
<1>5. CASE UNCHANGED mvars
  BY <1>5 DEF mvars
<1>6. QED
  BY <1>1, <1>2, <1>3, <1>4, <1>5 DEF MirrorNext

\* Every variable of Mirror keeps its type.
THEOREM MirrorTypeCorrect == MirrorSpec => []MirrorTypeOK
<1>1. MirrorInit => MirrorTypeOK
  BY MirrorAssumption DEF MirrorInit, MirrorTypeOK, Versions
<1>2. TypeOK /\ MirrorTypeOK /\ [MirrorNext]_mvars => MirrorTypeOK'
  BY MirrorTypeStep
<1>3. QED
  BY <1>1, <1>2, MirrorIsFresh, TypeCorrect, PTL DEF MirrorSpec

------------------------------------------------------------------------------
(* Where nothing deletes rows, freshness implies a row.                     *)

\* No purge, no invalidation, no event that tells of a disappearance, no list
\* that is complete, and no 304 that counts as an answer.
NothingDeletes ==
  /\ ~WritesThrough
  /\ Hook # "invalidate"
  /\ Hook = "none" \/ Absent \subseteq {1}
  /\ \A k \in Keys : Shape[k] # "complete"
  /\ ~Conditional

\* RowBehindFresh between the store of the document and the record of its fetch.
RowInv ==
  /\ RowBehindFresh
  /\ purging = {}
  /\ \A c \in Callers :
       /\ got[c] # "unchanged"
       /\ pc[c] = "answered" /\ got[c] = "ok" /\ Shape[at[c]] = "single" =>
            stored[RowOf[at[c]]] # 0

LEMMA RowStep ==
  ASSUME NothingDeletes, TypeOK, MirrorTypeOK, RowInv, [MirrorNext]_mvars
  PROVE  RowInv'
<1> USE DEF RowInv, RowBehindFresh, MirrorTypeOK, TypeOK, Versions, reading, row
<1>1. ASSUME NEW c \in Callers, Move(c) PROVE RowInv'
  <2>1. ASSUME NEW k \in Keys, Arrives(c, k) \/ Sweep(c, k) PROVE RowInv'
    BY <2>1 DEF Arrives, Sweep, Ensure, Refresh, Arrive
  <2>2. CASE Enter(c) /\ Bookkeep(c)
    BY <2>2 DEF Bookkeep, Enter
  <2>3. CASE Begin(c) /\ Bookkeep(c)
    BY <2>3 DEF Bookkeep, Begin
  <2>4. CASE RecordError(c) /\ Bookkeep(c)
    BY <2>4 DEF Bookkeep, RecordError, Leave
  <2>5. CASE RecordFetched(c) /\ Bookkeep(c)
    <3>1. /\ UNCHANGED <<stored, purging, at>>
          /\ got' = [got EXCEPT ![c] = "none"]
          /\ \A d \in Callers : pc'[d] = "answered" => pc[d] = "answered" /\ d # c
      BY <2>5 DEF Bookkeep, RecordFetched, Leave
    <3>2. \A k \in Keys : Shape[k] = "single" /\ state'[k] = "fresh" /\ ~refused'[k] =>
                            stored[RowOf[k]] # 0
      <4>1. CASE UNCHANGED row
        BY <4>1
      <4>2. CASE /\ state' = [state EXCEPT ![at[c]] = "fresh"]
                 /\ refused' = [refused EXCEPT ![at[c]] = got[c] = "refused"]
        <5>1. pc[c] = "answered" /\ (got[c] = "ok" \/ got[c] = "refused")
          BY <2>5 DEF RecordFetched, Results
        <5>2. got[c] = "ok" /\ Shape[at[c]] = "single" => stored[RowOf[at[c]]] # 0
          BY <5>1
        <5>3. got[c] = "refused" => refused'[at[c]]
          BY <4>2
        <5>4. \A k \in Keys : k # at[c] =>
                state'[k] = state[k] /\ refused'[k] = refused[k]
          BY <4>2
        <5>5. QED
          BY <5>1, <5>2, <5>3, <5>4
      <4>3. QED
        BY <2>5, <4>1, <4>2 DEF RecordFetched
    <3>3. QED
      BY <3>1, <3>2
  <2>6. CASE Respond(c) \/ ReadRefusal(c) \/ ReadRow(c)
    BY <2>6 DEF Respond, ReadRefusal, ReadRow, vars, caller
  <2>7. CASE Absorb(c)
    <3>1. /\ UNCHANGED <<state, refused, purging, at>>
          /\ pc' = [pc EXCEPT ![c] = "answered"]
          /\ seen[c] # 0
          /\ \/ /\ stored' = [stored EXCEPT ![RowOf[at[c]]] = seen[c]]
                /\ got' = [got EXCEPT ![c] = "ok"]
             \/ /\ UNCHANGED stored
                /\ \/ \E r \in {"refused", "failed"} : got' = [got EXCEPT ![c] = r]
                   \/ Shape[at[c]] # "single" /\ got' = [got EXCEPT ![c] = "ok"]
      BY <2>7 DEF Absorb, Answer, Forgets, NothingDeletes
    <3>2. \A r \in Rows : stored[r] # 0 => stored'[r] # 0
      BY <3>1, RowType
    <3>3. \A d \in Callers :
            pc'[d] = "answered" /\ got'[d] = "ok" /\ Shape[at[d]] = "single" =>
              stored'[RowOf[at[d]]] # 0
      BY <3>1, <3>2, RowType
    <3>4. QED
      BY <3>1, <3>2, <3>3, RowType
  <2>8. CASE Fail(c)
    BY <2>8 DEF Fail, Answer
  <2>9. CASE Done(c)
    BY <2>9 DEF Done, Return
  <2>10. CASE NotModified(c)
    BY <2>10 DEF NotModified, NothingDeletes
  <2>11. QED
    BY <1>1, <2>1, <2>2, <2>3, <2>4, <2>5, <2>6, <2>7, <2>8, <2>9, <2>10
       DEF Move, Proceed, Bookkeep
<1>2. ASSUME NEW r \in Rows, Change(r) \/ Write(r) \/ Purge(r) PROVE RowInv'
  BY <1>2 DEF Change, Write, Purge, vars, caller, NothingDeletes
<1>3. ASSUME NEW r \in Rows, NEW v \in Versions, Deliver(r, v) PROVE RowInv'
  <2>1. v # 0 /\ v # 1
    BY <1>3 DEF Deliver
  <2>2. v \notin Absent
    BY <1>3, <2>1 DEF Deliver, NothingDeletes
  <2>3. stored' = [stored EXCEPT ![r] = v]
    BY <1>3, <2>2 DEF Deliver, NothingDeletes
  <2>4. UNCHANGED <<state, refused, purging, got, pc, at>>
    BY <1>3 DEF Deliver, vars, caller
  <2>5. QED
    BY <2>1, <2>3, <2>4, RowType
<1>4. CASE Passes
  BY <1>4 DEF Passes, Tick, caller
<1>5. CASE Reboot
  BY <1>5 DEF Reboot, Restart
<1>6. CASE UNCHANGED mvars
  BY <1>6 DEF mvars, vars, caller
<1>7. QED
  BY <1>1, <1>2, <1>3, <1>4, <1>5, <1>6 DEF MirrorNext

\* Where nothing deletes rows, a key of a single route that counts as fresh and
\* not as refused has a row, whatever other keys of the row do, so no hit is
\* answered with an empty 404 (Put before RecordFetched).
THEOREM RowsBehindFresh == ASSUME NothingDeletes PROVE MirrorSpec => []RowBehindFresh
<1>1. MirrorInit => RowInv
  BY DEF MirrorInit, Init, RowInv, RowBehindFresh
<1>2. TypeOK /\ MirrorTypeOK /\ RowInv /\ [MirrorNext]_mvars => RowInv'
  BY RowStep
<1>3. RowInv => RowBehindFresh
  BY DEF RowInv
<1>4. QED
  BY <1>1, <1>2, <1>3, MirrorIsFresh, TypeCorrect, MirrorTypeCorrect, PTL
     DEF MirrorSpec

------------------------------------------------------------------------------
(***************************************************************************)
(* What holds of Overlap for any number of callers, keys and rows, however *)
(* the keys share the rows.  Its steps are those of Mirror with a history, *)
(* and those of the drain.                                                 *)
(***************************************************************************)

LEMMA OverlapStep ==
  ASSUME [OverlapNext]_ovars
  PROVE  [MirrorNext]_mvars \/ Shuts
<1>1. ASSUME NEW c \in Callers, Stores(c) \/ Records(c) \/ Fails(c) PROVE MirrorNext
  BY <1>1 DEF Stores, Records, Fails, MirrorNext, Move, Proceed
<1>2. ASSUME NEW c \in Callers, Goes(c) PROVE MirrorNext
  BY <1>2 DEF Goes, MirrorNext, Move, Proceed
<1>3. ASSUME NEW r \in Rows, Delivers(r) \/ Writes(r) PROVE MirrorNext
  BY <1>3 DEF Delivers, Writes, MirrorNext
<1>4. CASE Ages \/ Dies
  BY <1>4 DEF Ages, Dies, MirrorNext
<1>5. CASE UNCHANGED ovars
  BY <1>5 DEF ovars
<1>6. QED
  BY <1>1, <1>2, <1>3, <1>4, <1>5 DEF OverlapNext

\* The freshness manager behaves as specified whatever keys share a row, beside
\* a drain and restarts: what is proved of Freshness holds of Overlap.
THEOREM OverlapIsFresh == OverlapSpec => Spec
<1>1. OverlapInit => Init
  BY DEF OverlapInit, MirrorInit
<1>2. [OverlapNext]_ovars => [Next]_vars
  <2>1. Shuts => Next
    BY DEF Shuts, Next
  <2>2. QED
    BY <2>1, OverlapStep, MirrorStep
<1>3. QED
  BY <1>1, <1>2, PTL DEF OverlapSpec, Spec

\* Rows, watermarks, fetches, readers and the history of what was overtaken keep
\* their types.
THEOREM OverlapTypes == OverlapSpec => []OverlapTypeOK
<1>1. OverlapInit => OverlapTypeOK
  BY MirrorAssumption DEF OverlapInit, MirrorInit, OverlapTypeOK, MirrorTypeOK, Versions
<1>2. MirrorTypeOK /\ Shuts => MirrorTypeOK'
  BY DEF Shuts, MirrorTypeOK, reading
<1>3. TypeOK /\ OverlapTypeOK /\ [OverlapNext]_ovars =>
        late' \subseteq Callers /\ back' \subseteq Rows
  <2> SUFFICES ASSUME TypeOK, OverlapTypeOK, [OverlapNext]_ovars
               PROVE  late' \subseteq Callers /\ back' \subseteq Rows
    OBVIOUS
  <2> USE DEF OverlapTypeOK, history
  <2>1. ASSUME NEW c \in Callers, Stores(c) \/ Records(c) \/ Fails(c) \/ Goes(c)
        PROVE  late' \subseteq Callers /\ back' \subseteq Rows
    <3>1. RowOf[at[c]] \in Rows
      BY RowType DEF TypeOK
    <3>2. QED
      BY <2>1, <3>1 DEF Stores, Records, Fails, Goes, Overtakes, Holders
  <2>2. ASSUME NEW r \in Rows, Delivers(r) \/ Writes(r)
        PROVE  late' \subseteq Callers /\ back' \subseteq Rows
    BY <2>2 DEF Delivers, Writes, Overtakes, Holders
  <2>3. CASE Ages \/ Shuts \/ Dies \/ UNCHANGED ovars
    BY <2>3 DEF Ages, Shuts, Dies, ovars
  <2>4. QED
    BY <2>1, <2>2, <2>3 DEF OverlapNext
<1>4. TypeOK /\ OverlapTypeOK /\ [OverlapNext]_ovars => OverlapTypeOK'
  BY <1>2, <1>3, OverlapStep, MirrorTypeStep DEF OverlapTypeOK
<1>5. QED
  BY <1>1, <1>4, OverlapIsFresh, TypeCorrect, PTL DEF OverlapSpec

------------------------------------------------------------------------------
\* What the store of an answer does.
LEMMA Absorbed ==
  ASSUME NEW c \in Callers, Absorb(c), TypeOK
  PROVE  /\ pc[c] = "asking" /\ pc' = [pc EXCEPT ![c] = "answered"] /\ seen[c] # 0
         /\ got' = [got EXCEPT ![c] = got'[c]]
         /\ UNCHANGED <<truth, seen, at, refused, reply, body>>
         /\ \/ /\ seen[c] \notin Absent /\ got'[c] = "ok"
               /\ stored' = [stored EXCEPT ![RowOf[at[c]]] = seen[c]]
            \/ /\ seen[c] \in Absent /\ Shape[at[c]] = "single"
               /\ got'[c] \in {"refused", "failed"}
               /\ UNCHANGED stored
            \/ /\ seen[c] \in Absent /\ Shape[at[c]] # "single" /\ got'[c] = "ok"
               /\ stored' = stored \/ stored' = [stored EXCEPT ![RowOf[at[c]]] = 0]
  BY DEF Absorb, Answer, Forgets, row, reading, TypeOK

\* What a step of doFetch does: it records a success, or does not.
LEMMA Bookkept ==
  ASSUME NEW c \in Callers, Bookkeep(c), TypeOK
  PROVE  /\ UNCHANGED <<truth, stored, seen, at, reply, body>>
         /\ pc' = [pc EXCEPT ![c] = pc'[c]]
         /\ \A d \in Callers : d # c => got'[d] = got[d]
         /\ \/ /\ pc[c] = "answered" /\ pc'[c] = "miss"
               /\ got[c] \in {"ok", "unchanged", "refused"}
               /\ refused' = [refused EXCEPT ![at[c]] = got[c] = "refused"]
            \/ /\ UNCHANGED refused
               /\ \/ pc[c] = "queued" /\ pc'[c] \in {"hit", "cleared"}
                  \/ pc[c] = "cleared" /\ pc'[c] = "asking"
                  \/ pc[c] = "answered" /\ pc'[c] = "error"
  BY DEF Bookkeep, Enter, Begin, RecordError, RecordFetched, Leave, row, reading, Results, TypeOK

\* What a caller that comes in does.
LEMMA CameIn ==
  ASSUME NEW c \in Callers, NEW k \in Keys, Arrives(c, k) \/ Sweep(c, k), TypeOK
  PROVE  /\ UNCHANGED <<truth, stored, seen, refused, got, reply, body>>
         /\ pc[c] = "idle" /\ pc' = [pc EXCEPT ![c] = pc'[c]]
         /\ pc'[c] \in {"hit", "error", "queued"}
         /\ at' = [at EXCEPT ![c] = k]
  BY DEF Arrives, Sweep, Ensure, Refresh, Arrive, row, reading, TypeOK

\* What the end of a call without a document does.
LEMMA GaveUp ==
  ASSUME NEW c \in Callers, NotModified(c) \/ Fail(c), TypeOK
  PROVE  /\ UNCHANGED <<truth, stored, seen, at, refused, reply, body>>
         /\ pc[c] = "asking" /\ pc' = [pc EXCEPT ![c] = "answered"]
         /\ \/ got' = [got EXCEPT ![c] = "unchanged"] /\ seen[c] = 0
            \/ got' = [got EXCEPT ![c] = "failed"]
  BY DEF NotModified, Fail, Answer, row, reading

\* A step with no caller: the upstream, a purge, a delivery, time, a drain.
Beside ==
  \/ \E r \in Rows : Change(r) \/ Write(r) \/ Purge(r)
  \/ \E r \in Rows, v \in Versions : Deliver(r, v)
  \/ Passes \/ Shuts

LEMMA StoodBy ==
  ASSUME Beside, TypeOK, MirrorTypeOK
  PROVE  /\ UNCHANGED <<seen, pc, at, refused, got, reply, body>>
         /\ \A r \in Rows :
              /\ truth'[r] \in Versions /\ truth[r] <= truth'[r]
              /\ stored'[r] \in Versions \cup {0}
              /\ stored'[r] = stored[r] \/ stored'[r] <= truth[r]
<1> USE MirrorAssumption DEF MirrorTypeOK, Versions, vars, row, caller, reading
<1>1. ASSUME NEW r \in Rows, Change(r) \/ Write(r) PROVE
        /\ UNCHANGED <<seen, pc, at, refused, got, reply, body, stored>>
        /\ truth' = [truth EXCEPT ![r] = @ + 1] /\ truth[r] < MaxVersion
  BY <1>1 DEF Change, Write
<1>2. ASSUME NEW r \in Rows, Purge(r) PROVE
        /\ UNCHANGED <<seen, pc, at, refused, got, reply, body, truth>>
        /\ stored' = stored \/ stored' = [stored EXCEPT ![r] = 0]
  BY <1>2 DEF Purge
<1>3. ASSUME NEW r \in Rows, NEW v \in Versions, Deliver(r, v) PROVE
        /\ UNCHANGED <<seen, pc, at, refused, got, reply, body, truth>>
        /\ v <= truth[r]
        /\ stored' = [stored EXCEPT ![r] = 0] \/ stored' = [stored EXCEPT ![r] = v]
  <2>1. v <= truth[r]
    BY <1>3 DEF Deliver
  <2>2. stored' = [stored EXCEPT ![r] = 0] \/ stored' = [stored EXCEPT ![r] = v]
    BY <1>3 DEF Deliver
  <2>3. UNCHANGED <<seen, pc, at, refused, got, reply, body, truth>>
    BY <1>3 DEF Deliver
  <2>4. QED
    BY <2>1, <2>2, <2>3
<1>4. CASE Passes \/ Shuts
  BY <1>4 DEF Passes, Tick, Shuts, StartDrain, EndDrain
<1>5. QED
  BY <1>1, <1>2, <1>3, <1>4 DEF Beside

\* The actions, by what is known of them.
LEMMA Steps ==
  ASSUME [MirrorNext]_mvars \/ Shuts
  PROVE  \/ \E c \in Callers, k \in Keys : Arrives(c, k) \/ Sweep(c, k)
         \/ \E c \in Callers : Bookkeep(c) \/ Respond(c) \/ Absorb(c) \/ NotModified(c)
                               \/ Fail(c) \/ ReadRefusal(c) \/ ReadRow(c) \/ Done(c)
         \/ Beside
         \/ Reboot
         \/ UNCHANGED mvars
  BY DEF MirrorNext, Move, Proceed, Beside

------------------------------------------------------------------------------
(* What is stored and what callers were told.                               *)

\* Nobody holds, and no row shows, what the upstream never said, and nobody
\* holds anything before its fetch.
ToldInv ==
  /\ \A r \in Rows : stored[r] <= truth[r]
  /\ \A c \in Callers :
       /\ seen[c] <= truth[RowOf[at[c]]]
       /\ pc[c] \in {"idle", "queued", "cleared"} => seen[c] = 0

LEMMA ToldStep ==
  ASSUME TypeOK, MirrorTypeOK, ToldInv, [MirrorNext]_mvars \/ Shuts
  PROVE  ToldInv'
<1> USE RowType, MirrorAssumption DEF ToldInv, MirrorTypeOK, TypeOK, Versions
<1>1. ASSUME NEW c \in Callers, NEW k \in Keys, Arrives(c, k) \/ Sweep(c, k) PROVE ToldInv'
  <2>1. UNCHANGED <<truth, stored, seen>> /\ seen[c] = 0
    BY <1>1, CameIn
  <2>2. \A d \in Callers : d # c => at'[d] = at[d] /\ pc'[d] = pc[d]
    BY <1>1, CameIn
  <2>3. truth[RowOf[at'[c]]] \in Versions
    BY <1>1, CameIn
  <2>4. QED
    BY <2>1, <2>2, <2>3
<1>2. ASSUME NEW c \in Callers, Bookkeep(c) PROVE ToldInv'
  BY <1>2, Bookkept
<1>3. ASSUME NEW c \in Callers, Respond(c) PROVE ToldInv'
  BY <1>3 DEF Respond, vars, caller
<1>4. ASSUME NEW c \in Callers, Absorb(c) PROVE ToldInv'
  <2>1. \A r \in Rows : \/ stored'[r] \in {stored[r], 0}
                        \/ r = RowOf[at[c]] /\ stored'[r] = seen[c]
    BY <1>4, Absorbed
  <2>2. UNCHANGED <<truth, seen, at>> /\ pc' = [pc EXCEPT ![c] = "answered"]
    BY <1>4, Absorbed
  <2>3. QED
    BY <2>1, <2>2
<1>5. ASSUME NEW c \in Callers, NotModified(c) \/ Fail(c) PROVE ToldInv'
  BY <1>5, GaveUp
<1>6. ASSUME NEW c \in Callers, ReadRefusal(c) \/ ReadRow(c) PROVE ToldInv'
  BY <1>6 DEF ReadRefusal, ReadRow, vars, caller
<1>7. ASSUME NEW c \in Callers, Done(c) PROVE ToldInv'
  BY <1>7 DEF Done, Return
<1>8. CASE Beside
  <2>1. \A r \in Rows : stored'[r] <= truth'[r]
    BY <1>8, StoodBy
  <2>2. \A c \in Callers : seen[c] <= truth'[RowOf[at[c]]]
    <3>1. ASSUME NEW c \in Callers PROVE seen[c] <= truth'[RowOf[at[c]]]
      <4>1. /\ truth[RowOf[at[c]]] <= truth'[RowOf[at[c]]]
            /\ truth'[RowOf[at[c]]] \in Versions
        BY <1>8, StoodBy
      <4>2. seen[c] <= truth[RowOf[at[c]]]
        OBVIOUS
      <4>3. QED
        BY <4>1, <4>2
    <3>2. QED
      BY <3>1
  <2>3. QED
    BY <1>8, <2>1, <2>2, StoodBy
<1>9. CASE Reboot
  BY <1>9 DEF Reboot, Restart
<1>10. CASE UNCHANGED mvars
  BY <1>10 DEF mvars, vars, caller
<1>11. QED
  BY <1>1, <1>2, <1>3, <1>4, <1>5, <1>6, <1>7, <1>8, <1>9, <1>10, Steps

\* A fetch of a key begun after another has ended was told nothing older.
InOrder ==
  \A c, d \in Callers :
    /\ pc[c] = "miss" /\ at[c] = at[d]
    /\ pc[d] \in {"asking", "answered"} /\ seen[d] # 0
    => seen[c] <= seen[d]

LEMMA OrderStep ==
  ASSUME LockInv, MirrorTypeOK, ToldInv, InOrder, [MirrorNext]_mvars \/ Shuts
  PROVE  InOrder'
<1> USE RowType DEF InOrder, MirrorTypeOK, TypeOK, Versions
<1> TypeOK
  BY DEF LockInv
<1>1. ASSUME NEW c \in Callers, NEW k \in Keys, Arrives(c, k) \/ Sweep(c, k) PROVE InOrder'
  BY <1>1, CameIn DEF ToldInv
<1>2. ASSUME NEW c \in Callers, Bookkeep(c) PROVE InOrder'
  <2>1. ASSUME NEW d \in Callers, NEW e \in Callers, pc'[d] = "miss", at[d] = at[e],
               pc'[e] \in {"asking", "answered"}, seen[e] # 0
        PROVE  pc[d] = "miss" /\ pc[e] \in {"asking", "answered"}
    <3>1. pc[e] \in {"asking", "answered"}
      BY <1>2, <2>1, Bookkept DEF ToldInv
    <3>2. pc[d] = "miss" \/ (pc[d] = "answered" /\ d # e)
      BY <1>2, <2>1, <3>1, Bookkept
    <3>3. QED
      BY <2>1, <3>1, <3>2, OnlyAsker DEF Holding
  <2>2. QED
    BY <1>2, <2>1, Bookkept
<1>3. ASSUME NEW c \in Callers, Respond(c) PROVE InOrder'
  BY <1>3 DEF Respond, vars, caller, ToldInv
<1>4. ASSUME NEW c \in Callers, Absorb(c) PROVE InOrder'
  BY <1>4, Absorbed
<1>5. ASSUME NEW c \in Callers, NotModified(c) \/ Fail(c) PROVE InOrder'
  BY <1>5, GaveUp
<1>6. ASSUME NEW c \in Callers, ReadRefusal(c) \/ ReadRow(c) PROVE InOrder'
  BY <1>6 DEF ReadRefusal, ReadRow, vars, caller
<1>7. ASSUME NEW c \in Callers, Done(c) PROVE InOrder'
  BY <1>7 DEF Done, Return
<1>8. CASE Beside
  BY <1>8, StoodBy
<1>9. CASE Reboot
  BY <1>9 DEF Reboot, Restart
<1>10. CASE UNCHANGED mvars
  BY <1>10 DEF mvars, vars, caller
<1>11. QED
  BY <1>1, <1>2, <1>3, <1>4, <1>5, <1>6, <1>7, <1>8, <1>9, <1>10, Steps

------------------------------------------------------------------------------
(* A row goes back only where an overtaken answer or a delivery comes in.   *)

\* Who holds an answer and is not late holds one no older than the row: another
\* fetch of its key is kept out by the mutex, and one of another key makes it late.
LateInv ==
  \A c \in Callers :
    pc[c] = "asking" /\ seen[c] # 0 /\ c \notin late => stored[RowOf[at[c]]] <= seen[c]

\* The steps that write neither a row nor the history.
LEMMA LateQuiet ==
  ASSUME TypeOK, MirrorTypeOK, ToldInv, LateInv,
         UNCHANGED <<stored, late>>,
         \A c \in Callers :
           pc'[c] = "asking" /\ seen'[c] # 0 =>
             \/ pc[c] = "asking" /\ seen'[c] = seen[c] /\ at'[c] = at[c]
             \/ at'[c] = at[c] /\ seen'[c] = truth[RowOf[at[c]]]
  PROVE  LateInv'
  BY RowType DEF LateInv, ToldInv, TypeOK, MirrorTypeOK, Versions

LEMMA StoresLate ==
  ASSUME LockInv, MirrorTypeOK, ToldInv, LateInv, NEW c \in Callers, Stores(c)
  PROVE  LateInv'
<1> USE RowType, MirrorAssumption DEF MirrorTypeOK, TypeOK, Versions
<1> DEFINE r == RowOf[at[c]]
<1> TypeOK
  BY DEF LockInv
<1>1. /\ pc[c] = "asking" /\ pc' = [pc EXCEPT ![c] = "answered"] /\ UNCHANGED <<seen, at>>
      /\ \A q \in Rows : q # r => stored'[q] = stored[q]
      /\ seen[c] \in Absent => stored'[r] \in {stored[r], 0}
  BY Absorbed DEF Stores
<1>2. ASSUME NEW d \in Callers, pc'[d] = "asking", seen[d] # 0, d \notin late'
      PROVE  stored'[RowOf[at[d]]] <= seen[d]
  <2>1. d # c /\ pc[d] = "asking"
    BY <1>1, <1>2
  <2>2. at[d] # at[c]
    BY <1>1, <2>1, OnlyAsker DEF Holding
  <2>3. d \notin late
    BY <1>2, <2>1 DEF Stores
  <2>4. stored[RowOf[at[d]]] <= seen[d]
    BY <1>2, <2>1, <2>3 DEF LateInv
  <2>5. CASE RowOf[at[d]] # r
    BY <1>1, <2>4, <2>5
  <2>6. CASE RowOf[at[d]] = r /\ seen[c] \in Absent
    BY <1>1, <2>4, <2>6
  <2>7. CASE RowOf[at[d]] = r /\ seen[c] \notin Absent
    BY <1>2, <2>1, <2>2, <2>7 DEF Stores, Holders
  <2>8. QED
    BY <2>5, <2>6, <2>7
<1>3. QED
  BY <1>1, <1>2 DEF LateInv

LEMMA LateStep ==
  ASSUME LockInv, MirrorTypeOK, ToldInv, LateInv, [OverlapNext]_ovars
  PROVE  LateInv'
<1> USE RowType
<1> TypeOK
  BY DEF LockInv
<1>1. ASSUME NEW c \in Callers, Stores(c) PROVE LateInv'
  BY <1>1, StoresLate
<1>2. ASSUME NEW c \in Callers, Records(c) PROVE LateInv'
  <2>1. Bookkeep(c) /\ late \subseteq late'
    BY <1>2 DEF Records, Overtakes, history
  <2>2. \A d \in Callers : pc'[d] = "asking" /\ seen[d] # 0 => pc[d] = "asking"
    BY <2>1, Bookkept DEF ToldInv, TypeOK
  <2>3. QED
    BY <2>1, <2>2, Bookkept DEF LateInv
<1>3. ASSUME NEW c \in Callers, Fails(c) PROVE LateInv'
  BY <1>3, GaveUp DEF Fails, LateInv, TypeOK
<1>4. ASSUME NEW c \in Callers, Goes(c) PROVE LateInv'
  <2>1. UNCHANGED late
    BY <1>4 DEF Goes, history
  <2>2. ASSUME NEW k \in Keys, Arrives(c, k) \/ Sweep(c, k) PROVE LateInv'
    BY <2>1, <2>2, CameIn, LateQuiet DEF TypeOK
  <2>3. CASE Respond(c)
    BY <2>1, <2>3, LateQuiet DEF Respond, vars, caller, TypeOK, MirrorTypeOK
  <2>4. CASE NotModified(c)
    BY <2>1, <2>4, GaveUp, LateQuiet DEF TypeOK
  <2>5. CASE ReadRefusal(c) \/ ReadRow(c)
    BY <2>1, <2>5, LateQuiet DEF ReadRefusal, ReadRow, vars, caller
  <2>6. CASE Done(c)
    BY <2>1, <2>6, LateQuiet DEF Done, Return, TypeOK, MirrorTypeOK
  <2>7. QED
    BY <1>4, <2>2, <2>3, <2>4, <2>5, <2>6 DEF Goes
<1>5. ASSUME NEW r \in Rows, Delivers(r) PROVE LateInv'
  <2>1. PICK v \in Versions : Deliver(r, v)
    BY <1>5 DEF Delivers
  <2>2. UNCHANGED <<pc, at, seen>> /\ \A q \in Rows : q # r => stored'[q] = stored[q]
    BY <2>1 DEF Deliver, vars, caller, MirrorTypeOK
  <2>3. CASE stored'[r] = 0 /\ UNCHANGED late
    BY <2>2, <2>3 DEF LateInv, MirrorTypeOK, TypeOK, Versions
  <2>4. CASE late' = late \cup Holders(r)
    BY <2>2, <2>4 DEF LateInv, Holders, TypeOK
  <2>5. QED
    BY <1>5, <2>3, <2>4 DEF Delivers, Overtakes, history
<1>6. ASSUME NEW r \in Rows, Writes(r) PROVE LateInv'
  <2>1. /\ UNCHANGED <<pc, at, seen, late>>
        /\ stored' = stored \/ stored' = [stored EXCEPT ![r] = 0]
    BY <1>6 DEF Writes, Change, Write, Purge, vars, caller, history
  <2>2. QED
    BY <2>1 DEF LateInv, MirrorTypeOK, TypeOK, Versions
<1>7. CASE Ages \/ Shuts \/ UNCHANGED ovars
  BY <1>7, LateQuiet
     DEF Ages, Passes, Tick, Shuts, StartDrain, EndDrain, ovars, mvars, vars, caller, history
<1>8. CASE Dies
  BY <1>8 DEF Dies, Reboot, Restart, LateInv
<1>9. QED
  BY <1>1, <1>2, <1>3, <1>4, <1>5, <1>6, <1>7, <1>8 DEF OverlapNext

LEMMA BackStep ==
  ASSUME LockInv, MirrorTypeOK, LateInv, [OverlapNext]_ovars,
         NEW r \in Rows, stored[r] # 0, stored'[r] # 0, stored'[r] < stored[r]
  PROVE  r \in back'
<1> USE RowType DEF MirrorTypeOK, TypeOK, Versions
<1> TypeOK
  BY DEF LockInv
<1>1. ASSUME NEW c \in Callers, Stores(c) PROVE r \in back'
  <2>1. stored' = [stored EXCEPT ![RowOf[at[c]]] = seen[c]] /\ seen[c] \notin Absent
    BY <1>1, Absorbed DEF Stores
  <2>2. r = RowOf[at[c]] /\ seen[c] < stored[r]
    BY <2>1
  <2>3. pc[c] = "asking" /\ seen[c] # 0
    BY <1>1, Absorbed DEF Stores
  <2>4. c \in late
    BY <2>2, <2>3 DEF LateInv
  <2>5. QED
    BY <1>1, <2>1, <2>2, <2>4 DEF Stores
<1>2. ASSUME NEW q \in Rows, Delivers(q) PROVE r \in back'
  <2>1. \A p \in Rows : p # q => stored'[p] = stored[p]
    BY <1>2 DEF Delivers, Deliver
  <2>2. r = q
    BY <2>1
  <2>3. QED
    BY <1>2, <2>2 DEF Delivers, Overtakes
<1>3. ASSUME NEW c \in Callers, Records(c) \/ Fails(c) \/ Goes(c) PROVE FALSE
  <2>1. UNCHANGED stored
    BY <1>3, Bookkept, GaveUp, CameIn
       DEF Records, Fails, Goes, Respond, ReadRefusal, ReadRow, Done
  <2>2. QED
    BY <2>1
<1>4. ASSUME NEW q \in Rows, Writes(q) PROVE FALSE
  <2>1. stored' = stored \/ stored' = [stored EXCEPT ![q] = 0]
    BY <1>4 DEF Writes, Change, Write, Purge
  <2>2. QED
    BY <2>1
<1>5. CASE Ages \/ Shuts \/ Dies \/ UNCHANGED ovars
  BY <1>5 DEF Ages, Passes, Shuts, Dies, Reboot, ovars, mvars
<1>6. QED
  BY <1>1, <1>2, <1>3, <1>4, <1>5 DEF OverlapNext

LEMMA OverlapLocks == OverlapSpec => [](LockInv /\ MirrorTypeOK /\ ToldInv)
<1>1. OverlapInit => ToldInv
  BY RowType, MirrorAssumption
     DEF OverlapInit, MirrorInit, Init, ToldInv, Rows
<1>2. TypeOK /\ MirrorTypeOK /\ ToldInv /\ [OverlapNext]_ovars => ToldInv'
  BY OverlapStep, ToldStep
<1>3. LockInv /\ OverlapTypeOK => TypeOK /\ MirrorTypeOK
  BY DEF LockInv, OverlapTypeOK
<1>4. QED
  BY <1>1, <1>2, <1>3, OverlapIsFresh, OverlapTypes, LockAlways, PTL DEF OverlapSpec

\* However many keys share a row, it is replaced by an older one only by a
\* delivery or by an answer that a delivery, a fetch of another key or a 304 had
\* overtaken: never by a second fetch of its key, a purge that comes in its way
\* or a crash (doFetch's mutex, which guards the key and not the row).
THEOREM RowsGoForward == OverlapSpec => NeverGoesBack
<1>1. OverlapInit => LateInv
  BY DEF OverlapInit, MirrorInit, Init, LateInv
<1>2. LockInv /\ MirrorTypeOK /\ ToldInv /\ LateInv /\ [OverlapNext]_ovars => LateInv'
  BY LateStep
<1>3. LockInv /\ MirrorTypeOK /\ LateInv /\ [OverlapNext]_ovars =>
        [\A r \in Rows :
           stored[r] # 0 /\ stored'[r] # 0 /\ stored'[r] < stored[r] => r \in back']_ovars
  BY BackStep
<1>4. QED
  BY <1>1, <1>2, <1>3, OverlapLocks, PTL DEF OverlapSpec, NeverGoesBack

------------------------------------------------------------------------------
(* A reader's own fetch is not lost on it.                                  *)

\* What a call came to says what was heard, and nobody reads before it is done.
OwnInv ==
  \A c \in Callers :
    /\ reply[c] # "none" => pc[c] \in Final
    /\ pc[c] = "answered" => got[c] # "none"
    /\ pc[c] = "answered" /\ got[c] = "unchanged" => seen[c] = 0
    /\ pc[c] = "answered" /\ got[c] = "refused" =>
         seen[c] \in Absent /\ Shape[at[c]] = "single"
    /\ pc[c] = "answered" /\ got[c] = "ok" =>
         seen[c] # 0 /\ (Shape[at[c]] = "single" => seen[c] \notin Absent)

LEMMA OwnStep ==
  ASSUME LockInv, MirrorTypeOK, OwnInv, ToldInv, [MirrorNext]_mvars \/ Shuts
  PROVE  OwnInv'
<1> USE RowType DEF OwnInv, MirrorTypeOK, TypeOK, Versions, Final
<1> TypeOK
  BY DEF LockInv
<1>1. ASSUME NEW c \in Callers, NEW k \in Keys, Arrives(c, k) \/ Sweep(c, k) PROVE OwnInv'
  BY <1>1, CameIn
<1>2. ASSUME NEW c \in Callers, Bookkeep(c) PROVE OwnInv'
  BY <1>2, Bookkept
<1>3. ASSUME NEW c \in Callers, Respond(c) PROVE OwnInv'
  BY <1>3 DEF Respond, vars, caller, reading
<1>4. ASSUME NEW c \in Callers, Absorb(c) PROVE OwnInv'
  BY <1>4, Absorbed
<1>5. ASSUME NEW c \in Callers, NotModified(c) \/ Fail(c) PROVE OwnInv'
  BY <1>5, GaveUp
<1>6. ASSUME NEW c \in Callers, ReadRefusal(c) \/ ReadRow(c) PROVE OwnInv'
  <2>1. reply' = [reply EXCEPT ![c] = reply'[c]] /\ pc[c] \in Final
    BY <1>6 DEF ReadRefusal, ReadRow
  <2>2. QED
    BY <1>6, <2>1 DEF ReadRefusal, ReadRow, vars, caller
<1>7. ASSUME NEW c \in Callers, Done(c) PROVE OwnInv'
  BY <1>7 DEF Done, Return
<1>8. CASE Beside
  BY <1>8, StoodBy
<1>9. CASE Reboot
  BY <1>9 DEF Reboot, Restart
<1>10. CASE UNCHANGED mvars
  BY <1>10 DEF mvars, vars, caller, reading
<1>11. QED
  BY <1>1, <1>2, <1>3, <1>4, <1>5, <1>6, <1>7, <1>8, <1>9, <1>10, Steps

\* The row owes a reader what its own fetch was told, from the store of it on,
\* unless that was a 404 that it reads from the freshness row instead.
Owed(c) ==
  \/ pc[c] = "answered" /\ got[c] = "ok" /\ seen[c] \notin Absent
  \/ /\ pc[c] = "miss"
     /\ \/ seen[c] \notin Absent
        \/ /\ Shape[at[c]] = "single" /\ ~StoreMayFail
           /\ ~refused[at[c]] \/ reply[c] = "lookup"

\* The row of c shows nothing older than v, or something overtaken.
Shows(c, v) ==
  LET r == RowOf[at[c]] IN stored[r] = 0 \/ stored[r] >= v \/ r \in back

\* An answer that nothing has overtaken is on its way to the row of c.
Comes(d, c) ==
  pc[d] = "asking" /\ seen[d] # 0 /\ RowOf[at[d]] = RowOf[at[c]] /\ d \notin late

\* OwnFetchVisible until the row is read: the row is no older than what is owed,
\* and neither is what is on its way to it.
OwedInv ==
  \A c \in Callers : Owed(c) =>
    /\ Shows(c, seen[c])
    /\ \A d \in Callers : Comes(d, c) => seen[c] <= seen[d]

\* A step that owes nobody anything new and brings no older answer.
LEMMA OwedQuiet ==
  ASSUME TypeOK, MirrorTypeOK, ToldInv, OwedInv, LockInv,
         UNCHANGED <<history, stored>>,
         \A c \in Callers : Owed(c)' => Owed(c) /\ seen'[c] = seen[c] /\ at'[c] = at[c],
         \A c \in Callers :
           pc'[c] = "asking" /\ seen'[c] # 0 =>
             \/ pc[c] = "asking" /\ seen'[c] = seen[c] /\ at'[c] = at[c]
             \/ at'[c] = at[c] /\ seen'[c] = truth[RowOf[at[c]]]
  PROVE  OwedInv'
<1> USE RowType DEF TypeOK, MirrorTypeOK, Versions, history
<1>1. ASSUME NEW c \in Callers, Owed(c)'
      PROVE  Shows(c, seen[c])' /\ \A d \in Callers : Comes(d, c)' => seen'[c] <= seen'[d]
  <2>1. Owed(c) /\ seen'[c] = seen[c] /\ at'[c] = at[c]
    BY <1>1
  <2>2. seen[c] <= truth[RowOf[at[c]]]
    BY DEF ToldInv
  <2>3. Shows(c, seen[c])'
    BY <2>1 DEF OwedInv, Shows
  <2>4. ASSUME NEW d \in Callers, Comes(d, c)' PROVE seen[c] <= seen'[d]
    BY <2>1, <2>2, <2>4 DEF OwedInv, Comes
  <2>5. QED
    BY <2>1, <2>3, <2>4
<1>2. QED
  BY <1>1 DEF OwedInv

LEMMA StoresOwed ==
  ASSUME LockInv, MirrorTypeOK, ToldInv, InOrder, OwnInv, OwedInv, NEW c \in Callers, Stores(c)
  PROVE  OwedInv'
<1> USE RowType, MirrorAssumption DEF MirrorTypeOK, TypeOK, Versions
<1> DEFINE r == RowOf[at[c]]
<1> TypeOK
  BY DEF LockInv
<1>1. /\ pc[c] = "asking" /\ pc' = [pc EXCEPT ![c] = "answered"] /\ seen[c] # 0
      /\ UNCHANGED <<seen, at, refused, reply>>
      /\ \A d \in Callers : d # c => got'[d] = got[d]
      /\ \A q \in Rows : q # r => stored'[q] = stored[q]
  BY Absorbed DEF Stores
<1>2. \A d \in Callers : d # c /\ Owed(d)' => Owed(d)
  BY <1>1 DEF Owed
<1>3. ASSUME NEW d \in Callers, NEW e \in Callers, Comes(e, d)'
      PROVE  e # c /\ Comes(e, d) /\ (seen[c] \notin Absent => RowOf[at[d]] # r)
  <2>1. /\ e # c /\ pc[e] = "asking" /\ seen[e] # 0 /\ RowOf[at[e]] = RowOf[at[d]]
        /\ e \notin late'
    BY <1>1, <1>3 DEF Comes
  <2>2. e \notin late
    BY <2>1 DEF Stores
  <2>3. at[e] # at[c]
    BY <1>1, <2>1, OnlyAsker DEF Holding
  <2>4. seen[c] \notin Absent => RowOf[at[e]] # r
    BY <2>1, <2>3 DEF Stores, Holders
  <2>5. QED
    BY <2>1, <2>2, <2>4 DEF Comes
<1>4. CASE seen[c] \in Absent
  <2>1. stored'[r] \in {stored[r], 0} /\ UNCHANGED back
    BY <1>4, Absorbed DEF Stores
  <2>2. ~Owed(c)'
    BY <1>1, <1>4 DEF Owed
  <2>3. ASSUME NEW d \in Callers, Owed(d)'
        PROVE  Shows(d, seen[d])' /\ \A e \in Callers : Comes(e, d)' => seen[d] <= seen[e]
    <3>1. Owed(d)
      BY <1>2, <2>2, <2>3
    <3>2. Shows(d, seen[d])'
      BY <1>1, <2>1, <3>1 DEF OwedInv, Shows
    <3>3. QED
      BY <1>3, <3>1, <3>2 DEF OwedInv
  <2>4. QED
    BY <1>1, <2>3 DEF OwedInv
<1>5. CASE seen[c] \notin Absent
  <2>1. /\ stored'[r] = seen[c]
        /\ back' = IF c \in late THEN back \cup {r} ELSE back \ {r}
    BY <1>5, Absorbed DEF Stores
  <2>2. ASSUME NEW d \in Callers, Owed(d)'
        PROVE  Shows(d, seen[d])' /\ \A e \in Callers : Comes(e, d)' => seen[d] <= seen[e]
    <3>1. CASE RowOf[at[d]] # r
      <4>1. Owed(d)
        BY <1>2, <2>2, <3>1
      <4>2. Shows(d, seen[d])'
        BY <1>1, <2>1, <3>1, <4>1 DEF OwedInv, Shows
      <4>3. QED
        BY <1>3, <4>1, <4>2 DEF OwedInv
    <3>2. CASE RowOf[at[d]] = r
      <4>1. stored'[r] >= seen[d] \/ r \in back'
        <5>1. CASE d = c \/ c \in late
          BY <2>1, <5>1
        <5>2. CASE d # c /\ c \notin late
          <6>1. Comes(c, d)
            BY <1>1, <3>2, <5>2 DEF Comes
          <6>2. seen[d] <= seen[c]
            BY <1>2, <2>2, <5>2, <6>1 DEF OwedInv
          <6>3. QED
            BY <2>1, <6>2
        <5>3. QED
          BY <5>1, <5>2
      <4>2. Shows(d, seen[d])'
        BY <1>1, <3>2, <4>1 DEF Shows
      <4>3. QED
        BY <1>3, <1>5, <3>2, <4>2
    <3>3. QED
      BY <3>1, <3>2
  <2>3. QED
    BY <1>1, <2>2 DEF OwedInv
<1>6. QED
  BY <1>4, <1>5

LEMMA RecordsOwed ==
  ASSUME LockInv, MirrorTypeOK, ToldInv, InOrder, OwnInv, OwedInv, NEW c \in Callers, Records(c)
  PROVE  OwedInv'
<1> USE RowType DEF MirrorTypeOK, TypeOK, Versions
<1> DEFINE r == RowOf[at[c]]
<1> TypeOK
  BY DEF LockInv
<1>1. /\ UNCHANGED <<stored, seen, at, reply>>
      /\ pc' = [pc EXCEPT ![c] = pc'[c]]
      /\ \A d \in Callers : d # c => got'[d] = got[d]
  BY Bookkept DEF Records
<1>2. \A d, e \in Callers : Comes(e, d)' => Comes(e, d)
  BY <1>1, Bookkept DEF Records, Comes, ToldInv, Overtakes, history
<1>3. \/ UNCHANGED history
      \/ got[c] = "unchanged" /\ late' = late \cup Holders(r) /\ back' = back \cup {r}
  BY DEF Records, Overtakes
<1>4. CASE \A d \in Callers : Owed(d)' => Owed(d)
  BY <1>1, <1>2, <1>3, <1>4 DEF OwedInv, Shows, history
<1>5. CASE ~(\A d \in Callers : Owed(d)' => Owed(d))
  <2>1. PICK d \in Callers : Owed(d)' /\ ~Owed(d)
    BY <1>5
  <2>2. /\ pc[c] = "answered" /\ pc'[c] = "miss"
        /\ got[c] \in {"ok", "unchanged", "refused"}
        /\ refused' = [refused EXCEPT ![at[c]] = got[c] = "refused"]
    BY <1>1, <2>1, Bookkept DEF Records, Owed
  <2>3. CASE got[c] = "unchanged"
    <3>1. late' = late \cup Holders(r) /\ back' = back \cup {r}
      BY <2>2, <2>3 DEF Records, Overtakes
    <3>2. ASSUME NEW e \in Callers, Owed(e)'
          PROVE  Shows(e, seen[e])' /\ \A f \in Callers : Comes(f, e)' => seen[e] <= seen[f]
      <4>1. CASE RowOf[at[e]] = r
        <5>1. \A f \in Callers : ~Comes(f, e)'
          BY <1>1, <1>2, <3>1, <4>1 DEF Comes, Holders
        <5>2. Shows(e, seen[e])'
          BY <1>1, <3>1, <4>1 DEF Shows
        <5>3. QED
          BY <5>1, <5>2
      <4>2. CASE RowOf[at[e]] # r
        <5>1. e # c /\ at[e] # at[c]
          BY <4>2
        <5>2. Owed(e)
          BY <1>1, <2>2, <3>2, <5>1 DEF Owed
        <5>3. Shows(e, seen[e])'
          BY <1>1, <3>1, <5>2 DEF OwedInv, Shows
        <5>4. QED
          BY <1>2, <5>2, <5>3 DEF OwedInv
      <4>3. QED
        BY <4>1, <4>2
    <3>3. QED
      BY <1>1, <3>2 DEF OwedInv
  <2>4. CASE got[c] = "refused"
    <3>1. refused'[at[c]] /\ \A k \in Keys : refused'[k] \/ refused'[k] = refused[k]
      BY <2>2, <2>4
    <3>2. seen[c] \in Absent /\ reply[c] = "none"
      BY <2>2, <2>4 DEF OwnInv, Final
    <3>3. ASSUME NEW e \in Callers, Owed(e)' PROVE Owed(e)
      <4>1. e # c
        BY <1>1, <2>2, <3>1, <3>2, <3>3 DEF Owed
      <4>2. QED
        BY <1>1, <3>1, <3>3, <4>1 DEF Owed
    <3>4. QED
      BY <2>1, <3>3
  <2>5. CASE got[c] = "ok"
    <3>1. UNCHANGED history
      BY <1>3, <2>5
    <3>2. ASSUME NEW e \in Callers, Owed(e)'
          PROVE  Shows(e, seen[e]) /\ \A f \in Callers : Comes(f, e) => seen[e] <= seen[f]
      <4>1. CASE Owed(e)
        BY <4>1 DEF OwedInv
      <4>2. CASE ~Owed(e)
        <5>1. at[e] = at[c] /\ Shape[at[c]] = "single"
          <6>1. CASE e = c
            BY <1>1, <2>2, <2>5, <3>2, <4>2, <6>1 DEF Owed
          <6>2. CASE e # c
            BY <1>1, <2>2, <3>2, <4>2, <6>2 DEF Owed
          <6>3. QED
            BY <6>1, <6>2
        <5>2. Owed(c)
          BY <2>2, <2>5, <5>1 DEF Owed, OwnInv
        <5>3. e # c /\ pc[e] = "miss"
          BY <1>1, <3>2, <4>2, <5>2 DEF Owed
        <5>4. seen[e] <= seen[c]
          BY <2>2, <2>5, <5>1, <5>3 DEF InOrder, OwnInv
        <5>5. Shows(c, seen[c]) /\ \A f \in Callers : Comes(f, c) => seen[c] <= seen[f]
          BY <5>2 DEF OwedInv
        <5>6. Shows(e, seen[e])
          BY <5>1, <5>4, <5>5 DEF Shows
        <5>7. \A f \in Callers : Comes(f, e) => seen[e] <= seen[f]
          BY <5>1, <5>4, <5>5 DEF Comes
        <5>8. QED
          BY <5>6, <5>7
      <4>3. QED
        BY <4>1, <4>2
    <3>3. QED
      BY <1>1, <1>2, <3>1, <3>2 DEF OwedInv, Shows, history
  <2>6. QED
    BY <2>2, <2>3, <2>4, <2>5
<1>6. QED
  BY <1>4, <1>5

LEMMA DeliversOwed ==
  ASSUME LockInv, MirrorTypeOK, OwedInv, NEW r \in Rows, Delivers(r)
  PROVE  OwedInv'
<1> USE RowType DEF MirrorTypeOK, TypeOK, Versions
<1>1. PICK v \in Versions : Deliver(r, v)
  BY DEF Delivers
<1>2. /\ UNCHANGED <<pc, at, seen, got, refused, reply>>
      /\ \A q \in Rows : q # r => stored'[q] = stored[q]
  BY <1>1 DEF Deliver, vars, row, caller, reading
<1>3. \A c \in Callers : at[c] \in Keys /\ (Owed(c)' => Owed(c))
  BY <1>2 DEF Owed, LockInv
<1>4. CASE stored'[r] = 0 /\ UNCHANGED history
  BY <1>2, <1>3, <1>4 DEF OwedInv, Shows, Comes, history
<1>5. CASE late' = late \cup Holders(r) /\ back' = back \cup {r}
  BY <1>2, <1>3, <1>5 DEF OwedInv, Shows, Comes
<1>6. QED
  BY <1>4, <1>5 DEF Delivers, Overtakes

LEMMA OwedStep ==
  ASSUME LockInv, MirrorTypeOK, ToldInv, InOrder, OwnInv, OwedInv, [OverlapNext]_ovars
  PROVE  OwedInv'
<1> USE RowType
<1> TypeOK
  BY DEF LockInv
<1>1. ASSUME NEW c \in Callers, Stores(c) \/ Records(c) PROVE OwedInv'
  BY <1>1, StoresOwed, RecordsOwed
<1>2. ASSUME NEW c \in Callers, Fails(c) PROVE OwedInv'
  <2>1. /\ UNCHANGED <<stored, seen, at, refused, reply, back>>
        /\ pc[c] = "asking" /\ pc' = [pc EXCEPT ![c] = "answered"]
        /\ got' = [got EXCEPT ![c] = "failed"]
        /\ late' = late \ {c}
    BY <1>2 DEF Fails, Fail, Answer, row, reading
  <2>2. \A d \in Callers : Owed(d)' => Owed(d)
    BY <2>1 DEF Owed, TypeOK
  <2>3. \A d, e \in Callers : Comes(e, d)' => Comes(e, d)
    BY <2>1 DEF Comes, TypeOK
  <2>4. QED
    BY <2>1, <2>2, <2>3 DEF OwedInv, Shows, TypeOK
<1>3. ASSUME NEW c \in Callers, Goes(c) PROVE OwedInv'
  <2>1. UNCHANGED history
    BY <1>3 DEF Goes
  <2>2. ASSUME NEW k \in Keys, Arrives(c, k) \/ Sweep(c, k) PROVE OwedInv'
    BY <2>1, <2>2, CameIn, OwedQuiet DEF TypeOK, Owed
  <2>3. CASE Respond(c)
    BY <2>1, <2>3, OwedQuiet
       DEF Respond, vars, row, caller, reading, TypeOK, MirrorTypeOK, Owed
  <2>4. CASE NotModified(c)
    <3>1. /\ UNCHANGED <<stored, seen, at, refused, reply>>
          /\ pc[c] = "asking" /\ pc' = [pc EXCEPT ![c] = "answered"]
          /\ got' = [got EXCEPT ![c] = "unchanged"]
      BY <2>4 DEF NotModified, Answer, row, reading
    <3>2. QED
      BY <2>1, <3>1, OwedQuiet DEF TypeOK, Owed
  <2>5. CASE ReadRefusal(c)
    BY <2>1, <2>5, OwedQuiet DEF ReadRefusal, vars, row, caller, Owed, MirrorTypeOK
  <2>6. CASE ReadRow(c)
    BY <2>1, <2>6, OwedQuiet DEF ReadRow, vars, row, caller, Owed, MirrorTypeOK
  <2>7. CASE Done(c)
    BY <2>1, <2>7, OwedQuiet DEF Done, Return, row, TypeOK, MirrorTypeOK, Owed
  <2>8. QED
    BY <1>3, <2>2, <2>3, <2>4, <2>5, <2>6, <2>7 DEF Goes
<1>4. ASSUME NEW r \in Rows, Delivers(r) PROVE OwedInv'
  BY <1>4, DeliversOwed
<1>5. ASSUME NEW r \in Rows, Writes(r) PROVE OwedInv'
  <2>1. /\ UNCHANGED <<pc, at, seen, got, refused, reply, late, back>>
        /\ stored' = stored \/ stored' = [stored EXCEPT ![r] = 0]
    BY <1>5 DEF Writes, Change, Write, Purge, vars, row, caller, reading, history
  <2>2. QED
    BY <2>1 DEF OwedInv, Owed, Shows, Comes, MirrorTypeOK, TypeOK
<1>6. CASE Ages \/ Shuts \/ UNCHANGED ovars
  <2>1. UNCHANGED <<stored, pc, at, seen, got, refused, reply, late, back>>
    BY <1>6 DEF Ages, Passes, Tick, Shuts, StartDrain, EndDrain, ovars, mvars, vars, row,
                caller, reading, history
  <2>2. QED
    BY <2>1 DEF OwedInv, Owed, Shows, Comes
<1>7. CASE Dies
  BY <1>7 DEF Dies, Reboot, Restart, OwedInv, Owed
<1>8. QED
  BY <1>1, <1>2, <1>3, <1>4, <1>5, <1>6, <1>7 DEF OverlapNext

\* What a reader is served is what the row holds, and the row owes it.
LEMMA ServedStep ==
  ASSUME LockInv, MirrorTypeOK, ToldInv, OwnInv, OwedInv, [OverlapNext]_ovars, NEW c \in Callers,
         reply'[c] = "served", reply[c] # "served", pc[c] = "miss",
         seen[c] \notin Absent \/ (Shape[at[c]] = "single" /\ ~StoreMayFail)
  PROVE  body'[c] >= seen[c] \/ RowOf[at[c]] \in back
<1> USE RowType DEF MirrorTypeOK, TypeOK, Versions
<1> TypeOK
  BY DEF LockInv
<1>1. CASE ReadRow(c)
  <2>1. reply[c] = "lookup" /\ stored[RowOf[at[c]]] # 0 /\ body'[c] = stored[RowOf[at[c]]]
    BY <1>1 DEF ReadRow
  <2>2. Owed(c)
    BY <2>1 DEF Owed
  <2>3. QED
    BY <2>1, <2>2 DEF OwedInv, Shows
<1>2. CASE ~ReadRow(c)
  <2>1. ASSUME NEW d \in Callers, NEW k \in Keys, Arrives(d, k) \/ Sweep(d, k) PROVE FALSE
    BY <2>1, CameIn
  <2>2. ASSUME NEW d \in Callers, Bookkeep(d) \/ Absorb(d) \/ NotModified(d) \/ Fail(d)
        PROVE  FALSE
    BY <2>2, Bookkept, Absorbed, GaveUp
  <2>3. ASSUME NEW d \in Callers, Respond(d) \/ ReadRefusal(d) \/ ReadRow(d) \/ Done(d)
        PROVE  FALSE
    BY <1>2, <2>3 DEF Respond, ReadRefusal, ReadRow, Done, reading
  <2>4. CASE Beside \/ Reboot \/ UNCHANGED mvars
    BY <2>4, StoodBy DEF Reboot, mvars, reading
  <2>5. QED
    BY <2>1, <2>2, <2>3, <2>4, OverlapStep, Steps
<1>3. QED
  BY <1>1, <1>2

\* A reader whose own fetch the upstream answered is answered nothing older, for
\* any number of readers, fetches, purges, drains and crashes in between and
\* however keys share the row it reads, unless what came in last for that row is
\* a delivery, a 304 or an overtaken answer (Engine.serve reads the row back).
THEOREM OwnFetchIsVisible == OverlapSpec => OwnFetchVisible
<1>1. OverlapInit => InOrder /\ OwnInv /\ OwedInv
  BY DEF OverlapInit, MirrorInit, Init, InOrder, OwnInv, OwedInv, Owed
<1>2. LockInv /\ MirrorTypeOK /\ ToldInv /\ InOrder /\ OwnInv /\ OwedInv
        /\ [OverlapNext]_ovars => InOrder' /\ OwnInv' /\ OwedInv'
  BY OverlapStep, OrderStep, OwnStep, OwedStep
<1>3. LockInv /\ MirrorTypeOK /\ ToldInv /\ OwnInv /\ OwedInv /\ [OverlapNext]_ovars =>
        [\A c \in Callers :
           LET told == seen[c] \notin Absent \/ (Shape[at[c]] = "single" /\ ~StoreMayFail)
           IN  reply'[c] = "served" /\ reply[c] # "served" /\ pc[c] = "miss" /\ told =>
                 body'[c] >= seen[c] \/ RowOf[at[c]] \in back]_ovars
  BY ServedStep
<1>4. QED
  BY <1>1, <1>2, <1>3, OverlapLocks, PTL DEF OverlapSpec, OwnFetchVisible

------------------------------------------------------------------------------
(***************************************************************************)
(* What holds of the consistency check beside any number of callers, keys  *)
(* and versions.  Every step is one of Mirror's, a step of the check that  *)
(* leaves the mirror alone, or a repair, which writes one row.             *)
(***************************************************************************)

\* A step of the check that is not a repair.
Looks == Check /\ UNCHANGED mvars

LEMMA CheckStep == ASSUME Check PROVE Looks \/ Repair
  BY DEF Check, Looks, List, ReadStored, Hear, NoAnswer, Agree, Raced, Drift, Report, Abandon

LEMMA MirrorOrRepair ==
  ASSUME [AuditNext]_avars
  PROVE  [MirrorNext]_mvars \/ Repair
<1>1. CASE Check
  BY <1>1, CheckStep DEF Looks
<1>2. ASSUME NEW c \in Callers, Fetches(c) \/ Books(c) PROVE MirrorNext
  BY <1>2 DEF Fetches, Books, MirrorNext, Move, Proceed
<1>3. ASSUME NEW c \in Callers, Others(c) PROVE MirrorNext
  BY <1>3 DEF Others, MirrorNext, Move, Proceed
<1>4. ASSUME NEW r \in Rows, Elsewhere(r) PROVE MirrorNext
  BY <1>4 DEF Elsewhere, MirrorNext
<1>5. CASE Clocks \/ Crash
  BY <1>5 DEF Clocks, Crash, MirrorNext
<1>6. CASE UNCHANGED avars
  BY <1>6 DEF avars
<1>7. QED
  BY <1>1, <1>2, <1>3, <1>4, <1>5, <1>6 DEF AuditNext

\* A repair takes no mutex and writes no bookkeeping row, so the freshness
\* manager behaves as specified beside a check too.
THEOREM AuditIsFresh == AuditSpec => Spec
<1>1. AuditInit => Init
  BY DEF AuditInit, MirrorInit
<1>2. [AuditNext]_avars => [Next]_vars
  <2>1. Repair => UNCHANGED vars
    BY DEF Repair
  <2>2. QED
    BY <2>1, MirrorOrRepair, MirrorStep
<1>3. QED
  BY <1>1, <1>2, PTL DEF AuditSpec, Spec

------------------------------------------------------------------------------
CheckTypeOK ==
  /\ audit \in {"idle", "listed"} \cup Compares
  /\ todo \subseteq Keys /\ still \subseteq Keys /\ moved \subseteq Keys
  /\ on \in Keys
  /\ was \in Versions \cup {0} /\ heard \in Versions \cup {0}
  /\ slips \subseteq Callers \cup {NoOne}

LEMMA CheckTypeStep ==
  ASSUME TypeOK, MirrorTypeOK, CheckTypeOK, [AuditNext]_avars
  PROVE  CheckTypeOK'
<1> USE DEF CheckTypeOK, Compares, Looked, Finish, Stopped, checking
<1>1. CASE Check
  <2>1. CASE List \/ Hear
    BY <2>1, RowType DEF List, Hear, MirrorTypeOK
  <2>2. ASSUME NEW k \in Keys, ReadStored(k) PROVE CheckTypeOK'
    BY <2>2, RowType DEF ReadStored, MirrorTypeOK
  <2>3. CASE NoAnswer \/ Agree \/ Raced \/ Report \/ Repair
    BY <2>3 DEF NoAnswer, Agree, Raced, Report, Repair
  <2>4. CASE Drift \/ Abandon
    BY <2>4 DEF Drift, Abandon
  <2>5. QED
    BY <1>1, <2>1, <2>2, <2>3, <2>4 DEF Check
<1>2. ASSUME NEW c \in Callers, Fetches(c) PROVE CheckTypeOK'
  BY <1>2 DEF Fetches, Slips
<1>3. ASSUME NEW c \in Callers, Books(c) PROVE CheckTypeOK'
  <2>1. at[c] \in Keys
    BY DEF TypeOK
  <2>2. QED
    BY <1>3, <2>1 DEF Books
<1>4. ASSUME NEW c \in Callers, Others(c) PROVE CheckTypeOK'
  BY <1>4 DEF Others
<1>5. ASSUME NEW r \in Rows, Elsewhere(r) PROVE CheckTypeOK'
  BY <1>5 DEF Elsewhere, Slips
<1>6. CASE Clocks \/ Crash \/ UNCHANGED avars
  BY <1>6 DEF Clocks, Crash, avars
<1>7. QED
  BY <1>1, <1>2, <1>3, <1>4, <1>5, <1>6 DEF AuditNext

LEMMA RepairTypeStep ==
  ASSUME MirrorTypeOK, CheckTypeOK, Repair
  PROVE  MirrorTypeOK'
  BY RowType DEF MirrorTypeOK, CheckTypeOK, Repair, reading

\* Every variable of Audit keeps its type: a repair writes a version too.
THEOREM AuditTypeCorrect == AuditSpec => []AuditTypeOK
<1>1. AuditInit => MirrorTypeOK /\ CheckTypeOK
  BY MirrorAssumption DEF AuditInit, MirrorInit, MirrorTypeOK, CheckTypeOK, Versions, Compares
<1>2. TypeOK /\ MirrorTypeOK /\ CheckTypeOK /\ [AuditNext]_avars =>
        MirrorTypeOK' /\ CheckTypeOK'
  BY MirrorOrRepair, MirrorTypeStep, RepairTypeStep, CheckTypeStep
<1>3. MirrorTypeOK /\ CheckTypeOK => AuditTypeOK
  BY DEF AuditTypeOK, CheckTypeOK
<1>4. QED
  BY <1>1, <1>2, <1>3, AuditIsFresh, TypeCorrect, PTL DEF AuditSpec

------------------------------------------------------------------------------
\* While a key is compared its row is the one that was read, or somebody wrote
\* it unseen, or the second look at changed_at is still to come and will tell.
CompareInv ==
  audit \in Compares =>
    /\ stored[RowOf[on]] = was \/ slips # {} \/ (audit # "drifted" /\ on \in moved)
    /\ audit = "drifted" => was # heard

LEMMA CompareStep ==
  ASSUME TypeOK, MirrorTypeOK, CheckTypeOK, CompareInv, [AuditNext]_avars
  PROVE  CompareInv'
<1> USE DEF CompareInv, Compares, checking
<1>1. CASE Check
  <2>1. CASE List
    BY <2>1 DEF List
  <2>2. ASSUME NEW k \in Keys, ReadStored(k) PROVE CompareInv'
    BY <2>2 DEF ReadStored, mvars
  <2>3. CASE Hear
    BY <2>3 DEF Hear, mvars
  <2>4. CASE NoAnswer \/ Agree \/ Raced \/ Report \/ Repair
    BY <2>4 DEF NoAnswer, Agree, Raced, Report, Repair, Finish
  <2>5. CASE Drift
    BY <2>5 DEF Drift, Looked, mvars
  <2>6. CASE Abandon
    BY <2>6 DEF Abandon, Stopped
  <2>7. QED
    BY <1>1, <2>1, <2>2, <2>3, <2>4, <2>5, <2>6 DEF Check
<1>2. ASSUME NEW c \in Callers, Fetches(c) PROVE CompareInv'
  <2>1. CASE Watched(RowOf[at[c]]) /\ stored'[RowOf[at[c]]] # stored[RowOf[at[c]]]
    <3>1. slips' # {}
      BY <1>2, <2>1 DEF Fetches, Slips
    <3>2. QED
      BY <1>2, <3>1 DEF Fetches
  <2>2. CASE ~Watched(RowOf[at[c]]) \/ stored'[RowOf[at[c]]] = stored[RowOf[at[c]]]
    <3>1. UNCHANGED slips
      BY <1>2, <2>2 DEF Fetches, Slips
    <3>2. audit \in Compares => stored'[RowOf[on]] = stored[RowOf[on]]
      <4>1. \A r \in Rows : r # RowOf[at[c]] => stored'[r] = stored[r]
        BY <1>2 DEF Fetches, Absorb, Forgets, MirrorTypeOK
      <4>2. QED
        BY <2>2, <4>1, RowType DEF Watched, CheckTypeOK
    <3>3. QED
      BY <1>2, <3>1, <3>2 DEF Fetches
  <2>3. QED
    BY <2>1, <2>2
<1>3. ASSUME NEW c \in Callers, Books(c) PROVE CompareInv'
  <2>1. UNCHANGED <<stored, audit, on, was, heard>>
    BY <1>3 DEF Books, Bookkeep
  <2>2. /\ moved \subseteq moved'
        /\ slips' = slips \/ (audit # "drifted" /\ on \in moved')
    BY <1>3 DEF Books, Pending
  <2>3. QED
    BY <2>1, <2>2
<1>4. ASSUME NEW c \in Callers, Others(c) PROVE CompareInv'
  <2>1. UNCHANGED stored
    BY <1>4 DEF Others, Arrives, Sweep, Respond, NotModified, Fail, ReadRefusal, ReadRow, Done
  <2>2. QED
    BY <1>4, <2>1 DEF Others
<1>5. ASSUME NEW r \in Rows, Elsewhere(r) PROVE CompareInv'
  <2>1. CASE Watched(r) /\ stored'[r] # stored[r]
    <3>1. slips' # {}
      BY <1>5, <2>1 DEF Elsewhere, Slips
    <3>2. QED
      BY <1>5, <3>1 DEF Elsewhere
  <2>2. CASE ~Watched(r) \/ stored'[r] = stored[r]
    <3>1. UNCHANGED slips
      BY <1>5, <2>2 DEF Elsewhere, Slips
    <3>2. audit \in Compares => stored'[RowOf[on]] = stored[RowOf[on]]
      <4>1. \A q \in Rows : q # r => stored'[q] = stored[q]
        BY <1>5 DEF Elsewhere, Change, Write, Purge, Deliver, MirrorTypeOK
      <4>2. QED
        BY <2>2, <4>1, RowType DEF Watched, CheckTypeOK
    <3>3. QED
      BY <1>5, <3>1, <3>2 DEF Elsewhere
  <2>3. QED
    BY <2>1, <2>2
<1>6. CASE Clocks
  BY <1>6 DEF Clocks, Passes
<1>7. CASE Crash
  BY <1>7 DEF Crash, Stopped
<1>8. CASE UNCHANGED avars
  BY <1>8 DEF avars, mvars
<1>9. QED
  BY <1>1, <1>2, <1>3, <1>4, <1>5, <1>6, <1>7, <1>8 DEF AuditNext

\* A reported drift is a drift, and a repair undoes no write but those that
\* changed_at does not tell of, beside any number of readers and keys and
\* whichever bookkeeping statements fail (checkOne).
THEOREM DriftAlwaysReal == AuditSpec => []DriftIsReal
<1>1. AuditInit => CompareInv
  BY DEF AuditInit, CompareInv, Compares
<1>2. AuditTypeOK => MirrorTypeOK /\ CheckTypeOK
  BY DEF AuditTypeOK, CheckTypeOK
<1>3. TypeOK /\ AuditTypeOK /\ CompareInv /\ [AuditNext]_avars => CompareInv'
  BY <1>2, CompareStep
<1>4. CompareInv => DriftIsReal
  BY DEF CompareInv, DriftIsReal, Compares
<1>5. QED
  BY <1>1, <1>3, <1>4, AuditIsFresh, TypeCorrect, AuditTypeCorrect, PTL DEF AuditSpec

------------------------------------------------------------------------------
LEMMA RepairRowStep ==
  ASSUME MirrorTypeOK, TypeOK, CheckTypeOK, RowInv, Repair, heard # 0
  PROVE  RowInv'
  BY RowType
     DEF RowInv, RowBehindFresh, MirrorTypeOK, TypeOK, CheckTypeOK, Repair, vars, caller, row

\* What is heard is a version.
HeardInv == audit \in {"asked", "drifted"} => heard # 0

LEMMA HeardStep ==
  ASSUME MirrorTypeOK, CheckTypeOK, HeardInv, [AuditNext]_avars
  PROVE  HeardInv'
<1> USE DEF HeardInv, checking
<1>1. CASE Check
  <2>1. CASE Hear
    <3>1. truth[RowOf[on]] # 0
      BY RowType DEF MirrorTypeOK, CheckTypeOK, Versions
    <3>2. QED
      BY <2>1, <3>1 DEF Hear
  <2>2. ASSUME NEW k \in Keys, ReadStored(k) PROVE HeardInv'
    BY <2>2 DEF ReadStored
  <2>3. CASE List \/ NoAnswer \/ Agree \/ Raced \/ Drift \/ Report \/ Repair \/ Abandon
    BY <2>3 DEF List, NoAnswer, Agree, Raced, Drift, Report, Repair, Abandon, Finish, Stopped
  <2>4. QED
    BY <1>1, <2>1, <2>2, <2>3 DEF Check
<1>2. CASE ~Check /\ AuditNext
  BY <1>2 DEF AuditNext, Fetches, Books, Others, Elsewhere, Clocks, Crash, Stopped
<1>3. CASE UNCHANGED avars
  BY <1>3 DEF avars
<1>4. QED
  BY <1>1, <1>2, <1>3

\* A key that counts as fresh and not as refused has a row beside a check that
\* repairs too, where nothing deletes rows.
THEOREM AuditedRowsBehindFresh ==
  ASSUME NothingDeletes PROVE AuditSpec => []RowBehindFresh
<1>1. AuditInit => RowInv /\ HeardInv
  BY DEF AuditInit, MirrorInit, Init, RowInv, RowBehindFresh, HeardInv
<1>2. AuditTypeOK => MirrorTypeOK /\ CheckTypeOK
  BY DEF AuditTypeOK, CheckTypeOK
<1>3. TypeOK /\ AuditTypeOK /\ RowInv /\ HeardInv /\ [AuditNext]_avars => RowInv' /\ HeardInv'
  <2>1. Repair /\ HeardInv => heard # 0
    BY DEF Repair, HeardInv
  <2>2. QED
    BY <1>2, <2>1, MirrorOrRepair, RowStep, RepairRowStep, HeardStep
<1>4. RowInv => RowBehindFresh
  BY DEF RowInv
<1>5. QED
  BY <1>1, <1>3, <1>4, AuditIsFresh, TypeCorrect, AuditTypeCorrect, PTL DEF AuditSpec
=============================================================================
