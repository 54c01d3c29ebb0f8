----------------------------- MODULE RevealProofs -----------------------------
(***************************************************************************)
(* What holds of Reveal for any number of requests and any lifetimes, with *)
(* failing statements and crashes.                                         *)
(***************************************************************************)
EXTENDS Reveal, TLAPS

\* The type invariant in three parts, of which a step of a request leaves the
\* first alone.
WorldOK ==
  /\ nameless \subseteq Requests
  /\ probes \in BOOLEAN
  /\ access \in Answers
  /\ changes \in 0 .. MaxChanges
  /\ public \in BOOLEAN

ProofOK ==
  /\ grant \in 0 .. GrantTtl
  /\ deny \in 0 .. DenyTtl
  /\ verdict \in {"forbidden", "missing"}
  /\ torn \in BOOLEAN

PathOK ==
  /\ refused \in BOOLEAN
  /\ pc \in [Requests -> Places]
  /\ said \in [Requests -> Answers \cup {"unclear"}]

LEMMA RequestsLeaveWorld ==
  ASSUME NEW r \in Requests, Come(r) \/ Climb(r)
  PROVE  UNCHANGED world
<1>1. CASE Come(r) \/ LookPublic(r) \/ LookGrant(r) \/ LookDenial(r)
  BY <1>1 DEF Come, LookPublic, LookGrant, LookDenial
<1>2. CASE Probe(r) \/ Heed(r) \/ Revoke(r)
  BY <1>2 DEF Probe, Heed, Revoke
<1>3. CASE Ensure(r) \/ ReadRefusal(r) \/ Renew(r) \/ Return(r)
  BY <1>3 DEF Ensure, ReadRefusal, Renew, Return
<1>4. QED
  BY <1>1, <1>2, <1>3 DEF Climb

LEMMA ProofStep ==
  ASSUME ProofOK, NEW r \in Requests, Come(r) \/ Climb(r)
  PROVE  ProofOK'
<1> USE RevealAssumption DEF ProofOK, proof
<1>1. CASE \/ Come(r) \/ LookPublic(r) \/ LookGrant(r) \/ LookDenial(r)
           \/ Probe(r) \/ Ensure(r) \/ ReadRefusal(r) \/ Return(r)
  <2>1. UNCHANGED <<proof, torn>>
    BY <1>1 DEF Come, LookPublic, LookGrant, LookDenial, Probe, Ensure,
                ReadRefusal, Return
  <2>2. QED
    BY <2>1
<1>2. CASE RecordGrant
  <2>1. grant' \in 0 .. GrantTtl /\ deny' \in 0 .. DenyTtl
    BY <1>2 DEF RecordGrant
  <2>2. torn' \in BOOLEAN
    BY <1>2, Zenon DEF RecordGrant
  <2>3. QED
    BY <1>2, <2>1, <2>2 DEF RecordGrant
<1>3. ASSUME NEW status \in {"forbidden", "missing"}, RecordDenial(status)
      PROVE  ProofOK'
  BY <1>3 DEF RecordDenial
<1>4. CASE UNCHANGED <<proof, torn>>
  BY <1>4
<1>5. CASE Heed(r)
  <2>1. \/ RecordGrant
        \/ UNCHANGED <<proof, torn>>
        \/ RecordDenial("forbidden") \/ RecordDenial("missing")
    BY <1>5 DEF Heed
  <2>2. QED
    BY <1>2, <1>3, <1>4, <2>1
<1>6. CASE Revoke(r)
  <2>1. grant' \in 0 .. GrantTtl
    BY <1>6 DEF Revoke
  <2>2. torn' \in BOOLEAN
    BY <1>6, Zenon DEF Revoke
  <2>3. UNCHANGED <<deny, verdict>>
    BY <1>6 DEF Revoke
  <2>4. QED
    BY <2>1, <2>2, <2>3
<1>7. CASE Renew(r)
  BY <1>2, <1>4, <1>7 DEF Renew
<1>8. QED
  BY <1>1, <1>5, <1>6, <1>7 DEF Climb

LEMMA PathStep ==
  ASSUME WorldOK, PathOK, NEW r \in Requests, Come(r) \/ Climb(r)
  PROVE  PathOK'
<1> USE DEF PathOK, Places, Final, Go
<1>1. CASE Come(r) \/ LookPublic(r) \/ LookGrant(r) \/ LookDenial(r)
  BY <1>1 DEF Come, LookPublic, LookGrant, LookDenial
<1>2. Told(r) \subseteq Answers \cup {"unclear"}
  BY DEF WorldOK, Told
<1>3. CASE Probe(r)
  BY <1>2, <1>3 DEF Probe
<1>4. CASE Heed(r)
  BY <1>4 DEF Heed
<1>5. CASE Revoke(r) \/ Renew(r)
  BY <1>5 DEF Revoke, Renew
<1>6. CASE Ensure(r)
  <2>1. CASE /\ Go(r, "hit") \/ Go(r, "error")
             /\ UNCHANGED <<refused, said>>
    BY <2>1
  <2>2. ASSUME NEW answer \in Told(r) \cap {"yes", "missing"},
               Go(r, "miss"),
               said' = [said EXCEPT ![r] = answer],
               refused' = (answer = "missing")
        PROVE  PathOK'
    <3>1. refused' \in BOOLEAN
      BY <2>2
    <3>2. pc' \in [Requests -> Places]
      BY <2>2
    <3>3. said' \in [Requests -> Answers \cup {"unclear"}]
      BY <1>2, <2>2
    <3>4. QED
      BY <3>1, <3>2, <3>3
  <2>3. QED
    BY <1>6, <2>1, <2>2 DEF Ensure
<1>7. CASE ReadRefusal(r)
  <2>1. UNCHANGED <<refused, said>>
    BY <1>7 DEF ReadRefusal
  <2>2. Go(r, "hidden") \/ Go(r, "renew") \/ Go(r, "shown")
    BY <1>7 DEF ReadRefusal
  <2>3. QED
    BY <2>1, <2>2
<1>8. CASE Return(r)
  BY <1>8 DEF Return
<1>9. QED
  BY <1>1, <1>3, <1>4, <1>5, <1>6, <1>7, <1>8 DEF Climb

LEMMA RevealTypeStep ==
  ASSUME RevealTypeOK, [Next]_vars
  PROVE  RevealTypeOK'
<1>1. WorldOK /\ ProofOK /\ PathOK
  BY Zenon DEF RevealTypeOK, WorldOK, ProofOK, PathOK
<1>2. SUFFICES WorldOK' /\ ProofOK' /\ PathOK'
  BY Zenon DEF RevealTypeOK, WorldOK, ProofOK, PathOK
<1>3. ASSUME NEW r \in Requests, Come(r) \/ Climb(r)
      PROVE  WorldOK' /\ ProofOK' /\ PathOK'
  <2>1. UNCHANGED world
    BY <1>3, RequestsLeaveWorld
  <2>2. WorldOK'
    BY <1>1, <2>1 DEF WorldOK, world, rule
  <2>3. QED
    BY <1>1, <1>3, <2>2, ProofStep, PathStep
<1>4. CASE ChangeAccess
  BY <1>1, <1>4, RevealAssumption
     DEF ChangeAccess, WorldOK, ProofOK, PathOK, rule, proof
<1>5. CASE Elsewhere
  BY <1>1, <1>5 DEF Elsewhere, WorldOK, ProofOK, PathOK, rule, proof
<1>6. CASE Tick
  <2>1. ProofOK'
    BY <1>1, <1>6, RevealAssumption DEF Tick, ProofOK
  <2>2. QED
    BY <1>1, <1>6, <2>1 DEF Tick, WorldOK, PathOK, world, rule
<1>7. CASE Restart
  <2>1. ProofOK'
    BY <1>1, <1>7 DEF Restart, ProofOK, proof
  <2>2. PathOK'
    BY <1>1, <1>7 DEF Restart, PathOK, Places
  <2>3. QED
    BY <1>1, <1>7, <2>1, <2>2 DEF Restart, WorldOK, world, rule
<1>8. CASE UNCHANGED vars
  BY <1>1, <1>8 DEF vars, world, rule, proof, WorldOK, ProofOK, PathOK
<1>9. QED
  BY <1>3, <1>4, <1>5, <1>6, <1>7, <1>8 DEF Next

\* Every variable keeps its type: whatever is renewed or refused again, a proof
\* and a refusal last no longer than their lifetimes (reveal.go, store.go).
THEOREM RevealTypeCorrect == Spec => []RevealTypeOK
<1>1. Init => RevealTypeOK
  <2> SUFFICES ASSUME Init PROVE RevealTypeOK
    OBVIOUS
  <2>1. nameless \subseteq Requests /\ access \in Answers
    BY RevealAssumption DEF Init
  <2>2. /\ changes \in 0 .. MaxChanges
        /\ grant \in 0 .. GrantTtl
        /\ deny \in 0 .. DenyTtl
        /\ verdict \in {"forbidden", "missing"}
    BY RevealAssumption DEF Init
  <2>3. /\ probes \in BOOLEAN /\ public \in BOOLEAN
        /\ refused \in BOOLEAN /\ torn \in BOOLEAN
    BY DEF Init
  <2>4. /\ pc \in [Requests -> Places]
        /\ said \in [Requests -> Answers \cup {"unclear"}]
    BY DEF Init, Places
  <2>5. QED
    BY <2>1, <2>2, <2>3, <2>4 DEF RevealTypeOK
<1>2. RevealTypeOK /\ [Next]_vars => RevealTypeOK'
  BY RevealTypeStep
<1>3. QED
  BY <1>1, <1>2, PTL DEF Spec

------------------------------------------------------------------------------
\* Somebody is between writing a 403 down and dropping the proof.
Revoking == \E r \in Requests : pc[r] = "revoke"

\* A request that does not stand before its revocation takes nobody else away
\* from theirs.
LEMMA OthersRevoke ==
  ASSUME RevealTypeOK, NEW r \in Requests, NEW place, Go(r, place),
         pc[r] # "revoke", Revoking
  PROVE  Revoking'
  BY DEF RevealTypeOK, Go, Revoking

LEMMA OneAnswerStep ==
  ASSUME RevealTypeOK, OneAnswer, [Next]_vars
  PROVE  OneAnswer'
<1> USE DEF Revoking
<1>1. ASSUME UNCHANGED <<proof, torn>>, Revoking => Revoking'
      PROVE  OneAnswer'
  BY <1>1 DEF OneAnswer, proof
<1>2. ASSUME NEW r \in Requests, Come(r) \/ Climb(r) PROVE OneAnswer'
  <2> USE DEF Go
  <2>1. CASE \/ Come(r) \/ LookPublic(r) \/ LookGrant(r) \/ LookDenial(r)
             \/ Probe(r) \/ Ensure(r) \/ ReadRefusal(r) \/ Return(r)
    <3>1. UNCHANGED <<proof, torn>> /\ \E place : Go(r, place) /\ pc[r] # "revoke"
      BY <2>1 DEF Come, LookPublic, LookGrant, LookDenial, Probe, Ensure,
                  ReadRefusal, Return, Final
    <3>2. QED
      BY <3>1, <1>1, OthersRevoke
  <2>2. CASE Heed(r)
    <3>1. CASE RecordGrant
      BY <3>1 DEF RecordGrant, OneAnswer
    <3>2. CASE UNCHANGED <<proof, torn>>
      <4>1. \E place : Go(r, place) /\ pc[r] # "revoke"
        BY <2>2 DEF Heed
      <4>2. QED
        BY <3>2, <4>1, <1>1, OthersRevoke
    <3>3. CASE RecordDenial("missing")
      BY <3>3 DEF RecordDenial, OneAnswer
    <3>4. CASE RecordDenial("forbidden") /\ Go(r, "revoke")
      BY <3>4 DEF OneAnswer, RevealTypeOK
    <3>5. QED
      BY <2>2, <3>1, <3>2, <3>3, <3>4 DEF Heed
  <2>3. CASE Revoke(r)
    BY <2>3 DEF Revoke, OneAnswer, RevealTypeOK
  <2>4. CASE Renew(r)
    <3>1. CASE RecordGrant
      BY <3>1 DEF RecordGrant, OneAnswer
    <3>2. CASE UNCHANGED <<proof, torn>>
      BY <2>4, <3>2, <1>1, OthersRevoke DEF Renew
    <3>3. QED
      BY <2>4, <3>1, <3>2 DEF Renew
  <2>5. QED
    BY <1>2, <2>1, <2>2, <2>3, <2>4 DEF Climb
<1>3. CASE ChangeAccess \/ Elsewhere
  BY <1>1, <1>3 DEF ChangeAccess, Elsewhere
<1>4. CASE Tick
  BY <1>4, RevealAssumption DEF Tick, OneAnswer, RevealTypeOK
<1>5. CASE Restart
  BY <1>5 DEF Restart, OneAnswer, proof
<1>6. CASE UNCHANGED vars
  BY <1>1, <1>6 DEF vars
<1>7. QED
  BY <1>2, <1>3, <1>4, <1>5, <1>6 DEF Next

\* Whatever order racing probes record their answers in, a proof outlives a 403
\* only where somebody still is to revoke it, or a crash or a failing statement
\* came in between (remember's two statements, reveal.go:205 and :211).
THEOREM AnswersAgree == Spec => []OneAnswer
<1>1. Init => OneAnswer
  BY DEF Init, OneAnswer
<1>2. RevealTypeOK /\ OneAnswer /\ [Next]_vars => OneAnswer'
  BY OneAnswerStep
<1>3. QED
  BY RevealTypeCorrect, <1>1, <1>2, PTL DEF Spec
===============================================================================
