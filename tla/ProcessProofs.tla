---------------------------- MODULE ProcessProofs ----------------------------
(***************************************************************************)
(* What holds of the cache file for any schemas, any number of tables and  *)
(* a crash at any statement, of Open alone and of whole processes.         *)
(*                                                                         *)
(* ServesItsOwn speaks of an open file; Honest says why the fingerprint    *)
(* may be believed: it is written last, so a file that has one has the     *)
(* whole schema it names and only its rows.                                *)
(***************************************************************************)
EXTENDS Process, TLAPS

Honest ==
  /\ fp # Nothing => built = Tables /\ shape = fp /\ rows \subseteq {fp}
  /\ fp = Nothing => rows = {}
  /\ phase \in {"reading", "nuking"} => ran = 0
  /\ phase = "nuking" => fp \notin {Nothing, spec}
  /\ phase \in {"applying", "recording"} => fp = Nothing
  /\ phase = "open" => fp = spec
  /\ phase = "recording" => built = Tables /\ shape = spec /\ ran > 0
  /\ (phase = "applying" /\ ran > 0) => shape = spec
  /\ phase = "applying" => ran < Tables

\* Tables without a fingerprint are those of this Open, or left by a cut one.
Accounted ==
  fp = Nothing /\ ~cut => built = (IF phase \in {"applying", "recording"} THEN ran ELSE 0)

OpenInv == OpeningTypeOK /\ Honest /\ Accounted

LEMMA OpenStart ==
  OpeningInit => OpenInv
<1> SUFFICES ASSUME OpeningInit PROVE OpenInv
  OBVIOUS
<1>1. OpeningTypeOK
  <2>1. cut \in BOOLEAN
    BY DEF OpeningInit
  <2>2. spec \in Specs /\ phase \in Phases
    BY DEF OpeningInit, Phases
  <2>3. ran \in 0 .. built /\ built \in 0 .. Tables
    BY OpeningAssumption DEF OpeningInit
  <2>4. shape = Nothing /\ fp = Nothing /\ rows = {}
    BY DEF OpeningInit
  <2>5. QED
    BY <2>1, <2>2, <2>3, <2>4 DEF OpeningTypeOK
<1>2. Honest
  BY DEF OpeningInit, Honest
<1>3. Accounted
  BY DEF OpeningInit, Accounted
<1>4. QED
  BY <1>1, <1>2, <1>3 DEF OpenInv

LEMMA TypeStep ==
  ASSUME OpenInv, [OpeningNext]_start
  PROVE  OpeningTypeOK'
<1> USE OpeningAssumption DEF OpenInv, OpeningTypeOK, Honest, Phases, file
<1>1. CASE Boot
  BY <1>1 DEF Boot
<1>2. CASE ReadFingerprint
  BY <1>2 DEF ReadFingerprint, After
<1>3. CASE Nuke
  BY <1>3 DEF Nuke
<1>4. CASE CreateTable
  BY <1>4 DEF CreateTable, Clashes
<1>5. CASE RecordFingerprint
  BY <1>5 DEF RecordFingerprint
<1>6. CASE WriteRow
  BY <1>6 DEF WriteRow
<1>7. CASE StatementFails \/ Exit \/ Crash
  BY <1>7 DEF StatementFails, Exit, Crash, Ends
<1>8. CASE UNCHANGED start
  BY <1>8 DEF start
<1>9. QED
  BY <1>1, <1>2, <1>3, <1>4, <1>5, <1>6, <1>7, <1>8 DEF OpeningNext

LEMMA HonestStep ==
  ASSUME OpenInv, [OpeningNext]_start
  PROVE  Honest'
<1> USE OpeningAssumption DEF OpenInv, OpeningTypeOK, Honest, Phases, file
<1>1. CASE Boot
  BY <1>1 DEF Boot
<1>2. CASE ReadFingerprint
  BY <1>2 DEF ReadFingerprint, After
<1>3. CASE Nuke
  BY <1>3 DEF Nuke
<1>4. CASE CreateTable
  BY <1>4 DEF CreateTable, Clashes
<1>5. CASE RecordFingerprint
  BY <1>5 DEF RecordFingerprint
<1>6. CASE WriteRow
  BY <1>6 DEF WriteRow
<1>7. CASE StatementFails \/ Exit \/ Crash
  BY <1>7 DEF StatementFails, Exit, Crash, Ends
<1>8. CASE UNCHANGED start
  BY <1>8 DEF start
<1>9. QED
  BY <1>1, <1>2, <1>3, <1>4, <1>5, <1>6, <1>7, <1>8 DEF OpeningNext

LEMMA AccountedStep ==
  ASSUME OpenInv, [OpeningNext]_start
  PROVE  Accounted'
<1> USE OpeningAssumption DEF OpenInv, OpeningTypeOK, Honest, Accounted, Phases, file
<1>1. CASE Boot
  BY <1>1 DEF Boot
<1>2. CASE ReadFingerprint
  BY <1>2 DEF ReadFingerprint, After
<1>3. CASE Nuke
  BY <1>3 DEF Nuke
<1>4. CASE CreateTable
  BY <1>4 DEF CreateTable, Clashes
<1>5. CASE RecordFingerprint
  BY <1>5 DEF RecordFingerprint
<1>6. CASE WriteRow
  BY <1>6 DEF WriteRow
<1>7. CASE StatementFails \/ Exit \/ Crash
  <2>1. /\ phase' \in {"failed", "down"}
        /\ built' = built /\ fp' = fp
    BY <1>7 DEF StatementFails, Exit, Crash, Ends
  <2>2. ~cut' => ~cut /\ (phase \in {"applying", "recording"} => ~(ran > 0))
    <3>1. cut' = (cut \/ (phase \in {"applying", "recording"} /\ ran > 0))
      BY <1>7 DEF StatementFails, Exit, Crash, Ends
    <3>2. QED
      BY <3>1, Zenon
  <2>3. ran \in Nat
    OBVIOUS
  <2>4. QED
    BY <2>1, <2>2, <2>3
<1>8. CASE UNCHANGED start
  BY <1>8 DEF start
<1>9. QED
  BY <1>1, <1>2, <1>3, <1>4, <1>5, <1>6, <1>7, <1>8 DEF OpeningNext

LEMMA OpenAlways ==
  OpeningSpec => []OpenInv
<1>1. OpenInv /\ [OpeningNext]_start => OpenInv'
  BY TypeStep, HonestStep, AccountedStep DEF OpenInv
<1>2. QED
  BY <1>1, OpenStart, PTL DEF OpeningSpec

------------------------------------------------------------------------------
(* Whole processes. *)

\* The goroutines of a process touch the file by writing rows of its own schema
\* and in no other way: processes implement Opening.
THEOREM ProcessOpens == ProcessSpec => OpeningSpec
<1>1. ProcessInit => OpeningInit
  BY DEF ProcessInit
<1>2. [ProcessNext]_pvars => [OpeningNext]_start
  <2> USE DEF OpeningNext, Absorbs
  <2>1. CASE Open
    BY <2>1 DEF Open
  <2>2. CASE Dies
    BY <2>2 DEF Dies
  <2>3. CASE ListenFails \/ Signal \/ Proceed \/ SweepRests \/ ByHand \/ ReplayStep
    BY <2>3 DEF ListenFails, Signal, Proceed, SweepRests, ByHand, ReplayStep
  <2>4. CASE SweepCycle \/ HandCycle
    BY <2>4 DEF SweepCycle, HandCycle, Cycle
  <2>5. ASSUME NEW h \in Handlers, Serve(h) PROVE [OpeningNext]_start
    BY <2>5 DEF Serve, Come, Fetch, Fetched, Leave
  <2>6. ASSUME NEW h \in Handlers, NEW s \in Subjects, Submit(h, s)
        PROVE  [OpeningNext]_start
    BY <2>6 DEF Submit
  <2>7. ASSUME NEW s \in Subjects, Ingest(s) PROVE [OpeningNext]_start
    BY <2>7 DEF Ingest, Pop, Count, Apply, Posted, StopTimer
  <2>8. CASE UNCHANGED pvars
    BY <2>8 DEF pvars
  <2>9. QED
    BY <2>1, <2>2, <2>3, <2>4, <2>5, <2>6, <2>7, <2>8 DEF ProcessNext
<1>3. QED
  BY <1>1, <1>2, PTL DEF ProcessSpec, OpeningSpec

\* A process serves its own schema, whatever earlier processes left.
THEOREM FileIsOwn == ProcessSpec => []ServesItsOwn
<1>1. OpenInv => ServesItsOwn
  BY OpeningAssumption DEF OpenInv, OpeningTypeOK, Honest, ServesItsOwn
<1>2. QED
  BY <1>1, ProcessOpens, OpenAlways, PTL

\* Only an Open cut short leaves a file that no start gets over.
THEOREM WedgedByCut == ProcessSpec => []OnlyACutStopsIt
<1>1. OpenInv => OnlyACutStopsIt
  <2> SUFFICES ASSUME OpenInv, Clashes, ~cut PROVE FALSE
    BY DEF OnlyACutStopsIt
  <2>1. phase = "applying" /\ ran < built
    BY DEF Clashes
  <2>2. fp = Nothing /\ built = ran
    BY <2>1 DEF OpenInv, Honest, Accounted
  <2>3. ran \in Nat
    BY DEF OpenInv, OpeningTypeOK
  <2>4. QED
    BY <2>1, <2>2, <2>3
<1>2. QED
  BY <1>1, ProcessOpens, OpenAlways, PTL

\* Rows are thrown away by a change of schema and by nothing else.
THEOREM CacheIsKept == ProcessSpec => KeepsItsCache
<1>1. OpenInv /\ [OpeningNext]_start
      => [(rows \ rows' # {}) => (phase = "nuking" /\ rows \cap {spec} = {})]_start
  <2> SUFFICES ASSUME OpenInv, OpeningNext, rows \ rows' # {}
               PROVE  phase = "nuking" /\ rows \cap {spec} = {}
    BY DEF start
  <2>1. Nuke
    BY DEF OpeningNext, Boot, ReadFingerprint, CreateTable, RecordFingerprint,
           WriteRow, StatementFails, Exit, Crash, Ends, file
  <2>2. phase = "nuking" /\ rows \subseteq {fp} /\ fp # spec
    BY <2>1 DEF Nuke, OpenInv, Honest
  <2>3. QED
    BY <2>2
<1>2. QED
  BY <1>1, ProcessOpens, OpenAlways, PTL DEF OpeningSpec, KeepsItsCache

------------------------------------------------------------------------------
(* The shutdown. *)

\* What a wait that ended by itself has left behind, at every later stage.
Quiet ==
  ~gaveUp =>
    /\ stage \in Stages \ {"none", "serving", "shutdown"} =>
         \A h \in Handlers : handler[h] = "out"
    /\ stage \in Stages \ {"none", "serving", "shutdown", "stopRefresh"} => sweep = Off
    /\ stage \in {"drainFresh", "drainIngest", "drainNotify", "closed"} => replay = "off"
    /\ stage = "drainIngest" => \A s \in Subjects : batch[s] = "held" => s \in listed
    /\ stage \in {"drainNotify", "closed"} =>
         \A s \in Subjects \ missed : batch[s] \in {"none", "posting"}
    /\ stage = "closed" => \A s \in Subjects \ missed : batch[s] = "none"

Goroutines ==
  /\ stage \in Stages
  /\ handler \in [Handlers -> {"out", "in", "fetching"}]
  /\ batch \in [Subjects ->
                {"none", "held", "popped", "running", "flushing", "posting"}]

ExitInv == Goroutines /\ Quiet

LEMMA GoroutinesStep ==
  ASSUME Goroutines, [ProcessNext]_pvars
  PROVE  Goroutines'
<1> USE DEF Goroutines, Stages, Waits, works, jobs, ending
<1>1. CASE Open
  BY <1>1 DEF Open, Idle
<1>2. CASE Dies
  BY <1>2 DEF Dies, Idle
<1>3. CASE ListenFails
  BY <1>3 DEF ListenFails
<1>4. CASE Signal
  BY <1>4 DEF Signal, Successor
<1>5. CASE Proceed
  BY <1>5 DEF Proceed, Successor
<1>6. CASE SweepCycle \/ SweepRests \/ ByHand \/ HandCycle \/ ReplayStep
  BY <1>6 DEF SweepCycle, SweepRests, ByHand, HandCycle, ReplayStep
<1>7. ASSUME NEW h \in Handlers, Serve(h) PROVE Goroutines'
  BY <1>7 DEF Serve, Come, Fetch, Fetched, Leave
<1>8. ASSUME NEW h \in Handlers, NEW s \in Subjects, Submit(h, s) PROVE Goroutines'
  BY <1>8 DEF Submit
<1>9. ASSUME NEW s \in Subjects, Ingest(s) PROVE Goroutines'
  <2>1. UNCHANGED <<stage, handler>>
    BY <1>9 DEF Ingest, Pop, Count, Apply, Posted, StopTimer
  <2>2. PICK next \in {"none", "held", "popped", "running", "flushing", "posting"} :
          batch' = [batch EXCEPT ![s] = next]
    BY <1>9 DEF Ingest, Pop, Count, Apply, Posted, StopTimer
  <2>3. QED
    BY <2>1, <2>2
<1>10. CASE UNCHANGED pvars
  BY <1>10 DEF pvars
<1>11. QED
  BY <1>1, <1>2, <1>3, <1>4, <1>5, <1>6, <1>7, <1>8, <1>9, <1>10 DEF ProcessNext

\* A wait that is over by itself leaves its part of Quiet.
LEMMA ProceedQuiet ==
  ASSUME ExitInv, Proceed
  PROVE  Quiet'
<1> USE DEF ExitInv, Goroutines, Stages, Waits
<1> SUFFICES ASSUME ~gaveUp' PROVE Quiet'
  BY DEF Quiet
<1>1. ~gaveUp /\ Over(stage)
  <2>1. gaveUp' = (gaveUp \/ ~Over(stage))
    BY DEF Proceed
  <2>2. QED
    BY <2>1, Zenon
<1>2. UNCHANGED <<handler, batch, sweep, replay>> /\ stage' = Successor(stage)
  BY DEF Proceed, works
<1>3. CASE stage = "shutdown"
  BY <1>1, <1>2, <1>3 DEF Quiet, Over, Successor
<1>4. CASE stage = "stopRefresh"
  BY <1>1, <1>2, <1>4 DEF Quiet, Over, Successor
<1>5. CASE stage = "stopReplay"
  BY <1>1, <1>2, <1>5 DEF Quiet, Over, Successor
<1>6. CASE stage = "drainFresh"
  <2>1. stage' = "drainIngest"
    BY <1>2, <1>6 DEF Successor
  <2>2. listed' = {b \in Subjects : batch[b] = "held"}
    BY <2>1 DEF Proceed
  <2>3. \A b \in Subjects : batch'[b] = "held" => b \in listed'
    BY <1>2, <2>2
  <2>4. QED
    BY <1>1, <1>2, <1>6, <2>1, <2>3 DEF Quiet
<1>7. CASE stage = "drainIngest"
  <2>1. missed' = {b \in Subjects : batch[b] = "popped"}
    BY <1>7 DEF Proceed
  <2>2. \A b \in Subjects : batch[b] \notin {"running", "flushing", "held"}
    <3>1. listed = {} /\ \A b \in Subjects : batch[b] # "flushing"
      BY <1>7 DEF Proceed, Flushed
    <3>2. \A b \in Subjects : batch[b] = "held" => b \in listed
      BY <1>1, <1>7 DEF Quiet
    <3>3. QED
      BY <1>1, <1>7, <3>1, <3>2 DEF Over
  <2>3. \A b \in Subjects \ missed' : batch[b] \in {"none", "posting"}
    BY <2>1, <2>2
  <2>4. stage' = "drainNotify"
    BY <1>2, <1>7 DEF Successor
  <2>5. QED
    BY <1>1, <1>2, <1>7, <2>3, <2>4 DEF Quiet
<1>8. CASE stage = "drainNotify"
  <2>1. missed' = missed /\ stage' = "closed"
    BY <1>2, <1>8 DEF Proceed, Successor
  <2>2. \A b \in Subjects : batch[b] # "posting"
    BY <1>1, <1>8 DEF Over
  <2>3. QED
    BY <1>1, <1>2, <1>8, <2>1, <2>2 DEF Quiet
<1>9. QED
  BY <1>3, <1>4, <1>5, <1>6, <1>7, <1>8 DEF Proceed

LEMMA QuietStep ==
  ASSUME ExitInv, [ProcessNext]_pvars
  PROVE  Quiet'
<1> USE DEF ExitInv, Goroutines, Stages, Waits, works, jobs, ending
<1>1. CASE Open
  BY <1>1 DEF Open, Quiet
<1>2. CASE Dies
  BY <1>2 DEF Dies, Quiet
<1>3. CASE ListenFails
  BY <1>3 DEF ListenFails, Quiet
<1>4. CASE Signal
  BY <1>4 DEF Signal, Successor, Quiet
<1>5. CASE Proceed
  BY <1>5, ProceedQuiet
<1>6. CASE SweepCycle \/ SweepRests
  <2>1. sweep # Off
    <3>1. sweep.at \in {"between", "fetching", "resting"}
      BY <1>6 DEF SweepCycle, SweepRests, Cycle
    <3>2. Off.at = "off"
      BY DEF Off
    <3>3. QED
      BY <3>1, <3>2
  <2>2. UNCHANGED <<stage, handler, batch, replay, ending>>
    BY <1>6 DEF SweepCycle, SweepRests
  <2>3. QED
    BY <2>1, <2>2 DEF Quiet
<1>7. CASE ByHand \/ HandCycle
  BY <1>7 DEF ByHand, HandCycle, Quiet
<1>8. CASE ReplayStep
  BY <1>8 DEF ReplayStep, Quiet
<1>9. ASSUME NEW h \in Handlers, Serve(h) PROVE Quiet'
  <2>1. /\ UNCHANGED <<stage, batch, sweep, replay, ending>>
        /\ stage = "serving" \/ handler[h] # "out"
    BY <1>9 DEF Serve, Come, Fetch, Fetched, Leave
  <2>2. \A g \in Handlers \ {h} : handler'[g] = handler[g]
    BY <1>9 DEF Serve, Come, Fetch, Fetched, Leave
  <2>3. QED
    BY <2>1, <2>2 DEF Quiet
<1>10. ASSUME NEW h \in Handlers, NEW s \in Subjects, Submit(h, s) PROVE Quiet'
  <2>1. /\ UNCHANGED <<stage, handler, sweep, replay, ending>>
        /\ handler[h] = "in"
    BY <1>10 DEF Submit
  <2>2. QED
    BY <2>1 DEF Quiet
<1>11. ASSUME NEW s \in Subjects, Ingest(s) PROVE Quiet'
  <2>1. UNCHANGED <<stage, handler, sweep, replay, gaveUp, missed>>
    BY <1>11 DEF Ingest, Pop, Count, Apply, Posted, StopTimer
  <2>2. \A t \in Subjects \ {s} : batch'[t] = batch[t]
    BY <1>11 DEF Ingest, Pop, Count, Apply, Posted, StopTimer
  <2>3. \/ batch[s] \in {"popped", "running", "flushing"} /\ batch'[s] # "held"
        \/ batch[s] = "held" /\ batch'[s] # "held"
        \/ batch[s] = "posting" /\ batch'[s] = "none"
        \/ batch'[s] = batch[s] /\ batch[s] # "held"
    BY <1>11 DEF Ingest, Pop, Count, Apply, Posted, StopTimer
  <2>4. listed' = listed \/ listed' = listed \ {s}
    BY <1>11 DEF Ingest, Pop, Count, Apply, Posted, StopTimer
  <2>5. QED
    BY <2>1, <2>2, <2>3, <2>4 DEF Quiet
<1>12. CASE UNCHANGED pvars
  BY <1>12 DEF pvars, Quiet
<1>13. QED
  BY <1>1, <1>2, <1>3, <1>4, <1>5, <1>6, <1>7, <1>8, <1>9, <1>10, <1>11, <1>12
     DEF ProcessNext

\* A shutdown without a timeout leaves nothing that could write.
THEOREM ExitIsClean == ProcessSpec => []ExitLeavesNothing
<1>1. ProcessInit => ExitInv
  BY DEF ProcessInit, ExitInv, Goroutines, Stages, Quiet
<1>2. ExitInv /\ [ProcessNext]_pvars => ExitInv'
  BY GoroutinesStep, QuietStep DEF ExitInv
<1>3. ExitInv => ExitLeavesNothing
  BY DEF ExitInv, Goroutines, Quiet, Stages, Waits, ExitLeavesNothing
<1>4. QED
  BY <1>1, <1>2, <1>3, PTL DEF ProcessSpec
=============================================================================
