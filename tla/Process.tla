------------------------------- MODULE Process -------------------------------
(***************************************************************************)
(* One process after another on one cache file (internal/mirror/run.go,    *)
(* with refresh.go, and the goroutines of engine.go, freshness.go,         *)
(* ordering.go, notify.go and replay.go as a shutdown sees them).          *)
(*                                                                         *)
(* A process opens the file, starts the background jobs and serves until a *)
(* signal.  It then waits, in a fixed order, for what may still write:     *)
(* the handlers, the sweep, the replay cycle, the counted fetches, the     *)
(* held and running batches and the posts.  Only then are the databases    *)
(* closed.  Each goroutine is reduced to what the waits tell apart; what   *)
(* it does to rows is the subject of the other modules.                    *)
(***************************************************************************)
EXTENDS Opening

CONSTANTS
  Handlers,  \* requests served at once
  Subjects,  \* subjects of deliveries: a batch each
  Kinds,     \* resource kinds the sweep goes through
  Stale      \* keys StaleKeys lists of a kind at most

ASSUME ProcessAssumption ==
  /\ Kinds \in Nat \ {0}
  /\ Stale \in Nat \ {0}

VARIABLES
  stage,    \* where run is, once the file is open
  handler,  \* a request: outside, inside, in a counted fetch
  batch,    \* a subject's deliveries: held, popped, running, run by the drain
            \* itself, their posts
  sweep,    \* Refresher.Start's goroutine
  hand,     \* a sweep an operator started by hand
  replay,   \* Replayer.Start's goroutine
  listed,   \* the subjects whose held batches the drain has yet to take over
  gaveUp,   \* history: has a wait timed out, or the listener failed?
  missed    \* history: batches popped and not counted when Wait returned

jobs  == <<sweep, hand, replay>>
works == <<handler, batch, sweep, hand, replay>>
ending == <<listed, gaveUp, missed>>
pvars == <<start, stage, works, ending>>

Waits  == {"shutdown", "stopRefresh", "stopReplay", "drainFresh", "drainIngest",
           "drainNotify"}
Stages == {"none", "serving", "closed"} \cup Waits

\* A sweep: where it is, the kinds and the keys of this kind it has left.
Off       == [at |-> "off", kinds |-> 0, keys |-> 0]
Resting   == [Off EXCEPT !.at = "resting"]
Begun     == [at |-> "between", kinds |-> Kinds, keys |-> 0]
Sweepings == [at : {"off", "resting", "between", "fetching"},
              kinds : 0 .. Kinds, keys : 0 .. Stale]

\* Type invariant: run is past Open exactly while the file is open.
ProcessTypeOK ==
  /\ OpeningTypeOK
  /\ stage \in Stages
  /\ (stage # "none") <=> (phase = "open")
  /\ handler \in [Handlers -> {"out", "in", "fetching"}]
  /\ batch \in [Subjects -> {"none", "held", "popped", "running", "flushing",
                           "posting"}]
  /\ sweep \in Sweepings
  /\ hand \in Sweepings
  /\ replay \in {"off", "resting", "asking"}
  /\ listed \subseteq Subjects
  /\ gaveUp \in BOOLEAN
  /\ missed \subseteq Subjects

Idle ==
  /\ handler' = [h \in Handlers |-> "out"]
  /\ batch' = [s \in Subjects |-> "none"]
  /\ hand' = Off
  /\ listed' = {}
  /\ gaveUp' = FALSE
  /\ missed' = {}

ProcessInit ==
  /\ OpeningInit
  /\ stage = "none"
  /\ handler = [h \in Handlers |-> "out"]
  /\ batch = [s \in Subjects |-> "none"]
  /\ sweep = Off
  /\ hand = Off
  /\ replay = "off"
  /\ listed = {}
  /\ gaveUp = FALSE
  /\ missed = {}

------------------------------------------------------------------------------
(* The start and the end of a process. *)

\* A step of Open.  When it has the file, the sweep and the replayer start, a
\* cycle of each at once, and then the listener.
Open ==
  /\ Boot \/ ReadFingerprint \/ Nuke \/ CreateTable \/ RecordFingerprint
       \/ StatementFails \/ (phase = "failed" /\ Exit)
  /\ IF phase' = "open"
     THEN /\ stage' = "serving"
          /\ sweep' = Begun
          /\ replay' = "asking"
          /\ Idle
     ELSE UNCHANGED <<stage, works, ending>>

\* main returns, or the machine dies: every goroutine is gone.
Dies ==
  /\ \/ stage = "closed" /\ Exit
     \/ Crash
  /\ stage' = "none"
  /\ sweep' = Off
  /\ replay' = "off"
  /\ Idle

\* The listener fails: run returns without a drain, and its deferred calls
\* close the databases.
ListenFails ==
  /\ stage = "serving"
  /\ stage' = "closed"
  /\ gaveUp' = TRUE
  /\ UNCHANGED <<start, works, listed, missed>>

------------------------------------------------------------------------------
(* What runs while the process serves, and goes on during its shutdown. *)

Come(h) ==
  /\ stage = "serving"
  /\ handler[h] = "out"
  /\ handler' = [handler EXCEPT ![h] = "in"]
  /\ UNCHANGED <<start, stage, batch, jobs, ending>>

\* A fetch is counted once its caller holds the key's mutex.
Fetch(h) ==
  /\ handler[h] = "in"
  /\ handler' = [handler EXCEPT ![h] = "fetching"]
  /\ UNCHANGED <<start, stage, batch, jobs, ending>>

Absorbs == IF stage = "closed" THEN UNCHANGED start ELSE WriteRow

Fetched(h) ==
  /\ handler[h] = "fetching"
  /\ Absorbs
  /\ handler' = [handler EXCEPT ![h] = "in"]
  /\ UNCHANGED <<stage, batch, jobs, ending>>

Leave(h) ==
  /\ handler[h] = "in"
  /\ handler' = [handler EXCEPT ![h] = "out"]
  /\ UNCHANGED <<start, stage, batch, jobs, ending>>

\* The handler of a delivery hands it to the reorderer, which holds it for a
\* window.
Submit(h, s) ==
  /\ handler[h] = "in"
  /\ batch[s] = "none"
  /\ batch' = [batch EXCEPT ![s] = "held"]
  /\ UNCHANGED <<start, stage, handler, jobs, ending>>

\* The window's timer fires; it takes the batch and counts it a step later.
Pop(s) ==
  /\ batch[s] = "held"
  /\ batch' = [batch EXCEPT ![s] = "popped"]
  /\ UNCHANGED <<start, stage, handler, jobs, ending>>

Count(s) ==
  /\ batch[s] = "popped"
  /\ batch' = [batch EXCEPT ![s] = "running"]
  /\ UNCHANGED <<start, stage, handler, jobs, ending>>

\* The batch is applied.  Its posts are counted before it is over.
Apply(s) ==
  /\ batch[s] \in {"running", "flushing"}
  /\ Absorbs
  /\ \E next \in {"none", "posting"} : batch' = [batch EXCEPT ![s] = next]
  /\ UNCHANGED <<stage, handler, jobs, ending>>

Posted(s) ==
  /\ batch[s] = "posting"
  /\ batch' = [batch EXCEPT ![s] = "none"]
  /\ UNCHANGED <<start, stage, handler, jobs, ending>>

\* Is r.stop closed?
Stopping == stage \notin {"none", "serving", "shutdown"}

\* A step of a sweep's cycle: the end of it, the next kind, the next key.
\* The stop is looked at between two kinds, never between two keys.
Cycle(job, rest) ==
  \/ /\ job.at = "between"
     /\ job.keys = 0
     /\ \/ /\ job.kinds > 0
           /\ ~Stopping
           /\ \E n \in 0 .. Stale :
                job' = [job EXCEPT !.kinds = @ - 1, !.keys = n]
        \/ /\ job.kinds = 0 \/ Stopping
           /\ job' = rest
     /\ UNCHANGED start
  \/ /\ job.at = "between"
     /\ job.keys > 0
     /\ job' = [job EXCEPT !.at = "fetching", !.keys = @ - 1]
     /\ UNCHANGED start
  \/ /\ job.at = "fetching"
     /\ Absorbs
     /\ job' = [job EXCEPT !.at = "between"]

SweepCycle ==
  /\ Cycle(sweep, Resting)
  /\ UNCHANGED <<stage, handler, batch, hand, replay, ending>>

\* Between two cycles: the ticker, and once it is closed the stop.  The select
\* takes either where both are ready.
MutantSweepRests ==
  /\ sweep.at = "resting"
  /\ sweep' = Begun
  /\ UNCHANGED <<start, stage, handler, batch, hand, replay, ending>>

SweepRests ==
  /\ sweep.at = "resting"
  /\ \/ sweep' = Begun
     \/ Stopping /\ sweep' = Off
  /\ UNCHANGED <<start, stage, handler, batch, hand, replay, ending>>

\* POST refresh on the dashboard: a goroutine nothing waits for.
ByHand ==
  /\ stage = "serving"
  /\ hand = Off
  /\ hand' = Begun
  /\ UNCHANGED <<start, stage, handler, batch, sweep, replay, ending>>

HandCycle ==
  /\ Cycle(hand, Off)
  /\ UNCHANGED <<stage, handler, batch, sweep, replay, ending>>

\* The replayer writes nothing: it asks the upstream, and its counters.  Its
\* stop is closed one stage later, and its cycle never looks at it.
ReplayStep ==
  /\ \/ replay = "asking" /\ replay' = "resting"
     \/ replay = "resting" /\ replay' = "asking"
     \/ replay = "resting" /\ Stopping /\ stage # "stopRefresh" /\ replay' = "off"
  /\ UNCHANGED <<start, stage, handler, batch, sweep, hand, ending>>

------------------------------------------------------------------------------
(* The shutdown. *)

\* What run waits for at each stage.  A batch that is held by then and that the
\* drain has not listed is waited for by nobody.
Over(s) ==
  CASE s = "shutdown"    -> \A h \in Handlers : handler[h] = "out"
    [] s = "stopRefresh" -> sweep = Off
    [] s = "stopReplay"  -> replay = "off"
    [] s = "drainFresh"  -> /\ \A h \in Handlers : handler[h] # "fetching"
                            /\ hand.at # "fetching"
    [] s = "drainIngest" -> \A b \in Subjects : batch[b] # "running"
    [] s = "drainNotify" -> \A b \in Subjects : batch[b] # "posting"

\* The waits that have a timeout; the two jobs' Stop have none.
Bounded == Waits \ {"stopRefresh", "stopReplay"}

\* The notifications drained before the batches that promise them.
MutantSuccessor(s) ==
  CASE s = "serving"     -> "shutdown"
    [] s = "shutdown"    -> "stopRefresh"
    [] s = "stopRefresh" -> "stopReplay"
    [] s = "stopReplay"  -> "drainFresh"
    [] s = "drainFresh"  -> "drainNotify"
    [] s = "drainNotify" -> "drainIngest"
    [] s = "drainIngest" -> "closed"

Successor(s) ==
  CASE s = "serving"     -> "shutdown"
    [] s = "shutdown"    -> "stopRefresh"
    [] s = "stopRefresh" -> "stopReplay"
    [] s = "stopReplay"  -> "drainFresh"
    [] s = "drainFresh"  -> "drainIngest"
    [] s = "drainIngest" -> "drainNotify"
    [] s = "drainNotify" -> "closed"

\* SIGTERM, or an interrupt.
Signal ==
  /\ stage = "serving"
  /\ stage' = Successor(stage)
  /\ UNCHANGED <<start, works, ending>>

\* The drain of the batches has taken over what it listed, and has run it: only
\* then does its wait begin, and the time of its timeout.
Flushed == listed = {} /\ \A s \in Subjects : batch[s] # "flushing"

\* A wait ends because its work is over, or because of its timeout.
Proceed ==
  /\ stage \in Waits
  /\ Over(stage) \/ stage \in Bounded
  /\ stage = "drainIngest" => Flushed
  /\ stage' = Successor(stage)
  /\ listed' = IF stage' = "drainIngest"
               THEN {b \in Subjects : batch[b] = "held"} ELSE listed
  /\ gaveUp' = (gaveUp \/ ~Over(stage))
  /\ missed' = IF stage = "drainIngest"
               THEN {b \in Subjects : batch[b] = "popped"} ELSE missed
  /\ UNCHANGED <<start, works>>

\* Reorderer.Drain stops the timer of a batch it listed and runs it, one after
\* the other; one whose timer has fired is not its to run.
StopTimer(s) ==
  /\ s \in listed
  /\ \A b \in Subjects : batch[b] # "flushing"
  /\ batch' = [batch EXCEPT ![s] = IF @ = "held" THEN "flushing" ELSE @]
  /\ listed' = listed \ {s}
  /\ UNCHANGED <<start, stage, handler, jobs, gaveUp, missed>>

Serve(h) == Come(h) \/ Fetch(h) \/ Fetched(h) \/ Leave(h)

Ingest(s) == Pop(s) \/ Count(s) \/ Apply(s) \/ Posted(s) \/ StopTimer(s)

ProcessNext ==
  \/ Open \/ Dies \/ ListenFails \/ Signal \/ Proceed
  \/ SweepCycle \/ SweepRests \/ ByHand \/ HandCycle \/ ReplayStep
  \/ \E h \in Handlers : Serve(h)
  \/ \E h \in Handlers, s \in Subjects : Submit(h, s)
  \/ \E s \in Subjects : Ingest(s)

ProcessSpec == ProcessInit /\ [][ProcessNext]_pvars

\* A fetch, a call of the replayer and a batch end, by their timeouts, and run
\* itself goes on when a wait is over or timed out.  A select that finds stop and
\* tick ready picks one at random, so not the tick for ever.  Nothing is assumed
\* of handlers, posts, sweeps by hand and batches run by their timers.
FairProcess ==
  /\ ProcessSpec
  /\ WF_pvars(Proceed)
  /\ WF_pvars(stage = "closed" /\ Dies)
  /\ WF_pvars(SweepCycle)
  /\ SF_pvars(SweepRests /\ sweep' = Off)
  /\ WF_pvars(replay = "asking" /\ ReplayStep)
  /\ SF_pvars(ReplayStep /\ replay' = "off")
  /\ \A s \in Subjects : WF_pvars(StopTimer(s)) /\ WF_pvars(batch[s] = "flushing" /\ Apply(s))

------------------------------------------------------------------------------
(* What a shutdown promises. *)

\* A shutdown that ran to its end without a timeout closes the databases with
\* nothing left that could write to them: no handler, no background job, no
\* batch and no post.  The two exceptions the code leaves are in the formula: a
\* batch its timer had popped and not yet counted, and a sweep by hand.
ExitLeavesNothing ==
  (stage = "closed" /\ ~gaveUp) =>
    /\ \A h \in Handlers : handler[h] = "out"
    /\ sweep = Off /\ replay = "off"
    /\ \A s \in Subjects \ missed : batch[s] = "none"

\* A shutdown comes to its end, although the stops of the two background jobs
\* and the batches the drain runs itself are under no timeout of the shutdown's,
\* the handlers may hang, and after its stop a job may begin another cycle: the
\* sweep's does nothing, the replayer's is a whole one.
ShutdownEnds == (stage = "shutdown") ~> (phase = "down")
=============================================================================
