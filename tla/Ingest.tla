------------------------------- MODULE Ingest -------------------------------
(***************************************************************************)
(* How deliveries reach a row (internal/mirror/ordering.go, events.go):    *)
(* the reorder window per subject, the goroutine that applies a closed     *)
(* batch, the watermark and its pruning, the read-modify-write of a merge, *)
(* and the shutdown's Drain.                                               *)
(*                                                                         *)
(* All deliveries here are about one row.  A field holds the delivery      *)
(* whose value it shows, 0 where nothing was delivered.                    *)
(***************************************************************************)
EXTENDS Naturals, Sequences, SequencesExt

CONSTANTS
  Deliveries,  \* the deliveries the provider sends, 1 .. n
  Fields,      \* the row's columns
  Subject,     \* what a delivery is a view of
  At,          \* when that view was taken, in whole seconds
  Sets,        \* the columns its event names, {} for an invalidating event
  Keeps,       \* the deliveries whose event says absorb-when-superseded
  Unordered,   \* the deliveries whose event says unordered
  MaxHorizon,  \* bound: how far the retention's edge moves
  Failing,     \* the steps that may fail: some of "key", "mark", "read", "write"
  Appliers,    \* bound: how many batches may be applied at a time
  NoOne        \* not an applier

Subjects == {Subject[d] : d \in Deliveries}

ASSUME IngestAssumption ==
  /\ Deliveries \subseteq Nat \ {0}
  /\ At \in [Deliveries -> Nat \ {0}]
  /\ Sets \in [Deliveries -> SUBSET Fields]
  /\ Keeps \subseteq Deliveries
  /\ Unordered \subseteq Deliveries
  /\ MaxHorizon \in Nat
  /\ NoOne \notin Appliers

VARIABLES
  status,   \* what became of a delivery
  batch,    \* a subject's open window, <<>> where none is open
  timer,    \* that window's timer
  windowed, \* does the specification this process runs give a window?
  items,    \* the deliveries an applier has yet to apply
  doing,    \* the delivery it applies now, 0 for none
  pc,       \* how far it is
  late,     \* did the watermark refuse that delivery?
  view,     \* the row as its merge read it
  counted,  \* the appliers the WaitGroup counts
  mark,     \* mirror_watermark.applied_at, 0 for no watermark
  horizon,  \* the clock watermarkRetention ago
  row,      \* the stored row
  drain,    \* the shutdown's progress through Drain
  drainer   \* the applier Drain itself is running, or NoOne

window  == <<batch, timer, windowed>>
applier == <<items, doing, pc, late, view>>
ending  == <<drain, drainer>>
vars    == <<status, window, applier, counted, mark, horizon, row, ending>>

Settled  == {"applied", "superseded", "failed"}
Statuses == {"unsent", "held", "lost"} \cup Settled
Rows     == [Fields -> Deliveries \cup {0}]
Blank    == [f \in Fields |-> 0]

IngestTypeOK ==
  /\ status \in [Deliveries -> Statuses]
  /\ batch \in [Subjects -> Seq(Deliveries)]
  /\ timer \in [Subjects -> {"none", "armed", "fired"}]
  /\ windowed \in BOOLEAN
  /\ items \in [Appliers -> Seq(Deliveries)]
  /\ doing \in [Appliers -> Deliveries \cup {0}]
  /\ pc \in [Appliers -> {"free", "taken", "picking", "reading", "writing"}]
  /\ late \in [Appliers -> BOOLEAN]
  /\ view \in [Appliers -> Rows]
  /\ counted \subseteq Appliers
  /\ mark \in [Subjects -> Nat]
  /\ horizon \in 0 .. MaxHorizon
  /\ row \in Rows
  /\ drain \in {"serving", "stopping", "waiting", "drained", "gaveup"}
  /\ drainer \in Appliers \cup {NoOne}

Init ==
  /\ status = [d \in Deliveries |-> "unsent"]
  /\ batch = [s \in Subjects |-> <<>>]
  /\ timer = [s \in Subjects |-> "none"]
  /\ windowed \in BOOLEAN
  /\ items = [a \in Appliers |-> <<>>]
  /\ doing = [a \in Appliers |-> 0]
  /\ pc = [a \in Appliers |-> "free"]
  /\ late = [a \in Appliers |-> FALSE]
  /\ view = [a \in Appliers |-> Blank]
  /\ counted = {}
  /\ mark = [s \in Subjects |-> 0]
  /\ horizon = 0
  /\ row = Blank
  /\ drain = "serving"
  /\ drainer = NoOne

------------------------------------------------------------------------------
(* The reorder window.                                                      *)

\* A delivery arrives, or is sent again once its first sending is settled or
\* lost.  It is answered 202 here.  The first one of a window arms its timer.
Submit(d) ==
  LET s == Subject[d] IN
  /\ windowed
  /\ drain = "serving"
  /\ status[d] # "held"
  /\ status' = [status EXCEPT ![d] = "held"]
  /\ batch' = [batch EXCEPT ![s] = Append(@, d)]
  /\ timer' = [timer EXCEPT ![s] = IF batch[s] = <<>> THEN "armed" ELSE @]
  /\ UNCHANGED <<windowed, applier, counted, mark, horizon, row, ending>>

\* Without a window the request's own goroutine applies the delivery.
SubmitNow(d, a) ==
  /\ ~windowed
  /\ drain = "serving"
  /\ status[d] # "held"
  /\ pc[a] = "free"
  /\ status' = [status EXCEPT ![d] = "held"]
  /\ items' = [items EXCEPT ![a] = <<d>>]
  /\ pc' = [pc EXCEPT ![a] = "picking"]
  /\ UNCHANGED <<window, doing, late, view, counted, mark, horizon, row, ending>>

\* The window has passed: a goroutine starts and heads for the mutex.
Expire(s) ==
  /\ timer[s] = "armed"
  /\ timer' = [timer EXCEPT ![s] = "fired"]
  /\ UNCHANGED <<status, batch, windowed, applier, counted, mark, horizon, row, ending>>

\* close, as far as the mutex is held.
Close(s, a) ==
  /\ pc[a] = "free"
  /\ items' = [items EXCEPT ![a] = batch[s]]
  /\ pc' = [pc EXCEPT ![a] = "taken"]
  /\ batch' = [batch EXCEPT ![s] = <<>>]
  /\ timer' = [timer EXCEPT ![s] = "none"]
  /\ UNCHANGED <<status, windowed, doing, late, view, counted, mark, horizon, row>>

CloseExpired(s, a) ==
  /\ timer[s] = "fired"
  /\ Close(s, a)
  /\ UNCHANGED ending

\* Only after the mutex does close count itself.
Count(a) ==
  /\ pc[a] = "taken"
  /\ counted' = counted \cup {a}
  /\ pc' = [pc EXCEPT ![a] = "picking"]
  /\ UNCHANGED <<status, window, items, doing, late, view, mark, horizon, row, ending>>

------------------------------------------------------------------------------
(* One applier: run, and apply for each delivery of its batch.              *)

\* run sorts by the payload clock and keeps the order of arrival among equals.
Earliest(q, i) ==
  \A j \in DOMAIN q : At[q[i]] < At[q[j]] \/ (At[q[i]] = At[q[j]] /\ i <= j)

MutantNeverRefuses(d) == TRUE
MutantStrictlyNewer(d) == At[d] > mark[Subject[d]]
\* ApplyWatermark: an equal clock applies.
Postdates(d) == At[d] >= mark[Subject[d]]

\* The delivery goes on to its row.
Admit(a, d, refused) ==
  /\ pc' = [pc EXCEPT ![a] = "reading"]
  /\ doing' = [doing EXCEPT ![a] = d]
  /\ late' = [late EXCEPT ![a] = refused]
  /\ UNCHANGED status

\* It is done with before it touches the row.
TurnAway(d, outcome) ==
  /\ status' = [status EXCEPT ![d] = outcome]
  /\ UNCHANGED <<mark, pc, doing, late>>

\* apply, up to the row.  A payload without the key is a failure.  order moves
\* the watermark forward, or refuses: then only an event that absorbs the
\* superseded goes on.  An unordered event goes on, and so does a delivery
\* whose watermark cannot be written.
Order(a) ==
  /\ pc[a] = "picking"
  /\ \E i \in DOMAIN items[a] : LET d == items[a][i] IN
     /\ Earliest(items[a], i)
     /\ items' = [items EXCEPT ![a] = RemoveAt(@, i)]
     /\ \/ "key" \in Failing /\ TurnAway(d, "failed")
        \/ /\ d \notin Unordered
           /\ Postdates(d)
           /\ mark' = [mark EXCEPT ![Subject[d]] = At[d]]
           /\ Admit(a, d, FALSE)
        \/ /\ d \notin Unordered \cup Keeps
           /\ ~Postdates(d)
           /\ TurnAway(d, "superseded")
        \/ /\ d \in Keeps \ Unordered
           /\ ~Postdates(d)
           /\ Admit(a, d, TRUE)
           /\ UNCHANGED mark
        \/ /\ d \in Unordered \/ "mark" \in Failing
           /\ Admit(a, d, FALSE)
           /\ UNCHANGED mark
  /\ UNCHANGED <<window, view, counted, horizon, row, ending>>

\* A delivery is over: what the tally and the log say of it.
Settle(a, outcome) ==
  /\ status' = [status EXCEPT ![doing[a]] = outcome]
  /\ doing' = [doing EXCEPT ![a] = 0]
  /\ pc' = [pc EXCEPT ![a] = "picking"]
  /\ view' = [view EXCEPT ![a] = Blank]
  /\ UNCHANGED <<window, items, late, counted, horizon, ending>>

Outcome(a) == IF late[a] THEN "superseded" ELSE "applied"

MutantPrunesAll == mark' = [s \in Subjects |-> 0]
\* prune, at the end of an apply that succeeded, at most once in a while:
\* watermarks beyond the retention go.  Here it is part of the row's write: no
\* other step touches both the row and the watermark.
Prune ==
  \/ UNCHANGED mark
  \/ mark' = [s \in Subjects |-> IF mark[s] < horizon THEN 0 ELSE mark[s]]

\* An invalidating event deletes the row in one statement.
Invalidate(a) ==
  /\ pc[a] = "reading"
  /\ Sets[doing[a]] = {}
  /\ row' = Blank
  /\ Prune
  /\ Settle(a, "applied")

\* merge, first statement: the row as it stands.
Read(a) ==
  /\ pc[a] = "reading"
  /\ Sets[doing[a]] # {}
  /\ view' = [view EXCEPT ![a] = row]
  /\ pc' = [pc EXCEPT ![a] = "writing"]
  /\ UNCHANGED <<status, window, items, doing, late, counted, mark, horizon, row, ending>>

MutantBlanks(a) == [f \in Sets[doing[a]] |-> doing[a]]
Overlaid(a) ==
  [f \in Fields |-> IF f \in Sets[doing[a]] THEN doing[a] ELSE view[a][f]]

\* merge, second statement: the whole row is replaced, the named fields taken
\* from the delivery and the others from what was read.
Write(a) ==
  /\ pc[a] = "writing"
  /\ row' = Overlaid(a)
  /\ Prune
  /\ Settle(a, Outcome(a))

\* Either statement may fail, and the watermark stays where it is.
FailApply(a) ==
  /\ \/ pc[a] = "reading" /\ "read" \in Failing
     \/ pc[a] = "writing" /\ "write" \in Failing
  /\ Settle(a, "failed")
  /\ UNCHANGED <<mark, row>>

Finish(a) ==
  /\ pc[a] = "picking"
  /\ items[a] = <<>>
  /\ pc' = [pc EXCEPT ![a] = "free"]
  /\ late' = [late EXCEPT ![a] = FALSE]
  /\ counted' = counted \ {a}
  /\ drainer' = IF drainer = a THEN NoOne ELSE drainer
  /\ UNCHANGED <<status, window, items, doing, view, mark, horizon, row, drain>>

------------------------------------------------------------------------------
(* Time, shutdown and crash.                                                *)

\* The retention's edge moves on.  A delivery is held for seconds, the retention
\* is a month.
Age ==
  /\ horizon < MaxHorizon
  /\ \A d \in Deliveries : status[d] # "held"
  /\ horizon' = horizon + 1
  /\ UNCHANGED <<status, window, applier, counted, mark, row, ending>>

\* The listener is closed, and Drain begins.
StartDrain ==
  /\ drain = "serving"
  /\ drain' = "stopping"
  /\ UNCHANGED <<status, window, applier, counted, mark, horizon, row, drainer>>

MutantStopsOnly(s, a) ==
  /\ drain = "stopping"
  /\ drainer = NoOne
  /\ pc[a] = "free"
  /\ timer[s] = "armed"
  /\ timer' = [timer EXCEPT ![s] = "none"]
  /\ UNCHANGED <<status, batch, windowed, applier, counted, mark, horizon, row, ending>>

\* Drain stops a timer that has not fired and runs its batch itself, one after
\* another.  A timer that has fired it leaves to its goroutine.
StopTimer(s, a) ==
  /\ drain = "stopping"
  /\ drainer = NoOne
  /\ timer[s] = "armed"
  /\ Close(s, a)
  /\ drainer' = a
  /\ UNCHANGED drain

StartWait ==
  /\ drain = "stopping"
  /\ drainer = NoOne
  /\ \A s \in Subjects : timer[s] # "armed"
  /\ drain' = "waiting"
  /\ UNCHANGED <<status, window, applier, counted, mark, horizon, row, drainer>>

\* The WaitGroup reached zero, or the timeout came first.
EndWait ==
  /\ drain = "waiting"
  /\ \/ counted = {} /\ drain' = "drained"
     \/ counted # {} /\ drain' = "gaveup"
  /\ UNCHANGED <<status, window, applier, counted, mark, horizon, row, drainer>>

\* What a restart leaves as it is: the database, and the time of day.
Durable == UNCHANGED <<mark, horizon, row>>

\* A crash, or the end of the process after Drain: what was held in memory is
\* gone, the watermark and the row are not.  The next process may run another
\* specification, with a window or without.
Restart ==
  /\ status' = [d \in Deliveries |->
                 IF status[d] = "held" THEN "lost" ELSE status[d]]
  /\ batch' = [s \in Subjects |-> <<>>]
  /\ timer' = [s \in Subjects |-> "none"]
  /\ windowed' \in BOOLEAN
  /\ items' = [a \in Appliers |-> <<>>]
  /\ doing' = [a \in Appliers |-> 0]
  /\ pc' = [a \in Appliers |-> "free"]
  /\ late' = [a \in Appliers |-> FALSE]
  /\ view' = [a \in Appliers |-> Blank]
  /\ counted' = {}
  /\ drain' = "serving"
  /\ drainer' = NoOne
  /\ Durable

Apply(a) ==
  \/ Count(a)
  \/ Order(a)
  \/ Invalidate(a)
  \/ Read(a)
  \/ Write(a)
  \/ FailApply(a)
  \/ Finish(a)

Next ==
  \/ \E d \in Deliveries : Submit(d)
  \/ \E d \in Deliveries, a \in Appliers : SubmitNow(d, a)
  \/ \E s \in Subjects : Expire(s)
  \/ \E s \in Subjects, a \in Appliers : CloseExpired(s, a) \/ StopTimer(s, a)
  \/ \E a \in Appliers : Apply(a)
  \/ Age
  \/ StartDrain
  \/ StartWait
  \/ EndWait
  \/ Restart

Spec == Init /\ [][Next]_vars

\* A timer that is due fires, a goroutine that can run runs, and one that waits
\* for the mutex gets it.
Fairness ==
  /\ \A s \in Subjects :
       /\ WF_vars(Expire(s))
       /\ SF_vars(\E a \in Appliers : CloseExpired(s, a))
  /\ \A a \in Appliers : WF_vars(Apply(a))

FairSpec == Spec /\ Fairness

------------------------------------------------------------------------------
(* Properties. *)

\* A delivery is turned away only for a newer view of its subject, one that has
\* come in itself: views of one second are all applied, and so is one whose
\* first application died between its watermark and its write.
RefusedOnlyForNewer ==
  \A d \in Deliveries : status[d] = "superseded" =>
    \E e \in Deliveries :
      Subject[e] = Subject[d] /\ At[e] > At[d] /\ status[e] # "unsent"

\* No column shows a view the watermark does not cover, in the row or in an
\* applier's copy of it, unless the view is beyond the retention: whatever
\* crashes between the two, an older view that comes later is still refused.
Covers(d) == d # 0 => At[d] <= mark[Subject[d]] \/ At[d] < horizon

MarkCoversRow ==
  \A f \in Fields : Covers(row[f]) /\ \A a \in Appliers : Covers(view[a][f])

\* A column that shows one view of a subject is never set back to an older view
\* of it.  README.md:60 and docs/design.md:187 promise it without condition; the
\* code keeps it for events that are ordered, where one batch is applied at a
\* time and no view comes after a newer one that is beyond the retention.
NewestWins ==
  [][\A f \in Fields : LET d == row[f] e == row'[f] IN
       d # 0 /\ e # 0 /\ {d, e} \cap Unordered = {} /\ Subject[d] = Subject[e] =>
         At[d] <= At[e]]_vars

\* Every delivery that was answered 202 comes to an outcome, through timer,
\* mutex, failing statements and shutdown, unless the process ends first.
Answered == \A d \in Deliveries : status[d] = "held" ~> status[d] # "held"
=============================================================================
