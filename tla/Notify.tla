-------------------------------- MODULE Notify --------------------------------
(***************************************************************************)
(* Telling subscribers (internal/mirror/notify.go and subscriptions.go):   *)
(* the fan-out of an applied delivery, the goroutine that posts one        *)
(* notification to one subscriber, the failures that park a subscription,  *)
(* and the drain.                                                          *)
(*                                                                         *)
(* A slot stands for one Fan after another, so several slots are Fans      *)
(* under way at once.  One action is one store statement or one post; the  *)
(* pause between two posts is time passing.  The statistics of the         *)
(* dashboard are left out.                                                 *)
(***************************************************************************)
EXTENDS Naturals, FiniteSets

CONSTANTS
  Subs,         \* registrations; an id is drawn at random and never used again
  Choosy,       \* those that name event types; the others want every type
  Slots,        \* how many deliveries are fanned out at once
  Retries,      \* posts after the first one
  DisableAfter, \* failures in a row that park a subscription
  StoreMayFail  \* may a statement fail?

ASSUME NotifyAssumption ==
  /\ Choosy \subseteq Subs
  /\ IsFiniteSet(Slots)
  /\ Retries \in Nat \ {0}
  /\ DisableAfter \in Nat \ {0}
  /\ StoreMayFail \in BOOLEAN

VARIABLES
  sub,      \* a registration: not made yet, in the table, deleted
  failures, \* its failures in a row
  disabled, \* is it parked?
  fan,      \* what a slot's Fan is doing
  listed,   \* history: the rows Matching's query returned
  rows,     \* those whose secret is still to be read
  chosen,   \* those with a secret and no goroutine yet
  task,     \* the goroutine of a slot and a subscriber
  attempt,  \* which post it is at
  drain,    \* Notifier.Drain
  promised  \* history: in flight when the drain began, and not ended yet

table == <<sub, failures, disabled>>
fans  == <<fan, listed, rows, chosen>>
tasks == <<task, attempt>>
vars  == <<table, fans, tasks, drain, promised>>

Notes  == Slots \X Subs
Active == {"starting", "posting", "good", "bad"}

\* Type invariant: in particular no subscriber is posted to more often than
\* Retries allows.
NotifyTypeOK ==
  /\ sub \in [Subs -> {"new", "live", "gone"}]
  /\ failures \in [Subs -> Nat]
  /\ disabled \in [Subs -> BOOLEAN]
  /\ fan \in [Slots -> {"idle", "matching", "over"}]
  /\ listed \in [Slots -> SUBSET Subs]
  /\ rows \in [Slots -> SUBSET Subs]
  /\ chosen \in [Slots -> SUBSET Subs]
  /\ task \in [Notes -> Active \cup {"none", "done"}]
  /\ attempt \in [Notes -> 0 .. Retries]
  /\ drain \in {"no", "waiting", "done", "late"}
  /\ promised \subseteq Notes

Init ==
  /\ sub = [s \in Subs |-> "new"]
  /\ failures = [s \in Subs |-> 0]
  /\ disabled = [s \in Subs |-> FALSE]
  /\ fan = [n \in Slots |-> "idle"]
  /\ listed = [n \in Slots |-> {}]
  /\ rows = [n \in Slots |-> {}]
  /\ chosen = [n \in Slots |-> {}]
  /\ task = [p \in Notes |-> "none"]
  /\ attempt = [p \in Notes |-> 0]
  /\ drain = "no"
  /\ promised = {}

------------------------------------------------------------------------------
(* The registrations. *)

Create(s) ==
  /\ sub[s] = "new"
  /\ sub' = [sub EXCEPT ![s] = "live"]
  /\ UNCHANGED <<failures, disabled, fans, tasks, drain, promised>>

Delete(s) ==
  /\ sub[s] = "live"
  /\ sub' = [sub EXCEPT ![s] = "gone"]
  /\ failures' = [failures EXCEPT ![s] = 0]
  /\ disabled' = [disabled EXCEPT ![s] = FALSE]
  /\ UNCHANGED <<fans, tasks, drain, promised>>

------------------------------------------------------------------------------
(* Fan.  The batch that applied a delivery calls it. *)

MutantNamedOnly(named) == named

\* Who wants a type that these choosy subscribers named.
Wanting(named) == named \cup (Subs \ Choosy)

MutantParkedToo(named) == {s \in Wanting(named) : sub[s] = "live"}

Matched(named) == {s \in Wanting(named) : sub[s] = "live" /\ ~disabled[s]}

\* Matching's query.
List(n) ==
  /\ fan[n] = "idle"
  /\ \E named \in SUBSET Choosy :
       /\ fan' = [fan EXCEPT ![n] = "matching"]
       /\ listed' = [listed EXCEPT ![n] = Matched(named)]
       /\ rows' = [rows EXCEPT ![n] = Matched(named)]
  /\ UNCHANGED <<table, chosen, tasks, drain, promised>>

\* A statement of Matching fails, and Fan tells nobody.
GiveUp(n) ==
  /\ fan' = [fan EXCEPT ![n] = "over"]
  /\ rows' = [rows EXCEPT ![n] = {}]
  /\ chosen' = [chosen EXCEPT ![n] = {}]
  /\ UNCHANGED <<table, listed, tasks, drain, promised>>

Fails(n) ==
  /\ StoreMayFail
  /\ \/ fan[n] = "idle"
     \/ fan[n] = "matching" /\ rows[n] # {}
  /\ GiveUp(n)

\* The secret of one row.  A registration deleted since the query has none,
\* which is an error like any other.
Pick(n, s) ==
  /\ fan[n] = "matching"
  /\ s \in rows[n]
  /\ \/ /\ sub[s] = "live"
        /\ rows' = [rows EXCEPT ![n] = @ \ {s}]
        /\ chosen' = [chosen EXCEPT ![n] = @ \cup {s}]
        /\ UNCHANGED <<table, fan, listed, tasks, drain, promised>>
     \/ sub[s] = "gone" /\ GiveUp(n)

\* One more in the WaitGroup, and a goroutine.
Launch(n, s) ==
  /\ fan[n] = "matching"
  /\ rows[n] = {}
  /\ s \in chosen[n]
  /\ chosen' = [chosen EXCEPT ![n] = @ \ {s}]
  /\ task' = [task EXCEPT ![<<n, s>>] = "starting"]
  /\ attempt' = [attempt EXCEPT ![<<n, s>>] = 0]
  /\ UNCHANGED <<table, fan, listed, rows, drain, promised>>

Return(n) ==
  /\ fan[n] = "matching"
  /\ rows[n] = {}
  /\ chosen[n] = {}
  /\ fan' = [fan EXCEPT ![n] = "over"]
  /\ UNCHANGED <<table, listed, rows, chosen, tasks, drain, promised>>

\* The slot takes another delivery.
Reuse(n) ==
  /\ fan[n] = "over"
  /\ \A s \in Subs : task[<<n, s>>] \notin Active
  /\ fan' = [fan EXCEPT ![n] = "idle"]
  /\ listed' = [listed EXCEPT ![n] = {}]
  /\ task' = [p \in Notes |-> IF p[1] = n THEN "none" ELSE task[p]]
  /\ attempt' = [p \in Notes |-> IF p[1] = n THEN 0 ELSE attempt[p]]
  /\ UNCHANGED <<table, rows, chosen, drain, promised>>

------------------------------------------------------------------------------
(* deliver. *)

Begin(p) ==
  /\ task[p] = "starting"
  /\ task' = [task EXCEPT ![p] = "posting"]
  /\ UNCHANGED <<table, fans, attempt, drain, promised>>

MutantOneTooMany(p) ==
  /\ task[p] = "posting"
  /\ \/ task' = [task EXCEPT ![p] = "good"] /\ UNCHANGED attempt
     \/ /\ attempt[p] =< Retries
        /\ attempt' = [attempt EXCEPT ![p] = @ + 1]
        /\ UNCHANGED task
     \/ /\ attempt[p] = Retries + 1
        /\ task' = [task EXCEPT ![p] = "bad"]
        /\ UNCHANGED attempt
  /\ UNCHANGED <<table, fans, drain, promised>>

MutantRetriesForever(p) ==
  /\ task[p] = "posting"
  /\ \/ task' = [task EXCEPT ![p] = "good"] /\ UNCHANGED attempt
     \/ /\ attempt' = [attempt EXCEPT ![p] = (@ + 1) % (Retries + 1)]
        /\ UNCHANGED task
  /\ UNCHANGED <<table, fans, drain, promised>>

\* The subscriber answers 2xx, or does not: then once more, or no more.
Post(p) ==
  /\ task[p] = "posting"
  /\ \/ task' = [task EXCEPT ![p] = "good"] /\ UNCHANGED attempt
     \/ /\ attempt[p] < Retries
        /\ attempt' = [attempt EXCEPT ![p] = @ + 1]
        /\ UNCHANGED task
     \/ /\ attempt[p] = Retries
        /\ task' = [task EXCEPT ![p] = "bad"]
        /\ UNCHANGED attempt
  /\ UNCHANGED <<table, fans, drain, promised>>

\* The goroutine ends.
End(p) ==
  /\ task' = [task EXCEPT ![p] = "done"]
  /\ promised' = promised \ {p}
  /\ UNCHANGED <<sub, fans, attempt, drain>>

\* recordSent: the run of failures is over.  The subscription stays parked if
\* it is.
MarkDelivered(p) ==
  /\ task[p] = "good"
  /\ End(p)
  /\ failures' = [failures EXCEPT ![p[2]] = 0]
  /\ UNCHANGED disabled

\* recordFailure.  A deleted registration is not updated.
MarkFailed(p) ==
  /\ task[p] = "bad"
  /\ End(p)
  /\ IF sub[p[2]] = "live"
     THEN /\ failures' = [failures EXCEPT ![p[2]] = @ + 1]
          /\ disabled' = [disabled EXCEPT ![p[2]] = @ \/ failures[p[2]] + 1 >= DisableAfter]
     ELSE UNCHANGED <<failures, disabled>>

\* Either statement fails, and the goroutine ends all the same.
MarkLost(p) ==
  /\ StoreMayFail
  /\ task[p] \in {"good", "bad"}
  /\ End(p)
  /\ UNCHANGED <<failures, disabled>>

------------------------------------------------------------------------------
(* The end of the process. *)

MutantCountsItself == {p \in Notes : task[p] \in Active \ {"starting"}}

\* What the WaitGroup counts.
InFlight == {p \in Notes : task[p] \in Active}

\* Notifier.Drain.  The ingest may have given up its own drain, so a Fan may be
\* under way, or come.
StartDrain ==
  /\ drain = "no"
  /\ drain' = "waiting"
  /\ promised' = {p \in Notes : task[p] \in Active}
  /\ UNCHANGED <<table, fans, tasks>>

EndDrain ==
  /\ drain = "waiting"
  /\ \/ InFlight = {} /\ drain' = "done"
     \/ drain' = "late"
  /\ UNCHANGED <<table, fans, tasks, promised>>

\* The process ends, drained or not, and starts again: the table stays.
Restart ==
  /\ fan' = [n \in Slots |-> "idle"]
  /\ listed' = [n \in Slots |-> {}]
  /\ rows' = [n \in Slots |-> {}]
  /\ chosen' = [n \in Slots |-> {}]
  /\ task' = [p \in Notes |-> "none"]
  /\ attempt' = [p \in Notes |-> 0]
  /\ drain' = "no"
  /\ promised' = {}
  /\ UNCHANGED table

Fan(n) ==
  \/ List(n) \/ Fails(n) \/ Return(n) \/ Reuse(n)
  \/ \E s \in Subs : Pick(n, s) \/ Launch(n, s)

Deliver(p) == Begin(p) \/ Post(p) \/ MarkDelivered(p) \/ MarkFailed(p) \/ MarkLost(p)

Next ==
  \/ \E s \in Subs : Create(s) \/ Delete(s)
  \/ \E n \in Slots : Fan(n)
  \/ \E p \in Notes : Deliver(p)
  \/ StartDrain
  \/ EndDrain
  \/ Restart

Spec == Init /\ [][Next]_vars

\* Deliveries keep coming and goroutines run; the process comes to stay, and
\* Matching to succeed.  The count of a failure is not lost every time.
Fairness ==
  /\ <>[][~Restart /\ ~\E n \in Slots : Fails(n)]_vars
  /\ \A n \in Slots : WF_vars(Fan(n))
  /\ \A p \in Notes : WF_vars(Deliver(p)) /\ SF_vars(MarkFailed(p))

FairSpec == Spec /\ Fairness

------------------------------------------------------------------------------
(* Properties. *)

\* Parking works: of the Fans that listed a subscriber before it was parked each
\* can fail once more, and no later one asks it again.
ParkedIsQuiet ==
  \A s \in Subs : failures[s] =< DisableAfter + Cardinality(Slots) - 1

\* notify.go:144: a drain that reports success has waited for every
\* notification that was in flight when it began.
DrainWaits == drain = "done" => promised = {}

\* A registered subscriber that from some time on answers nothing well is parked
\* in the end, whatever else fails.
DeadIsParked ==
  \A s \in Subs \ Choosy :
    <>[](sub[s] = "live" /\ \A n \in Slots : task[<<n, s>>] # "good") => <>disabled[s]

\* A registered subscriber for every type that is never parked is told of
\* deliveries for ever, if it only answers some post of each.
HealthyIsTold ==
  \A s \in Subs \ Choosy :
    <>[](sub[s] = "live" /\ ~disabled[s] /\ \A n \in Slots : task[<<n, s>>] # "bad") =>
      []<>(\E n \in Slots : task[<<n, s>>] = "good")
===============================================================================
