-------------------------------- MODULE Replay --------------------------------
(***************************************************************************)
(* Asking the provider again for the deliveries it failed to make          *)
(* (internal/mirror/replay.go).                                            *)
(*                                                                         *)
(* The provider keeps a log of failed deliveries, an entry each, with the  *)
(* time of the failure.  A cycle reads the log once and walks it; what it  *)
(* asked for is remembered, in memory, for the lookback.  The log is the   *)
(* provider's: entries come and go between two steps of a cycle.  A call   *)
(* is two steps, so its answer may be lost, and a restart may come between.*)
(*                                                                         *)
(* Times are kept as ages, which stop counting past Lookback + 1.  The     *)
(* counters of the dashboard are left out.                                 *)
(***************************************************************************)
EXTENDS Naturals, FiniteSets

CONSTANTS
  Ids,      \* the failed deliveries the provider may log
  Undated,  \* those whose entry has no time where the rule's "at" looks
  Nameless, \* those whose entry has no id where the rule's "id" looks
  Lookback, \* how far back a failure is asked for again
  Cap,      \* how many deliveries one cycle asks for
  Never     \* the age of what has not happened

ASSUME ReplayAssumption ==
  /\ IsFiniteSet(Ids)
  /\ Undated \subseteq Ids /\ Nameless \subseteq Ids
  /\ Lookback \in Nat \ {0}
  /\ Cap \in Nat \ {0}
  /\ Never \notin Nat

VARIABLES
  log,    \* the provider's log: the age of an entry, or Never
  asked,  \* Replayer.asked: the age of a remembered request, or Never
  cycle,  \* what the goroutine is doing
  entry,  \* what this cycle has made of an entry
  aged,   \* the age the entry had when the cutoff was taken
  sent,   \* accepted requests of this cycle
  since   \* history: the age of the last request this process had accepted

vars == <<log, asked, cycle, entry, aged, sent, since>>

Late == Lookback + 1
Ages == 0 .. Late

\* Entries of the list that are still to be looked at, the one that is being
\* asked for, and the ones done with.
Entries == {"unlisted", "left", "calling", "sent", "nameless", "old",
            "remembered", "refused"}

\* Type invariant: in particular a cycle is never over its cap.
ReplayTypeOK ==
  /\ log \in [Ids -> Ages \cup {Never}]
  /\ asked \in [Ids -> Ages \cup {Never}]
  /\ cycle \in {"off", "resting", "listing", "walking"}
  /\ entry \in [Ids -> Entries]
  /\ aged \in [Ids -> Ages]
  /\ sent \in 0 .. Cap
  /\ since \in [Ids -> Ages \cup {Never}]

Init ==
  /\ log \in [Ids -> {0, Never}]
  /\ asked = [i \in Ids |-> Never]
  /\ cycle = "off"
  /\ entry = [i \in Ids |-> "unlisted"]
  /\ aged = [i \in Ids |-> 0]
  /\ sent = 0
  /\ since = [i \in Ids |-> Never]

------------------------------------------------------------------------------
(* The cycle. *)

\* The goroutine starts, with a cycle at once, or its ticker fires.
Begin ==
  /\ cycle \in {"off", "resting"}
  /\ cycle' = "listing"
  /\ UNCHANGED <<log, asked, entry, aged, sent, since>>

\* The log is read, and the cutoff is taken from the clock.
List ==
  /\ cycle = "listing"
  /\ cycle' = "walking"
  /\ entry' = [i \in Ids |-> IF log[i] = Never THEN "unlisted" ELSE "left"]
  /\ aged' = [i \in Ids |->
                IF log[i] = Never \/ i \in Undated THEN 0 ELSE log[i]]
  /\ sent' = 0
  /\ UNCHANGED <<log, asked, since>>

\* The call fails, or its answer is no list.
ListFails ==
  /\ cycle = "listing"
  /\ cycle' = "resting"
  /\ UNCHANGED <<log, asked, entry, aged, sent, since>>

Calling == \E i \in Ids : entry[i] = "calling"

\* Entries passed over counted against the cap as well.
MutantRoom ==
  Cardinality({i \in Ids : entry[i] \notin {"unlisted", "left", "calling"}}) < Cap

Room == sent < Cap

\* A request older than the lookback is forgotten.
MutantRemembered(i) == asked[i] # Never /\ asked[i] < Lookback

Remembered(i) == asked[i] # Never /\ asked[i] <= Lookback

\* The next entry of the list, in whatever order the provider wrote it.
Verdict(i) ==
  CASE i \in Nameless     -> "nameless"
    [] aged[i] > Lookback -> "old"
    [] Remembered(i)      -> "remembered"
    [] OTHER              -> "calling"

Consider(i) ==
  /\ cycle = "walking"
  /\ entry[i] = "left"
  /\ ~Calling
  /\ Room
  /\ entry' = [entry EXCEPT ![i] = Verdict(i)]
  /\ asked' = [asked EXCEPT ![i] = IF Verdict(i) = "calling" THEN Never ELSE @]
  /\ UNCHANGED <<log, cycle, aged, sent, since>>

\* The provider accepts, and the request is remembered from now on.
Accepted(i) ==
  /\ entry[i] = "calling"
  /\ entry' = [entry EXCEPT ![i] = "sent"]
  /\ asked' = [asked EXCEPT ![i] = 0]
  /\ since' = [since EXCEPT ![i] = 0]
  /\ sent' = sent + 1
  /\ UNCHANGED <<log, cycle, aged>>

\* The provider refuses, the call fails, or its answer is lost: nothing is
\* remembered, and the delivery may come or not.
Refused(i) ==
  /\ entry[i] = "calling"
  /\ entry' = [entry EXCEPT ![i] = "refused"]
  /\ UNCHANGED <<log, asked, cycle, aged, sent, since>>

\* The walk is over: the list is at its end, or the cap is reached.
End ==
  /\ cycle = "walking"
  /\ ~Calling
  /\ ~Room \/ \A i \in Ids : entry[i] # "left"
  /\ cycle' = "resting"
  /\ UNCHANGED <<log, asked, entry, aged, sent, since>>

\* The five minutes of a cycle are over: every call it has left fails at once.
Timeout ==
  /\ cycle = "walking"
  /\ cycle' = "resting"
  /\ entry' = [i \in Ids |->
                 IF entry[i] \in {"left", "calling"} THEN "refused" ELSE entry[i]]
  /\ UNCHANGED <<log, asked, aged, sent, since>>

------------------------------------------------------------------------------
(* The provider, the clock, and the process. *)

\* A delivery fails, or its entry leaves the log.
LogChanges(i) ==
  /\ log' = [log EXCEPT ![i] = IF @ = Never THEN 0 ELSE Never]
  /\ UNCHANGED <<asked, cycle, entry, aged, sent, since>>

Older(age) == IF age \in 0 .. Lookback THEN age + 1 ELSE age

Tick ==
  /\ log' = [i \in Ids |-> Older(log[i])]
  /\ asked' = [i \in Ids |-> Older(asked[i])]
  /\ since' = [i \in Ids |-> Older(since[i])]
  /\ UNCHANGED <<cycle, entry, aged, sent>>

\* The process ends, in order or not, and another starts: what it asked for is
\* forgotten.
Restart ==
  /\ cycle' = "off"
  /\ asked' = [i \in Ids |-> Never]
  /\ since' = [i \in Ids |-> Never]
  /\ entry' = [i \in Ids |-> "unlisted"]
  /\ UNCHANGED <<log, aged, sent>>

Next ==
  \/ Begin \/ List \/ ListFails \/ End \/ Timeout \/ Tick \/ Restart
  \/ \E i \in Ids : Consider(i) \/ Accepted(i) \/ Refused(i) \/ LogChanges(i)

Spec == Init /\ [][Next]_vars

------------------------------------------------------------------------------
(* What the replayer promises. *)

\* One process asks for a delivery once per lookback: a request the provider
\* accepted is made again only when more than the lookback has gone by since,
\* however often the log lists the delivery and however the cycles fall.
OncePerLookback ==
  [][\A i \in Ids :
       (entry[i] = "left" /\ entry'[i] = "calling" /\ since[i] # Never)
         => since[i] > Lookback]_vars

\* The cap is the only excuse: a cycle that walks to its end with fewer
\* accepted requests than the cap has missed nothing.  Every entry it read that
\* has an id and is within the lookback was accepted now or before, or refused.
CapIsTheOnlyExcuse ==
  [][(End /\ Cardinality({i \in Ids : entry[i] = "sent"}) < Cap) =>
       \A i \in Ids \ Nameless :
         (entry[i] # "unlisted" /\ aged[i] <= Lookback)
           => (since[i] # Never \/ entry[i] = "refused")]_vars

------------------------------------------------------------------------------
(* What the proofs need besides. *)

\* What is remembered is the last accepted request; it is forgotten only when
\* that is older than the lookback.
Memory ==
  \A i \in Ids :
    /\ asked[i] # Never => asked[i] = since[i]
    /\ (asked[i] = Never /\ since[i] # Never) => since[i] > Lookback

\* A call is under way only below the cap, one at a time, and in a cycle.
Walk ==
  /\ \A i \in Ids : entry[i] = "calling" => (cycle = "walking" /\ sent < Cap)
  /\ \A i, j \in Ids : entry[i] = "calling" /\ entry[j] = "calling" => i = j

\* What a cycle has made of an entry is what its history says, and its count of
\* accepted requests is the number of entries it had accepted.
Ledger ==
  /\ \A i \in Ids :
       /\ entry[i] = "nameless" => i \in Nameless
       /\ entry[i] = "old" => aged[i] > Lookback
       /\ entry[i] \in {"sent", "remembered"} => since[i] # Never
  /\ cycle = "walking" => sent = Cardinality({i \in Ids : entry[i] = "sent"})
=============================================================================
