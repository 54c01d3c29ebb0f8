--------------------------------- MODULE Edge ---------------------------------
(***************************************************************************)
(* What the mirror forwards and what it reports of that: Debounce, with    *)
(* the reporting transport (internal/mirror/observe.go), the recorder of   *)
(* each request (recorder.go) and the two rings of Telemetry.              *)
(*                                                                         *)
(* An exchange is charted when its body is closed, and stamped with the    *)
(* time its call began; a request is logged when its handler returns, and  *)
(* so is one whose handler panics.                                         *)
(***************************************************************************)
EXTENDS Debounce, Telemetry

CONSTANTS
  Charted, \* frames the chart holds
  Logged,  \* requests the log holds
  Span     \* how long a frame stays on the chart

ASSUME EdgeAssumption ==
  /\ Charted \in Nat \ {0} /\ Logged \in Nat \ {0} /\ Span \in Nat \ {0}

VARIABLES
  began,    \* the age of the call a caller has under way
  timeline, \* Timeline: a frame is the age of its call
  log,      \* RequestLog: an entry is what its handler did
  frames,   \* history: the last exchanges, oldest first, as many as fit
  entries,  \* history: the last requests, oldest first, as many as fit
  expired   \* history: has the dashboard met a frame out of the window?

vars == <<dvars, began, timeline, log, frames, entries, expired>>

Blank == Span + 1
Inside == 0 .. Span

EdgeTypeOK ==
  /\ DebounceTypeOK
  /\ began \in [Callers -> 0 .. Blank]
  /\ timeline.size <= Charted /\ log.size <= Logged

Init ==
  /\ DebounceInit
  /\ began = [c \in Callers |-> 0]
  /\ timeline = Ring(Charted, Blank)
  /\ log = Ring(Logged, "none")
  /\ frames = <<>>
  /\ entries = <<>>
  /\ expired = FALSE

Last(s, n) == IF Len(s) > n THEN Tail(s) ELSE s

\* A call goes to the upstream.
Calls(c) ==
  /\ Alone(c) \/ \E k \in Keys : Lead(c, k)
  /\ began' = [began EXCEPT ![c] = 0]
  /\ UNCHANGED <<timeline, log, frames, entries, expired>>

Joins(c) ==
  /\ \E k \in Keys : Join(c, k)
  /\ UNCHANGED <<began, timeline, log, frames, entries, expired>>

Charts(c) ==
  /\ timeline' = Observe(timeline, began[c])
  /\ frames' = Last(Append(frames, began[c]), Charted)

Logs(what) ==
  /\ log' = Record(log, what)
  /\ entries' = Last(Append(entries, what), Logged)

\* A call ends, with an answer or an error; a shared one's handler goes on.
Ends(c) ==
  /\ Charts(c)
  /\ \/ /\ Forwarded(c) \/ Break(c)
        /\ Logs("called")
     \/ /\ Answer(c)
        /\ UNCHANGED <<log, entries>>
  /\ began' = [began EXCEPT ![c] = 0]
  /\ UNCHANGED expired

\* A handler that makes no call, or is done with its own, returns.
Returns(c) ==
  /\ \/ Hold(c) /\ Logs("called")
     \/ (Take(c) \/ Quit(c)) /\ Logs("joined")
  /\ UNCHANGED <<began, timeline, frames, expired>>

Expires(c) ==
  /\ Expire(c)
  /\ UNCHANGED <<began, timeline, log, frames, entries, expired>>

\* The dashboard asks for the chart, and that is when old frames leave it.
Look ==
  /\ timeline' = Frames(timeline, Inside).ring
  /\ expired' = (expired \/ \E i \in DOMAIN frames : frames[i] \notin Inside)
  /\ UNCHANGED <<dvars, began, log, frames, entries>>

Aged(age) == IF age < Blank THEN age + 1 ELSE Blank

Passes ==
  /\ Tick
  /\ began' = [c \in Callers |->
                 IF pc[c] \in {"alone", "leading"} THEN Aged(began[c]) ELSE 0]
  /\ timeline' = [timeline EXCEPT !.slot = [i \in DOMAIN @ |-> Aged(@[i])]]
  /\ frames' = [i \in DOMAIN frames |-> Aged(frames[i])]
  /\ UNCHANGED <<log, entries, expired>>

Next ==
  \/ Look \/ Passes
  \/ \E c \in Callers : Calls(c) \/ Joins(c) \/ Ends(c) \/ Returns(c) \/ Expires(c)

Spec == Init /\ [][Next]_vars

\* A call ends: the upstream answers, or the leader's client gives up, which
\* cancels the call.  A follower whose answer is there is handed it.
FairEdge ==
  /\ Spec
  /\ \A c \in Callers :
       /\ WF_vars(pc[c] = "leading" /\ Ends(c))
       /\ WF_vars(Take(c) /\ Returns(c))

------------------------------------------------------------------------------
(* What the coalescer promises: one call per URL and window, and no cache. *)

\* The upstream is asked again for a URL only when the window has gone by since
\* the last shared answer to it.
Spaced ==
  [][\A c \in Callers, k \in Keys :
       (Lead(c, k) /\ since[k] # Never) => since[k] >= Window]_vars

\* Where no client stalls, whoever joins is answered by a call that is under way
\* or that was answered no longer than the window ago.  The window opens once the
\* leader's own client has its answer, so behind one that stalls it may be older.
NotACache ==
  [][\A c \in Callers, k \in Keys :
       (Join(c, k) /\ shared[flight[k]] = "done")
         => since[k] \in 0 .. Window]_vars

\* A follower is answered, leaves, or waits for a call whose body broke off.
FollowersAnswered ==
  \A c \in Callers :
    (pc[c] = "following") ~>
      (pc[c] # "following" \/ shared[follows[c]] = "broken")

------------------------------------------------------------------------------
(* What the dashboard promises. *)

\* Until the dashboard meets a frame out of the window, the chart is complete:
\* it shows the last exchanges that fit, in the order they ended, however often
\* the ring has gone round.
ChartIsComplete ==
  (~expired /\ \A i \in DOMAIN frames : frames[i] \in Inside)
    => Frames(timeline, Inside).out = frames

\* However often the log has gone round, its n newest entries are the last n
\* requests that returned, those of shared and broken calls among them.
RecentIsRecent ==
  \A n \in 0 .. Logged + 1 :
    LET m == IF n = 0 \/ n > Len(entries) THEN Len(entries) ELSE n
    IN  Recent(log, n) = [i \in 1 .. m |-> entries[Len(entries) - i + 1]]
=============================================================================
