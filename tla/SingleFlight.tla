---------------------------- MODULE SingleFlight ----------------------------
(***************************************************************************)
(* What the freshness manager promises, with no callers, no lock and no    *)
(* bookkeeping row in sight: for each key at most one question is before   *)
(* the upstream, and none is put while the last answer is still good.      *)
(*                                                                         *)
(* Time is counted down, not up: good[k] is how much longer the last       *)
(* answer for k may be served.                                             *)
(***************************************************************************)
EXTENDS Naturals

CONSTANTS
  Keys,   \* the cached keys, a (kind, key) pair each
  Ttl     \* how long an answer is good for

VARIABLES
  good,   \* time left before the answer held for a key has to be refreshed
  asking  \* the keys a question is before the upstream for

vars == <<good, asking>>

Init ==
  /\ good = [k \in Keys |-> 0]
  /\ asking = {}

Ask(k) ==
  /\ k \notin asking
  /\ good[k] = 0
  /\ asking' = asking \cup {k}
  /\ UNCHANGED good

Learn(k) ==
  /\ k \in asking
  /\ good' = [good EXCEPT ![k] = Ttl]
  /\ asking' = asking \ {k}

Fail(k) ==
  /\ k \in asking
  /\ asking' = asking \ {k}
  /\ UNCHANGED good

\* The process dies: what it was asking is forgotten, what it learned is not.
Restart ==
  /\ asking' = {}
  /\ UNCHANGED good

Tick ==
  /\ good' = [k \in Keys |-> IF good[k] > 0 THEN good[k] - 1 ELSE 0]
  /\ UNCHANGED asking

Next ==
  \/ \E k \in Keys : Ask(k) \/ Learn(k) \/ Fail(k)
  \/ Restart
  \/ Tick

Spec == Init /\ [][Next]_vars
=============================================================================
