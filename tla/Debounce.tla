------------------------------- MODULE Debounce -------------------------------
(***************************************************************************)
(* Identical reads the specification does not model share one call         *)
(* (internal/mirror/debounce.go, the proxy behind engine.go passthrough).  *)
(*                                                                         *)
(* The first reader of a URL leads: its call goes upstream and its answer  *)
(* is buffered.  Readers that come before the window after the answer is   *)
(* over wait for it, or take it at once.  A caller stands for one request  *)
(* after another; it comes again once nothing points at its last one.      *)
(*                                                                         *)
(* Timers are on time: the clock does not pass a timer that is due.        *)
(***************************************************************************)
EXTENDS Naturals

CONSTANTS
  Callers,   \* requests at once
  Keys,      \* method and URL
  NoOne,     \* no caller
  Window,    \* how long an answer may still be joined
  Never,     \* the age of what has not happened
  MayBreak,  \* may an answer's body break off?
  Stalls     \* may a leader's own client be slow to take its answer?

ASSUME DebounceAssumption ==
  /\ NoOne \notin Callers
  /\ Window \in Nat \ {0}
  /\ Never \notin Nat
  /\ MayBreak \in BOOLEAN
  /\ Stalls \in BOOLEAN

VARIABLES
  pc,      \* what a request is doing
  asks,    \* its URL
  follows, \* the leader whose answer it waits for
  flight,  \* Debouncer.flight: the leader of a URL
  shared,  \* the call a caller led last: open, over, or broken off
  left,    \* what is left of its window, once the timer runs
  since    \* history: the age of the last shared answer of a URL

dvars == <<pc, asks, follows, flight, shared, left, since>>

Late == Window + 1

\* Type invariant.
DebounceTypeOK ==
  /\ pc \in [Callers -> {"out", "alone", "leading", "replaying", "following"}]
  /\ asks \in [Callers -> Keys]
  /\ follows \in [Callers -> Callers \cup {NoOne}]
  /\ flight \in [Keys -> Callers \cup {NoOne}]
  /\ shared \in [Callers -> {"open", "done", "broken"}]
  /\ left \in [Callers -> 0 .. Window \cup {Never}]
  /\ since \in [Keys -> 0 .. Late \cup {Never}]

DebounceInit ==
  /\ pc = [c \in Callers |-> "out"]
  /\ asks \in [Callers -> Keys]
  /\ follows = [c \in Callers |-> NoOne]
  /\ flight = [k \in Keys |-> NoOne]
  /\ shared = [c \in Callers |-> "done"]
  /\ left = [c \in Callers |-> Never]
  /\ since = [k \in Keys |-> Never]

------------------------------------------------------------------------------
\* The caller's last request is over and its answer out of everyone's reach.
New(c) ==
  /\ pc[c] = "out"
  /\ \A k \in Keys : flight[k] # c
  /\ \A d \in Callers : follows[d] # c

\* A request with a credential, or one that is no read, is forwarded as it is.
Alone(c) ==
  /\ New(c)
  /\ pc' = [pc EXCEPT ![c] = "alone"]
  /\ UNCHANGED <<asks, follows, flight, shared, left, since>>

\* No call of this URL is to be shared: this one will be.
Lead(c, k) ==
  /\ New(c)
  /\ flight[k] = NoOne
  /\ flight' = [flight EXCEPT ![k] = c]
  /\ asks' = [asks EXCEPT ![c] = k]
  /\ pc' = [pc EXCEPT ![c] = "leading"]
  /\ shared' = [shared EXCEPT ![c] = "open"]
  /\ left' = [left EXCEPT ![c] = Never]
  /\ UNCHANGED <<follows, since>>

\* Every reader that joins starts the window anew.
MutantJoin(c, k) ==
  /\ New(c)
  /\ flight[k] # NoOne
  /\ follows' = [follows EXCEPT ![c] = flight[k]]
  /\ asks' = [asks EXCEPT ![c] = k]
  /\ pc' = [pc EXCEPT ![c] = "following"]
  /\ left' = [left EXCEPT ![flight[k]] = IF @ = Never THEN @ ELSE Window]
  /\ UNCHANGED <<flight, shared, since>>

Join(c, k) ==
  /\ New(c)
  /\ flight[k] # NoOne
  /\ follows' = [follows EXCEPT ![c] = flight[k]]
  /\ asks' = [asks EXCEPT ![c] = k]
  /\ pc' = [pc EXCEPT ![c] = "following"]
  /\ UNCHANGED <<flight, shared, left, since>>

\* The entry is removed with the answer.
MutantAnswer(c) ==
  /\ pc[c] = "leading"
  /\ shared' = [shared EXCEPT ![c] = "done"]
  /\ since' = [since EXCEPT ![asks[c]] = 0]
  /\ pc' = [pc EXCEPT ![c] = "replaying"]
  /\ flight' = [flight EXCEPT ![asks[c]] = NoOne]
  /\ UNCHANGED <<asks, follows, left>>

\* The leader answers its client and never closes done.
MutantAnswerKeeps(c) ==
  /\ pc[c] = "leading"
  /\ since' = [since EXCEPT ![asks[c]] = 0]
  /\ pc' = [pc EXCEPT ![c] = "replaying"]
  /\ UNCHANGED <<asks, follows, flight, shared, left>>

\* The whole answer is buffered and the followers are let go; then the leader's
\* own client is answered.  A leader whose client left has its call cancelled,
\* and every follower is handed the proxy's 502.
Answer(c) ==
  /\ pc[c] = "leading"
  /\ shared' = [shared EXCEPT ![c] = "done"]
  /\ since' = [since EXCEPT ![asks[c]] = 0]
  /\ pc' = [pc EXCEPT ![c] = "replaying"]
  /\ UNCHANGED <<asks, follows, flight, left>>

\* The body breaks off: the proxy panics with ErrAbortHandler through Share,
\* which neither closes done nor removes the entry.
Break(c) ==
  /\ MayBreak
  /\ pc[c] = "leading"
  /\ shared' = [shared EXCEPT ![c] = "broken"]
  /\ pc' = [pc EXCEPT ![c] = "out"]
  /\ UNCHANGED <<asks, follows, flight, left, since>>

\* The leader's client has its answer; the window begins.
Hold(c) ==
  /\ pc[c] = "replaying"
  /\ left' = [left EXCEPT ![c] = Window]
  /\ pc' = [pc EXCEPT ![c] = "out"]
  /\ UNCHANGED <<asks, follows, flight, shared, since>>

Expire(c) ==
  /\ left[c] = 0
  /\ left' = [left EXCEPT ![c] = Never]
  /\ flight' = [flight EXCEPT ![asks[c]] = IF @ = c THEN NoOne ELSE @]
  /\ UNCHANGED <<pc, asks, follows, shared, since>>

\* A follower is handed the leader's answer, or its client leaves.
Take(c) ==
  /\ pc[c] = "following"
  /\ shared[follows[c]] = "done"
  /\ pc' = [pc EXCEPT ![c] = "out"]
  /\ follows' = [follows EXCEPT ![c] = NoOne]
  /\ UNCHANGED <<asks, flight, shared, left, since>>

Quit(c) ==
  /\ pc[c] = "following"
  /\ pc' = [pc EXCEPT ![c] = "out"]
  /\ follows' = [follows EXCEPT ![c] = NoOne]
  /\ UNCHANGED <<asks, flight, shared, left, since>>

Forwarded(c) ==
  /\ pc[c] = "alone"
  /\ pc' = [pc EXCEPT ![c] = "out"]
  /\ UNCHANGED <<asks, follows, flight, shared, left, since>>

Older(age) == IF age \in 0 .. Window THEN age + 1 ELSE age

Tick ==
  /\ \A c \in Callers : left[c] # 0
  /\ Stalls \/ \A c \in Callers : pc[c] # "replaying"
  /\ left' = [c \in Callers |-> IF left[c] = Never THEN Never ELSE left[c] - 1]
  /\ since' = [k \in Keys |-> Older(since[k])]
  /\ UNCHANGED <<pc, asks, follows, flight, shared>>
=============================================================================
