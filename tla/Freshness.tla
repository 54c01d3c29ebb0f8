------------------------------ MODULE Freshness ------------------------------
(***************************************************************************)
(* The freshness manager (internal/mirror/freshness.go) and the            *)
(* bookkeeping row it keeps per key (store.go): Ensure, Refresh, doFetch   *)
(* under the key's mutex, the error backoff, and Drain.                    *)
(*                                                                         *)
(* A caller is a goroutine inside Ensure or Refresh.  One action is one    *)
(* store statement or one blocking point.  The two deadlines of a row are  *)
(* kept as the time left before them (left for expires_at, hold for        *)
(* retry_after), so the clock needs no bound: "expires_at is after now"    *)
(* reads left > 0.                                                         *)
(***************************************************************************)
EXTENDS Naturals

CONSTANTS
  Callers,       \* goroutines reading or refreshing
  Keys,          \* the (kind, key) pairs they ask for
  NoOne,         \* not a caller: the owner of a free mutex
  Ttl,           \* the kind's time to live
  ErrorRetry,    \* defaultErrorRetry
  StoreMayFail   \* may a statement on the bookkeeping row fail?

ASSUME FreshnessAssumption ==
  /\ NoOne \notin Callers
  /\ Ttl \in Nat \ {0}
  /\ ErrorRetry \in Nat \ {0}
  /\ StoreMayFail \in BOOLEAN

VARIABLES
  state,     \* mirror_freshness.state, "unknown" where the key has no row
  left,      \* time left until expires_at
  hold,      \* time left until retry_after
  refused,   \* mirror_freshness.status holds an absorbed refusal (4xx)
  lock,      \* the mutex lockFor returns: its owner, or NoOne
  inflight,  \* the callers counted in the WaitGroup and in the inflight gauge
  pc,        \* where each caller stands
  at,        \* the key it asks for
  mode,      \* "ensure" or "refresh"
  got,       \* what its upstream call came back with
  drain      \* the shutdown's progress through Drain

row    == <<state, left, hold, refused>>
caller == <<pc, at, mode, got>>
vars   == <<row, lock, inflight, caller, drain>>

States   == {"unknown", "fresh", "fetching", "error"}
Results  == {"ok", "unchanged", "refused", "failed"}
Final    == {"hit", "miss", "error"}
Holding  == {"cleared", "asking", "answered"}
Counted  == {"asking", "answered"}
PcValues == {"idle", "queued"} \cup Holding \cup Final

TypeOK ==
  /\ state \in [Keys -> States]
  /\ left \in [Keys -> 0 .. Ttl]
  /\ hold \in [Keys -> 0 .. ErrorRetry]
  /\ refused \in [Keys -> BOOLEAN]
  /\ lock \in [Keys -> Callers \cup {NoOne}]
  /\ inflight \in SUBSET Callers
  /\ pc \in [Callers -> PcValues]
  /\ at \in [Callers -> Keys]
  /\ mode \in [Callers -> {"ensure", "refresh"}]
  /\ got \in [Callers -> Results \cup {"none"}]
  /\ drain \in {"serving", "draining", "drained", "gaveup"}

------------------------------------------------------------------------------
(* Tests on the row. *)

MutantFreshForever(k) == state[k] = "fresh"
Fresh(k) == state[k] = "fresh" /\ left[k] > 0

InBackoff(k) == state[k] = "error" /\ hold[k] > 0

MutantNeverRechecked(k) == FALSE
\* The second look at the row, once the mutex is held.
RefreshedMeanwhile(k) == Fresh(k)

MutantNoMutex(k) == TRUE
Free(k) == lock[k] = NoOne

------------------------------------------------------------------------------
Init ==
  /\ state = [k \in Keys |-> "unknown"]
  /\ left = [k \in Keys |-> 0]
  /\ hold = [k \in Keys |-> 0]
  /\ refused = [k \in Keys |-> FALSE]
  /\ lock = [k \in Keys |-> NoOne]
  /\ inflight = {}
  /\ pc = [c \in Callers |-> "idle"]
  /\ at \in [Callers -> Keys]
  /\ mode = [c \in Callers |-> "ensure"]
  /\ got = [c \in Callers |-> "none"]
  /\ drain = "serving"

\* A caller comes in for k.  Shutdown stops the listener and the sweep before
\* it drains, so nobody comes in after that.
Arrive(c, k, m) ==
  /\ pc[c] = "idle"
  /\ drain = "serving"
  /\ at' = [at EXCEPT ![c] = k]
  /\ mode' = [mode EXCEPT ![c] = m]
  /\ UNCHANGED <<row, lock, inflight, got, drain>>

\* A fresh row answers at once, a row in its backoff replays the stored error,
\* anything else goes to doFetch.  A row that cannot be read is an error.
Ensure(c, k) ==
  /\ Arrive(c, k, "ensure")
  /\ \/ /\ Fresh(k)
        /\ pc' = [pc EXCEPT ![c] = "hit"]
     \/ /\ ~Fresh(k)
        /\ InBackoff(k)
        /\ pc' = [pc EXCEPT ![c] = "error"]
     \/ /\ ~Fresh(k)
        /\ ~InBackoff(k)
        /\ pc' = [pc EXCEPT ![c] = "queued"]
     \/ /\ StoreMayFail
        /\ pc' = [pc EXCEPT ![c] = "error"]

\* Refresh reads the row only for its validators and always goes to doFetch.
Refresh(c, k) ==
  /\ Arrive(c, k, "refresh")
  /\ \/ pc' = [pc EXCEPT ![c] = "queued"]
     \/ /\ StoreMayFail
        /\ pc' = [pc EXCEPT ![c] = "error"]

\* doFetch takes the mutex and reads the row again.  A fresh row is a hit and
\* the mutex is given back; a row that cannot be read is taken for a stale one.
Enter(c) ==
  /\ pc[c] = "queued"
  /\ Free(at[c])
  /\ \/ /\ RefreshedMeanwhile(at[c])
        /\ pc' = [pc EXCEPT ![c] = "hit"]
        /\ UNCHANGED lock
     \/ /\ ~RefreshedMeanwhile(at[c]) \/ StoreMayFail
        /\ pc' = [pc EXCEPT ![c] = "cleared"]
        /\ lock' = [lock EXCEPT ![at[c]] = c]
  /\ UNCHANGED <<row, inflight, at, mode, got, drain>>

\* Only now is the fetch counted.  MarkFetching touches the state alone, and
\* its failure is logged and ignored.  The request goes out.
Begin(c) ==
  /\ pc[c] = "cleared"
  /\ inflight' = inflight \cup {c}
  /\ \/ state' = [state EXCEPT ![at[c]] = "fetching"]
     \/ StoreMayFail /\ UNCHANGED state
  /\ pc' = [pc EXCEPT ![c] = "asking"]
  /\ UNCHANGED <<left, hold, refused, lock, at, mode, got, drain>>

\* The upstream call ends: an answer stored, a 304, an absorbed refusal, or a
\* failure (a transport error, the safety timeout, an answer not to be kept).
Answer(c, r) ==
  /\ pc[c] = "asking"
  /\ pc' = [pc EXCEPT ![c] = "answered"]
  /\ got' = [got EXCEPT ![c] = r]
  /\ UNCHANGED <<row, lock, inflight, at, mode, drain>>

\* The deferred calls of doFetch: the count drops, then the mutex is free.
Leave(c) ==
  /\ inflight' = inflight \ {c}
  /\ lock' = [lock EXCEPT ![at[c]] = NoOne]
  /\ got' = [got EXCEPT ![c] = "none"]
  /\ UNCHANGED <<at, mode, drain>>

MutantLeaveOnlyAfterAnswer(c) ==
  /\ pc[c] = "answered"
  /\ got[c] = "failed"
  /\ \/ /\ state' = [state EXCEPT ![at[c]] = "error"]
        /\ hold' = [hold EXCEPT ![at[c]] = ErrorRetry]
     \/ StoreMayFail /\ UNCHANGED <<state, hold>>
  /\ pc' = [pc EXCEPT ![c] = "error"]
  /\ inflight' = inflight \ {c}
  /\ got' = [got EXCEPT ![c] = "none"]
  /\ UNCHANGED <<left, refused, lock, at, mode, drain>>

MutantErrorExtends(c) ==
  /\ pc[c] = "answered"
  /\ got[c] = "failed"
  /\ state' = [state EXCEPT ![at[c]] = "error"]
  /\ hold' = [hold EXCEPT ![at[c]] = ErrorRetry]
  /\ left' = [left EXCEPT ![at[c]] = 1]
  /\ pc' = [pc EXCEPT ![c] = "error"]
  /\ UNCHANGED refused
  /\ Leave(c)

MutantBackoffAdds(c) ==
  /\ pc[c] = "answered"
  /\ got[c] = "failed"
  /\ state' = [state EXCEPT ![at[c]] = "error"]
  /\ hold' = [hold EXCEPT ![at[c]] = @ + ErrorRetry]
  /\ pc' = [pc EXCEPT ![c] = "error"]
  /\ UNCHANGED <<left, refused>>
  /\ Leave(c)

\* MarkError: the state, the error and the moment another fetch may start.
RecordError(c) ==
  /\ pc[c] = "answered"
  /\ got[c] = "failed"
  /\ \/ /\ state' = [state EXCEPT ![at[c]] = "error"]
        /\ hold' = [hold EXCEPT ![at[c]] = ErrorRetry]
     \/ StoreMayFail /\ UNCHANGED <<state, hold>>
  /\ pc' = [pc EXCEPT ![c] = "error"]
  /\ UNCHANGED <<left, refused>>
  /\ Leave(c)

\* RecordFetched: fresh for a whole TTL, error and backoff cleared, the status
\* of this answer.  A failing write leaves the row at "fetching".
RecordFetched(c) ==
  /\ pc[c] = "answered"
  /\ got[c] \in Results \ {"failed"}
  /\ \/ /\ state' = [state EXCEPT ![at[c]] = "fresh"]
        /\ left' = [left EXCEPT ![at[c]] = Ttl]
        /\ hold' = [hold EXCEPT ![at[c]] = 0]
        /\ refused' = [refused EXCEPT ![at[c]] = got[c] = "refused"]
        /\ pc' = [pc EXCEPT ![c] = "miss"]
     \/ /\ StoreMayFail
        /\ pc' = [pc EXCEPT ![c] = "error"]
        /\ UNCHANGED row
  /\ Leave(c)

\* The caller has its outcome and goes.
Return(c) ==
  /\ pc[c] \in Final
  /\ pc' = [pc EXCEPT ![c] = "idle"]
  /\ UNCHANGED <<row, lock, inflight, at, mode, got, drain>>

Tick ==
  /\ left' = [k \in Keys |-> IF left[k] > 0 THEN left[k] - 1 ELSE 0]
  /\ hold' = [k \in Keys |-> IF hold[k] > 0 THEN hold[k] - 1 ELSE 0]
  /\ UNCHANGED <<state, refused, lock, inflight, caller, drain>>

StartDrain ==
  /\ drain = "serving"
  /\ drain' = "draining"
  /\ UNCHANGED <<row, lock, inflight, caller>>

\* Drain returns true once the WaitGroup is at zero, false at its timeout.
EndDrain ==
  /\ drain = "draining"
  /\ \/ inflight = {} /\ drain' = "drained"
     \/ inflight # {} /\ drain' = "gaveup"
  /\ UNCHANGED <<row, lock, inflight, caller>>

\* The process ends, by a crash or after its shutdown, and starts again on the
\* same database.
Restart ==
  /\ lock' = [k \in Keys |-> NoOne]
  /\ inflight' = {}
  /\ pc' = [c \in Callers |-> "idle"]
  /\ got' = [c \in Callers |-> "none"]
  /\ drain' = "serving"
  /\ UNCHANGED <<row, at, mode>>

Step(c) ==
  \/ \E k \in Keys : Ensure(c, k) \/ Refresh(c, k)
  \/ Enter(c)
  \/ Begin(c)
  \/ \E r \in Results : Answer(c, r)
  \/ RecordError(c)
  \/ RecordFetched(c)
  \/ Return(c)

Next ==
  \/ \E c \in Callers : Step(c)
  \/ Tick
  \/ StartDrain
  \/ EndDrain
  \/ Restart

Spec == Init /\ [][Next]_vars

------------------------------------------------------------------------------
(* Properties. *)

\* However many readers miss the same key at once, one of them is before the
\* upstream and the others wait for its answer (doFetch's per-key mutex).
OneFetchPerKey ==
  \A c, d \in Callers :
    pc[c] \in Counted /\ pc[d] \in Counted /\ at[c] = at[d] => c = d

\* An answer that may still be served is never given up for a fetch, failed or
\* under way: the waiters that pile up behind a fetch leave its result alone
\* (the second read of the row under the mutex).
AnswerKept == \A k \in Keys : left[k] > 0 => state[k] = "fresh"

\* The keys a caller is before the upstream for.
Asking == {at[c] : c \in {d \in Callers : pc[d] \in Counted}}

Abstract == INSTANCE SingleFlight WITH good <- left, asking <- Asking

\* Callers, mutex, backoff and bookkeeping row together keep the promise of
\* SingleFlight, restarts included.
KeepsPromise == Abstract!Spec
==============================================================================
