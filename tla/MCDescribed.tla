----------------------------- MODULE MCDescribed -----------------------------
(* Specifications that describe their upstreams, and what is stored then.  *)
EXTENDS MCServing, Described

\* The worlds that are served are what the theorems about Serving are about.
ASSUME WorldsAreDescribed ==
  \A w \in DOMAIN Arrivals : Describes(w) /\ Sweepable(w) /\ PurgesNameRows(w)
==============================================================================
