------------------------------ MODULE MCMirror ------------------------------
(***************************************************************************)
(* A small instance of Mirror for TLC: single routes, each with a row of   *)
(* its own.                                                                *)
(***************************************************************************)
EXTENDS Mirror

OwnRow == [k \in Keys |-> k]
Single == [k \in Keys |-> "single"]
=============================================================================
