------------------------------ MODULE MCOverlap ------------------------------
(***************************************************************************)
(* A small instance of Overlap for TLC: a single route and a complete list *)
(* of one row.                                                             *)
(***************************************************************************)
EXTENDS Overlap

CONSTANTS k1, k2

OneRow == [k \in Keys |-> "row"]
Mixed  == [k \in Keys |-> IF k = k1 THEN "single" ELSE "complete"]
==============================================================================
