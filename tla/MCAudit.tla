------------------------------- MODULE MCAudit -------------------------------
(***************************************************************************)
(* A small instance of Audit for TLC.                                      *)
(***************************************************************************)
EXTENDS Audit

OwnRow == [k \in Keys |-> k]
Single == [k \in Keys |-> "single"]
=============================================================================
