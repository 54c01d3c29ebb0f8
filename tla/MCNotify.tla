------------------------------- MODULE MCNotify -------------------------------
(***************************************************************************)
(* Small instances of Notify for TLC.                                      *)
(***************************************************************************)
EXTENDS Notify

CONSTANT s2

\* The second subscriber names types.
TheSecond == {s2}
===============================================================================
