------------------------------ MODULE MCReveal ------------------------------
(***************************************************************************)
(* Small instances of Reveal for TLC.                                      *)
(***************************************************************************)
EXTENDS Reveal

CONSTANT r2

\* Both requests have a principal, or the second has none.
OneOrNone == {{}, {r2}}
=============================================================================
