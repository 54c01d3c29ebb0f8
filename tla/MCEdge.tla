-------------------------------- MODULE MCEdge --------------------------------
(***************************************************************************)
(* Small instances of Edge for TLC.                                        *)
(***************************************************************************)
EXTENDS Edge
=============================================================================
