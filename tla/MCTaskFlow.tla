----------------------------- MODULE MCTaskFlow -----------------------------
(***************************************************************************)
(* TaskFlow on small instances.                                            *)
(***************************************************************************)
EXTENDS TaskFlow
=============================================================================
