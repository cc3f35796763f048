----------------------------- MODULE MCUpdater -----------------------------
(***************************************************************************)
(* Updater for TLC.  Many components have the same plans: the runs take    *)
(* one component of each shape.                                            *)
(***************************************************************************)
EXTENDS Updater
=============================================================================
