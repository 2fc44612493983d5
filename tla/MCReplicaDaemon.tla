-------------------------- MODULE MCReplicaDaemon ---------------------------
(***************************************************************************)
(* A small instance of ReplicaDaemon.                                      *)
(***************************************************************************)
EXTENDS ReplicaDaemon, TLC

CONSTANTS f1, f2
=============================================================================
