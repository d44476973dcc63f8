------------------------------ MODULE MCTSQueue ------------------------------
(***************************************************************************)
(* Instances of TSQueue for TLC.  Three nodes let two producers be in the  *)
(* middle of a put while the queue is not empty, and let malloc answer the *)
(* address of a node that was just freed.                                  *)
(***************************************************************************)
EXTENDS TSQueue
==============================================================================
