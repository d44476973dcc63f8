-------------------------- MODULE MCWorkerCallbacks --------------------------
(***************************************************************************)
(* Instances of WorkerCallbacks for TLC; the .cfg files choose who calls   *)
(* out and which threads call back.                                        *)
(***************************************************************************)
EXTENDS WorkerCallbacks
==============================================================================
