-------------------------- MODULE MCPooledCallouts --------------------------
(***************************************************************************)
(* Instances of PooledCallouts for TLC: a pool of two semaphores, which    *)
(* three simultaneous calls make grow.                                     *)
(***************************************************************************)
EXTENDS PooledCallouts
==============================================================================
