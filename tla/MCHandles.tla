------------------------------ MODULE MCHandles ------------------------------
(***************************************************************************)
(* A function and two callbacks that share a struct type and a worker.     *)
(* malloc answers the lowest address that is free, so that freed memory is *)
(* used again at once.                                                     *)
(***************************************************************************)
EXTENDS Handles, TLC

CONSTANTS byte, point, definition, sort, visit, worker, call

MCMembers ==
  [o \in {byte, point, definition, sort, visit, worker, call} |->
     CASE o \in {byte, worker} -> <<>>
       [] o = point            -> <<byte>>
       [] o = definition       -> <<point, byte>>
       [] o \in {sort, visit}  -> <<point, worker>>
       [] o = call             -> <<worker, definition>>]

MCRefs ==
  [o \in {byte, point, definition, sort, visit, worker, call} |->
     CASE o \in {byte, worker} -> {}
       [] o = point            -> {byte}
       [] o = definition       -> {point, byte}
       [] o \in {sort, visit}  -> {point, byte, worker}
       [] o = call             -> {worker, definition, point, byte}]

MCStaticOf == [t \in {byte} |-> 0]

\* Processes are alike, and so are the callbacks.
MCSymmetry == Permutations({sort, visit}) \cup Permutations(Processes)

MCMalloc(F) == {a \in F : \A b \in F : a <= b}
==============================================================================
