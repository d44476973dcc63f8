------------------------------ MODULE FIFOQueue ------------------------------
(***************************************************************************)
(* What a thread-safe queue of the plugin promises its users: elements     *)
(* leave in the order in which they entered, each of them once, and a take *)
(* that cannot wait answers NULL and leaves the queue alone.               *)
(***************************************************************************)
EXTENDS Sequences

CONSTANTS Elements, \* what producers put
          NULL      \* the answer of a take that found nothing

VARIABLES queue,    \* the elements in the queue, oldest first
          out       \* the answer of the last take

vars == <<queue, out>>

Init == queue = <<>> /\ out = NULL

\* threadsafe_queue_put: the element becomes the newest one.
Put(e) == queue' = Append(queue, e) /\ UNCHANGED out

\* threadsafe_queue_take: the oldest element leaves and is the answer.
Take == queue # <<>> /\ out' = Head(queue) /\ queue' = Tail(queue)

\* threadsafe_queue_take when the wait fails.
TakeNothing == out' = NULL /\ UNCHANGED queue

Next == (\E e \in Elements : Put(e)) \/ Take \/ TakeNothing

Spec == Init /\ [][Next]_vars
==============================================================================
