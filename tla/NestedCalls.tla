----------------------------- MODULE NestedCalls -----------------------------
(***************************************************************************)
(* What a runner promises a program whose callouts and callbacks nest: a   *)
(* callback is an ordinary call in the other direction.  Only the          *)
(* innermost activity goes on: its C code or its handler may start another *)
(* one, and it is the only one that may end.                               *)
(***************************************************************************)
EXTENDS Sequences

CONSTANTS Processes,   \* who calls functions
          Invocations, \* callbacks, each handled by the process of its name
          Concurrent   \* the processes that also call while a callback is
                       \* handled, besides its handler

VARIABLES active,   \* the running functions and callbacks, innermost first
          returned  \* callbacks whose handler has returned

vars == <<active, returned>>

Function(p) == [kind |-> "function", for |-> p]
Callback(i) == [kind |-> "loop", for |-> i]

Innermost(a) == active # <<>> /\ Head(active) = a

Init == active = <<>> /\ returned = {}

\* A function is called from outside, by the innermost callback's handler, or
\* by a process that runs at the same time.
Call(p) ==
  /\ \/ active = <<>>
     \/ Innermost(Callback(p)) /\ p \notin returned
     \/ p \in Concurrent /\ active # <<>> /\ Head(active).kind = "loop"
  /\ active' = <<Function(p)>> \o active
  /\ UNCHANGED returned

\* The running function calls a callback.
Enter(i) ==
  /\ active # <<>> /\ Head(active).kind = "function"
  /\ active' = <<Callback(i)>> \o active
  /\ UNCHANGED returned

\* The handler of the innermost callback returns.
Return(i) ==
  /\ Innermost(Callback(i))
  /\ returned' = returned \cup {i}
  /\ UNCHANGED active

\* The C caller of a callback goes on, after the handler returned.
Resume(i) ==
  /\ Innermost(Callback(i)) /\ i \in returned
  /\ active' = Tail(active)
  /\ UNCHANGED returned

\* The running function comes back.
End(p) ==
  /\ Innermost(Function(p))
  /\ active' = Tail(active)
  /\ UNCHANGED returned

Next ==
  \/ \E p \in Processes : Call(p) \/ End(p)
  \/ \E i \in Invocations : Enter(i) \/ Return(i) \/ Resume(i)

Spec == Init /\ [][Next]_vars
==============================================================================
