------------------------------ MODULE SameThread ------------------------------
(***************************************************************************)
(* Callouts and callbacks through the same-thread runner                   *)
(* (TFSameThreadRunner): functions run on the VM's own thread, and a       *)
(* callback enters a nested interpreter on top of the C frame that called  *)
(* it.  There is one C stack, so only its innermost frame goes on: C code, *)
(* or an interpreter with all processes of the image.  A return leaves the *)
(* nested interpreter with a long jump to the frame of its callback.       *)
(*                                                                         *)
(* The image side of callbacks is TFRunner's, as in WorkerCallbacks.       *)
(***************************************************************************)
EXTENDS Integers, Sequences, FiniteSets

CONSTANTS
  Callers,        \* image processes that call functions
  MaxInvocations, \* bound: callbacks that are called in a behaviour
  CallerCalls,    \* bound: callouts of each caller
  HandlerCalls,   \* bound: callouts of each callback handler
  NULL

Invocations == 1..MaxInvocations
\* A handler process has the name of the invocation it handles.
Processes == Callers \cup Invocations

ASSUME SameThreadAssumption ==
  /\ MaxInvocations \in Nat /\ CallerCalls \in Nat /\ HandlerCalls \in Nat
  /\ NULL \notin Processes
  /\ Callers \cap Invocations = {}

VARIABLES
  cstack,          \* frames of the VM's thread above the first interpreter,
                   \* innermost first
  frame,           \* what became of callbackFrontend's frame of an invocation
  previous,        \* CallbackInvocation.previous
  contexts,        \* invocations whose VMCallbackContext is allocated
  callbackStack,   \* sameThreadRunner.callbackStack
  callbackQueue,   \* the queue of pending invocations
  pc,              \* control point of each image process
  calls,           \* callouts each image process may still make
  fetched,         \* invocation the callback process took and has not pushed
  invocationStack, \* TFRunner callbackInvocationStack, top first
  stackProtect,    \* the process inside stackProtect critical:, or NULL
  jumping          \* the process about to jump in primitiveCallbackReturn

cVars == <<cstack, frame, previous, contexts>>
imageVars == <<calls, fetched, invocationStack, stackProtect>>
vars == <<cVars, callbackStack, callbackQueue, pc, imageVars, jumping>>

\* A frame: a function under ffi_call, or an interpreter that was entered for
\* an invocation.
Function(p) == [kind |-> "function", for |-> p]
Interpreter(i) == [kind |-> "loop", for |-> i]

\* The innermost frame is C code, or an interpreter between two primitives.
InC == jumping = NULL /\ cstack # <<>> /\ Head(cstack).kind = "function"
InImage == jumping = NULL /\ (cstack # <<>> => Head(cstack).kind = "loop")

Init ==
  /\ cstack = <<>>
  /\ frame = [i \in Invocations |-> "none"]
  /\ previous = [i \in Invocations |-> NULL]
  /\ contexts = {}
  /\ callbackStack = NULL
  /\ callbackQueue = <<>>
  /\ pc = [p \in Processes |-> IF p \in Callers THEN "body" ELSE "none"]
  /\ calls = [p \in Processes |-> IF p \in Callers THEN CallerCalls ELSE HandlerCalls]
  /\ fetched = NULL
  /\ invocationStack = <<>>
  /\ stackProtect = NULL
  /\ jumping = NULL

------------------------------------------------------------------------------
(***************************************************************************)
(* Faults: wrong versions of the steps below, which the properties must    *)
(* detect.  No specification uses them.                                    *)
(***************************************************************************)
\* The callback queue does not skip an invocation that is nil.
ExecuteCallbackNil ==
  /\ InImage
  /\ stackProtect = NULL
  /\ invocationStack' = <<fetched>> \o invocationStack
  /\ pc' = [p \in Processes |-> IF p = fetched THEN "body" ELSE pc[p]]
  /\ fetched' = NULL
  /\ UNCHANGED <<cVars, callbackStack, callbackQueue, calls, stackProtect, jumping>>

\* executeCallback pushes without stackProtect.
ExecuteCallbackUnprotected ==
  /\ InImage
  /\ fetched # NULL
  /\ invocationStack' = <<fetched>> \o invocationStack
  /\ pc' = [pc EXCEPT ![fetched] = "body"]
  /\ fetched' = NULL
  /\ UNCHANGED <<cVars, callbackStack, callbackQueue, calls, stackProtect, jumping>>

\* callbackFrontend does not add the invocation to the queue.
EnterCallbackUnqueued ==
  /\ InC
  /\ \E i \in Invocations :
       /\ frame[i] = "none" /\ \A j \in 1..(i - 1) : frame[j] # "none"
       /\ frame' = [frame EXCEPT ![i] = "active"]
       /\ previous' = [previous EXCEPT ![i] = callbackStack]
       /\ callbackStack' = i
       /\ contexts' = contexts \cup {i}
       /\ cstack' = <<Interpreter(i)>> \o cstack
  /\ UNCHANGED <<callbackQueue, pc, imageVars, jumping>>

\* The jump goes to a place below the function that called the callback.
JumpTooFar ==
  /\ jumping # NULL
  /\ \E k \in DOMAIN cstack :
       /\ cstack[k] = Interpreter(jumping)
       /\ cstack' = SubSeq(cstack, k + 2, Len(cstack))
  /\ frame' = [frame EXCEPT ![jumping] = "resumed"]
  /\ contexts' = contexts \ {jumping}
  /\ jumping' = NULL
  /\ UNCHANGED <<previous, callbackStack, callbackQueue, pc, imageVars>>

\* primitiveCallbackReturn jumps without popping the callback stack.
ReturnAcceptedUnpopped(i) ==
  /\ InImage
  /\ pc[i] = "returning" /\ stackProtect = NULL
  /\ invocationStack # <<>> /\ Head(invocationStack) = i
  /\ callbackStack = i
  /\ stackProtect' = i
  /\ jumping' = i
  /\ pc' = [pc EXCEPT ![i] = "returned"]
  /\ UNCHANGED <<cVars, callbackStack, callbackQueue, calls, fetched, invocationStack>>

------------------------------------------------------------------------------
(***************************************************************************)
(* Callouts: primitiveSameThreadCallout blocks the VM in ffi_call.         *)
(***************************************************************************)
StartCallout(p) ==
  /\ InImage
  /\ pc[p] = "body" /\ calls[p] > 0
  /\ pc' = [pc EXCEPT ![p] = "calling"]
  /\ calls' = [calls EXCEPT ![p] = @ - 1]
  /\ cstack' = <<Function(p)>> \o cstack
  /\ UNCHANGED <<frame, previous, contexts, callbackStack, callbackQueue, fetched,
                 invocationStack, stackProtect, jumping>>

\* ffi_call came back and the primitive ends.  It signals a semaphore on which
\* nobody waits: the caller goes on when the primitive answers.
EndCallout ==
  /\ InC
  /\ pc' = [pc EXCEPT ![Head(cstack).for] = "body"]
  /\ cstack' = Tail(cstack)
  /\ UNCHANGED <<frame, previous, contexts, callbackStack, callbackQueue, imageVars,
                 jumping>>

(***************************************************************************)
(* callbackFrontend and sameThreadCallbackEnter: push on the callback      *)
(* stack, put into the queue, allocate the context and enter the           *)
(* interpreter.  No other thread takes part, so this is one step.          *)
(***************************************************************************)
EnterCallback ==
  /\ InC
  /\ \E i \in Invocations :
       /\ frame[i] = "none" /\ \A j \in 1..(i - 1) : frame[j] # "none"
       /\ frame' = [frame EXCEPT ![i] = "active"]
       /\ previous' = [previous EXCEPT ![i] = callbackStack]
       /\ callbackStack' = i
       /\ callbackQueue' = Append(callbackQueue, i)
       /\ contexts' = contexts \cup {i}
       /\ cstack' = <<Interpreter(i)>> \o cstack
  /\ UNCHANGED <<pc, imageVars, jumping>>

(***************************************************************************)
(* sameThreadCallbackExit: jump to the trampoline of the invocation that   *)
(* returns, wherever its frame is; the frames above it are gone.  The      *)
(* context is freed and the C code that called the callback goes on.       *)
(***************************************************************************)
Jump ==
  /\ jumping # NULL
  /\ \E k \in DOMAIN cstack :
       /\ cstack[k] = Interpreter(jumping)
       /\ cstack' = SubSeq(cstack, k + 1, Len(cstack))
  /\ frame' = [frame EXCEPT ![jumping] = "resumed"]
  /\ contexts' = contexts \ {jumping}
  /\ jumping' = NULL
  /\ UNCHANGED <<previous, callbackStack, callbackQueue, pc, imageVars>>

------------------------------------------------------------------------------
(***************************************************************************)
(* Callbacks, image side.                                                  *)
(***************************************************************************)
\* The callback process: nextPendingCallback.
FetchCallback ==
  /\ InImage
  /\ fetched = NULL /\ callbackQueue # <<>>
  /\ fetched' = Head(callbackQueue)
  /\ callbackQueue' = Tail(callbackQueue)
  /\ UNCHANGED <<cVars, callbackStack, pc, calls, invocationStack, stackProtect, jumping>>

\* TFRunner executeCallback: push under stackProtect, start the handler.
ExecuteCallback ==
  /\ InImage
  /\ fetched # NULL /\ stackProtect = NULL
  /\ invocationStack' = <<fetched>> \o invocationStack
  /\ pc' = [pc EXCEPT ![fetched] = "body"]
  /\ fetched' = NULL
  /\ UNCHANGED <<cVars, callbackStack, callbackQueue, calls, stackProtect, jumping>>

\* TFCallbackInvocation execute: the block ended, the return value is written.
WriteReturnValue(i) ==
  /\ InImage
  /\ pc[i] = "body"
  /\ pc' = [pc EXCEPT ![i] = "returning"]
  /\ UNCHANGED <<cVars, callbackStack, callbackQueue, imageVars, jumping>>

\* returnCallback: and primitiveCallbackReturn up to the jump: the invocation
\* is the newest one of the image and of the runner, and the runner pops it.
\* Its process keeps stackProtect while C goes on.
ReturnAccepted(i) ==
  /\ InImage
  /\ pc[i] = "returning" /\ stackProtect = NULL
  /\ invocationStack # <<>> /\ Head(invocationStack) = i
  /\ callbackStack = i
  /\ callbackStack' = previous[callbackStack]
  /\ stackProtect' = i
  /\ jumping' = i
  /\ pc' = [pc EXCEPT ![i] = "returned"]
  /\ UNCHANGED <<cVars, callbackQueue, calls, fetched, invocationStack>>

\* returnCallback: one of the two tests fails, and the critical section is left.
ReturnRefused(i) ==
  /\ InImage
  /\ pc[i] = "returning" /\ stackProtect = NULL
  /\ invocationStack # <<>>
  /\ Head(invocationStack) # i \/ callbackStack # i
  /\ pc' = [pc EXCEPT ![i] = "refused"]
  /\ UNCHANGED <<cVars, callbackStack, callbackQueue, imageVars, jumping>>

\* callbackReturnSemaphore wait
WaitToRetry(i) ==
  /\ InImage
  /\ pc[i] = "refused"
  /\ pc' = [pc EXCEPT ![i] = "retrying"]
  /\ UNCHANGED <<cVars, callbackStack, callbackQueue, imageVars, jumping>>

\* The rest of returnCallback:, when an interpreter runs again: pop, signalAll
\* and leave stackProtect.
PopInvocation(i) ==
  /\ InImage
  /\ pc[i] = "returned"
  /\ invocationStack' = IF invocationStack = <<>> THEN <<>> ELSE Tail(invocationStack)
  /\ pc' = [p \in Processes |-> CASE p = i -> "done"
                                  [] p # i /\ pc[p] = "retrying" -> "returning"
                                  [] OTHER -> pc[p]]
  /\ stackProtect' = NULL
  /\ UNCHANGED <<cVars, callbackStack, callbackQueue, calls, fetched, jumping>>

------------------------------------------------------------------------------
\* Every callout and every callback is over, within the bounds of the model.
Rest ==
  /\ \A p \in Callers : pc[p] = "body" /\ calls[p] = 0
  /\ \A i \in Invocations : pc[i] \in {"none", "done"}
  /\ UNCHANGED vars

Next ==
  \/ EndCallout \/ EnterCallback \/ Jump
  \/ \E p \in Processes : StartCallout(p)
  \/ FetchCallback \/ ExecuteCallback
  \/ \E i \in Invocations :
       \/ WriteReturnValue(i) \/ ReturnAccepted(i) \/ ReturnRefused(i)
       \/ WaitToRetry(i) \/ PopInvocation(i)
  \/ Rest

Spec == Init /\ [][Next]_vars

(***************************************************************************)
(* C functions come back and handlers' blocks end.  Image steps are        *)
(* disabled while C runs and enabled again afterwards: a process that is   *)
(* runnable again and again is scheduled, hence strong fairness of each    *)
(* process.                                                                *)
(***************************************************************************)
Fairness ==
  /\ WF_vars(EndCallout) /\ WF_vars(Jump)
  /\ SF_vars(FetchCallback \/ ExecuteCallback)
  /\ \A i \in Invocations :
       SF_vars(\/ WriteReturnValue(i) \/ ReturnAccepted(i) \/ ReturnRefused(i)
               \/ WaitToRetry(i) \/ PopInvocation(i))

FairSpec == Spec /\ Fairness

------------------------------------------------------------------------------
(***************************************************************************)
(* Properties                                                              *)
(***************************************************************************)
Returned == {i \in Invocations : pc[i] \in {"returned", "done"}}

\* The types of the C stack, the runner's and the image's state.
TypeOK ==
  /\ cstack \in Seq([kind : {"loop"}, for : Invocations]
                    \cup [kind : {"function"}, for : Processes])
  /\ frame \in [Invocations -> {"none", "active", "resumed"}]
  /\ previous \in [Invocations -> Invocations \cup {NULL}]
  /\ contexts \subseteq Invocations
  /\ callbackStack \in Invocations \cup {NULL}
  /\ callbackQueue \in Seq(Invocations)
  /\ pc \in [Processes -> {"none", "body", "calling", "returning", "refused",
                           "retrying", "returned", "done"}]
  /\ calls \in [Processes -> Nat]
  /\ fetched \in Invocations \cup {NULL}
  /\ invocationStack \in Seq(Invocations)
  /\ stackProtect \in Invocations \cup {NULL}
  /\ jumping \in Invocations \cup {NULL}

\* The list from callbackStack along previous lives in C frames.  It visits the
\* frames that are on the C stack and have not returned, innermost first, and
\* no frame that is gone; each of them, and the one about to be jumped to, has
\* its VMCallbackContext.
ListIsOnTheCStack ==
  LET entered == {n \in 1..Len(cstack) : cstack[n].kind = "loop" /\ cstack[n].for # jumping}
      Link(n) == IF n = 0 THEN callbackStack ELSE previous[cstack[n].for]
      Deeper(n) == {m \in entered : m > n}
  IN /\ \A n \in entered \cup {0} :
          \/ Deeper(n) = {} /\ Link(n) = NULL
          \/ \E m \in Deeper(n) : Link(n) = cstack[m].for /\ \A k \in Deeper(n) : m <= k
     /\ contexts = {i \in Invocations : \E n \in 1..Len(cstack) : cstack[n] = Interpreter(i)}

\* While C goes on after a return, its handler's process still has to pop the
\* image's stack: callbacks that C calls meanwhile do not get between.
PopsItsOwn ==
  \A i \in Invocations :
    pc[i] = "returned" => invocationStack # <<>> /\ Head(invocationStack) = i

\* However many processes call, calls nest: a jump never skips the frame of a
\* function or of a callback that is still handled.
Nesting == INSTANCE NestedCalls
             WITH active <- cstack, returned <- Returned, Concurrent <- Processes
ImplementsNesting == Nesting!Spec

\* Every callback returns to the C code that called it, unless some return was
\* refused because it was out of order and waits.
ReturnsInOrder ==
  \A i \in Invocations :
    frame[i] = "active" ~> \/ frame[i] = "resumed"
                           \/ \E j \in Invocations : pc[j] = "retrying"
==============================================================================
