--------------------------- MODULE WorkerCallbacks ---------------------------
(***************************************************************************)
(* Callouts and callbacks through one worker runner (TFWorker): the image  *)
(* processes that call out, the worker thread in worker_run, foreign C     *)
(* threads that call a callback of this runner, the "Callback queue"       *)
(* process of the image and the process that handles each invocation.      *)
(*                                                                         *)
(* The task queue and the callback queue are sequences: TSQueueProofs      *)
(* shows that the linked lists behind them are FIFO queues.  Image         *)
(* processes interleave at every step (they have different priorities and  *)
(* the handlers' code is arbitrary), except inside a primitive, which the  *)
(* VM thread runs to its end; C threads run in parallel with it.           *)
(***************************************************************************)
EXTENDS Integers, Sequences, FiniteSets

CONSTANTS
  Callers,        \* image processes that call functions through the worker
  Foreign,        \* C threads other than the worker's
  Worker,         \* the worker's thread
  Entering,       \* the threads whose C code calls callbacks of this runner
  MaxInvocations, \* bound: callbacks that are called in a behaviour
  CallerCalls,    \* bound: callouts of each caller
  HandlerCalls,   \* bound: callouts of each callback handler
  Restarts,       \* when the image may be saved and started again, once:
                  \* "never", "quiet" (not inside a return) or "anytime"
  NULL

Invocations == 1..MaxInvocations
Threads == Foreign \cup {Worker}
\* A handler process has the name of the invocation it handles.
Processes == Callers \cup Invocations

ASSUME WorkerAssumption ==
  /\ MaxInvocations \in Nat /\ CallerCalls \in Nat /\ HandlerCalls \in Nat
  /\ Restarts \in {"never", "quiet", "anytime"}
  /\ Entering \subseteq Threads
  /\ Worker \notin Foreign
  /\ NULL \notin Processes \cup Threads /\ NULL \notin {"created", "signalled", "freed"}
  /\ Callers \cap Invocations = {}

VARIABLES
  wstack,        \* the worker thread's frames, innermost first
  cpc,           \* how far each invocation is in callbackFrontend
  thread,        \* the thread that entered it
  previous,      \* CallbackInvocation.previous
  payload,       \* CallbackInvocation.payload: NULL or a platform semaphore
  callbackStack, \* runner->callbackStack
  taskQueue,     \* worker->taskQueue
  callbackQueue, \* the queue of pending invocations
  liveTasks,     \* how many WorkerTasks are allocated
  pc,            \* control point of each image process
  calls,         \* callouts each image process may still make
  signalled,     \* processes whose callout semaphore has been signalled
  fetched,       \* invocation the callback process took and has not pushed
  invocationStack, \* TFRunner callbackInvocationStack, top first
  stackProtect,  \* the process inside stackProtect critical:, or NULL
  vm,            \* the process inside primitiveCallbackReturn, or NULL
  below          \* register of that primitive: callbackStack->previous

cVars == <<wstack, cpc, thread, previous, payload>>
imageVars == <<calls, fetched, invocationStack, stackProtect>>
vars == <<cVars, callbackStack, taskQueue, callbackQueue, liveTasks, pc, calls,
          signalled, fetched, invocationStack, stackProtect, vm, below>>

\* A frame of the worker thread: worker_run (of the thread itself, or nested in
\* callbackFrontend for an invocation), or a function called by executeWorkerTask.
Loop(i) == [kind |-> "loop", for |-> i]
Function(p) == [kind |-> "function", for |-> p]

Callout(p) == [type |-> "CALLOUT", for |-> p]
\* callbackSemaphore is the payload of the invocation that returns.
CallbackReturn(s) == [type |-> "CALLBACK_RETURN", for |-> s]

\* The payload of an invocation from a foreign thread is its own semaphore.
HasSemaphore(i) == payload[i] # NULL

Init ==
  /\ wstack = <<Loop(NULL)>>
  /\ cpc = [i \in Invocations |-> "none"]
  /\ thread = [i \in Invocations |-> NULL]
  /\ previous = [i \in Invocations |-> NULL]
  /\ payload = [i \in Invocations |-> NULL]
  /\ callbackStack = NULL
  /\ taskQueue = <<>>
  /\ callbackQueue = <<>>
  /\ liveTasks = 0
  /\ pc = [p \in Processes |-> IF p \in Callers THEN "body" ELSE "none"]
  /\ calls = [p \in Processes |-> IF p \in Callers THEN CallerCalls ELSE HandlerCalls]
  /\ signalled = {}
  /\ fetched = NULL
  /\ invocationStack = <<>>
  /\ stackProtect = NULL
  /\ vm = NULL
  /\ below = NULL

------------------------------------------------------------------------------
(***************************************************************************)
(* Faults: wrong versions of the steps below, which the properties must    *)
(* detect.  No specification uses them.                                    *)
(***************************************************************************)
\* executeWorkerTask releases the task twice.
EndCalloutReleasesTwice ==
  /\ wstack # <<>> /\ Head(wstack).kind = "function"
  /\ signalled' = signalled \cup {Head(wstack).for}
  /\ liveTasks' = liveTasks - 2
  /\ wstack' = Tail(wstack)
  /\ UNCHANGED <<cpc, thread, previous, payload, callbackStack, taskQueue,
                 callbackQueue, pc, imageVars, vm, below>>

\* executeWorkerTask does not signal the caller.
EndCalloutSilently ==
  /\ wstack # <<>> /\ Head(wstack).kind = "function"
  /\ liveTasks' = liveTasks - 1
  /\ wstack' = Tail(wstack)
  /\ UNCHANGED <<cpc, thread, previous, payload, callbackStack, taskQueue,
                 callbackQueue, pc, imageVars, signalled, vm, below>>

\* worker_run does not signal the foreign thread.
RunReturnToForeignSilently ==
  /\ wstack # <<>> /\ taskQueue # <<>>
  /\ Head(taskQueue).type = "CALLBACK_RETURN" /\ Head(taskQueue).for # NULL
  /\ taskQueue' = Tail(taskQueue)
  /\ UNCHANGED <<cVars, callbackStack, callbackQueue, liveTasks, pc, imageVars,
                 signalled, vm, below>>

\* worker_callback_prepare creates the semaphore with one signal.
PostCallbackSignalled(i) ==
  /\ cpc[i] = "pushed"
  /\ payload' = [payload EXCEPT ![i] = IF thread[i] = Worker THEN NULL ELSE "signalled"]
  /\ callbackQueue' = Append(callbackQueue, i)
  /\ cpc' = [cpc EXCEPT ![i] = "waiting"]
  /\ UNCHANGED <<wstack, thread, previous, callbackStack, taskQueue, liveTasks, pc,
                 imageVars, signalled, vm, below>>

\* executeCallback pushes without stackProtect.
ExecuteCallbackUnprotected ==
  /\ vm = NULL
  /\ fetched # NULL
  /\ invocationStack' = <<fetched>> \o invocationStack
  /\ pc' = [pc EXCEPT ![fetched] = "body"]
  /\ fetched' = NULL
  /\ UNCHANGED <<cVars, callbackStack, taskQueue, callbackQueue, liveTasks, calls,
                 signalled, stackProtect, vm, below>>

\* primitiveCallbackReturn clears the stack instead of popping it.
PopLoadNothing(i) ==
  /\ pc[i] = "accepted"
  /\ below' = NULL
  /\ pc' = [pc EXCEPT ![i] = "popping"]
  /\ UNCHANGED <<cVars, callbackStack, taskQueue, callbackQueue, liveTasks, imageVars,
                 signalled, vm>>

\* primitiveCallbackReturn does not call callbackExitFunction.
PopStoreWithoutExit(i) ==
  /\ pc[i] = "popping"
  /\ callbackStack' = below
  /\ pc' = [pc EXCEPT ![i] = "returned"]
  /\ vm' = NULL
  /\ below' = NULL
  /\ UNCHANGED <<cVars, taskQueue, callbackQueue, liveTasks, imageVars, signalled>>

\* primitiveCallbackReturn calls callbackExitFunction twice.
PopStoreExitsTwice(i) ==
  LET task == CallbackReturn(IF HasSemaphore(i) THEN i ELSE NULL) IN
  /\ pc[i] = "popping"
  /\ callbackStack' = below
  /\ taskQueue' = taskQueue \o <<task, task>>
  /\ liveTasks' = liveTasks + 2
  /\ pc' = [pc EXCEPT ![i] = "returned"]
  /\ vm' = NULL
  /\ below' = NULL
  /\ UNCHANGED <<cVars, callbackQueue, imageVars, signalled>>

------------------------------------------------------------------------------
(***************************************************************************)
(* Callouts, image side: executeFunction puts a CALLOUT task, then the     *)
(* process waits for the semaphore that executeWorkerTask signals.  The    *)
(* image calls primitiveWorkerCallout, which is not in this repository;    *)
(* the step is that of primitivePerformWorkerCall, which is.               *)
(***************************************************************************)
StartCallout(p) ==
  /\ vm = NULL
  /\ pc[p] = "body" /\ calls[p] > 0
  /\ pc' = [pc EXCEPT ![p] = "calling"]
  /\ calls' = [calls EXCEPT ![p] = @ - 1]
  /\ taskQueue' = Append(taskQueue, Callout(p))
  /\ liveTasks' = liveTasks + 1
  /\ UNCHANGED <<cVars, callbackStack, callbackQueue, signalled, fetched,
                 invocationStack, stackProtect, vm, below>>

FinishCallout(p) ==
  /\ vm = NULL
  /\ pc[p] = "calling" /\ p \in signalled
  /\ pc' = [pc EXCEPT ![p] = "body"]
  /\ signalled' = signalled \ {p}
  /\ UNCHANGED <<cVars, callbackStack, taskQueue, callbackQueue, liveTasks,
                 imageVars, vm, below>>

------------------------------------------------------------------------------
(***************************************************************************)
(* The worker thread: worker_run and executeWorkerTask.                    *)
(***************************************************************************)
\* The thread is in worker_next_call: in a loop it has fully entered.
InLoop ==
  /\ wstack # <<>> /\ Head(wstack).kind = "loop"
  /\ Head(wstack).for # NULL => cpc[Head(wstack).for] = "waiting"

RunCallout ==
  /\ InLoop /\ taskQueue # <<>> /\ Head(taskQueue).type = "CALLOUT"
  /\ wstack' = <<Function(Head(taskQueue).for)>> \o wstack
  /\ taskQueue' = Tail(taskQueue)
  /\ UNCHANGED <<cpc, thread, previous, payload, callbackStack, callbackQueue,
                 liveTasks, pc, imageVars, signalled, vm, below>>

\* ffi_call came back: signal the caller and release the task.
EndCallout ==
  /\ wstack # <<>> /\ Head(wstack).kind = "function"
  /\ signalled' = signalled \cup {Head(wstack).for}
  /\ liveTasks' = liveTasks - 1
  /\ wstack' = Tail(wstack)
  /\ UNCHANGED <<cpc, thread, previous, payload, callbackStack, taskQueue,
                 callbackQueue, pc, imageVars, vm, below>>

\* A CALLBACK_RETURN task with a semaphore wakes the foreign thread.
RunReturnToForeign ==
  /\ InLoop /\ taskQueue # <<>>
  /\ Head(taskQueue).type = "CALLBACK_RETURN" /\ Head(taskQueue).for # NULL
  /\ payload' = [payload EXCEPT ![Head(taskQueue).for] = "signalled"]
  /\ taskQueue' = Tail(taskQueue)
  /\ UNCHANGED <<wstack, cpc, thread, previous, callbackStack, callbackQueue,
                 liveTasks, pc, imageVars, signalled, vm, below>>

\* One without a semaphore makes worker_run return: the callback the innermost
\* loop was entered for is over and its C caller goes on.
RunReturn ==
  /\ InLoop /\ taskQueue # <<>>
  /\ Head(taskQueue).type = "CALLBACK_RETURN" /\ Head(taskQueue).for = NULL
  /\ wstack' = Tail(wstack)
  /\ cpc' = [i \in Invocations |-> IF i = Head(wstack).for THEN "resumed" ELSE cpc[i]]
  /\ taskQueue' = Tail(taskQueue)
  /\ UNCHANGED <<thread, previous, payload, callbackStack, callbackQueue,
                 liveTasks, pc, imageVars, signalled, vm, below>>

------------------------------------------------------------------------------
(***************************************************************************)
(* callbackFrontend, on any thread.                                        *)
(***************************************************************************)
\* C code that may call a callback now: a function called by the worker, or a
\* foreign thread that is not already in a callback.
CanEnter(t) ==
  /\ t \in Entering
  /\ IF t = Worker THEN wstack # <<>> /\ Head(wstack).kind = "function"
                   ELSE \A i \in Invocations : thread[i] = t => cpc[i] \in {"resumed", "lost"}

\* invocation.previous = runner->callbackStack
EnterCallback(t) ==
  /\ CanEnter(t)
  /\ \E i \in Invocations :
       /\ cpc[i] = "none" /\ \A j \in 1..(i - 1) : cpc[j] # "none"
       /\ cpc' = [cpc EXCEPT ![i] = "loaded"]
       /\ thread' = [thread EXCEPT ![i] = t]
       /\ previous' = [previous EXCEPT ![i] = callbackStack]
       /\ wstack' = IF t = Worker THEN <<Loop(i)>> \o wstack ELSE wstack
  /\ UNCHANGED <<payload, callbackStack, taskQueue, callbackQueue, liveTasks, pc,
                 imageVars, signalled, vm, below>>

\* runner->callbackStack = &invocation
PushCallback(i) ==
  /\ cpc[i] = "loaded"
  /\ callbackStack' = i
  /\ cpc' = [cpc EXCEPT ![i] = "pushed"]
  /\ UNCHANGED <<wstack, thread, previous, payload, taskQueue, callbackQueue,
                 liveTasks, pc, imageVars, signalled, vm, below>>

\* worker_callback_prepare, queue_add_pending_callback, worker_enter_callback.
PostCallback(i) ==
  /\ cpc[i] = "pushed"
  /\ payload' = [payload EXCEPT ![i] = IF thread[i] = Worker THEN NULL ELSE "created"]
  /\ callbackQueue' = Append(callbackQueue, i)
  /\ cpc' = [cpc EXCEPT ![i] = "waiting"]
  /\ UNCHANGED <<wstack, thread, previous, callbackStack, taskQueue, liveTasks, pc,
                 imageVars, signalled, vm, below>>

\* worker_enter_callback, foreign thread: s->wait(s); s->free(s).
ResumeForeign(i) ==
  /\ cpc[i] = "waiting" /\ payload[i] = "signalled"
  /\ payload' = [payload EXCEPT ![i] = "freed"]
  /\ cpc' = [cpc EXCEPT ![i] = "resumed"]
  /\ UNCHANGED <<wstack, thread, previous, callbackStack, taskQueue, callbackQueue,
                 liveTasks, pc, imageVars, signalled, vm, below>>

------------------------------------------------------------------------------
(***************************************************************************)
(* Callbacks, image side.                                                  *)
(***************************************************************************)
\* The callback process: nextPendingCallback.
FetchCallback ==
  /\ vm = NULL
  /\ fetched = NULL /\ callbackQueue # <<>>
  /\ fetched' = Head(callbackQueue)
  /\ callbackQueue' = Tail(callbackQueue)
  /\ UNCHANGED <<cVars, callbackStack, taskQueue, liveTasks, pc, calls, signalled,
                 invocationStack, stackProtect, vm, below>>

\* TFRunner executeCallback: push under stackProtect, then the run strategy
\* starts the handler's process.
ExecuteCallback ==
  /\ vm = NULL
  /\ fetched # NULL /\ stackProtect = NULL
  /\ invocationStack' = <<fetched>> \o invocationStack
  /\ pc' = [pc EXCEPT ![fetched] = "body"]
  /\ fetched' = NULL
  /\ UNCHANGED <<cVars, callbackStack, taskQueue, callbackQueue, liveTasks, calls,
                 signalled, stackProtect, vm, below>>

\* TFCallbackInvocation execute: the block ended (or was unwound), and the
\* ensure block writes the return value into the invocation's C frame.
WriteReturnValue(i) ==
  /\ vm = NULL
  /\ pc[i] = "body"
  /\ pc' = [pc EXCEPT ![i] = "returning"]
  /\ UNCHANGED <<cVars, callbackStack, taskQueue, callbackQueue, liveTasks, imageVars,
                 signalled, vm, below>>

\* returnCallback: the handle of an invocation of the session before the restart
\* is null, and its C frame is gone.
ReturnOfOldSession(i) ==
  /\ vm = NULL
  /\ pc[i] = "returning" /\ cpc[i] = "lost"
  /\ pc' = [pc EXCEPT ![i] = "done"]
  /\ UNCHANGED <<cVars, callbackStack, taskQueue, callbackQueue, liveTasks, imageVars,
                 signalled, vm, below>>

\* returnCallback: inside stackProtect, the invocation is the newest one of the
\* image, and primitiveCallbackReturn finds it the newest one of the runner.
ReturnAccepted(i) ==
  /\ vm = NULL
  /\ pc[i] = "returning" /\ cpc[i] # "lost" /\ stackProtect = NULL
  /\ invocationStack # <<>> /\ Head(invocationStack) = i
  /\ callbackStack = i
  /\ stackProtect' = i
  /\ vm' = i
  /\ pc' = [pc EXCEPT ![i] = "accepted"]
  /\ UNCHANGED <<cVars, callbackStack, taskQueue, callbackQueue, liveTasks, calls,
                 signalled, fetched, invocationStack, below>>

\* returnCallback: one of the two tests fails, and the critical section is left.
ReturnRefused(i) ==
  /\ vm = NULL
  /\ pc[i] = "returning" /\ cpc[i] # "lost" /\ stackProtect = NULL
  /\ invocationStack # <<>>
  /\ Head(invocationStack) # i \/ callbackStack # i
  /\ pc' = [pc EXCEPT ![i] = "refused"]
  /\ UNCHANGED <<cVars, callbackStack, taskQueue, callbackQueue, liveTasks, imageVars,
                 signalled, vm, below>>

\* callbackReturnSemaphore wait
WaitToRetry(i) ==
  /\ vm = NULL
  /\ pc[i] = "refused"
  /\ pc' = [pc EXCEPT ![i] = "retrying"]
  /\ UNCHANGED <<cVars, callbackStack, taskQueue, callbackQueue, liveTasks, imageVars,
                 signalled, vm, below>>

\* primitiveCallbackReturn, after it answered true: read the stack again ...
PopLoad(i) ==
  /\ pc[i] = "accepted"
  /\ below' = previous[callbackStack]
  /\ pc' = [pc EXCEPT ![i] = "popping"]
  /\ UNCHANGED <<cVars, callbackStack, taskQueue, callbackQueue, liveTasks, imageVars,
                 signalled, vm>>

\* ... write it, and worker_callback_return puts the CALLBACK_RETURN task.
PopStore(i) ==
  /\ pc[i] = "popping"
  /\ callbackStack' = below
  /\ taskQueue' = Append(taskQueue, CallbackReturn(IF HasSemaphore(i) THEN i ELSE NULL))
  /\ liveTasks' = liveTasks + 1
  /\ pc' = [pc EXCEPT ![i] = "returned"]
  /\ vm' = NULL
  /\ below' = NULL
  /\ UNCHANGED <<cVars, callbackQueue, imageVars, signalled>>

\* The rest of returnCallback: pop, signalAll (which wakes the processes that
\* wait now, and leaves no signal behind) and leave stackProtect.  After a restart
\* the stack may be empty, and nothing is left to do.
PopInvocation(i) ==
  /\ vm = NULL
  /\ pc[i] = "returned"
  /\ invocationStack' = IF invocationStack = <<>> THEN <<>> ELSE Tail(invocationStack)
  /\ pc' = [p \in Processes |->
              CASE p = i -> "done"
                [] p # i /\ pc[p] = "retrying" /\ invocationStack # <<>> -> "returning"
                [] OTHER -> pc[p]]
  /\ stackProtect' = IF stackProtect = i THEN NULL ELSE stackProtect
  /\ UNCHANGED <<cVars, callbackStack, taskQueue, callbackQueue, liveTasks, calls,
                 signalled, fetched, vm, below>>

\* The image is saved and started again: the frames, threads and queues of C are
\* gone, doInitialize gives the runner a new stack and a new stackProtect, and the
\* processes of the image go on.
Restart ==
  /\ Restarts # "never" /\ vm = NULL
  /\ Restarts = "quiet" => stackProtect = NULL
  /\ \E i \in Invocations : cpc[i] \in {"pushed", "waiting"}
  /\ \A i \in Invocations : cpc[i] # "lost"
  /\ cpc' = [i \in Invocations |-> IF cpc[i] = "none" THEN "none" ELSE "lost"]
  /\ wstack' = <<Loop(NULL)>>
  /\ callbackStack' = NULL /\ taskQueue' = <<>> /\ callbackQueue' = <<>>
  /\ liveTasks' = 0
  /\ fetched' = NULL /\ invocationStack' = <<>> /\ stackProtect' = NULL
  /\ UNCHANGED <<thread, previous, payload, pc, calls, signalled, vm, below>>

------------------------------------------------------------------------------
\* Every callout and every callback is over, within the bounds of the model.
Quiescent ==
  /\ \A p \in Callers : pc[p] = "body" /\ calls[p] = 0
  /\ \A i \in Invocations : pc[i] \in {"none", "done"} /\ cpc[i] \in {"none", "resumed", "lost"}

Rest == Quiescent /\ UNCHANGED vars

Thread ==
  \/ RunCallout \/ EndCallout \/ RunReturnToForeign \/ RunReturn
  \/ \E t \in Threads : EnterCallback(t)
  \/ \E i \in Invocations : PushCallback(i) \/ PostCallback(i) \/ ResumeForeign(i)

Image ==
  \/ \E p \in Processes : StartCallout(p) \/ FinishCallout(p)
  \/ FetchCallback \/ ExecuteCallback
  \/ \E i \in Invocations :
       \/ WriteReturnValue(i) \/ ReturnOfOldSession(i)
       \/ ReturnAccepted(i) \/ ReturnRefused(i)
       \/ WaitToRetry(i) \/ PopLoad(i) \/ PopStore(i) \/ PopInvocation(i)

Next == Thread \/ Image \/ Restart \/ Rest

Spec == Init /\ [][Next]_vars

(***************************************************************************)
(* C functions come back and handlers' blocks end; a thread or process     *)
(* that can go on does so.  Pharo semaphores are served first come, first  *)
(* served, so a process that waits for stackProtect is not starved.        *)
(***************************************************************************)
Fairness ==
  /\ WF_vars(RunCallout \/ EndCallout \/ RunReturnToForeign \/ RunReturn)
  /\ WF_vars(FetchCallback)
  /\ SF_vars(ExecuteCallback)
  /\ \A p \in Processes : WF_vars(FinishCallout(p))
  /\ \A i \in Invocations :
       /\ WF_vars(PushCallback(i) \/ PostCallback(i) \/ ResumeForeign(i))
       /\ WF_vars(WriteReturnValue(i) \/ WaitToRetry(i))
       /\ SF_vars(ReturnAccepted(i) \/ ReturnRefused(i))
       /\ WF_vars(PopLoad(i) \/ PopStore(i) \/ PopInvocation(i))

FairSpec == Spec /\ Fairness

------------------------------------------------------------------------------
(***************************************************************************)
(* Properties                                                              *)
(***************************************************************************)
\* Invocations whose CALLBACK_RETURN task has been put.
Returned == {i \in Invocations : pc[i] \in {"returned", "done"}}

\* Invocations that are on the runner's callback stack.
Live == {i \in Invocations : cpc[i] \in {"pushed", "waiting"}} \ Returned

\* Invocations are numbered in the order in which they are entered.
Newest(S) == IF S = {} THEN NULL ELSE CHOOSE i \in S : \A j \in S : j <= i

\* The types of the thread's, the runner's and the image's state.
TypeOK ==
  /\ wstack \in Seq([kind : {"loop"}, for : Invocations \cup {NULL}]
                    \cup [kind : {"function"}, for : Processes])
  /\ cpc \in [Invocations -> {"none", "loaded", "pushed", "waiting", "resumed", "lost"}]
  /\ thread \in [Invocations -> Threads \cup {NULL}]
  /\ previous \in [Invocations -> Invocations \cup {NULL}]
  /\ payload \in [Invocations -> {NULL, "created", "signalled", "freed"}]
  /\ callbackStack \in Invocations \cup {NULL}
  /\ taskQueue \in Seq([type : {"CALLOUT"}, for : Processes]
                       \cup [type : {"CALLBACK_RETURN"}, for : Invocations \cup {NULL}])
  /\ callbackQueue \in Seq(Invocations)
  /\ liveTasks \in Nat
  /\ pc \in [Processes -> {"none", "body", "calling", "returning", "refused",
                           "retrying", "accepted", "popping", "returned", "done"}]
  /\ calls \in [Processes -> Nat]
  /\ signalled \subseteq Processes
  /\ fetched \in Invocations \cup {NULL}
  /\ invocationStack \in Seq(Invocations)
  /\ stackProtect \in Invocations \cup {NULL}
  /\ vm \in Invocations \cup {NULL}
  /\ below \in Invocations \cup {NULL}

\* C goes on after a callback only when the handler of that very callback has
\* returned: until then the handler may still write the return value into the
\* frame, and the callback stack still points to it.  The comment in
\* primitiveCallbackReturn calls the opposite a stack corruption.
FrameOutlivesHandler ==
  \A i \in Invocations : cpc[i] = "resumed" => i \in Returned

\* The runner's callback stack and the image's stack hold the same invocations
\* in the same order, apart from the ones on their way between the two.
StacksAgree ==
  /\ callbackStack = Newest(Live)
  /\ \A i \in Live : previous[i] = Newest({j \in Live : j < i})
  /\ \A m, n \in 1..Len(invocationStack) : m < n => invocationStack[m] > invocationStack[n]

\* Every callback return ends one nested worker_run: the loops that are still
\* to end are as many as the callbacks that are still to return and the return
\* tasks in the queue, so the thread's own loop never ends.
ReturnsMatchLoops ==
  LET onWorker == {i \in Invocations : thread[i] = Worker /\ cpc[i] # "lost"}
      queued == {k \in DOMAIN taskQueue : taskQueue[k] = CallbackReturn(NULL)}
  IN Cardinality({i \in onWorker : cpc[i] # "resumed"}) =
       Cardinality(onWorker \ Returned) + Cardinality(queued)

\* The tasks that are allocated are the callouts that wait or run and one for each
\* callback that returned since the image was started: a callout's task is
\* released exactly once, also when callbacks nest in it and returns end in the
\* wrong frame.  The tasks of callback returns are released never: worker_run drops
\* them, although workerTask.c makes the caller responsible for freeing them.
OnlyReturnsLeakTasks ==
  liveTasks = Cardinality({k \in DOMAIN taskQueue : taskQueue[k].type = "CALLOUT"})
              + Cardinality({k \in DOMAIN wstack : wstack[k].kind = "function"})
              + Cardinality({i \in Returned : cpc[i] # "lost"})

\* From the moment a return is accepted until the image pops its stack, the
\* invocation on top is the one that returns, although new callbacks may be
\* fetched meanwhile; only after a restart there may be nothing to pop.
PopsItsOwn ==
  \A i \in Invocations :
    pc[i] \in {"accepted", "popping", "returned"} =>
      IF invocationStack = <<>> THEN cpc[i] = "lost" ELSE Head(invocationStack) = i

\* A refused return does not wait when nothing stands in its way any more:
\* nobody would signal callbackReturnSemaphore then.
NoLostWakeup ==
  \A i \in Invocations : pc[i] = "retrying" =>
    ~(invocationStack # <<>> /\ Head(invocationStack) = i /\ callbackStack = i)

\* With one caller, callouts and callbacks nest like calls.
Nesting == INSTANCE NestedCalls
             WITH active <- SubSeq(wstack, 1, Len(wstack) - 1), returned <- Returned,
                  Concurrent <- {}
ImplementsNesting == Nesting!Spec

\* Every function that was called comes back to its caller.
EveryCalloutReturns == \A p \in Processes : pc[p] = "calling" ~> pc[p] = "body"

\* Every callback that C calls returns to C: "it should retry later".
EveryCallbackReturns == \A i \in Invocations : cpc[i] = "loaded" ~> cpc[i] = "resumed"
==============================================================================
