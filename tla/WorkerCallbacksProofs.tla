------------------------ MODULE WorkerCallbacksProofs ------------------------
(***************************************************************************)
(* Proofs about the worker runner, for any callers, threads, callbacks and *)
(* restarts.                                                               *)
(***************************************************************************)
EXTENDS WorkerCallbacks, SequenceLemmas

LoopFrames == [kind : {"loop"}, for : Invocations \cup {NULL}]
FunctionFrames == [kind : {"function"}, for : Processes]
Frames == LoopFrames \cup FunctionFrames

CalloutTasks == [type : {"CALLOUT"}, for : Processes]
ReturnTasks == [type : {"CALLBACK_RETURN"}, for : Invocations \cup {NULL}]
Tasks == CalloutTasks \cup ReturnTasks

Labels == {"none", "body", "calling", "returning", "refused", "retrying", "accepted",
           "popping", "returned", "done"}
FrameLabels == {"none", "loaded", "pushed", "waiting", "resumed", "lost"}

\* The invocation is in callbackFrontend, and in it has not been queued yet.
Active == {"loaded", "pushed", "waiting"}
Unposted == {"none", "loaded", "pushed"}
Posted == {"waiting", "resumed"}

\* An invocation that was not called has no thread, one that was not queued has
\* no process, and the ones of foreign threads have a semaphore.
ThreadInv ==
  \A i \in Invocations :
    /\ cpc[i] = "none" <=> thread[i] = NULL
    /\ thread[i] # NULL => thread[i] \in Entering
    /\ cpc[i] \in Unposted => pc[i] = "none"
    /\ cpc[i] \in Posted => (payload[i] = NULL <=> thread[i] = Worker)

\* The thread's own loop is at the bottom of the worker's stack, and above it
\* there is one loop for each callback that the thread has not resumed.
LoopInv ==
  /\ wstack # <<>> /\ wstack[Len(wstack)] = Loop(NULL)
  /\ \A m, n \in 1..Len(wstack) : wstack[m] = wstack[n] /\ wstack[m] \in LoopFrames => m = n
  /\ \A n \in 1..Len(wstack), i \in Invocations :
       wstack[n] = Loop(i) => thread[i] = Worker /\ cpc[i] \in Active
  /\ \A i \in Invocations :
       thread[i] = Worker /\ cpc[i] \in Active => \E n \in 1..Len(wstack) : wstack[n] = Loop(i)

\* An invocation on its way to its handler is queued once and has no process.
QueueInv ==
  /\ \A n \in 1..Len(callbackQueue) :
       pc[callbackQueue[n]] = "none" /\ cpc[callbackQueue[n]] \in Posted
  /\ \A m, n \in 1..Len(callbackQueue) : callbackQueue[m] = callbackQueue[n] => m = n
  /\ fetched # NULL =>
       /\ pc[fetched] = "none" /\ cpc[fetched] \in Posted
       /\ \A n \in 1..Len(callbackQueue) : callbackQueue[n] # fetched

\* primitiveCallbackReturn is executed for one invocation of this session.
VMInv ==
  \A i \in Invocations :
    /\ vm = i <=> pc[i] \in {"accepted", "popping"}
    /\ pc[i] \in {"accepted", "popping"} => cpc[i] \in Posted
    /\ pc[i] = "accepted" => callbackStack # NULL

\* A foreign thread is woken only for an invocation that returned.
ForeignInv ==
  /\ \A n \in 1..Len(taskQueue) : \A i \in Invocations :
       taskQueue[n] = CallbackReturn(i) => thread[i] # Worker /\ i \in Returned
  /\ \A i \in Invocations :
       /\ payload[i] = "signalled" => thread[i] # Worker /\ i \in Returned
       /\ cpc[i] = "resumed" /\ thread[i] # Worker => i \in Returned

\* The process that returns is inside stackProtect until it popped.
ProtectInv ==
  \A i \in Invocations :
    pc[i] \in {"accepted", "popping", "returned"} => stackProtect = i

IInv ==
  /\ TypeOK
  /\ ThreadInv
  /\ LoopInv
  /\ QueueInv
  /\ VMInv
  /\ ForeignInv
  /\ OnlyReturnsLeakTasks
  /\ ReturnsMatchLoops
  /\ Restarts # "anytime" => ProtectInv /\ PopsItsOwn

------------------------------------------------------------------------------
\* The sets that the types are made of.
LEMMA TypeFacts ==
  ASSUME TypeOK
  PROVE  /\ wstack \in Seq(Frames) /\ Len(wstack) \in Nat
         /\ taskQueue \in Seq(Tasks) /\ Len(taskQueue) \in Nat
         /\ callbackQueue \in Seq(Invocations) /\ Len(callbackQueue) \in Nat
         /\ invocationStack \in Seq(Invocations)
         /\ pc \in [Processes -> Labels] /\ cpc \in [Invocations -> FrameLabels]
         /\ thread \in [Invocations -> Threads \cup {NULL}]
         /\ payload \in [Invocations -> {NULL, "created", "signalled", "freed"}]
         /\ previous \in [Invocations -> Invocations \cup {NULL}]
         /\ Invocations \subseteq Processes /\ NULL \notin Processes /\ NULL \notin Threads
         /\ NULL \notin {"created", "signalled", "freed"}
         /\ Invocations \subseteq Nat
  BY WorkerAssumption
     DEF TypeOK, Frames, LoopFrames, FunctionFrames, Tasks, CalloutTasks, ReturnTasks,
         Labels, FrameLabels, Processes, Invocations

\* The innermost frame of the worker, and the frames below it.
LEMMA StackFacts ==
  ASSUME IInv
  PROVE  /\ wstack # <<>> /\ Len(wstack) \in Nat \ {0}
         /\ Head(wstack) = wstack[1] /\ Head(wstack) \in Frames
         /\ Tail(wstack) \in Seq(Frames) /\ Len(Tail(wstack)) = Len(wstack) - 1
         /\ \A n \in 1..Len(Tail(wstack)) : Tail(wstack)[n] = wstack[n + 1]
         /\ Head(wstack).kind = "function" =>
              Head(wstack) \in FunctionFrames /\ Head(wstack) \notin LoopFrames
              /\ Head(wstack).for \in Processes
         /\ Head(wstack).kind = "loop" =>
              Head(wstack) \in LoopFrames /\ Head(wstack) \notin FunctionFrames
              /\ Head(wstack).for \in Invocations \cup {NULL}
              /\ Head(wstack) = Loop(Head(wstack).for)
<1>1. wstack \in Seq(Frames) /\ wstack # <<>>
  BY TypeFacts DEF IInv, LoopInv
<1>2. /\ Head(wstack) \in Frames
      /\ Tail(wstack) \in Seq(Frames) /\ Len(Tail(wstack)) = Len(wstack) - 1
      /\ \A n \in 1..Len(Tail(wstack)) : Tail(wstack)[n] = wstack[n + 1]
  BY <1>1, HeadTailProperties
<1>3. Len(wstack) \in Nat \ {0} /\ Head(wstack) = wstack[1]
  BY <1>1, EmptySeq
<1>4. ASSUME Head(wstack).kind = "function"
      PROVE  /\ Head(wstack) \in FunctionFrames /\ Head(wstack) \notin LoopFrames
             /\ Head(wstack).for \in Processes
  BY <1>2, <1>4 DEF Frames, LoopFrames, FunctionFrames
<1>5. ASSUME Head(wstack).kind = "loop"
      PROVE  /\ Head(wstack) \in LoopFrames /\ Head(wstack) \notin FunctionFrames
             /\ Head(wstack).for \in Invocations \cup {NULL}
             /\ Head(wstack) = Loop(Head(wstack).for)
  BY <1>2, <1>5 DEF Frames, LoopFrames, FunctionFrames, Loop
<1> QED
  BY <1>1, <1>2, <1>3, <1>4, <1>5

\* The first task of the queue, and the ones behind it.
LEMMA TaskFacts ==
  ASSUME TypeOK, taskQueue # <<>>
  PROVE  /\ Len(taskQueue) \in Nat \ {0}
         /\ Head(taskQueue) = taskQueue[1] /\ Head(taskQueue) \in Tasks
         /\ Tail(taskQueue) \in Seq(Tasks) /\ Len(Tail(taskQueue)) = Len(taskQueue) - 1
         /\ \A n \in 1..Len(Tail(taskQueue)) : Tail(taskQueue)[n] = taskQueue[n + 1]
         /\ Head(taskQueue).type = "CALLOUT" =>
              Head(taskQueue) \in CalloutTasks /\ Head(taskQueue).for \in Processes
              /\ Head(taskQueue) \notin {CallbackReturn(NULL)}
         /\ Head(taskQueue).type = "CALLBACK_RETURN" =>
              Head(taskQueue) \notin CalloutTasks
              /\ Head(taskQueue).for \in Invocations \cup {NULL}
              /\ Head(taskQueue) = CallbackReturn(Head(taskQueue).for)
<1>1. taskQueue \in Seq(Tasks)
  BY TypeFacts
<1>2. /\ Head(taskQueue) \in Tasks
      /\ Tail(taskQueue) \in Seq(Tasks) /\ Len(Tail(taskQueue)) = Len(taskQueue) - 1
      /\ \A n \in 1..Len(Tail(taskQueue)) : Tail(taskQueue)[n] = taskQueue[n + 1]
  BY <1>1, HeadTailProperties
<1>3. Len(taskQueue) \in Nat \ {0} /\ Head(taskQueue) = taskQueue[1]
  BY <1>1, EmptySeq
<1>4. ASSUME Head(taskQueue).type = "CALLOUT"
      PROVE  /\ Head(taskQueue) \in CalloutTasks /\ Head(taskQueue).for \in Processes
             /\ Head(taskQueue) \notin {CallbackReturn(NULL)}
  BY <1>2, <1>4 DEF Tasks, CalloutTasks, ReturnTasks, CallbackReturn
<1>5. ASSUME Head(taskQueue).type = "CALLBACK_RETURN"
      PROVE  /\ Head(taskQueue) \notin CalloutTasks
             /\ Head(taskQueue).for \in Invocations \cup {NULL}
             /\ Head(taskQueue) = CallbackReturn(Head(taskQueue).for)
  BY <1>2, <1>5 DEF Tasks, CalloutTasks, ReturnTasks, CallbackReturn
<1> QED
  BY <1>1, <1>2, <1>3, <1>4, <1>5

\* The task that primitiveCallbackReturn puts.
LEMMA ReturnTaskFacts ==
  ASSUME TypeOK, NEW i \in Invocations, PopStore(i)
  PROVE  /\ taskQueue' \in Seq(Tasks)
         /\ Len(taskQueue') = Len(taskQueue) + 1
         /\ \A n \in 1..Len(taskQueue) : taskQueue'[n] = taskQueue[n]
         /\ taskQueue'[Len(taskQueue) + 1] = CallbackReturn(IF HasSemaphore(i) THEN i ELSE NULL)
<1> DEFINE x == CallbackReturn(IF HasSemaphore(i) THEN i ELSE NULL)
<1>1. taskQueue' = Append(taskQueue, x)
  BY DEF PopStore
<1>2. x \in Tasks
  BY DEF Tasks, ReturnTasks, CallbackReturn
<1>3. taskQueue \in Seq(Tasks)
  BY TypeFacts
<1> HIDE DEF x
<1>4. /\ Append(taskQueue, x) \in Seq(Tasks)
      /\ Len(Append(taskQueue, x)) = Len(taskQueue) + 1
      /\ \A n \in 1..Len(taskQueue) : Append(taskQueue, x)[n] = taskQueue[n]
      /\ Append(taskQueue, x)[Len(taskQueue) + 1] = x
  BY <1>2, <1>3, AppendProperties
<1> QED
  BY <1>1, <1>4 DEF x

\* OnlyReturnsLeakTasks counts elements of the queue and of the stack.
ReturnedHere == {i \in Returned : cpc[i] # "lost"}
LeakSum == Count(taskQueue, CalloutTasks) + Count(wstack, FunctionFrames)
           + Cardinality(ReturnedHere)

\* The sets that are counted are the positions of callouts and of functions.
LEMMA LeakFacts ==
  ASSUME TypeOK
  PROVE  /\ OnlyReturnsLeakTasks <=> liveTasks = LeakSum
         /\ Count(taskQueue, CalloutTasks) \in Nat
         /\ Count(wstack, FunctionFrames) \in Nat
         /\ IsFiniteSet(ReturnedHere) /\ Cardinality(ReturnedHere) \in Nat
<1>1. /\ wstack \in Seq(Frames) /\ DOMAIN wstack = 1..Len(wstack)
      /\ taskQueue \in Seq(Tasks) /\ DOMAIN taskQueue = 1..Len(taskQueue)
  BY TypeFacts
<1>2. {k \in DOMAIN taskQueue : taskQueue[k].type = "CALLOUT"} = Positions(taskQueue, CalloutTasks)
  <2>1. \A k \in 1..Len(taskQueue) : taskQueue[k] \in Tasks
    BY <1>1
  <2> QED
    BY <1>1, <2>1 DEF Positions, Tasks, CalloutTasks, ReturnTasks
<1>3. {k \in DOMAIN wstack : wstack[k].kind = "function"} = Positions(wstack, FunctionFrames)
  <2>1. \A k \in 1..Len(wstack) : wstack[k] \in Frames
    BY <1>1
  <2> QED
    BY <1>1, <2>1 DEF Positions, Frames, FunctionFrames, LoopFrames
<1>4. IsFiniteSet(ReturnedHere) /\ Cardinality(ReturnedHere) \in Nat
  <2>1. IsFiniteSet(Invocations)
    BY WorkerAssumption, FS_Interval DEF Invocations
  <2>2. ReturnedHere \in SUBSET Invocations
    BY DEF ReturnedHere, Returned
  <2> QED
    BY <2>1, <2>2, FS_Subset, FS_CardinalityType
<1>5. OnlyReturnsLeakTasks <=> liveTasks = LeakSum
  BY <1>2, <1>3 DEF OnlyReturnsLeakTasks, LeakSum, Count, ReturnedHere
<1> QED
  BY <1>1, <1>4, <1>5, CountType

\* A function that comes back has a task that is allocated.
LEMMA EndCalloutHasTask ==
  ASSUME IInv, EndCallout
  PROVE  liveTasks - 1 \in Nat
<1>1. Head(wstack) \in FunctionFrames /\ wstack \in Seq(Frames) /\ wstack # <<>>
  BY StackFacts, TypeFacts DEF EndCallout, IInv
<1>2. Count(Tail(wstack), FunctionFrames) \in Nat
  BY StackFacts, CountType
<1>3. Count(wstack, FunctionFrames) = Count(Tail(wstack), FunctionFrames) + 1
  BY <1>1, CountTail
<1>4. liveTasks = LeakSum /\ liveTasks \in Nat
  BY LeakFacts DEF IInv, TypeOK
<1> QED
  BY <1>2, <1>3, <1>4, LeakFacts DEF LeakSum, IInv

\* Every step keeps the types.
LEMMA TypeStep == IInv /\ [Next]_vars => TypeOK'
<1> SUFFICES ASSUME IInv, [Next]_vars PROVE TypeOK'
  OBVIOUS
<1> USE WorkerAssumption DEF IInv, TypeOK, Processes
<1>1. ASSUME NEW p \in Processes, StartCallout(p) PROVE TypeOK'
  <2>1. taskQueue' \in Seq(Tasks)
    BY <1>1, TypeFacts DEF StartCallout, Callout, Tasks, CalloutTasks
  <2>2. calls' \in [Processes -> Nat]
    BY <1>1 DEF StartCallout
  <2> QED
    BY <1>1, <2>1, <2>2 DEF StartCallout, cVars, Tasks, CalloutTasks, ReturnTasks
<1>2. ASSUME NEW p \in Processes, FinishCallout(p) PROVE TypeOK'
  BY <1>2 DEF FinishCallout, cVars, imageVars
<1>3. CASE RunCallout
  <2>1. Function(Head(taskQueue).for) \in Frames
    BY <1>3, TaskFacts DEF RunCallout, Function, Frames, FunctionFrames
  <2>2. wstack' \in Seq(Frames)
    BY <1>3, <2>1, TypeFacts, PushProperties DEF RunCallout
  <2>3. taskQueue' \in Seq(Tasks)
    BY <1>3, TaskFacts DEF RunCallout
  <2> QED
    BY <1>3, <2>2, <2>3 DEF RunCallout, imageVars, Frames, LoopFrames, FunctionFrames, Tasks, CalloutTasks, ReturnTasks
<1>4. CASE EndCallout
  <2>1. wstack' \in Seq(Frames) /\ Head(wstack).for \in Processes
    BY <1>4, StackFacts DEF EndCallout
  <2>2. liveTasks' \in Nat
    BY <1>4, EndCalloutHasTask DEF EndCallout
  <2> QED
    BY <1>4, <2>1, <2>2 DEF EndCallout, imageVars, Frames, LoopFrames, FunctionFrames
<1>5. CASE RunReturnToForeign
  <2>1. taskQueue' \in Seq(Tasks)
    BY <1>5, TaskFacts DEF RunReturnToForeign
  <2> QED
    BY <1>5, <2>1 DEF RunReturnToForeign, imageVars, Tasks, CalloutTasks, ReturnTasks
<1>6. CASE RunReturn
  <2>1. taskQueue' \in Seq(Tasks)
    BY <1>6, TaskFacts DEF RunReturn
  <2>2. wstack' \in Seq(Frames)
    BY <1>6, StackFacts DEF RunReturn
  <2> QED
    BY <1>6, <2>1, <2>2 DEF RunReturn, imageVars, Frames, LoopFrames, FunctionFrames, Tasks, CalloutTasks, ReturnTasks
<1>7. ASSUME NEW t \in Threads, EnterCallback(t) PROVE TypeOK'
  <2>1. PICK i \in Invocations :
           /\ cpc' = [cpc EXCEPT ![i] = "loaded"]
           /\ thread' = [thread EXCEPT ![i] = t]
           /\ previous' = [previous EXCEPT ![i] = callbackStack]
           /\ wstack' = IF t = Worker THEN <<Loop(i)>> \o wstack ELSE wstack
    BY <1>7 DEF EnterCallback
  <2>2. Loop(i) \in Frames
    BY DEF Loop, Frames, LoopFrames
  <2>3. wstack' \in Seq(Frames)
    BY <2>1, <2>2, TypeFacts, PushProperties
  <2> QED
    BY <1>7, <2>1, <2>3 DEF EnterCallback, imageVars, Frames, LoopFrames, FunctionFrames
<1>8. ASSUME NEW i \in Invocations, PushCallback(i) PROVE TypeOK'
  BY <1>8 DEF PushCallback, cVars, imageVars
<1>9. ASSUME NEW i \in Invocations, PostCallback(i) PROVE TypeOK'
  <2>1. callbackQueue' \in Seq(Invocations)
    BY <1>9 DEF PostCallback
  <2> QED
    BY <1>9, <2>1 DEF PostCallback, imageVars
<1>10. ASSUME NEW i \in Invocations, ResumeForeign(i) PROVE TypeOK'
  BY <1>10 DEF ResumeForeign, cVars, imageVars
<1>11. CASE FetchCallback
  <2>1. Head(callbackQueue) \in Invocations /\ Tail(callbackQueue) \in Seq(Invocations)
    BY <1>11, HeadTailProperties DEF FetchCallback
  <2> QED
    BY <1>11, <2>1 DEF FetchCallback, cVars
<1>12. CASE ExecuteCallback
  <2>1. invocationStack' \in Seq(Invocations)
    BY <1>12, PushProperties DEF ExecuteCallback
  <2> QED
    BY <1>12, <2>1 DEF ExecuteCallback, cVars
<1>13. ASSUME NEW i \in Invocations, WriteReturnValue(i) PROVE TypeOK'
  BY <1>13 DEF WriteReturnValue, cVars, imageVars
<1>14. ASSUME NEW i \in Invocations, ReturnOfOldSession(i) PROVE TypeOK'
  BY <1>14 DEF ReturnOfOldSession, cVars, imageVars
<1>15. ASSUME NEW i \in Invocations, ReturnAccepted(i) PROVE TypeOK'
  BY <1>15 DEF ReturnAccepted, cVars, imageVars
<1>16. ASSUME NEW i \in Invocations, ReturnRefused(i) PROVE TypeOK'
  BY <1>16 DEF ReturnRefused, cVars, imageVars
<1>17. ASSUME NEW i \in Invocations, WaitToRetry(i) PROVE TypeOK'
  BY <1>17 DEF WaitToRetry, cVars, imageVars
<1>18. ASSUME NEW i \in Invocations, PopLoad(i) PROVE TypeOK'
  <2>1. previous[callbackStack] \in Invocations \cup {NULL}
    BY <1>18 DEF PopLoad, VMInv
  <2> QED
    BY <1>18, <2>1 DEF PopLoad, cVars, imageVars
<1>19. ASSUME NEW i \in Invocations, PopStore(i) PROVE TypeOK'
  <2>1. taskQueue' \in Seq(Tasks)
    BY <1>19, ReturnTaskFacts
  <2> QED
    BY <1>19, <2>1 DEF PopStore, cVars, imageVars, Tasks, CalloutTasks, ReturnTasks
<1>20. ASSUME NEW i \in Invocations, PopInvocation(i) PROVE TypeOK'
  <2>1. invocationStack' \in Seq(Invocations)
    BY <1>20, HeadTailProperties DEF PopInvocation
  <2>2. pc' \in [Processes -> {"none", "body", "calling", "returning", "refused",
                           "retrying", "accepted", "popping", "returned", "done"}]
    BY <1>20 DEF PopInvocation
  <2> QED
    BY <1>20, <2>1, <2>2 DEF PopInvocation, cVars
<1>21. CASE Restart
  <2>1. wstack' \in Seq(Frames)
    <3>1. Loop(NULL) \in Frames
      BY DEF Loop, Frames, LoopFrames
    <3> QED
      BY <1>21, <3>1 DEF Restart
  <2> QED
    BY <1>21, <2>1 DEF Restart, Frames, LoopFrames, FunctionFrames
<1>22. CASE Rest \/ UNCHANGED vars
  BY <1>22 DEF Rest, vars, cVars, imageVars
<1> QED
  BY <1>1, <1>2, <1>3, <1>4, <1>5, <1>6, <1>7, <1>8, <1>9, <1>10, <1>11,
     <1>12, <1>13, <1>14, <1>15, <1>16, <1>17, <1>18, <1>19, <1>20, <1>21,
     <1>22 DEF Next, Thread, Image

\* The invocation that EnterCallback takes.
LEMMA EnterFacts ==
  ASSUME IInv, NEW t \in Threads, EnterCallback(t)
  PROVE  \E i \in Invocations :
           /\ t \in Entering
           /\ cpc[i] = "none" /\ thread[i] = NULL /\ pc[i] = "none"
           /\ \A j \in 1..(i - 1) : cpc[j] # "none"
           /\ cpc' = [cpc EXCEPT ![i] = "loaded"]
           /\ thread' = [thread EXCEPT ![i] = t]
           /\ previous' = [previous EXCEPT ![i] = callbackStack]
           /\ wstack' = IF t = Worker THEN <<Loop(i)>> \o wstack ELSE wstack
<1>1. PICK i \in Invocations :
           /\ cpc[i] = "none" /\ \A j \in 1..(i - 1) : cpc[j] # "none"
           /\ cpc' = [cpc EXCEPT ![i] = "loaded"]
           /\ thread' = [thread EXCEPT ![i] = t]
           /\ previous' = [previous EXCEPT ![i] = callbackStack]
           /\ wstack' = IF t = Worker THEN <<Loop(i)>> \o wstack ELSE wstack
  BY DEF EnterCallback
<1>2. thread[i] = NULL /\ pc[i] = "none" /\ t \in Entering
  BY <1>1 DEF IInv, ThreadInv, Unposted, EnterCallback, CanEnter
<1> QED
  BY <1>1, <1>2

\* The invocation whose loop RunReturn ends was entered on the worker's thread.
LEMMA RunReturnFacts ==
  ASSUME IInv, RunReturn
  PROVE  /\ Head(wstack) \in LoopFrames /\ Head(wstack) = Loop(Head(wstack).for)
         /\ Head(wstack).for \in Invocations \cup {NULL}
         /\ Head(wstack).for \in Invocations =>
              cpc[Head(wstack).for] = "waiting" /\ thread[Head(wstack).for] = Worker
         /\ cpc' = [i \in Invocations |-> IF i = Head(wstack).for THEN "resumed" ELSE cpc[i]]
         /\ wstack' = Tail(wstack) /\ taskQueue' = Tail(taskQueue)
         /\ taskQueue # <<>> /\ Head(taskQueue) = CallbackReturn(NULL)
         /\ Head(taskQueue) \notin CalloutTasks
<1>1. /\ Head(wstack) \in LoopFrames /\ Head(wstack) = Loop(Head(wstack).for)
      /\ Head(wstack).for \in Invocations \cup {NULL}
  BY StackFacts DEF RunReturn, InLoop
<1>2. 1 \in 1..Len(wstack) /\ Head(wstack) = wstack[1]
  BY StackFacts
<1>3. ASSUME Head(wstack).for \in Invocations
      PROVE  cpc[Head(wstack).for] = "waiting" /\ thread[Head(wstack).for] = Worker
  <2>1. Head(wstack).for # NULL
    BY <1>3, TypeFacts DEF IInv
  <2>2. cpc[Head(wstack).for] = "waiting"
    BY <2>1 DEF RunReturn, InLoop
  <2>3. thread[Head(wstack).for] = Worker
    BY <1>1, <1>2, <1>3 DEF IInv, LoopInv
  <2> QED
    BY <2>2, <2>3
<1>4. /\ taskQueue # <<>> /\ Head(taskQueue) = CallbackReturn(NULL)
      /\ Head(taskQueue) \notin CalloutTasks
  BY TaskFacts DEF RunReturn, IInv
<1> QED
  BY <1>1, <1>3, <1>4 DEF RunReturn

\* The part about threads and processes.
LEMMA ThreadStep == IInv /\ [Next]_vars => ThreadInv'
<1> SUFFICES ASSUME IInv, [Next]_vars PROVE ThreadInv'
  OBVIOUS
<1>1. ASSUME NEW p \in Processes, StartCallout(p) PROVE ThreadInv'
  BY <1>1, TypeFacts DEF StartCallout, cVars, imageVars, IInv, ThreadInv, Unposted, Posted
<1>2. ASSUME NEW p \in Processes, FinishCallout(p) PROVE ThreadInv'
  BY <1>2, TypeFacts DEF FinishCallout, cVars, imageVars, IInv, ThreadInv, Unposted, Posted
<1>3. CASE RunCallout
  BY <1>3, TypeFacts DEF RunCallout, cVars, imageVars, IInv, ThreadInv, Unposted, Posted
<1>4. CASE EndCallout
  BY <1>4, TypeFacts DEF EndCallout, cVars, imageVars, IInv, ThreadInv, Unposted, Posted
<1>5. CASE RunReturnToForeign
  <2>1. Head(taskQueue).for \in Invocations /\ thread[Head(taskQueue).for] # Worker
    <3>1. 1 \in 1..Len(taskQueue) /\ taskQueue[1] = CallbackReturn(Head(taskQueue).for)
          /\ Head(taskQueue).for \in Invocations
      BY <1>5, TaskFacts DEF RunReturnToForeign, IInv
    <3> QED
      BY <3>1 DEF IInv, ForeignInv
  <2> QED
    BY <1>5, <2>1, TypeFacts DEF RunReturnToForeign, cVars, imageVars, IInv, ThreadInv, Unposted, Posted
<1>6. CASE RunReturn
  BY <1>6, RunReturnFacts, TypeFacts
     DEF RunReturn, imageVars, IInv, ThreadInv, Unposted, Posted
<1>7. ASSUME NEW t \in Threads, EnterCallback(t) PROVE ThreadInv'
  <2>1. PICK i \in Invocations :
           /\ cpc[i] = "none" /\ thread[i] = NULL /\ pc[i] = "none" /\ t \in Entering
           /\ cpc' = [cpc EXCEPT ![i] = "loaded"]
           /\ thread' = [thread EXCEPT ![i] = t]
    BY <1>7, EnterFacts
  <2> QED
    BY <1>7, <2>1, TypeFacts DEF EnterCallback, imageVars, IInv, ThreadInv, Unposted, Posted
<1>8. ASSUME NEW i \in Invocations, PushCallback(i) PROVE ThreadInv'
  BY <1>8, TypeFacts DEF PushCallback, cVars, imageVars, IInv, ThreadInv, Unposted, Posted
<1>9. ASSUME NEW i \in Invocations, PostCallback(i) PROVE ThreadInv'
  BY <1>9, TypeFacts
     DEF PostCallback, imageVars, IInv, ThreadInv, Unposted, Posted
<1>10. ASSUME NEW i \in Invocations, ResumeForeign(i) PROVE ThreadInv'
  BY <1>10, TypeFacts DEF ResumeForeign, cVars, imageVars, IInv, ThreadInv, Unposted, Posted
<1>11. CASE FetchCallback
  BY <1>11, TypeFacts DEF FetchCallback, cVars, imageVars, IInv, ThreadInv, Unposted, Posted
<1>12. CASE ExecuteCallback
  BY <1>12, TypeFacts
     DEF ExecuteCallback, cVars, IInv, TypeOK, QueueInv, ThreadInv, Unposted, Posted
<1>13. ASSUME NEW i \in Invocations, WriteReturnValue(i) PROVE ThreadInv'
  BY <1>13, TypeFacts DEF WriteReturnValue, cVars, imageVars, IInv, ThreadInv, Unposted, Posted
<1>14. ASSUME NEW i \in Invocations, ReturnOfOldSession(i) PROVE ThreadInv'
  BY <1>14, TypeFacts DEF ReturnOfOldSession, cVars, imageVars, IInv, ThreadInv, Unposted, Posted
<1>15. ASSUME NEW i \in Invocations, ReturnAccepted(i) PROVE ThreadInv'
  BY <1>15, TypeFacts DEF ReturnAccepted, cVars, imageVars, IInv, ThreadInv, Unposted, Posted
<1>16. ASSUME NEW i \in Invocations, ReturnRefused(i) PROVE ThreadInv'
  BY <1>16, TypeFacts DEF ReturnRefused, cVars, imageVars, IInv, ThreadInv, Unposted, Posted
<1>17. ASSUME NEW i \in Invocations, WaitToRetry(i) PROVE ThreadInv'
  BY <1>17, TypeFacts DEF WaitToRetry, cVars, imageVars, IInv, ThreadInv, Unposted, Posted
<1>18. ASSUME NEW i \in Invocations, PopLoad(i) PROVE ThreadInv'
  BY <1>18, TypeFacts DEF PopLoad, cVars, imageVars, IInv, ThreadInv, Unposted, Posted
<1>19. ASSUME NEW i \in Invocations, PopStore(i) PROVE ThreadInv'
  BY <1>19, TypeFacts DEF PopStore, cVars, imageVars, IInv, ThreadInv, Unposted, Posted
<1>20. ASSUME NEW i \in Invocations, PopInvocation(i) PROVE ThreadInv'
  BY <1>20, TypeFacts DEF PopInvocation, cVars, imageVars, IInv, ThreadInv, Unposted, Posted
<1>21. CASE Restart
  BY <1>21, TypeFacts DEF Restart, cVars, imageVars, IInv, ThreadInv, Unposted, Posted
<1>22. CASE Rest \/ UNCHANGED vars
  BY <1>22, TypeFacts DEF Rest, vars, cVars, imageVars, IInv, ThreadInv, Unposted, Posted
<1> QED
  BY <1>1, <1>2, <1>3, <1>4, <1>5, <1>6, <1>7, <1>8, <1>9, <1>10, <1>11,
     <1>12, <1>13, <1>14, <1>15, <1>16, <1>17, <1>18, <1>19, <1>20, <1>21,
     <1>22 DEF Next, Thread, Image

\* ReturnsMatchLoops counts elements of the queue.
OnWorker == {i \in Invocations : thread[i] = Worker /\ cpc[i] # "lost"}
Unresumed == {i \in OnWorker : cpc[i] # "resumed"}
Unreturned == OnWorker \ Returned
QueuedReturns == Count(taskQueue, {CallbackReturn(NULL)})

\* The sets that are counted are finite.
LEMMA MatchFacts ==
  ASSUME TypeOK
  PROVE  /\ ReturnsMatchLoops <=>
              Cardinality(Unresumed) = Cardinality(Unreturned) + QueuedReturns
         /\ IsFiniteSet(Unresumed) /\ Cardinality(Unresumed) \in Nat
         /\ IsFiniteSet(Unreturned) /\ Cardinality(Unreturned) \in Nat
         /\ QueuedReturns \in Nat
<1>1. taskQueue \in Seq(Tasks) /\ DOMAIN taskQueue = 1..Len(taskQueue)
  BY TypeFacts
<1>2. {k \in DOMAIN taskQueue : taskQueue[k] = CallbackReturn(NULL)}
        = Positions(taskQueue, {CallbackReturn(NULL)})
  BY <1>1 DEF Positions
<1>3. ReturnsMatchLoops <=>
        Cardinality(Unresumed) = Cardinality(Unreturned) + QueuedReturns
  BY <1>2 DEF ReturnsMatchLoops, OnWorker, Unresumed, Unreturned, QueuedReturns, Count
<1>4. IsFiniteSet(Invocations)
  BY WorkerAssumption, FS_Interval DEF Invocations
<1>5. Unresumed \in SUBSET Invocations /\ Unreturned \in SUBSET Invocations
  BY DEF Unresumed, Unreturned, OnWorker
<1>6. /\ IsFiniteSet(Unresumed) /\ Cardinality(Unresumed) \in Nat
      /\ IsFiniteSet(Unreturned) /\ Cardinality(Unreturned) \in Nat
  BY <1>4, <1>5, FS_Subset, FS_CardinalityType
<1>7. QueuedReturns \in Nat
  BY <1>1, CountType DEF QueuedReturns
<1> QED
  BY <1>3, <1>6, <1>7

\* The return task that RunReturn takes belongs to a nested loop.
LEMMA NoReturnForOwnLoop ==
  ASSUME IInv, RunReturn
  PROVE  \E i \in Invocations : thread[i] = Worker /\ cpc[i] \in Active
<1> SUFFICES ASSUME ~\E i \in Invocations : thread[i] = Worker /\ cpc[i] \in Active
             PROVE  FALSE
  OBVIOUS
<1>1. Unresumed = {}
  <2> SUFFICES ASSUME NEW i \in Unresumed PROVE FALSE
    OBVIOUS
  <2>1. i \in Invocations /\ thread[i] = Worker /\ cpc[i] \notin {"lost", "resumed"}
    BY DEF Unresumed, OnWorker
  <2>2. Worker # NULL
    BY TypeFacts DEF IInv, Threads
  <2>3. cpc[i] # "none"
    BY <2>1, <2>2 DEF IInv, ThreadInv
  <2>4. cpc[i] \in FrameLabels
    BY <2>1, TypeFacts DEF IInv
  <2>5. cpc[i] \in Active
    BY <2>1, <2>3, <2>4 DEF Active, FrameLabels
  <2> QED
    BY <2>1, <2>5
<1>2. QueuedReturns = 0
  BY <1>1, MatchFacts, FS_EmptySet DEF IInv
<1>3. /\ taskQueue \in Seq(Tasks) /\ 1 \in 1..Len(taskQueue)
      /\ taskQueue[1] \in {CallbackReturn(NULL)}
  BY RunReturnFacts, TaskFacts, TypeFacts DEF IInv
<1> QED
  BY <1>2, <1>3, CountType DEF QueuedReturns

\* The part about the worker's loops.
LEMMA LoopStep == IInv /\ [Next]_vars => LoopInv'
<1> SUFFICES ASSUME IInv, [Next]_vars PROVE LoopInv'
  OBVIOUS
<1>1. ASSUME NEW p \in Processes, StartCallout(p) PROVE LoopInv'
  BY <1>1 DEF StartCallout, cVars, imageVars, IInv, LoopInv
<1>2. ASSUME NEW p \in Processes, FinishCallout(p) PROVE LoopInv'
  BY <1>2 DEF FinishCallout, cVars, imageVars, IInv, LoopInv
<1>3. CASE RunCallout
  <2>1. Function(Head(taskQueue).for) \in Frames
        /\ Function(Head(taskQueue).for) \notin LoopFrames
    BY <1>3, TaskFacts DEF RunCallout, IInv, Function, Frames, FunctionFrames, LoopFrames
  <2>2. /\ Len(wstack') = Len(wstack) + 1 /\ Len(wstack) \in Nat \ {0}
        /\ wstack' # <<>> /\ wstack'[1] \notin LoopFrames
        /\ \A n \in 1..Len(wstack) : wstack'[n + 1] = wstack[n]
        /\ \A n \in 2..(Len(wstack) + 1) : wstack'[n] = wstack[n - 1]
    BY <1>3, <2>1, TypeFacts, StackFacts, PushProperties DEF RunCallout, IInv
  <2>3. \A i \in Invocations : Loop(i) \in LoopFrames
    BY DEF Loop, LoopFrames
  <2>4. cpc' = cpc /\ thread' = thread
    BY <1>3 DEF RunCallout
  <2>5. wstack'[Len(wstack')] = Loop(NULL)
    BY <2>2 DEF IInv, LoopInv
  <2>6. \A m, n \in 1..Len(wstack') : wstack'[m] = wstack'[n] /\ wstack'[m] \in LoopFrames => m = n
    BY <2>2 DEF IInv, LoopInv
  <2>7. \A n \in 1..Len(wstack'), i \in Invocations :
          wstack'[n] = Loop(i) => thread'[i] = Worker /\ cpc'[i] \in Active
    BY <2>2, <2>3, <2>4 DEF IInv, LoopInv
  <2>8. \A i \in Invocations :
          thread'[i] = Worker /\ cpc'[i] \in Active => \E n \in 1..Len(wstack') : wstack'[n] = Loop(i)
    <3> SUFFICES ASSUME NEW i \in Invocations, thread'[i] = Worker, cpc'[i] \in Active
                 PROVE \E n \in 1..Len(wstack') : wstack'[n] = Loop(i)
      OBVIOUS
    <3>1. PICK n \in 1..Len(wstack) : wstack[n] = Loop(i)
      BY <2>4 DEF IInv, LoopInv
    <3>2. n + 1 \in 1..Len(wstack') /\ wstack'[n + 1] = Loop(i)
      BY <2>2, <3>1
    <3> QED
      BY <3>2
  <2> QED
    BY <2>2, <2>5, <2>6, <2>7, <2>8 DEF LoopInv
<1>4. CASE EndCallout
  <2>1. /\ Len(wstack) \in Nat \ {0} /\ wstack \in Seq(Frames)
        /\ wstack' = Tail(wstack) /\ wstack[1] \notin LoopFrames
        /\ Len(wstack') = Len(wstack) - 1
        /\ \A n \in 1..Len(wstack') : wstack'[n] = wstack[n + 1]
    BY <1>4, StackFacts, TypeFacts DEF EndCallout, IInv
  <2>2. wstack[Len(wstack)] \in LoopFrames
    BY DEF IInv, LoopInv, Loop, LoopFrames
  <2>3. Len(wstack) # 1 /\ wstack' # <<>>
    BY <2>1, <2>2
  <2>4. \A i \in Invocations : Loop(i) \in LoopFrames
    BY DEF Loop, LoopFrames
  <2>5. cpc' = cpc /\ thread' = thread
    BY <1>4 DEF EndCallout
  <2>6. wstack'[Len(wstack')] = Loop(NULL)
    BY <2>1, <2>3 DEF IInv, LoopInv
  <2>7. \A m, n \in 1..Len(wstack') : wstack'[m] = wstack'[n] /\ wstack'[m] \in LoopFrames => m = n
    <3> TAKE m, n \in 1..Len(wstack')
    <3>1. m + 1 \in 1..Len(wstack) /\ n + 1 \in 1..Len(wstack)
      BY <2>1
    <3> QED
      BY <2>1, <3>1 DEF IInv, LoopInv
  <2>8. \A n \in 1..Len(wstack'), i \in Invocations :
          wstack'[n] = Loop(i) => thread'[i] = Worker /\ cpc'[i] \in Active
    <3> TAKE n \in 1..Len(wstack'), i \in Invocations
    <3>1. n + 1 \in 1..Len(wstack) /\ wstack'[n] = wstack[n + 1]
      BY <2>1
    <3> QED
      BY <2>5, <3>1 DEF IInv, LoopInv
  <2>9. \A i \in Invocations :
          thread'[i] = Worker /\ cpc'[i] \in Active => \E n \in 1..Len(wstack') : wstack'[n] = Loop(i)
    <3> SUFFICES ASSUME NEW i \in Invocations, thread'[i] = Worker, cpc'[i] \in Active
                 PROVE \E n \in 1..Len(wstack') : wstack'[n] = Loop(i)
      OBVIOUS
    <3>1. PICK n \in 1..Len(wstack) : wstack[n] = Loop(i)
      BY <2>5 DEF IInv, LoopInv
    <3>2. n # 1
      BY <2>1, <2>4, <3>1
    <3>3. n - 1 \in 1..Len(wstack') /\ wstack'[n - 1] = wstack[n]
      BY <2>1, <3>2
    <3> QED
      BY <3>1, <3>3
  <2> QED
    BY <2>3, <2>6, <2>7, <2>8, <2>9 DEF LoopInv
<1>5. CASE RunReturnToForeign
  BY <1>5 DEF RunReturnToForeign, cVars, imageVars, IInv, LoopInv
<1>6. CASE RunReturn
  <2> DEFINE h == Head(wstack).for
  <2>1. /\ Len(wstack) \in Nat \ {0} /\ wstack' = Tail(wstack) /\ wstack[1] = Loop(h)
        /\ Len(wstack') = Len(wstack) - 1 /\ wstack' \in Seq(Frames)
        /\ \A n \in 1..Len(wstack') : wstack'[n] = wstack[n + 1]
        /\ h \in Invocations \cup {NULL}
    BY <1>6, StackFacts, RunReturnFacts
  <2>2. thread' = thread /\ \A i \in Invocations : cpc'[i] = IF i = h THEN "resumed" ELSE cpc[i]
    BY <1>6, RunReturnFacts DEF RunReturn
  <2>3. \A i \in Invocations \cup {NULL} : Loop(i) \in LoopFrames
    BY DEF Loop, LoopFrames
  <2>4. \A i, j \in Invocations \cup {NULL} : Loop(i) = Loop(j) => i = j
    BY DEF Loop
  <2>5. Len(wstack) # 1
    <3> SUFFICES ASSUME Len(wstack) = 1 PROVE FALSE
      OBVIOUS
    <3>1. ~\E i \in Invocations : thread[i] = Worker /\ cpc[i] \in Active
      BY <2>1, <2>4, TypeFacts DEF IInv, LoopInv
    <3> QED
      BY <1>6, <3>1, NoReturnForOwnLoop
  <2> HIDE DEF h
  <2>6. wstack' # <<>> /\ wstack'[Len(wstack')] = Loop(NULL)
    <3>1. Len(wstack') \in 1..Len(wstack') /\ Len(wstack') + 1 = Len(wstack)
      BY <2>1, <2>5
    <3>2. wstack'[Len(wstack')] = wstack[Len(wstack)]
      BY <2>1, <3>1
    <3>3. wstack' # <<>>
      BY <2>1, <3>1
    <3> QED
      BY <3>2, <3>3 DEF IInv, LoopInv
  <2>7. \A m, n \in 1..Len(wstack') : wstack'[m] = wstack'[n] /\ wstack'[m] \in LoopFrames => m = n
    <3> TAKE m, n \in 1..Len(wstack')
    <3>1. m + 1 \in 1..Len(wstack) /\ n + 1 \in 1..Len(wstack)
      BY <2>1
    <3> QED
      BY <2>1, <3>1 DEF IInv, LoopInv
  <2>8. \A n \in 1..Len(wstack'), i \in Invocations :
          wstack'[n] = Loop(i) => thread'[i] = Worker /\ cpc'[i] \in Active
    <3> TAKE n \in 1..Len(wstack'), i \in Invocations
    <3>1. n + 1 \in 1..Len(wstack) /\ 1 \in 1..Len(wstack) /\ wstack'[n] = wstack[n + 1]
          /\ n + 1 # 1
      BY <2>1
    <3>2. wstack[n + 1] = Loop(i) => i # h
      BY <2>1, <2>3, <3>1 DEF IInv, LoopInv
    <3> QED
      BY <2>2, <3>1, <3>2 DEF IInv, LoopInv
  <2>9. \A i \in Invocations :
          thread'[i] = Worker /\ cpc'[i] \in Active => \E n \in 1..Len(wstack') : wstack'[n] = Loop(i)
    <3> SUFFICES ASSUME NEW i \in Invocations, thread'[i] = Worker, cpc'[i] \in Active
                 PROVE \E n \in 1..Len(wstack') : wstack'[n] = Loop(i)
      OBVIOUS
    <3>1. i # h /\ cpc[i] \in Active
      BY <2>2 DEF Active
    <3>2. PICK n \in 1..Len(wstack) : wstack[n] = Loop(i)
      BY <2>2, <3>1 DEF IInv, LoopInv
    <3>3. n # 1
      BY <2>1, <2>4, <3>1, <3>2
    <3>4. n - 1 \in 1..Len(wstack') /\ wstack'[n - 1] = wstack[n]
      BY <2>1, <3>3
    <3> QED
      BY <3>2, <3>4
  <2> QED
    BY <2>6, <2>7, <2>8, <2>9 DEF LoopInv
<1>7. ASSUME NEW t \in Threads, EnterCallback(t) PROVE LoopInv'
  <2>1. PICK i \in Invocations :
           /\ cpc[i] = "none" /\ thread[i] = NULL
           /\ cpc' = [cpc EXCEPT ![i] = "loaded"]
           /\ thread' = [thread EXCEPT ![i] = t]
           /\ wstack' = IF t = Worker THEN <<Loop(i)>> \o wstack ELSE wstack
    BY <1>7, EnterFacts
  <2>2. /\ cpc \in [Invocations -> FrameLabels] /\ thread \in [Invocations -> Threads \cup {NULL}]
        /\ wstack \in Seq(Frames) /\ NULL \notin Threads /\ Len(wstack) \in Nat \ {0}
    BY TypeFacts, StackFacts DEF IInv
  <2>3. \A n \in 1..Len(wstack) : wstack[n] # Loop(i)
    BY <2>1 DEF IInv, LoopInv, Active
  <2>4. \A j \in Invocations : Loop(j) = Loop(i) => j = i
    BY DEF Loop
  <2>5. CASE t # Worker
    BY <2>1, <2>2, <2>3, <2>5 DEF IInv, LoopInv
  <2>6. CASE t = Worker
    <3>1. Loop(i) \in Frames
      BY DEF Loop, Frames, LoopFrames
    <3>2. /\ Len(wstack') = Len(wstack) + 1
          /\ wstack' # <<>> /\ wstack'[1] = Loop(i)
          /\ \A n \in 1..Len(wstack) : wstack'[n + 1] = wstack[n]
          /\ \A n \in 2..(Len(wstack) + 1) : wstack'[n] = wstack[n - 1]
      BY <2>1, <2>2, <2>6, <3>1, PushProperties
    <3>3. \A j \in Invocations : /\ thread'[j] = IF j = i THEN Worker ELSE thread[j]
                                 /\ cpc'[j] = IF j = i THEN "loaded" ELSE cpc[j]
      BY <2>1, <2>2, <2>6
    <3>4. wstack'[Len(wstack')] = Loop(NULL)
      BY <2>2, <3>2 DEF IInv, LoopInv
    <3>5. \A m, n \in 1..Len(wstack') : wstack'[m] = wstack'[n] /\ wstack'[m] \in LoopFrames => m = n
      BY <2>2, <2>3, <3>2 DEF IInv, LoopInv
    <3>6. \A n \in 1..Len(wstack'), j \in Invocations :
            wstack'[n] = Loop(j) => thread'[j] = Worker /\ cpc'[j] \in Active
      <4> SUFFICES ASSUME NEW n \in 1..Len(wstack'), NEW j \in Invocations, wstack'[n] = Loop(j)
                   PROVE  thread'[j] = Worker /\ cpc'[j] \in Active
        OBVIOUS
      <4>1. CASE n = 1
        BY <2>4, <3>2, <3>3, <4>1 DEF Active
      <4>2. CASE n # 1
        <5>1. n - 1 \in 1..Len(wstack) /\ wstack[n - 1] = Loop(j)
          BY <2>2, <3>2, <4>2
        <5>2. thread[j] = Worker /\ cpc[j] \in Active
          BY <5>1 DEF IInv, LoopInv
        <5>3. j # i
          BY <2>3, <5>1
        <5> QED
          BY <3>3, <5>2, <5>3
      <4> QED
        BY <4>1, <4>2
    <3>7. \A j \in Invocations :
            thread'[j] = Worker /\ cpc'[j] \in Active => \E n \in 1..Len(wstack') : wstack'[n] = Loop(j)
      <4> SUFFICES ASSUME NEW j \in Invocations, thread'[j] = Worker, cpc'[j] \in Active
                   PROVE \E n \in 1..Len(wstack') : wstack'[n] = Loop(j)
        OBVIOUS
      <4>1. CASE j = i
        BY <2>2, <3>2, <4>1
      <4>2. CASE j # i
        <5>1. PICK n \in 1..Len(wstack) : wstack[n] = Loop(j)
          BY <3>3, <4>2 DEF IInv, LoopInv
        <5>2. n + 1 \in 1..Len(wstack') /\ wstack'[n + 1] = Loop(j)
          BY <2>2, <3>2, <5>1
        <5> QED
          BY <5>2
      <4> QED
        BY <4>1, <4>2
    <3> QED
      BY <3>2, <3>4, <3>5, <3>6, <3>7 DEF LoopInv
  <2> QED
    BY <2>5, <2>6
<1>8. ASSUME NEW i \in Invocations, PushCallback(i) PROVE LoopInv'
  <2>1. wstack' = wstack /\ thread' = thread /\ cpc[i] \in Active
        /\ \A j \in Invocations : cpc'[j] = IF j = i THEN "pushed" ELSE cpc[j]
    BY <1>8, TypeFacts DEF PushCallback, Active, IInv
  <2> QED
    BY <2>1 DEF IInv, LoopInv, Active
<1>9. ASSUME NEW i \in Invocations, PostCallback(i) PROVE LoopInv'
  <2>1. wstack' = wstack /\ thread' = thread /\ cpc[i] \in Active
        /\ \A j \in Invocations : cpc'[j] = IF j = i THEN "waiting" ELSE cpc[j]
    BY <1>9, TypeFacts DEF PostCallback, Active, IInv
  <2> QED
    BY <2>1 DEF IInv, LoopInv, Active
<1>10. ASSUME NEW i \in Invocations, ResumeForeign(i) PROVE LoopInv'
  <2>1. wstack' = wstack /\ thread' = thread /\ thread[i] # Worker
        /\ \A j \in Invocations : cpc'[j] = IF j = i THEN "resumed" ELSE cpc[j]
    BY <1>10, TypeFacts DEF ResumeForeign, IInv, ForeignInv
  <2> QED
    BY <2>1 DEF IInv, LoopInv, Active
<1>11. CASE FetchCallback
  BY <1>11 DEF FetchCallback, cVars, imageVars, IInv, LoopInv
<1>12. CASE ExecuteCallback
  BY <1>12 DEF ExecuteCallback, cVars, imageVars, IInv, LoopInv
<1>13. ASSUME NEW i \in Invocations, WriteReturnValue(i) PROVE LoopInv'
  BY <1>13 DEF WriteReturnValue, cVars, imageVars, IInv, LoopInv
<1>14. ASSUME NEW i \in Invocations, ReturnOfOldSession(i) PROVE LoopInv'
  BY <1>14 DEF ReturnOfOldSession, cVars, imageVars, IInv, LoopInv
<1>15. ASSUME NEW i \in Invocations, ReturnAccepted(i) PROVE LoopInv'
  BY <1>15 DEF ReturnAccepted, cVars, imageVars, IInv, LoopInv
<1>16. ASSUME NEW i \in Invocations, ReturnRefused(i) PROVE LoopInv'
  BY <1>16 DEF ReturnRefused, cVars, imageVars, IInv, LoopInv
<1>17. ASSUME NEW i \in Invocations, WaitToRetry(i) PROVE LoopInv'
  BY <1>17 DEF WaitToRetry, cVars, imageVars, IInv, LoopInv
<1>18. ASSUME NEW i \in Invocations, PopLoad(i) PROVE LoopInv'
  BY <1>18 DEF PopLoad, cVars, imageVars, IInv, LoopInv
<1>19. ASSUME NEW i \in Invocations, PopStore(i) PROVE LoopInv'
  BY <1>19 DEF PopStore, cVars, imageVars, IInv, LoopInv
<1>20. ASSUME NEW i \in Invocations, PopInvocation(i) PROVE LoopInv'
  BY <1>20 DEF PopInvocation, cVars, imageVars, IInv, LoopInv
<1>21. CASE Restart
  <2>1. wstack' = <<Loop(NULL)>> /\ Len(wstack') = 1 /\ wstack'[1] = Loop(NULL)
        /\ wstack' # <<>>
    BY <1>21 DEF Restart
  <2>2. \A i \in Invocations : cpc'[i] \notin Active
    BY <1>21 DEF Restart, Active
  <2>3. \A i \in Invocations : Loop(i) # Loop(NULL)
    BY TypeFacts DEF Loop, IInv
  <2> QED
    BY <2>1, <2>2, <2>3 DEF LoopInv
<1>22. CASE Rest \/ UNCHANGED vars
  BY <1>22 DEF Rest, vars, cVars, imageVars, IInv, LoopInv
<1> QED
  BY <1>1, <1>2, <1>3, <1>4, <1>5, <1>6, <1>7, <1>8, <1>9, <1>10, <1>11,
     <1>12, <1>13, <1>14, <1>15, <1>16, <1>17, <1>18, <1>19, <1>20, <1>21,
     <1>22 DEF Next, Thread, Image

\* The pending invocations are invocations.
LEMMA QueueFacts ==
  ASSUME TypeOK
  PROVE  \A n \in 1..Len(callbackQueue) : callbackQueue[n] \in Invocations
  BY TypeFacts

\* A step that leaves the queue alone, starts no handler and takes back no posted
\* invocation keeps the part about the queue.
LEMMA QueueKept ==
  ASSUME TypeOK, QueueInv, callbackQueue' = callbackQueue, fetched' = fetched,
         \A j \in Invocations : pc[j] = "none" => pc'[j] = "none",
         \A j \in Invocations : cpc[j] \in Posted => cpc'[j] \in Posted
  PROVE  QueueInv'
<1>1. \A n \in 1..Len(callbackQueue) : callbackQueue[n] \in Invocations
  BY QueueFacts
<1>2. fetched # NULL => fetched \in Invocations
  BY DEF TypeOK
<1> QED
  BY <1>1, <1>2 DEF QueueInv

\* The part about the queue of pending invocations.
LEMMA QueueStep == IInv /\ [Next]_vars => QueueInv'
<1> SUFFICES ASSUME IInv, [Next]_vars PROVE QueueInv'
  OBVIOUS
<1>1. ASSUME NEW p \in Processes, StartCallout(p) PROVE QueueInv'
  <2>1. /\ callbackQueue' = callbackQueue /\ fetched' = fetched
        /\ \A j \in Invocations : pc[j] = "none" => pc'[j] = "none"
    BY <1>1, TypeFacts DEF StartCallout, cVars, imageVars, IInv
  <2>2. \A j \in Invocations : cpc[j] \in Posted => cpc'[j] \in Posted
    BY <1>1, TypeFacts DEF StartCallout, cVars, IInv, Posted
  <2> QED
    BY <2>1, <2>2, QueueKept DEF IInv
<1>2. ASSUME NEW p \in Processes, FinishCallout(p) PROVE QueueInv'
  <2>1. /\ callbackQueue' = callbackQueue /\ fetched' = fetched
        /\ \A j \in Invocations : pc[j] = "none" => pc'[j] = "none"
    BY <1>2, TypeFacts DEF FinishCallout, cVars, imageVars, IInv
  <2>2. \A j \in Invocations : cpc[j] \in Posted => cpc'[j] \in Posted
    BY <1>2, TypeFacts DEF FinishCallout, cVars, IInv, Posted
  <2> QED
    BY <2>1, <2>2, QueueKept DEF IInv
<1>3. CASE RunCallout
  <2>1. /\ callbackQueue' = callbackQueue /\ fetched' = fetched
        /\ \A j \in Invocations : pc[j] = "none" => pc'[j] = "none"
    BY <1>3, TypeFacts DEF RunCallout, cVars, imageVars, IInv
  <2>2. \A j \in Invocations : cpc[j] \in Posted => cpc'[j] \in Posted
    BY <1>3, TypeFacts DEF RunCallout, cVars, IInv, Posted
  <2> QED
    BY <2>1, <2>2, QueueKept DEF IInv
<1>4. CASE EndCallout
  <2>1. /\ callbackQueue' = callbackQueue /\ fetched' = fetched
        /\ \A j \in Invocations : pc[j] = "none" => pc'[j] = "none"
    BY <1>4, TypeFacts DEF EndCallout, cVars, imageVars, IInv
  <2>2. \A j \in Invocations : cpc[j] \in Posted => cpc'[j] \in Posted
    BY <1>4, TypeFacts DEF EndCallout, cVars, IInv, Posted
  <2> QED
    BY <2>1, <2>2, QueueKept DEF IInv
<1>5. CASE RunReturnToForeign
  <2>1. /\ callbackQueue' = callbackQueue /\ fetched' = fetched
        /\ \A j \in Invocations : pc[j] = "none" => pc'[j] = "none"
    BY <1>5, TypeFacts DEF RunReturnToForeign, cVars, imageVars, IInv
  <2>2. \A j \in Invocations : cpc[j] \in Posted => cpc'[j] \in Posted
    BY <1>5, TypeFacts DEF RunReturnToForeign, cVars, IInv, Posted
  <2> QED
    BY <2>1, <2>2, QueueKept DEF IInv
<1>6. CASE RunReturn
  <2>1. /\ callbackQueue' = callbackQueue /\ fetched' = fetched /\ pc' = pc
        /\ fetched # NULL => fetched \in Invocations
    BY <1>6 DEF RunReturn, imageVars, IInv, TypeOK
  <2>2. \A j \in Invocations : cpc[j] \in Posted => cpc'[j] \in Posted
    BY <1>6, RunReturnFacts, TypeFacts DEF IInv, Posted
  <2> QED
    BY <2>1, <2>2, QueueFacts DEF IInv, QueueInv
<1>7. ASSUME NEW t \in Threads, EnterCallback(t) PROVE QueueInv'
  <2>1. /\ callbackQueue' = callbackQueue /\ fetched' = fetched /\ pc' = pc
        /\ fetched # NULL => fetched \in Invocations
    BY <1>7 DEF EnterCallback, imageVars, IInv, TypeOK
  <2>2. \A j \in Invocations : cpc[j] \in Posted => cpc'[j] \in Posted
    BY <1>7, EnterFacts, TypeFacts DEF IInv, Posted
  <2> QED
    BY <2>1, <2>2, QueueFacts DEF IInv, QueueInv
<1>8. ASSUME NEW i \in Invocations, PushCallback(i) PROVE QueueInv'
  <2>1. /\ callbackQueue' = callbackQueue /\ fetched' = fetched
        /\ \A j \in Invocations : pc[j] = "none" => pc'[j] = "none"
    BY <1>8, TypeFacts DEF PushCallback, cVars, imageVars, IInv
  <2>2. \A j \in Invocations : cpc[j] \in Posted => cpc'[j] \in Posted
    BY <1>8, TypeFacts DEF PushCallback, cVars, IInv, Posted
  <2> QED
    BY <2>1, <2>2, QueueKept DEF IInv
<1>9. ASSUME NEW i \in Invocations, PostCallback(i) PROVE QueueInv'
  <2>1. /\ Len(callbackQueue') = Len(callbackQueue) + 1 /\ Len(callbackQueue) \in Nat
        /\ \A n \in 1..Len(callbackQueue) : callbackQueue'[n] = callbackQueue[n]
        /\ callbackQueue'[Len(callbackQueue) + 1] = i
    BY <1>9, TypeFacts, AppendProperties DEF PostCallback, IInv
  <2>2. /\ pc' = pc /\ fetched' = fetched /\ cpc[i] = "pushed" /\ pc[i] = "none"
        /\ \A j \in Invocations : cpc'[j] = IF j = i THEN "waiting" ELSE cpc[j]
    BY <1>9, TypeFacts DEF PostCallback, imageVars, IInv, ThreadInv, Unposted
  <2>3. \A n \in 1..Len(callbackQueue) : callbackQueue[n] \in Invocations /\ callbackQueue[n] # i
    BY <2>2, QueueFacts DEF IInv, QueueInv, Posted
  <2>4. fetched # NULL => fetched \in Invocations /\ fetched # i
    BY <2>2 DEF IInv, TypeOK, QueueInv, Posted
  <2> QED
    BY <2>1, <2>2, <2>3, <2>4 DEF IInv, QueueInv, Posted
<1>10. ASSUME NEW i \in Invocations, ResumeForeign(i) PROVE QueueInv'
  <2>1. /\ callbackQueue' = callbackQueue /\ fetched' = fetched
        /\ \A j \in Invocations : pc[j] = "none" => pc'[j] = "none"
    BY <1>10, TypeFacts DEF ResumeForeign, cVars, imageVars, IInv
  <2>2. \A j \in Invocations : cpc[j] \in Posted => cpc'[j] \in Posted
    BY <1>10, TypeFacts DEF ResumeForeign, cVars, IInv, Posted
  <2> QED
    BY <2>1, <2>2, QueueKept DEF IInv
<1>11. CASE FetchCallback
  <2>1. /\ Len(callbackQueue') = Len(callbackQueue) - 1 /\ Len(callbackQueue) \in Nat \ {0}
        /\ \A n \in 1..Len(callbackQueue') : callbackQueue'[n] = callbackQueue[n + 1]
        /\ fetched' = callbackQueue[1]
    BY <1>11, TypeFacts, HeadTailProperties, EmptySeq DEF FetchCallback, IInv
  <2>2. pc' = pc /\ cpc' = cpc
    BY <1>11 DEF FetchCallback, cVars
  <2> QED
    BY <2>1, <2>2 DEF IInv, QueueInv
<1>12. CASE ExecuteCallback
  <2>1. /\ callbackQueue' = callbackQueue /\ cpc' = cpc /\ fetched' = NULL
        /\ pc' = [pc EXCEPT ![fetched] = "body"]
        /\ \A n \in 1..Len(callbackQueue) : callbackQueue[n] # fetched
    BY <1>12 DEF ExecuteCallback, cVars, IInv, QueueInv
  <2> QED
    BY <2>1, TypeFacts, QueueFacts DEF IInv, QueueInv
<1>13. ASSUME NEW i \in Invocations, WriteReturnValue(i) PROVE QueueInv'
  <2>1. /\ callbackQueue' = callbackQueue /\ fetched' = fetched
        /\ \A j \in Invocations : pc[j] = "none" => pc'[j] = "none"
    BY <1>13, TypeFacts DEF WriteReturnValue, cVars, imageVars, IInv
  <2>2. \A j \in Invocations : cpc[j] \in Posted => cpc'[j] \in Posted
    BY <1>13, TypeFacts DEF WriteReturnValue, cVars, IInv, Posted
  <2> QED
    BY <2>1, <2>2, QueueKept DEF IInv
<1>14. ASSUME NEW i \in Invocations, ReturnOfOldSession(i) PROVE QueueInv'
  <2>1. /\ callbackQueue' = callbackQueue /\ fetched' = fetched
        /\ \A j \in Invocations : pc[j] = "none" => pc'[j] = "none"
    BY <1>14, TypeFacts DEF ReturnOfOldSession, cVars, imageVars, IInv
  <2>2. \A j \in Invocations : cpc[j] \in Posted => cpc'[j] \in Posted
    BY <1>14, TypeFacts DEF ReturnOfOldSession, cVars, IInv, Posted
  <2> QED
    BY <2>1, <2>2, QueueKept DEF IInv
<1>15. ASSUME NEW i \in Invocations, ReturnAccepted(i) PROVE QueueInv'
  <2>1. /\ callbackQueue' = callbackQueue /\ fetched' = fetched
        /\ \A j \in Invocations : pc[j] = "none" => pc'[j] = "none"
    BY <1>15, TypeFacts DEF ReturnAccepted, cVars, imageVars, IInv
  <2>2. \A j \in Invocations : cpc[j] \in Posted => cpc'[j] \in Posted
    BY <1>15, TypeFacts DEF ReturnAccepted, cVars, IInv, Posted
  <2> QED
    BY <2>1, <2>2, QueueKept DEF IInv
<1>16. ASSUME NEW i \in Invocations, ReturnRefused(i) PROVE QueueInv'
  <2>1. /\ callbackQueue' = callbackQueue /\ fetched' = fetched
        /\ \A j \in Invocations : pc[j] = "none" => pc'[j] = "none"
    BY <1>16, TypeFacts DEF ReturnRefused, cVars, imageVars, IInv
  <2>2. \A j \in Invocations : cpc[j] \in Posted => cpc'[j] \in Posted
    BY <1>16, TypeFacts DEF ReturnRefused, cVars, IInv, Posted
  <2> QED
    BY <2>1, <2>2, QueueKept DEF IInv
<1>17. ASSUME NEW i \in Invocations, WaitToRetry(i) PROVE QueueInv'
  <2>1. /\ callbackQueue' = callbackQueue /\ fetched' = fetched
        /\ \A j \in Invocations : pc[j] = "none" => pc'[j] = "none"
    BY <1>17, TypeFacts DEF WaitToRetry, cVars, imageVars, IInv
  <2>2. \A j \in Invocations : cpc[j] \in Posted => cpc'[j] \in Posted
    BY <1>17, TypeFacts DEF WaitToRetry, cVars, IInv, Posted
  <2> QED
    BY <2>1, <2>2, QueueKept DEF IInv
<1>18. ASSUME NEW i \in Invocations, PopLoad(i) PROVE QueueInv'
  <2>1. /\ callbackQueue' = callbackQueue /\ fetched' = fetched
        /\ \A j \in Invocations : pc[j] = "none" => pc'[j] = "none"
    BY <1>18, TypeFacts DEF PopLoad, cVars, imageVars, IInv
  <2>2. \A j \in Invocations : cpc[j] \in Posted => cpc'[j] \in Posted
    BY <1>18, TypeFacts DEF PopLoad, cVars, IInv, Posted
  <2> QED
    BY <2>1, <2>2, QueueKept DEF IInv
<1>19. ASSUME NEW i \in Invocations, PopStore(i) PROVE QueueInv'
  <2>1. /\ callbackQueue' = callbackQueue /\ fetched' = fetched
        /\ \A j \in Invocations : pc[j] = "none" => pc'[j] = "none"
    BY <1>19, TypeFacts DEF PopStore, cVars, imageVars, IInv
  <2>2. \A j \in Invocations : cpc[j] \in Posted => cpc'[j] \in Posted
    BY <1>19, TypeFacts DEF PopStore, cVars, IInv, Posted
  <2> QED
    BY <2>1, <2>2, QueueKept DEF IInv
<1>20. ASSUME NEW i \in Invocations, PopInvocation(i) PROVE QueueInv'
  <2>1. /\ callbackQueue' = callbackQueue /\ cpc' = cpc /\ fetched' = fetched
        /\ \A j \in Invocations : pc[j] = "none" => pc'[j] = "none"
    BY <1>20, TypeFacts DEF PopInvocation, cVars, IInv
  <2> QED
    BY <2>1, TypeFacts, QueueFacts DEF IInv, TypeOK, QueueInv
<1>21. CASE Restart
  BY <1>21 DEF Restart, QueueInv
<1>22. CASE Rest \/ UNCHANGED vars
  <2>1. callbackQueue' = callbackQueue /\ fetched' = fetched /\ pc' = pc /\ cpc' = cpc
    BY <1>22 DEF Rest, vars, cVars, imageVars
  <2> QED
    BY <2>1, QueueKept DEF IInv
<1> QED
  BY <1>1, <1>2, <1>3, <1>4, <1>5, <1>6, <1>7, <1>8, <1>9, <1>10, <1>11,
     <1>12, <1>13, <1>14, <1>15, <1>16, <1>17, <1>18, <1>19, <1>20, <1>21,
     <1>22 DEF Next, Thread, Image

\* The part about primitiveCallbackReturn.
LEMMA VMStep == IInv /\ [Next]_vars => VMInv'
<1> SUFFICES ASSUME IInv, [Next]_vars PROVE VMInv'
  OBVIOUS
<1>1. ASSUME NEW p \in Processes, StartCallout(p) PROVE VMInv'
  BY <1>1, TypeFacts DEF StartCallout, cVars, imageVars, IInv, VMInv, Posted
<1>2. ASSUME NEW p \in Processes, FinishCallout(p) PROVE VMInv'
  BY <1>2, TypeFacts DEF FinishCallout, cVars, imageVars, IInv, VMInv, Posted
<1>3. CASE RunCallout
  BY <1>3, TypeFacts DEF RunCallout, cVars, imageVars, IInv, VMInv, Posted
<1>4. CASE EndCallout
  BY <1>4, TypeFacts DEF EndCallout, cVars, imageVars, IInv, VMInv, Posted
<1>5. CASE RunReturnToForeign
  BY <1>5, TypeFacts DEF RunReturnToForeign, cVars, imageVars, IInv, VMInv, Posted
<1>6. CASE RunReturn
  BY <1>6, RunReturnFacts, TypeFacts
     DEF RunReturn, imageVars, IInv, VMInv, Posted
<1>7. ASSUME NEW t \in Threads, EnterCallback(t) PROVE VMInv'
  <2>1. PICK i \in Invocations :
           /\ cpc[i] = "none"
           /\ cpc' = [cpc EXCEPT ![i] = "loaded"]
    BY <1>7, EnterFacts
  <2> QED
    BY <1>7, <2>1, TypeFacts DEF EnterCallback, imageVars, IInv, VMInv, Posted
<1>8. ASSUME NEW i \in Invocations, PushCallback(i) PROVE VMInv'
  BY <1>8, TypeFacts
     DEF PushCallback, imageVars, IInv, VMInv, Posted
<1>9. ASSUME NEW i \in Invocations, PostCallback(i) PROVE VMInv'
  BY <1>9, TypeFacts DEF PostCallback, cVars, imageVars, IInv, VMInv, Posted
<1>10. ASSUME NEW i \in Invocations, ResumeForeign(i) PROVE VMInv'
  BY <1>10, TypeFacts DEF ResumeForeign, cVars, imageVars, IInv, VMInv, Posted
<1>11. CASE FetchCallback
  BY <1>11, TypeFacts DEF FetchCallback, cVars, imageVars, IInv, VMInv, Posted
<1>12. CASE ExecuteCallback
  BY <1>12, TypeFacts
     DEF ExecuteCallback, cVars, IInv, TypeOK, VMInv
<1>13. ASSUME NEW i \in Invocations, WriteReturnValue(i) PROVE VMInv'
  BY <1>13, TypeFacts DEF WriteReturnValue, cVars, imageVars, IInv, VMInv, Posted
<1>14. ASSUME NEW i \in Invocations, ReturnOfOldSession(i) PROVE VMInv'
  BY <1>14, TypeFacts DEF ReturnOfOldSession, cVars, imageVars, IInv, VMInv, Posted
<1>15. ASSUME NEW i \in Invocations, ReturnAccepted(i) PROVE VMInv'
  <2>1. cpc[i] \in Posted
    BY <1>15, TypeFacts DEF ReturnAccepted, IInv, ThreadInv, Posted, Unposted, FrameLabels
  <2> QED
    BY <1>15, <2>1, TypeFacts DEF ReturnAccepted, cVars, IInv, VMInv
<1>16. ASSUME NEW i \in Invocations, ReturnRefused(i) PROVE VMInv'
  BY <1>16, TypeFacts DEF ReturnRefused, cVars, imageVars, IInv, VMInv, Posted
<1>17. ASSUME NEW i \in Invocations, WaitToRetry(i) PROVE VMInv'
  BY <1>17, TypeFacts DEF WaitToRetry, cVars, imageVars, IInv, VMInv, Posted
<1>18. ASSUME NEW i \in Invocations, PopLoad(i) PROVE VMInv'
  BY <1>18, TypeFacts DEF PopLoad, cVars, imageVars, IInv, VMInv, Posted
<1>19. ASSUME NEW i \in Invocations, PopStore(i) PROVE VMInv'
  BY <1>19, TypeFacts DEF PopStore, cVars, imageVars, IInv, VMInv, Posted
<1>20. ASSUME NEW i \in Invocations, PopInvocation(i) PROVE VMInv'
  BY <1>20, TypeFacts DEF PopInvocation, cVars, imageVars, IInv, VMInv, Posted
<1>21. CASE Restart
  <2>1. vm = NULL /\ vm' = NULL /\ pc' = pc
    BY <1>21 DEF Restart
  <2>2. \A i \in Invocations : pc[i] \notin {"accepted", "popping"}
    BY <2>1, TypeFacts DEF IInv, VMInv
  <2> QED
    BY <2>1, <2>2, TypeFacts DEF IInv, VMInv
<1>22. CASE Rest \/ UNCHANGED vars
  BY <1>22, TypeFacts DEF Rest, vars, cVars, imageVars, IInv, VMInv, Posted
<1> QED
  BY <1>1, <1>2, <1>3, <1>4, <1>5, <1>6, <1>7, <1>8, <1>9, <1>10, <1>11,
     <1>12, <1>13, <1>14, <1>15, <1>16, <1>17, <1>18, <1>19, <1>20, <1>21,
     <1>22 DEF Next, Thread, Image

\* A callback that has returned stays returned.
LEMMA ReturnedGrows == IInv /\ [Next]_vars => Returned \subseteq Returned'
<1> SUFFICES ASSUME IInv, [Next]_vars PROVE Returned \subseteq Returned'
  OBVIOUS
<1>1. ASSUME NEW p \in Processes, StartCallout(p) PROVE Returned \subseteq Returned'
  BY <1>1, TypeFacts DEF StartCallout, cVars, imageVars, IInv, Returned
<1>2. ASSUME NEW p \in Processes, FinishCallout(p) PROVE Returned \subseteq Returned'
  BY <1>2, TypeFacts DEF FinishCallout, cVars, imageVars, IInv, Returned
<1>3. CASE RunCallout
  BY <1>3, TypeFacts DEF RunCallout, cVars, imageVars, IInv, Returned
<1>4. CASE EndCallout
  BY <1>4, TypeFacts DEF EndCallout, cVars, imageVars, IInv, Returned
<1>5. CASE RunReturnToForeign
  BY <1>5, TypeFacts DEF RunReturnToForeign, cVars, imageVars, IInv, Returned
<1>6. CASE RunReturn
  BY <1>6, TypeFacts DEF RunReturn, cVars, imageVars, IInv, Returned
<1>7. ASSUME NEW t \in Threads, EnterCallback(t) PROVE Returned \subseteq Returned'
  BY <1>7, TypeFacts DEF EnterCallback, cVars, imageVars, IInv, Returned
<1>8. ASSUME NEW i \in Invocations, PushCallback(i) PROVE Returned \subseteq Returned'
  BY <1>8, TypeFacts DEF PushCallback, cVars, imageVars, IInv, Returned
<1>9. ASSUME NEW i \in Invocations, PostCallback(i) PROVE Returned \subseteq Returned'
  BY <1>9, TypeFacts DEF PostCallback, cVars, imageVars, IInv, Returned
<1>10. ASSUME NEW i \in Invocations, ResumeForeign(i) PROVE Returned \subseteq Returned'
  BY <1>10, TypeFacts DEF ResumeForeign, cVars, imageVars, IInv, Returned
<1>11. CASE FetchCallback
  BY <1>11, TypeFacts DEF FetchCallback, cVars, imageVars, IInv, Returned
<1>12. CASE ExecuteCallback
  BY <1>12, TypeFacts
     DEF ExecuteCallback, cVars, IInv, TypeOK, QueueInv, Returned
<1>13. ASSUME NEW i \in Invocations, WriteReturnValue(i) PROVE Returned \subseteq Returned'
  BY <1>13, TypeFacts DEF WriteReturnValue, cVars, imageVars, IInv, Returned
<1>14. ASSUME NEW i \in Invocations, ReturnOfOldSession(i) PROVE Returned \subseteq Returned'
  BY <1>14, TypeFacts DEF ReturnOfOldSession, cVars, imageVars, IInv, Returned
<1>15. ASSUME NEW i \in Invocations, ReturnAccepted(i) PROVE Returned \subseteq Returned'
  BY <1>15, TypeFacts DEF ReturnAccepted, cVars, imageVars, IInv, Returned
<1>16. ASSUME NEW i \in Invocations, ReturnRefused(i) PROVE Returned \subseteq Returned'
  BY <1>16, TypeFacts DEF ReturnRefused, cVars, imageVars, IInv, Returned
<1>17. ASSUME NEW i \in Invocations, WaitToRetry(i) PROVE Returned \subseteq Returned'
  BY <1>17, TypeFacts DEF WaitToRetry, cVars, imageVars, IInv, Returned
<1>18. ASSUME NEW i \in Invocations, PopLoad(i) PROVE Returned \subseteq Returned'
  BY <1>18, TypeFacts DEF PopLoad, cVars, imageVars, IInv, Returned
<1>19. ASSUME NEW i \in Invocations, PopStore(i) PROVE Returned \subseteq Returned'
  BY <1>19, TypeFacts DEF PopStore, cVars, imageVars, IInv, Returned
<1>20. ASSUME NEW i \in Invocations, PopInvocation(i) PROVE Returned \subseteq Returned'
  BY <1>20, TypeFacts DEF PopInvocation, cVars, imageVars, IInv, Returned
<1>21. CASE Restart
  BY <1>21, TypeFacts DEF Restart, cVars, imageVars, IInv, Returned
<1>22. CASE Rest \/ UNCHANGED vars
  BY <1>22, TypeFacts DEF Rest, vars, cVars, imageVars, IInv, Returned
<1> QED
  BY <1>1, <1>2, <1>3, <1>4, <1>5, <1>6, <1>7, <1>8, <1>9, <1>10, <1>11,
     <1>12, <1>13, <1>14, <1>15, <1>16, <1>17, <1>18, <1>19, <1>20, <1>21,
     <1>22 DEF Next, Thread, Image

\* The part about foreign threads.
LEMMA ForeignStep == IInv /\ [Next]_vars => ForeignInv'
<1> SUFFICES ASSUME IInv, [Next]_vars PROVE ForeignInv'
  OBVIOUS
<1>1. ASSUME NEW p \in Processes, StartCallout(p) PROVE ForeignInv'
  <2>1. /\ Len(taskQueue') = Len(taskQueue) + 1 /\ Len(taskQueue) \in Nat
        /\ \A n \in 1..Len(taskQueue) : taskQueue'[n] = taskQueue[n]
        /\ taskQueue'[Len(taskQueue) + 1] = Callout(p)
    <3>1. Callout(p) \in Tasks
      BY DEF Callout, Tasks, CalloutTasks
    <3> QED
      BY <1>1, <3>1, TypeFacts, AppendProperties DEF StartCallout, IInv
  <2>2. \A i \in Invocations : Callout(p) # CallbackReturn(i)
    BY DEF Callout, CallbackReturn
  <2>3. payload' = payload /\ cpc' = cpc /\ thread' = thread
    BY <1>1 DEF StartCallout, cVars
  <2> QED
    BY <2>1, <2>2, <2>3, ReturnedGrows DEF IInv, ForeignInv
<1>2. ASSUME NEW p \in Processes, FinishCallout(p) PROVE ForeignInv'
  <2>1. taskQueue' = taskQueue /\ payload' = payload /\ cpc' = cpc /\ thread' = thread
    BY <1>2 DEF FinishCallout, cVars
  <2> QED
    BY <2>1, ReturnedGrows DEF IInv, ForeignInv
<1>3. CASE RunCallout
  <2>1. /\ Len(taskQueue') = Len(taskQueue) - 1 /\ Len(taskQueue) \in Nat \ {0}
        /\ \A n \in 1..Len(taskQueue') : taskQueue'[n] = taskQueue[n + 1]
    BY <1>3, TaskFacts DEF RunCallout, IInv
  <2>2. payload' = payload /\ cpc' = cpc /\ thread' = thread
    BY <1>3 DEF RunCallout
  <2> QED
    BY <2>1, <2>2, ReturnedGrows DEF IInv, ForeignInv
<1>4. CASE EndCallout
  <2>1. taskQueue' = taskQueue /\ payload' = payload /\ cpc' = cpc /\ thread' = thread
    BY <1>4 DEF EndCallout
  <2> QED
    BY <2>1, ReturnedGrows DEF IInv, ForeignInv
<1>5. CASE RunReturnToForeign
  <2> DEFINE h == Head(taskQueue).for
  <2>1. /\ Len(taskQueue') = Len(taskQueue) - 1 /\ Len(taskQueue) \in Nat \ {0}
        /\ \A n \in 1..Len(taskQueue') : taskQueue'[n] = taskQueue[n + 1]
        /\ taskQueue[1] = CallbackReturn(h) /\ h \in Invocations
    BY <1>5, TaskFacts DEF RunReturnToForeign, IInv
  <2>2. cpc' = cpc /\ thread' = thread /\ payload' = [payload EXCEPT ![h] = "signalled"]
    BY <1>5 DEF RunReturnToForeign
  <2> HIDE DEF h
  <2>3. thread[h] # Worker /\ h \in Returned
    BY <2>1 DEF IInv, ForeignInv
  <2> QED
    BY <2>1, <2>2, <2>3, ReturnedGrows, TypeFacts DEF IInv, ForeignInv
<1>6. CASE RunReturn
  <2>1. /\ Len(taskQueue') = Len(taskQueue) - 1 /\ Len(taskQueue) \in Nat \ {0}
        /\ \A n \in 1..Len(taskQueue') : taskQueue'[n] = taskQueue[n + 1]
    BY <1>6, TaskFacts DEF RunReturn, IInv
  <2>2. payload' = payload /\ thread' = thread
    BY <1>6 DEF RunReturn
  <2>3. \A i \in Invocations : cpc'[i] = "resumed" => cpc[i] = "resumed" \/ thread[i] = Worker
    BY <1>6, RunReturnFacts
  <2> QED
    BY <2>1, <2>2, <2>3, ReturnedGrows DEF IInv, ForeignInv
<1>7. ASSUME NEW t \in Threads, EnterCallback(t) PROVE ForeignInv'
  <2>1. PICK i \in Invocations :
           /\ cpc[i] = "none" /\ pc[i] = "none"
           /\ cpc' = [cpc EXCEPT ![i] = "loaded"]
           /\ thread' = [thread EXCEPT ![i] = t]
    BY <1>7, EnterFacts
  <2>2. taskQueue' = taskQueue /\ payload' = payload /\ i \notin Returned
    BY <1>7, <2>1 DEF EnterCallback, Returned
  <2> QED
    BY <2>1, <2>2, ReturnedGrows, TypeFacts DEF IInv, ForeignInv
<1>8. ASSUME NEW i \in Invocations, PushCallback(i) PROVE ForeignInv'
  <2>1. /\ taskQueue' = taskQueue /\ payload' = payload /\ thread' = thread
        /\ cpc' = [cpc EXCEPT ![i] = "pushed"]
    BY <1>8 DEF PushCallback
  <2> QED
    BY <2>1, ReturnedGrows, TypeFacts DEF IInv, ForeignInv
<1>9. ASSUME NEW i \in Invocations, PostCallback(i) PROVE ForeignInv'
  <2>1. /\ taskQueue' = taskQueue /\ thread' = thread
        /\ payload' = [payload EXCEPT ![i] = IF thread[i] = Worker THEN NULL ELSE "created"]
        /\ cpc' = [cpc EXCEPT ![i] = "waiting"]
    BY <1>9 DEF PostCallback
  <2>2. NULL # "signalled"
    BY TypeFacts DEF IInv
  <2> QED
    BY <2>1, <2>2, ReturnedGrows, TypeFacts DEF IInv, ForeignInv
<1>10. ASSUME NEW i \in Invocations, ResumeForeign(i) PROVE ForeignInv'
  <2>1. /\ taskQueue' = taskQueue /\ thread' = thread
        /\ payload[i] = "signalled" /\ payload' = [payload EXCEPT ![i] = "freed"]
        /\ cpc' = [cpc EXCEPT ![i] = "resumed"]
    BY <1>10 DEF ResumeForeign
  <2> QED
    BY <2>1, ReturnedGrows, TypeFacts DEF IInv, ForeignInv
<1>11. CASE FetchCallback
  <2>1. taskQueue' = taskQueue /\ payload' = payload /\ cpc' = cpc /\ thread' = thread
    BY <1>11 DEF FetchCallback, cVars
  <2> QED
    BY <2>1, ReturnedGrows DEF IInv, ForeignInv
<1>12. CASE ExecuteCallback
  <2>1. taskQueue' = taskQueue /\ payload' = payload /\ cpc' = cpc /\ thread' = thread
    BY <1>12 DEF ExecuteCallback, cVars
  <2> QED
    BY <2>1, ReturnedGrows DEF IInv, ForeignInv
<1>13. ASSUME NEW i \in Invocations, WriteReturnValue(i) PROVE ForeignInv'
  <2>1. taskQueue' = taskQueue /\ payload' = payload /\ cpc' = cpc /\ thread' = thread
    BY <1>13 DEF WriteReturnValue, cVars
  <2> QED
    BY <2>1, ReturnedGrows DEF IInv, ForeignInv
<1>14. ASSUME NEW i \in Invocations, ReturnOfOldSession(i) PROVE ForeignInv'
  <2>1. taskQueue' = taskQueue /\ payload' = payload /\ cpc' = cpc /\ thread' = thread
    BY <1>14 DEF ReturnOfOldSession, cVars
  <2> QED
    BY <2>1, ReturnedGrows DEF IInv, ForeignInv
<1>15. ASSUME NEW i \in Invocations, ReturnAccepted(i) PROVE ForeignInv'
  <2>1. taskQueue' = taskQueue /\ payload' = payload /\ cpc' = cpc /\ thread' = thread
    BY <1>15 DEF ReturnAccepted, cVars
  <2> QED
    BY <2>1, ReturnedGrows DEF IInv, ForeignInv
<1>16. ASSUME NEW i \in Invocations, ReturnRefused(i) PROVE ForeignInv'
  <2>1. taskQueue' = taskQueue /\ payload' = payload /\ cpc' = cpc /\ thread' = thread
    BY <1>16 DEF ReturnRefused, cVars
  <2> QED
    BY <2>1, ReturnedGrows DEF IInv, ForeignInv
<1>17. ASSUME NEW i \in Invocations, WaitToRetry(i) PROVE ForeignInv'
  <2>1. taskQueue' = taskQueue /\ payload' = payload /\ cpc' = cpc /\ thread' = thread
    BY <1>17 DEF WaitToRetry, cVars
  <2> QED
    BY <2>1, ReturnedGrows DEF IInv, ForeignInv
<1>18. ASSUME NEW i \in Invocations, PopLoad(i) PROVE ForeignInv'
  <2>1. taskQueue' = taskQueue /\ payload' = payload /\ cpc' = cpc /\ thread' = thread
    BY <1>18 DEF PopLoad, cVars
  <2> QED
    BY <2>1, ReturnedGrows DEF IInv, ForeignInv
<1>19. ASSUME NEW i \in Invocations, PopStore(i) PROVE ForeignInv'
  <2>1. /\ Len(taskQueue') = Len(taskQueue) + 1 /\ Len(taskQueue) \in Nat
        /\ \A n \in 1..Len(taskQueue) : taskQueue'[n] = taskQueue[n]
        /\ taskQueue'[Len(taskQueue) + 1] = CallbackReturn(IF HasSemaphore(i) THEN i ELSE NULL)
    BY <1>19, ReturnTaskFacts, TypeFacts DEF IInv
  <2>2. payload' = payload /\ cpc' = cpc /\ thread' = thread
    BY <1>19 DEF PopStore, cVars
  <2>3. i \in Returned'
    BY <1>19, TypeFacts DEF PopStore, Returned, IInv
  <2>4. HasSemaphore(i) => thread[i] # Worker
    BY <1>19 DEF PopStore, HasSemaphore, IInv, VMInv, ThreadInv
  <2>5. \A j \in Invocations : CallbackReturn(IF HasSemaphore(i) THEN i ELSE NULL) = CallbackReturn(j)
                               => HasSemaphore(i) /\ j = i
    BY TypeFacts DEF CallbackReturn, IInv
  <2> QED
    BY <2>1, <2>2, <2>3, <2>4, <2>5, ReturnedGrows DEF IInv, ForeignInv
<1>20. ASSUME NEW i \in Invocations, PopInvocation(i) PROVE ForeignInv'
  <2>1. taskQueue' = taskQueue /\ payload' = payload /\ cpc' = cpc /\ thread' = thread
    BY <1>20 DEF PopInvocation, cVars
  <2> QED
    BY <2>1, ReturnedGrows DEF IInv, ForeignInv
<1>21. CASE Restart
  <2>1. /\ taskQueue' = <<>> /\ payload' = payload /\ thread' = thread
        /\ \A i \in Invocations : cpc'[i] # "resumed"
    BY <1>21 DEF Restart
  <2> QED
    BY <2>1, ReturnedGrows DEF IInv, ForeignInv
<1>22. CASE Rest \/ UNCHANGED vars
  BY <1>22, ReturnedGrows DEF Rest, vars, cVars, imageVars, IInv, ForeignInv
<1> QED
  BY <1>1, <1>2, <1>3, <1>4, <1>5, <1>6, <1>7, <1>8, <1>9, <1>10, <1>11,
     <1>12, <1>13, <1>14, <1>15, <1>16, <1>17, <1>18, <1>19, <1>20, <1>21,
     <1>22 DEF Next, Thread, Image

\* LeakFacts in the next state.
LEMMA LeakFactsNext == (TypeOK => (OnlyReturnsLeakTasks <=> liveTasks = LeakSum))'
<1>1. TypeOK => (OnlyReturnsLeakTasks <=> liveTasks = LeakSum)
  BY LeakFacts
<1> QED
  BY <1>1, PTL

\* The tasks that are allocated.
LEMMA LeakSumStep == IInv /\ [Next]_vars => liveTasks' = LeakSum'
<1> SUFFICES ASSUME IInv, [Next]_vars PROVE liveTasks' = LeakSum'
  OBVIOUS
<1>a. liveTasks = LeakSum /\ liveTasks \in Nat
  BY LeakFacts DEF IInv, TypeOK
<1>b. /\ wstack \in Seq(Frames) /\ taskQueue \in Seq(Tasks)
      /\ Count(taskQueue, CalloutTasks) \in Nat /\ Count(wstack, FunctionFrames) \in Nat
      /\ IsFiniteSet(ReturnedHere) /\ Cardinality(ReturnedHere) \in Nat
      /\ pc \in [Processes -> Labels] /\ cpc \in [Invocations -> FrameLabels]
      /\ Invocations \subseteq Processes
  BY TypeFacts, LeakFacts DEF IInv
<1>1. ASSUME NEW p \in Processes, StartCallout(p) PROVE liveTasks' = LeakSum'
  <2>1. wstack' = wstack /\ liveTasks' = liveTasks + 1 /\ taskQueue' = Append(taskQueue, Callout(p))
    BY <1>1 DEF StartCallout, cVars
  <2>2. Callout(p) \in CalloutTasks /\ Callout(p) \in Tasks
    BY DEF Callout, CalloutTasks, Tasks
  <2>3. Count(taskQueue', CalloutTasks) = Count(taskQueue, CalloutTasks) + 1
    BY <2>1, <2>2, <1>b, CountAppend
  <2>4. ReturnedHere' = ReturnedHere
    BY <1>1, <1>b DEF StartCallout, cVars, ReturnedHere, Returned
  <2> QED
    BY <2>1, <2>3, <2>4, <1>a, <1>b DEF LeakSum
<1>2. ASSUME NEW p \in Processes, FinishCallout(p) PROVE liveTasks' = LeakSum'
  <2>1. taskQueue' = taskQueue /\ wstack' = wstack /\ liveTasks' = liveTasks
    BY <1>2 DEF FinishCallout, cVars
  <2>2. ReturnedHere' = ReturnedHere
    BY <1>2, <1>b DEF FinishCallout, cVars, imageVars, IInv, TypeOK, QueueInv, ReturnedHere, Returned
  <2> QED
    BY <2>1, <2>2, <1>a DEF LeakSum
<1>3. CASE RunCallout
  <2>1. /\ wstack' = <<Function(Head(taskQueue).for)>> \o wstack /\ liveTasks' = liveTasks
        /\ taskQueue' = Tail(taskQueue) /\ taskQueue # <<>> /\ cpc' = cpc /\ pc' = pc
    BY <1>3 DEF RunCallout
  <2>2. Head(taskQueue) \in CalloutTasks /\ Head(taskQueue).for \in Processes
        /\ Tail(taskQueue) \in Seq(Tasks)
    BY <1>3, TaskFacts DEF RunCallout, IInv
  <2>3. Function(Head(taskQueue).for) \in FunctionFrames /\ Function(Head(taskQueue).for) \in Frames
    BY <2>2 DEF Function, FunctionFrames, Frames
  <2>4. Count(wstack', FunctionFrames) = Count(wstack, FunctionFrames) + 1
    BY <2>1, <2>3, <1>b, CountPush
  <2>5. Count(taskQueue, CalloutTasks) = Count(taskQueue', CalloutTasks) + 1
    BY <2>1, <2>2, <1>b, CountTail
  <2>6. Count(taskQueue', CalloutTasks) \in Nat
    BY <2>1, <2>2, CountType
  <2>7. ReturnedHere' = ReturnedHere
    BY <2>1 DEF ReturnedHere, Returned
  <2> QED
    BY <2>1, <2>4, <2>5, <2>6, <2>7, <1>a, <1>b DEF LeakSum
<1>4. CASE EndCallout
  <2>1. /\ wstack' = Tail(wstack) /\ liveTasks' = liveTasks - 1 /\ taskQueue' = taskQueue
        /\ cpc' = cpc /\ pc' = pc
    BY <1>4 DEF EndCallout
  <2>2. Head(wstack) \in FunctionFrames /\ Tail(wstack) \in Seq(Frames) /\ wstack # <<>>
    BY <1>4, StackFacts DEF EndCallout
  <2>3. Count(wstack, FunctionFrames) = Count(wstack', FunctionFrames) + 1
    BY <2>1, <2>2, <1>b, CountTail
  <2>4. Count(wstack', FunctionFrames) \in Nat
    BY <2>1, <2>2, CountType
  <2>5. ReturnedHere' = ReturnedHere
    BY <2>1 DEF ReturnedHere, Returned
  <2> QED
    BY <2>1, <2>3, <2>4, <2>5, <1>a, <1>b DEF LeakSum
<1>5. CASE RunReturnToForeign
  <2>1. /\ wstack' = wstack /\ liveTasks' = liveTasks /\ taskQueue' = Tail(taskQueue)
        /\ cpc' = cpc /\ pc' = pc /\ taskQueue # <<>>
    BY <1>5 DEF RunReturnToForeign
  <2>2. Head(taskQueue) \notin CalloutTasks
    BY <1>5, TaskFacts DEF RunReturnToForeign, IInv
  <2>3. Count(taskQueue, CalloutTasks) = Count(taskQueue', CalloutTasks)
    BY <2>1, <2>2, <1>b, CountTail
  <2>4. ReturnedHere' = ReturnedHere
    BY <2>1 DEF ReturnedHere, Returned
  <2> QED
    BY <2>1, <2>3, <2>4, <1>a DEF LeakSum
<1>6. CASE RunReturn
  <2>1. /\ wstack' = Tail(wstack) /\ liveTasks' = liveTasks /\ taskQueue' = Tail(taskQueue)
        /\ taskQueue # <<>> /\ Head(taskQueue) \notin CalloutTasks
        /\ wstack # <<>> /\ Head(wstack) \notin FunctionFrames
    BY <1>6, RunReturnFacts, StackFacts DEF RunReturn, InLoop
  <2>2. Count(taskQueue, CalloutTasks) = Count(taskQueue', CalloutTasks)
    BY <2>1, <1>b, CountTail
  <2>3. Count(wstack, FunctionFrames) = Count(wstack', FunctionFrames)
    BY <2>1, <1>b, CountTail
  <2>4. \A i \in Invocations : cpc'[i] = "lost" <=> cpc[i] = "lost"
    BY <1>6, RunReturnFacts
  <2>5. ReturnedHere' = ReturnedHere
    BY <1>6, <2>4 DEF RunReturn, ReturnedHere, Returned
  <2> QED
    BY <2>1, <2>2, <2>3, <2>5, <1>a DEF LeakSum
<1>7. ASSUME NEW t \in Threads, EnterCallback(t) PROVE liveTasks' = LeakSum'
  <2>1. /\ liveTasks' = liveTasks /\ taskQueue' = taskQueue /\ pc' = pc
    BY <1>7 DEF EnterCallback
  <2>2. PICK i \in Invocations :
           /\ cpc[i] = "none" /\ pc[i] = "none" /\ cpc' = [cpc EXCEPT ![i] = "loaded"]
           /\ wstack' = IF t = Worker THEN <<Loop(i)>> \o wstack ELSE wstack
    BY <1>7, EnterFacts
  <2>3. Loop(i) \in Frames /\ Loop(i) \notin FunctionFrames
    BY DEF Loop, Frames, LoopFrames, FunctionFrames
  <2>4. Count(wstack', FunctionFrames) = Count(wstack, FunctionFrames)
    BY <2>2, <2>3, <1>b, CountPush
  <2>5. ReturnedHere' = ReturnedHere
    BY <2>1, <2>2, <1>b DEF ReturnedHere, Returned
  <2> QED
    BY <2>1, <2>4, <2>5, <1>a DEF LeakSum
<1>8. ASSUME NEW i \in Invocations, PushCallback(i) PROVE liveTasks' = LeakSum'
  <2>1. taskQueue' = taskQueue /\ wstack' = wstack /\ liveTasks' = liveTasks
    BY <1>8 DEF PushCallback, cVars
  <2>2. ReturnedHere' = ReturnedHere
    BY <1>8, <1>b DEF PushCallback, cVars, imageVars, IInv, TypeOK, QueueInv, ReturnedHere, Returned
  <2> QED
    BY <2>1, <2>2, <1>a DEF LeakSum
<1>9. ASSUME NEW i \in Invocations, PostCallback(i) PROVE liveTasks' = LeakSum'
  <2>1. taskQueue' = taskQueue /\ wstack' = wstack /\ liveTasks' = liveTasks
    BY <1>9 DEF PostCallback, cVars
  <2>2. ReturnedHere' = ReturnedHere
    BY <1>9, <1>b DEF PostCallback, cVars, imageVars, IInv, TypeOK, QueueInv, ReturnedHere, Returned
  <2> QED
    BY <2>1, <2>2, <1>a DEF LeakSum
<1>10. ASSUME NEW i \in Invocations, ResumeForeign(i) PROVE liveTasks' = LeakSum'
  <2>1. taskQueue' = taskQueue /\ wstack' = wstack /\ liveTasks' = liveTasks
    BY <1>10 DEF ResumeForeign, cVars
  <2>2. ReturnedHere' = ReturnedHere
    BY <1>10, <1>b DEF ResumeForeign, cVars, imageVars, IInv, TypeOK, QueueInv, ReturnedHere, Returned
  <2> QED
    BY <2>1, <2>2, <1>a DEF LeakSum
<1>11. CASE FetchCallback
  <2>1. taskQueue' = taskQueue /\ wstack' = wstack /\ liveTasks' = liveTasks
    BY <1>11 DEF FetchCallback, cVars
  <2>2. ReturnedHere' = ReturnedHere
    BY <1>11, <1>b DEF FetchCallback, cVars, imageVars, IInv, TypeOK, QueueInv, ReturnedHere, Returned
  <2> QED
    BY <2>1, <2>2, <1>a DEF LeakSum
<1>12. CASE ExecuteCallback
  <2>1. taskQueue' = taskQueue /\ wstack' = wstack /\ liveTasks' = liveTasks
    BY <1>12 DEF ExecuteCallback, cVars
  <2>2. ReturnedHere' = ReturnedHere
    BY <1>12, <1>b DEF ExecuteCallback, cVars, imageVars, IInv, TypeOK, QueueInv, ReturnedHere, Returned
  <2> QED
    BY <2>1, <2>2, <1>a DEF LeakSum
<1>13. ASSUME NEW i \in Invocations, WriteReturnValue(i) PROVE liveTasks' = LeakSum'
  <2>1. taskQueue' = taskQueue /\ wstack' = wstack /\ liveTasks' = liveTasks
    BY <1>13 DEF WriteReturnValue, cVars
  <2>2. ReturnedHere' = ReturnedHere
    BY <1>13, <1>b DEF WriteReturnValue, cVars, imageVars, IInv, TypeOK, QueueInv, ReturnedHere, Returned
  <2> QED
    BY <2>1, <2>2, <1>a DEF LeakSum
<1>14. ASSUME NEW i \in Invocations, ReturnOfOldSession(i) PROVE liveTasks' = LeakSum'
  <2>1. taskQueue' = taskQueue /\ wstack' = wstack /\ liveTasks' = liveTasks
    BY <1>14 DEF ReturnOfOldSession, cVars
  <2>2. ReturnedHere' = ReturnedHere
    BY <1>14, <1>b DEF ReturnOfOldSession, cVars, imageVars, IInv, TypeOK, QueueInv, ReturnedHere, Returned
  <2> QED
    BY <2>1, <2>2, <1>a DEF LeakSum
<1>15. ASSUME NEW i \in Invocations, ReturnAccepted(i) PROVE liveTasks' = LeakSum'
  <2>1. taskQueue' = taskQueue /\ wstack' = wstack /\ liveTasks' = liveTasks
    BY <1>15 DEF ReturnAccepted, cVars
  <2>2. ReturnedHere' = ReturnedHere
    BY <1>15, <1>b DEF ReturnAccepted, cVars, imageVars, IInv, TypeOK, QueueInv, ReturnedHere, Returned
  <2> QED
    BY <2>1, <2>2, <1>a DEF LeakSum
<1>16. ASSUME NEW i \in Invocations, ReturnRefused(i) PROVE liveTasks' = LeakSum'
  <2>1. taskQueue' = taskQueue /\ wstack' = wstack /\ liveTasks' = liveTasks
    BY <1>16 DEF ReturnRefused, cVars
  <2>2. ReturnedHere' = ReturnedHere
    BY <1>16, <1>b DEF ReturnRefused, cVars, imageVars, IInv, TypeOK, QueueInv, ReturnedHere, Returned
  <2> QED
    BY <2>1, <2>2, <1>a DEF LeakSum
<1>17. ASSUME NEW i \in Invocations, WaitToRetry(i) PROVE liveTasks' = LeakSum'
  <2>1. taskQueue' = taskQueue /\ wstack' = wstack /\ liveTasks' = liveTasks
    BY <1>17 DEF WaitToRetry, cVars
  <2>2. ReturnedHere' = ReturnedHere
    BY <1>17, <1>b DEF WaitToRetry, cVars, imageVars, IInv, TypeOK, QueueInv, ReturnedHere, Returned
  <2> QED
    BY <2>1, <2>2, <1>a DEF LeakSum
<1>18. ASSUME NEW i \in Invocations, PopLoad(i) PROVE liveTasks' = LeakSum'
  <2>1. taskQueue' = taskQueue /\ wstack' = wstack /\ liveTasks' = liveTasks
    BY <1>18 DEF PopLoad, cVars
  <2>2. ReturnedHere' = ReturnedHere
    BY <1>18, <1>b DEF PopLoad, cVars, imageVars, IInv, TypeOK, QueueInv, ReturnedHere, Returned
  <2> QED
    BY <2>1, <2>2, <1>a DEF LeakSum
<1>19. ASSUME NEW i \in Invocations, PopStore(i) PROVE liveTasks' = LeakSum'
  <2> DEFINE x == CallbackReturn(IF HasSemaphore(i) THEN i ELSE NULL)
  <2>1. wstack' = wstack /\ liveTasks' = liveTasks + 1 /\ taskQueue' = Append(taskQueue, x)
        /\ cpc' = cpc /\ pc' = [pc EXCEPT ![i] = "returned"] /\ pc[i] = "popping"
    BY <1>19 DEF PopStore, cVars
  <2>2. x \in Tasks /\ x \notin CalloutTasks
    BY DEF CallbackReturn, Tasks, CalloutTasks, ReturnTasks
  <2> HIDE DEF x
  <2>3. Count(taskQueue', CalloutTasks) = Count(taskQueue, CalloutTasks)
    BY <2>1, <2>2, <1>b, CountAppend
  <2>4. cpc[i] # "lost" /\ i \notin ReturnedHere
    BY <2>1 DEF IInv, VMInv, Posted, ReturnedHere, Returned
  <2>5. ReturnedHere' = ReturnedHere \cup {i}
    BY <2>1, <2>4, <1>b DEF ReturnedHere, Returned
  <2>6. Cardinality(ReturnedHere') = Cardinality(ReturnedHere) + 1
    BY <2>4, <2>5, <1>b, FS_AddElement
  <2> QED
    BY <2>1, <2>3, <2>6, <1>a, <1>b DEF LeakSum
<1>20. ASSUME NEW i \in Invocations, PopInvocation(i) PROVE liveTasks' = LeakSum'
  <2>1. taskQueue' = taskQueue /\ wstack' = wstack /\ liveTasks' = liveTasks
    BY <1>20 DEF PopInvocation, cVars
  <2>2. ReturnedHere' = ReturnedHere
    BY <1>20, <1>b DEF PopInvocation, cVars, imageVars, IInv, TypeOK, QueueInv, ReturnedHere, Returned
  <2> QED
    BY <2>1, <2>2, <1>a DEF LeakSum
<1>21. CASE Restart
  <2>1. wstack' = <<Loop(NULL)>> /\ taskQueue' = <<>> /\ liveTasks' = 0
    BY <1>21 DEF Restart
  <2>2. Count(taskQueue', CalloutTasks) = 0
    BY <2>1, CountEmpty
  <2>3. Count(wstack', FunctionFrames) = 0
    <3>1. Loop(NULL) \in Frames /\ Loop(NULL) \notin FunctionFrames
      BY DEF Loop, Frames, LoopFrames, FunctionFrames
    <3>2. wstack' \in Seq(Frames) /\ Len(wstack') = 1 /\ wstack'[1] = Loop(NULL)
      BY <2>1, <3>1
    <3>3. \A k \in 1..Len(wstack') : wstack'[k] \notin FunctionFrames
      BY <3>1, <3>2
    <3> QED
      BY <3>2, <3>3, CountType
  <2>4. ReturnedHere' = {}
    BY <1>21, TypeFacts DEF Restart, ReturnedHere, Returned, IInv, ThreadInv, Unposted
  <2>5. Cardinality(ReturnedHere') = 0
    BY <2>4, FS_EmptySet
  <2> QED
    BY <2>1, <2>2, <2>3, <2>5 DEF LeakSum
<1>22. CASE Rest \/ UNCHANGED vars
  BY <1>22, <1>a DEF Rest, vars, cVars, imageVars, LeakSum, ReturnedHere, Returned
<1> QED
  BY <1>1, <1>2, <1>3, <1>4, <1>5, <1>6, <1>7, <1>8, <1>9, <1>10, <1>11,
     <1>12, <1>13, <1>14, <1>15, <1>16, <1>17, <1>18, <1>19, <1>20, <1>21,
     <1>22 DEF Next, Thread, Image

\* MatchFacts in the next state.
LEMMA MatchFactsNext ==
  (TypeOK => (ReturnsMatchLoops <=>
                Cardinality(Unresumed) = Cardinality(Unreturned) + QueuedReturns))'
<1>1. TypeOK => (ReturnsMatchLoops <=>
                   Cardinality(Unresumed) = Cardinality(Unreturned) + QueuedReturns)
  BY MatchFacts
<1> QED
  BY <1>1, PTL

\* RunReturn ends a nested loop, never the thread's own one.
LEMMA OwnLoopStays ==
  ASSUME IInv, RunReturn
  PROVE  Head(wstack).for \in Invocations
<1> SUFFICES ASSUME Head(wstack).for = NULL PROVE FALSE
  BY RunReturnFacts
<1>1. PICK i \in Invocations : thread[i] = Worker /\ cpc[i] \in Active
  BY NoReturnForOwnLoop
<1>2. PICK n \in 1..Len(wstack) : wstack[n] = Loop(i)
  BY <1>1 DEF IInv, LoopInv
<1>3. Len(wstack) \in Nat \ {0} /\ wstack[1] = Loop(NULL)
  BY RunReturnFacts, StackFacts
<1>4. Len(wstack) = 1
  <2>1. wstack[Len(wstack)] = wstack[1] /\ wstack[1] \in LoopFrames
    BY <1>3 DEF IInv, LoopInv, Loop, LoopFrames
  <2>2. 1 \in 1..Len(wstack) /\ Len(wstack) \in 1..Len(wstack)
    BY <1>3
  <2> QED
    BY <2>1, <2>2 DEF IInv, LoopInv
<1>5. i = NULL
  BY <1>2, <1>3, <1>4 DEF Loop
<1> QED
  BY <1>5, TypeFacts DEF IInv

\* Each return task ends one nested loop.
LEMMA MatchStep == IInv /\ [Next]_vars => Cardinality(Unresumed)' = Cardinality(Unreturned)' + QueuedReturns'
<1> SUFFICES ASSUME IInv, [Next]_vars PROVE Cardinality(Unresumed)' = Cardinality(Unreturned)' + QueuedReturns'
  OBVIOUS
<1>a. Cardinality(Unresumed) = Cardinality(Unreturned) + QueuedReturns
  BY MatchFacts DEF IInv
<1>b. /\ taskQueue \in Seq(Tasks) /\ pc \in [Processes -> Labels]
      /\ cpc \in [Invocations -> FrameLabels]
      /\ thread \in [Invocations -> Threads \cup {NULL}]
      /\ Invocations \subseteq Processes /\ NULL \notin Threads /\ NULL \notin Processes
      /\ IsFiniteSet(Unresumed) /\ Cardinality(Unresumed) \in Nat
      /\ IsFiniteSet(Unreturned) /\ Cardinality(Unreturned) \in Nat
      /\ QueuedReturns \in Nat
  BY TypeFacts, MatchFacts DEF IInv
<1>1. ASSUME NEW p \in Processes, StartCallout(p) PROVE Cardinality(Unresumed)' = Cardinality(Unreturned)' + QueuedReturns'
  <2>1. taskQueue' = Append(taskQueue, Callout(p))
    BY <1>1 DEF StartCallout
  <2>2. Callout(p) \in Tasks /\ Callout(p) \notin {CallbackReturn(NULL)}
    BY DEF Callout, CallbackReturn, CalloutTasks, Tasks
  <2>3. QueuedReturns' = QueuedReturns
    BY <2>1, <2>2, <1>b, CountAppend DEF QueuedReturns, CallbackReturn
  <2>4. Unresumed' = Unresumed /\ Unreturned' = Unreturned
    BY <1>1, <1>b DEF StartCallout, cVars, Unresumed, Unreturned, OnWorker, Returned
  <2> QED
    BY <2>3, <2>4, <1>a
<1>2. ASSUME NEW p \in Processes, FinishCallout(p) PROVE Cardinality(Unresumed)' = Cardinality(Unreturned)' + QueuedReturns'
  <2>1. taskQueue' = taskQueue
    BY <1>2 DEF FinishCallout, cVars
  <2>2. Unresumed' = Unresumed /\ Unreturned' = Unreturned
    BY <1>2, <1>b DEF FinishCallout, cVars, imageVars, IInv, Unresumed, Unreturned, OnWorker, Returned
  <2> QED
    BY <2>1, <2>2, <1>a DEF QueuedReturns
<1>3. CASE RunCallout
  <2>1. taskQueue' = Tail(taskQueue) /\ taskQueue # <<>> /\ cpc' = cpc /\ pc' = pc /\ thread' = thread
    BY <1>3 DEF RunCallout
  <2>2. Head(taskQueue) \notin {CallbackReturn(NULL)}
    BY <1>3, TaskFacts DEF RunCallout, IInv, CallbackReturn
  <2>3. QueuedReturns' = QueuedReturns
    BY <2>1, <2>2, <1>b, CountTail DEF QueuedReturns, CallbackReturn
  <2>4. Unresumed' = Unresumed /\ Unreturned' = Unreturned
    BY <2>1 DEF Unresumed, Unreturned, OnWorker, Returned
  <2> QED
    BY <2>3, <2>4, <1>a
<1>4. CASE EndCallout
  <2>1. taskQueue' = taskQueue
    BY <1>4 DEF EndCallout, cVars
  <2>2. Unresumed' = Unresumed /\ Unreturned' = Unreturned
    BY <1>4, <1>b DEF EndCallout, cVars, imageVars, IInv, Unresumed, Unreturned, OnWorker, Returned
  <2> QED
    BY <2>1, <2>2, <1>a DEF QueuedReturns
<1>5. CASE RunReturnToForeign
  <2>1. taskQueue' = Tail(taskQueue) /\ taskQueue # <<>> /\ cpc' = cpc /\ pc' = pc /\ thread' = thread
    BY <1>5 DEF RunReturnToForeign
  <2>2. Head(taskQueue) \notin {CallbackReturn(NULL)}
    BY <1>5, TaskFacts DEF RunReturnToForeign, IInv, CallbackReturn
  <2>3. QueuedReturns' = QueuedReturns
    BY <2>1, <2>2, <1>b, CountTail DEF QueuedReturns, CallbackReturn
  <2>4. Unresumed' = Unresumed /\ Unreturned' = Unreturned
    BY <2>1 DEF Unresumed, Unreturned, OnWorker, Returned
  <2> QED
    BY <2>3, <2>4, <1>a
<1>6. CASE RunReturn
  <2> DEFINE h == Head(wstack).for
  <2>1. /\ h \in Invocations /\ cpc[h] = "waiting" /\ thread[h] = Worker
        /\ cpc' = [cpc EXCEPT ![h] = "resumed"]
    BY <1>6, <1>b, OwnLoopStays, RunReturnFacts
  <2>2. /\ taskQueue' = Tail(taskQueue) /\ taskQueue # <<>>
        /\ Head(taskQueue) \in {CallbackReturn(NULL)}
    BY <1>6, RunReturnFacts
  <2>3. pc' = pc /\ thread' = thread
    BY <1>6 DEF RunReturn
  <2> HIDE DEF h
  <2>4. QueuedReturns = QueuedReturns' + 1 /\ QueuedReturns' \in Nat
    <3>1. taskQueue' \in Seq(Tasks)
      BY <2>2, TaskFacts DEF IInv
    <3>2. Count(taskQueue', {CallbackReturn(NULL)}) \in Nat
      BY <3>1, CountType
    <3> QED
      BY <2>2, <3>2, <1>b, CountTail DEF QueuedReturns, CallbackReturn
  <2>5. h \in Unresumed /\ Unresumed' = Unresumed \ {h}
    BY <2>1, <2>3, <1>b DEF Unresumed, OnWorker
  <2>6. Unreturned' = Unreturned
    BY <2>1, <2>3, <1>b DEF Unreturned, OnWorker, Returned
  <2>7. Cardinality(Unresumed') = Cardinality(Unresumed) - 1
    BY <2>5, <1>b, FS_RemoveElement
  <2> QED
    BY <2>4, <2>6, <2>7, <1>a, <1>b
<1>7. ASSUME NEW t \in Threads, EnterCallback(t) PROVE Cardinality(Unresumed)' = Cardinality(Unreturned)' + QueuedReturns'
  <2>1. PICK i \in Invocations :
           /\ cpc[i] = "none" /\ thread[i] = NULL /\ pc[i] = "none"
           /\ cpc' = [cpc EXCEPT ![i] = "loaded"]
           /\ thread' = [thread EXCEPT ![i] = t]
    BY <1>7, EnterFacts
  <2>2. taskQueue' = taskQueue /\ pc' = pc
    BY <1>7 DEF EnterCallback
  <2>3. NULL # Worker
    BY <1>b DEF Threads
  <2>4. CASE t # Worker
    <3>1. Unresumed' = Unresumed /\ Unreturned' = Unreturned
      BY <2>1, <2>2, <2>3, <2>4, <1>b DEF Unresumed, Unreturned, OnWorker, Returned
    <3> QED
      BY <2>2, <3>1, <1>a DEF QueuedReturns
  <2>5. CASE t = Worker
    <3>1. Unresumed' = Unresumed \cup {i} /\ i \notin Unresumed
      BY <2>1, <2>2, <2>3, <2>5, <1>b DEF Unresumed, OnWorker
    <3>2. Unreturned' = Unreturned \cup {i} /\ i \notin Unreturned
      BY <2>1, <2>2, <2>3, <2>5, <1>b DEF Unreturned, OnWorker, Returned
    <3>3. Cardinality(Unresumed') = Cardinality(Unresumed) + 1
      BY <3>1, <1>b, FS_AddElement
    <3>4. Cardinality(Unreturned') = Cardinality(Unreturned) + 1
      BY <3>2, <1>b, FS_AddElement
    <3>5. QueuedReturns' = QueuedReturns
      BY <2>2 DEF QueuedReturns
    <3> QED
      BY <3>3, <3>4, <3>5, <1>a, <1>b
  <2> QED
    BY <2>4, <2>5
<1>8. ASSUME NEW i \in Invocations, PushCallback(i) PROVE Cardinality(Unresumed)' = Cardinality(Unreturned)' + QueuedReturns'
  <2>1. taskQueue' = taskQueue
    BY <1>8 DEF PushCallback, cVars
  <2>2. Unresumed' = Unresumed /\ Unreturned' = Unreturned
    BY <1>8, <1>b DEF PushCallback, cVars, imageVars, IInv, Unresumed, Unreturned, OnWorker, Returned
  <2> QED
    BY <2>1, <2>2, <1>a DEF QueuedReturns
<1>9. ASSUME NEW i \in Invocations, PostCallback(i) PROVE Cardinality(Unresumed)' = Cardinality(Unreturned)' + QueuedReturns'
  <2>1. taskQueue' = taskQueue
    BY <1>9 DEF PostCallback, cVars
  <2>2. Unresumed' = Unresumed /\ Unreturned' = Unreturned
    BY <1>9, <1>b DEF PostCallback, cVars, imageVars, IInv, Unresumed, Unreturned, OnWorker, Returned
  <2> QED
    BY <2>1, <2>2, <1>a DEF QueuedReturns
<1>10. ASSUME NEW i \in Invocations, ResumeForeign(i) PROVE Cardinality(Unresumed)' = Cardinality(Unreturned)' + QueuedReturns'
  <2>1. taskQueue' = taskQueue
    BY <1>10 DEF ResumeForeign, cVars
  <2>2. Unresumed' = Unresumed /\ Unreturned' = Unreturned
    BY <1>10, <1>b DEF ResumeForeign, cVars, imageVars, IInv, ForeignInv, Unresumed, Unreturned, OnWorker, Returned
  <2> QED
    BY <2>1, <2>2, <1>a DEF QueuedReturns
<1>11. CASE FetchCallback
  <2>1. taskQueue' = taskQueue
    BY <1>11 DEF FetchCallback, cVars
  <2>2. Unresumed' = Unresumed /\ Unreturned' = Unreturned
    BY <1>11, <1>b DEF FetchCallback, cVars, imageVars, IInv, Unresumed, Unreturned, OnWorker, Returned
  <2> QED
    BY <2>1, <2>2, <1>a DEF QueuedReturns
<1>12. CASE ExecuteCallback
  <2>1. taskQueue' = taskQueue
    BY <1>12 DEF ExecuteCallback, cVars
  <2>2. Unresumed' = Unresumed /\ Unreturned' = Unreturned
    BY <1>12, <1>b DEF ExecuteCallback, cVars, imageVars, IInv, TypeOK, QueueInv, Unresumed, Unreturned, OnWorker, Returned
  <2> QED
    BY <2>1, <2>2, <1>a DEF QueuedReturns
<1>13. ASSUME NEW i \in Invocations, WriteReturnValue(i) PROVE Cardinality(Unresumed)' = Cardinality(Unreturned)' + QueuedReturns'
  <2>1. taskQueue' = taskQueue
    BY <1>13 DEF WriteReturnValue, cVars
  <2>2. Unresumed' = Unresumed /\ Unreturned' = Unreturned
    BY <1>13, <1>b DEF WriteReturnValue, cVars, imageVars, IInv, Unresumed, Unreturned, OnWorker, Returned
  <2> QED
    BY <2>1, <2>2, <1>a DEF QueuedReturns
<1>14. ASSUME NEW i \in Invocations, ReturnOfOldSession(i) PROVE Cardinality(Unresumed)' = Cardinality(Unreturned)' + QueuedReturns'
  <2>1. taskQueue' = taskQueue
    BY <1>14 DEF ReturnOfOldSession, cVars
  <2>2. Unresumed' = Unresumed /\ Unreturned' = Unreturned
    BY <1>14, <1>b DEF ReturnOfOldSession, cVars, imageVars, IInv, Unresumed, Unreturned, OnWorker, Returned
  <2> QED
    BY <2>1, <2>2, <1>a DEF QueuedReturns
<1>15. ASSUME NEW i \in Invocations, ReturnAccepted(i) PROVE Cardinality(Unresumed)' = Cardinality(Unreturned)' + QueuedReturns'
  <2>1. taskQueue' = taskQueue
    BY <1>15 DEF ReturnAccepted, cVars
  <2>2. Unresumed' = Unresumed /\ Unreturned' = Unreturned
    BY <1>15, <1>b DEF ReturnAccepted, cVars, imageVars, IInv, Unresumed, Unreturned, OnWorker, Returned
  <2> QED
    BY <2>1, <2>2, <1>a DEF QueuedReturns
<1>16. ASSUME NEW i \in Invocations, ReturnRefused(i) PROVE Cardinality(Unresumed)' = Cardinality(Unreturned)' + QueuedReturns'
  <2>1. taskQueue' = taskQueue
    BY <1>16 DEF ReturnRefused, cVars
  <2>2. Unresumed' = Unresumed /\ Unreturned' = Unreturned
    BY <1>16, <1>b DEF ReturnRefused, cVars, imageVars, IInv, Unresumed, Unreturned, OnWorker, Returned
  <2> QED
    BY <2>1, <2>2, <1>a DEF QueuedReturns
<1>17. ASSUME NEW i \in Invocations, WaitToRetry(i) PROVE Cardinality(Unresumed)' = Cardinality(Unreturned)' + QueuedReturns'
  <2>1. taskQueue' = taskQueue
    BY <1>17 DEF WaitToRetry, cVars
  <2>2. Unresumed' = Unresumed /\ Unreturned' = Unreturned
    BY <1>17, <1>b DEF WaitToRetry, cVars, imageVars, IInv, Unresumed, Unreturned, OnWorker, Returned
  <2> QED
    BY <2>1, <2>2, <1>a DEF QueuedReturns
<1>18. ASSUME NEW i \in Invocations, PopLoad(i) PROVE Cardinality(Unresumed)' = Cardinality(Unreturned)' + QueuedReturns'
  <2>1. taskQueue' = taskQueue
    BY <1>18 DEF PopLoad, cVars
  <2>2. Unresumed' = Unresumed /\ Unreturned' = Unreturned
    BY <1>18, <1>b DEF PopLoad, cVars, imageVars, IInv, Unresumed, Unreturned, OnWorker, Returned
  <2> QED
    BY <2>1, <2>2, <1>a DEF QueuedReturns
<1>19. ASSUME NEW i \in Invocations, PopStore(i) PROVE Cardinality(Unresumed)' = Cardinality(Unreturned)' + QueuedReturns'
  <2> DEFINE x == CallbackReturn(IF HasSemaphore(i) THEN i ELSE NULL)
  <2>1. /\ taskQueue' = Append(taskQueue, x) /\ cpc' = cpc /\ thread' = thread
        /\ pc[i] = "popping" /\ pc' = [pc EXCEPT ![i] = "returned"]
    BY <1>19 DEF PopStore, cVars
  <2>2. x \in Tasks /\ (x \in {CallbackReturn(NULL)} <=> ~HasSemaphore(i))
    BY <1>b DEF CallbackReturn, Tasks, ReturnTasks
  <2>3. HasSemaphore(i) <=> thread[i] # Worker
    BY <2>1 DEF HasSemaphore, IInv, VMInv, ThreadInv
  <2>4. cpc[i] # "lost" /\ i \notin Returned
    BY <2>1 DEF IInv, VMInv, Posted, Returned
  <2>5. Unresumed' = Unresumed
    BY <2>1 DEF Unresumed, OnWorker
  <2> HIDE DEF x
  <2>6. Count(taskQueue', {CallbackReturn(NULL)}) =
          IF x \in {CallbackReturn(NULL)} THEN QueuedReturns + 1 ELSE QueuedReturns
    BY <2>1, <2>2, <1>b, CountAppend DEF QueuedReturns
  <2>7. QueuedReturns' = IF x \in {CallbackReturn(NULL)} THEN QueuedReturns + 1 ELSE QueuedReturns
    BY <2>6 DEF QueuedReturns, CallbackReturn
  <2>8. CASE thread[i] = Worker
    <3>1. Unreturned' = Unreturned \ {i} /\ i \in Unreturned
      BY <2>1, <2>4, <2>8, <1>b DEF Unreturned, OnWorker, Returned
    <3>2. Cardinality(Unreturned') = Cardinality(Unreturned) - 1
      BY <3>1, <1>b, FS_RemoveElement
    <3> QED
      BY <2>2, <2>3, <2>5, <2>7, <2>8, <3>2, <1>a, <1>b
  <2>9. CASE thread[i] # Worker
    <3>1. Unreturned' = Unreturned
      BY <2>1, <2>9, <1>b DEF Unreturned, OnWorker, Returned
    <3> QED
      BY <2>2, <2>3, <2>5, <2>7, <2>9, <3>1, <1>a
  <2> QED
    BY <2>8, <2>9
<1>20. ASSUME NEW i \in Invocations, PopInvocation(i) PROVE Cardinality(Unresumed)' = Cardinality(Unreturned)' + QueuedReturns'
  <2>1. taskQueue' = taskQueue
    BY <1>20 DEF PopInvocation, cVars
  <2>2. Unresumed' = Unresumed /\ Unreturned' = Unreturned
    BY <1>20, <1>b DEF PopInvocation, cVars, imageVars, IInv, Unresumed, Unreturned, OnWorker, Returned
  <2> QED
    BY <2>1, <2>2, <1>a DEF QueuedReturns
<1>21. CASE Restart
  <2>1. taskQueue' = <<>>
    BY <1>21 DEF Restart
  <2>2. QueuedReturns' = 0
    BY <2>1, CountEmpty DEF QueuedReturns
  <2>3. OnWorker' = {}
    BY <1>21, <1>b DEF Restart, OnWorker, IInv, ThreadInv, Threads
  <2>4. Unresumed' = {} /\ Unreturned' = {}
    BY <2>3 DEF Unresumed, Unreturned
  <2>5. Cardinality(Unresumed') = 0 /\ Cardinality(Unreturned') = 0
    BY <2>4, FS_EmptySet
  <2> QED
    BY <2>2, <2>5
<1>22. CASE Rest \/ UNCHANGED vars
  BY <1>22, <1>a
     DEF Rest, vars, cVars, imageVars, Unresumed, Unreturned, OnWorker, Returned, QueuedReturns
<1> QED
  BY <1>1, <1>2, <1>3, <1>4, <1>5, <1>6, <1>7, <1>8, <1>9, <1>10, <1>11,
     <1>12, <1>13, <1>14, <1>15, <1>16, <1>17, <1>18, <1>19, <1>20, <1>21,
     <1>22 DEF Next, Thread, Image

\* The part about stackProtect.
LEMMA ProtectStep == IInv /\ Restarts # "anytime" /\ [Next]_vars => ProtectInv'
<1> SUFFICES ASSUME IInv, Restarts # "anytime", [Next]_vars PROVE ProtectInv'
  OBVIOUS
<1>a. /\ ProtectInv /\ pc \in [Processes -> Labels] /\ Invocations \subseteq Processes
      /\ NULL \notin Invocations /\ fetched \in Invocations \cup {NULL}
  BY TypeFacts DEF IInv, TypeOK
<1>1. ASSUME NEW p \in Processes, StartCallout(p) PROVE ProtectInv'
  BY <1>1, <1>a DEF StartCallout, cVars, imageVars, ProtectInv
<1>2. ASSUME NEW p \in Processes, FinishCallout(p) PROVE ProtectInv'
  BY <1>2, <1>a DEF FinishCallout, cVars, imageVars, ProtectInv
<1>3. CASE RunCallout
  BY <1>3, <1>a DEF RunCallout, cVars, imageVars, ProtectInv
<1>4. CASE EndCallout
  BY <1>4, <1>a DEF EndCallout, cVars, imageVars, ProtectInv
<1>5. CASE RunReturnToForeign
  BY <1>5, <1>a DEF RunReturnToForeign, cVars, imageVars, ProtectInv
<1>6. CASE RunReturn
  BY <1>6, <1>a DEF RunReturn, cVars, imageVars, ProtectInv
<1>7. ASSUME NEW t \in Threads, EnterCallback(t) PROVE ProtectInv'
  BY <1>7, <1>a DEF EnterCallback, cVars, imageVars, ProtectInv
<1>8. ASSUME NEW i \in Invocations, PushCallback(i) PROVE ProtectInv'
  BY <1>8, <1>a DEF PushCallback, cVars, imageVars, ProtectInv
<1>9. ASSUME NEW i \in Invocations, PostCallback(i) PROVE ProtectInv'
  BY <1>9, <1>a DEF PostCallback, cVars, imageVars, ProtectInv
<1>10. ASSUME NEW i \in Invocations, ResumeForeign(i) PROVE ProtectInv'
  BY <1>10, <1>a DEF ResumeForeign, cVars, imageVars, ProtectInv
<1>11. CASE FetchCallback
  BY <1>11, <1>a DEF FetchCallback, cVars, imageVars, ProtectInv
<1>12. CASE ExecuteCallback
  BY <1>12, <1>a DEF ExecuteCallback, cVars, imageVars, ProtectInv
<1>13. ASSUME NEW i \in Invocations, WriteReturnValue(i) PROVE ProtectInv'
  BY <1>13, <1>a DEF WriteReturnValue, cVars, imageVars, ProtectInv
<1>14. ASSUME NEW i \in Invocations, ReturnOfOldSession(i) PROVE ProtectInv'
  BY <1>14, <1>a DEF ReturnOfOldSession, cVars, imageVars, ProtectInv
<1>15. ASSUME NEW i \in Invocations, ReturnAccepted(i) PROVE ProtectInv'
  BY <1>15, <1>a DEF ReturnAccepted, cVars, imageVars, ProtectInv
<1>16. ASSUME NEW i \in Invocations, ReturnRefused(i) PROVE ProtectInv'
  BY <1>16, <1>a DEF ReturnRefused, cVars, imageVars, ProtectInv
<1>17. ASSUME NEW i \in Invocations, WaitToRetry(i) PROVE ProtectInv'
  BY <1>17, <1>a DEF WaitToRetry, cVars, imageVars, ProtectInv
<1>18. ASSUME NEW i \in Invocations, PopLoad(i) PROVE ProtectInv'
  BY <1>18, <1>a DEF PopLoad, cVars, imageVars, ProtectInv, IInv, VMInv
<1>19. ASSUME NEW i \in Invocations, PopStore(i) PROVE ProtectInv'
  BY <1>19, <1>a DEF PopStore, cVars, imageVars, ProtectInv
<1>20. ASSUME NEW i \in Invocations, PopInvocation(i) PROVE ProtectInv'
  BY <1>20, <1>a DEF PopInvocation, cVars, imageVars, ProtectInv
<1>21. CASE Restart
  <2>1. stackProtect = NULL /\ pc' = pc
    BY <1>21, <1>a, WorkerAssumption DEF Restart
  <2> QED
    BY <2>1, <1>a DEF ProtectInv
<1>22. CASE Rest \/ UNCHANGED vars
  BY <1>22, <1>a DEF Rest, vars, cVars, imageVars, ProtectInv
<1> QED
  BY <1>1, <1>2, <1>3, <1>4, <1>5, <1>6, <1>7, <1>8, <1>9, <1>10, <1>11,
     <1>12, <1>13, <1>14, <1>15, <1>16, <1>17, <1>18, <1>19, <1>20, <1>21,
     <1>22 DEF Next, Thread, Image

\* A return pops its own invocation.
LEMMA PopsStep == IInv /\ Restarts # "anytime" /\ [Next]_vars => PopsItsOwn'
<1> SUFFICES ASSUME IInv, Restarts # "anytime", [Next]_vars PROVE PopsItsOwn'
  OBVIOUS
<1>a. /\ PopsItsOwn /\ ProtectInv
      /\ pc \in [Processes -> Labels] /\ Invocations \subseteq Processes
      /\ cpc \in [Invocations -> FrameLabels]
      /\ NULL \notin Invocations /\ fetched \in Invocations \cup {NULL}
  BY TypeFacts DEF IInv, TypeOK
<1>1. ASSUME NEW p \in Processes, StartCallout(p) PROVE PopsItsOwn'
  BY <1>1, <1>a DEF StartCallout, cVars, imageVars, PopsItsOwn
<1>2. ASSUME NEW p \in Processes, FinishCallout(p) PROVE PopsItsOwn'
  BY <1>2, <1>a DEF FinishCallout, cVars, imageVars, PopsItsOwn
<1>3. CASE RunCallout
  BY <1>3, <1>a DEF RunCallout, cVars, imageVars, PopsItsOwn
<1>4. CASE EndCallout
  BY <1>4, <1>a DEF EndCallout, cVars, imageVars, PopsItsOwn
<1>5. CASE RunReturnToForeign
  BY <1>5, <1>a DEF RunReturnToForeign, cVars, imageVars, PopsItsOwn
<1>6. CASE RunReturn
  <2>1. pc' = pc /\ invocationStack' = invocationStack
    BY <1>6 DEF RunReturn, imageVars
  <2>2. \A j \in Invocations : cpc[j] = "lost" => cpc'[j] = "lost"
    BY <1>6, <1>a, RunReturnFacts
  <2> QED
    BY <2>1, <2>2, <1>a DEF PopsItsOwn
<1>7. ASSUME NEW t \in Threads, EnterCallback(t) PROVE PopsItsOwn'
  <2>1. pc' = pc /\ invocationStack' = invocationStack
    BY <1>7 DEF EnterCallback, imageVars
  <2>2. \A j \in Invocations : cpc[j] = "lost" => cpc'[j] = "lost"
    BY <1>7, <1>a, EnterFacts
  <2> QED
    BY <2>1, <2>2, <1>a DEF PopsItsOwn
<1>8. ASSUME NEW i \in Invocations, PushCallback(i) PROVE PopsItsOwn'
  <2>1. pc' = pc /\ invocationStack' = invocationStack
    BY <1>8 DEF PushCallback, imageVars
  <2>2. \A j \in Invocations : cpc[j] = "lost" => cpc'[j] = "lost"
    BY <1>8, <1>a DEF PushCallback
  <2> QED
    BY <2>1, <2>2, <1>a DEF PopsItsOwn
<1>9. ASSUME NEW i \in Invocations, PostCallback(i) PROVE PopsItsOwn'
  <2>1. pc' = pc /\ invocationStack' = invocationStack
    BY <1>9 DEF PostCallback, imageVars
  <2>2. \A j \in Invocations : cpc[j] = "lost" => cpc'[j] = "lost"
    BY <1>9, <1>a DEF PostCallback
  <2> QED
    BY <2>1, <2>2, <1>a DEF PopsItsOwn
<1>10. ASSUME NEW i \in Invocations, ResumeForeign(i) PROVE PopsItsOwn'
  <2>1. pc' = pc /\ invocationStack' = invocationStack
    BY <1>10 DEF ResumeForeign, imageVars
  <2>2. \A j \in Invocations : cpc[j] = "lost" => cpc'[j] = "lost"
    BY <1>10, <1>a DEF ResumeForeign
  <2> QED
    BY <2>1, <2>2, <1>a DEF PopsItsOwn
<1>11. CASE FetchCallback
  BY <1>11, <1>a DEF FetchCallback, cVars, imageVars, PopsItsOwn
<1>12. CASE ExecuteCallback
  <2>1. \A j \in Invocations : pc'[j] \notin {"accepted", "popping", "returned"}
    BY <1>12, <1>a DEF ExecuteCallback, ProtectInv
  <2> QED
    BY <2>1 DEF PopsItsOwn
<1>13. ASSUME NEW i \in Invocations, WriteReturnValue(i) PROVE PopsItsOwn'
  BY <1>13, <1>a DEF WriteReturnValue, cVars, imageVars, PopsItsOwn
<1>14. ASSUME NEW i \in Invocations, ReturnOfOldSession(i) PROVE PopsItsOwn'
  BY <1>14, <1>a DEF ReturnOfOldSession, cVars, imageVars, PopsItsOwn
<1>15. ASSUME NEW i \in Invocations, ReturnAccepted(i) PROVE PopsItsOwn'
  BY <1>15, <1>a DEF ReturnAccepted, cVars, imageVars, PopsItsOwn
<1>16. ASSUME NEW i \in Invocations, ReturnRefused(i) PROVE PopsItsOwn'
  BY <1>16, <1>a DEF ReturnRefused, cVars, imageVars, PopsItsOwn
<1>17. ASSUME NEW i \in Invocations, WaitToRetry(i) PROVE PopsItsOwn'
  BY <1>17, <1>a DEF WaitToRetry, cVars, imageVars, PopsItsOwn
<1>18. ASSUME NEW i \in Invocations, PopLoad(i) PROVE PopsItsOwn'
  BY <1>18, <1>a DEF PopLoad, cVars, imageVars, PopsItsOwn
<1>19. ASSUME NEW i \in Invocations, PopStore(i) PROVE PopsItsOwn'
  BY <1>19, <1>a DEF PopStore, cVars, imageVars, PopsItsOwn
<1>20. ASSUME NEW i \in Invocations, PopInvocation(i) PROVE PopsItsOwn'
  <2>1. \A j \in Invocations : pc'[j] \notin {"accepted", "popping", "returned"}
    BY <1>20, <1>a DEF PopInvocation, ProtectInv
  <2> QED
    BY <2>1 DEF PopsItsOwn
<1>21. CASE Restart
  <2>1. stackProtect = NULL /\ pc' = pc
    BY <1>21, <1>a, WorkerAssumption DEF Restart
  <2> QED
    BY <2>1, <1>a DEF ProtectInv, PopsItsOwn
<1>22. CASE Rest \/ UNCHANGED vars
  BY <1>22, <1>a DEF Rest, vars, cVars, imageVars, PopsItsOwn
<1> QED
  BY <1>1, <1>2, <1>3, <1>4, <1>5, <1>6, <1>7, <1>8, <1>9, <1>10, <1>11,
     <1>12, <1>13, <1>14, <1>15, <1>16, <1>17, <1>18, <1>19, <1>20, <1>21,
     <1>22 DEF Next, Thread, Image

\* The invariant holds at the beginning.
LEMMA InitInv == Init => IInv
<1> SUFFICES ASSUME Init PROVE IInv
  OBVIOUS
<1>1. wstack = <<Loop(NULL)>> /\ Loop(NULL) \in Frames /\ Loop(NULL) \notin FunctionFrames
      /\ taskQueue = <<>>
  BY DEF Init, Loop, Frames, LoopFrames, FunctionFrames
<1>2. wstack \in Seq(Frames) /\ Len(wstack) = 1 /\ wstack[1] = Loop(NULL) /\ wstack # <<>>
  BY <1>1
<1>3. TypeOK
  BY <1>2, WorkerAssumption
     DEF Init, TypeOK, Processes, Frames, LoopFrames, FunctionFrames
<1>4. /\ \A i \in Invocations : cpc[i] = "none" /\ thread[i] = NULL /\ payload[i] = NULL
                                /\ pc[i] = "none"
      /\ NULL \notin Invocations /\ NULL \notin Threads /\ NULL # "signalled"
  BY WorkerAssumption DEF Init, Processes
<1>5. ThreadInv
  BY <1>4 DEF ThreadInv, Posted
<1>6. LoopInv
  <2>1. \A i \in Invocations : Loop(i) # Loop(NULL) /\ cpc[i] \notin Active
    BY <1>4 DEF Loop, Active
  <2> QED
    BY <1>2, <2>1 DEF LoopInv
<1>7. QueueInv
  BY DEF QueueInv, Init
<1>8. VMInv
  BY <1>4 DEF VMInv, Init
<1>9. ForeignInv
  BY <1>1, <1>4 DEF ForeignInv
<1>10. OnlyReturnsLeakTasks
  <2>1. Count(taskQueue, CalloutTasks) = 0
    BY <1>1, CountEmpty
  <2>2. Count(wstack, FunctionFrames) = 0
    <3>1. \A k \in 1..Len(wstack) : wstack[k] \notin FunctionFrames
      BY <1>1, <1>2
    <3> QED
      BY <1>2, <3>1, CountType
  <2>3. ReturnedHere = {}
    BY <1>4 DEF ReturnedHere, Returned
  <2>4. Cardinality(ReturnedHere) = 0
    BY <2>3, FS_EmptySet
  <2>5. liveTasks = 0
    BY DEF Init
  <2> QED
    BY <1>3, <2>1, <2>2, <2>4, <2>5, LeakFacts DEF LeakSum
<1>11. ReturnsMatchLoops
  <2>1. QueuedReturns = 0
    BY <1>1, CountEmpty DEF QueuedReturns
  <2>2. OnWorker = {}
    BY <1>4 DEF OnWorker, Threads
  <2>3. Unresumed = {} /\ Unreturned = {}
    BY <2>2 DEF Unresumed, Unreturned
  <2>4. Cardinality(Unresumed) = 0 /\ Cardinality(Unreturned) = 0
    BY <2>3, FS_EmptySet
  <2> QED
    BY <1>3, <2>1, <2>4, MatchFacts
<1>12. ProtectInv /\ PopsItsOwn
  BY <1>4 DEF ProtectInv, PopsItsOwn
<1> QED
  BY <1>3, <1>5, <1>6, <1>7, <1>8, <1>9, <1>10, <1>11, <1>12 DEF IInv

\* Every step preserves the invariant.
LEMMA NextInv == IInv /\ [Next]_vars => IInv'
<1> SUFFICES ASSUME IInv, [Next]_vars PROVE IInv'
  OBVIOUS
<1>1. TypeOK'
  BY TypeStep
<1>2. OnlyReturnsLeakTasks'
  BY <1>1, LeakSumStep, LeakFactsNext
<1>3. ReturnsMatchLoops'
  BY <1>1, MatchStep, MatchFactsNext
<1>4. ThreadInv' /\ LoopInv' /\ QueueInv' /\ VMInv' /\ ForeignInv'
  BY ThreadStep, LoopStep, QueueStep, VMStep, ForeignStep
<1>5. Restarts # "anytime" => ProtectInv' /\ PopsItsOwn'
  BY ProtectStep, PopsStep
<1> QED
  BY <1>1, <1>2, <1>3, <1>4, <1>5 DEF IInv

\* The inductive invariant holds in every state that the runner reaches.
THEOREM Invariance == Spec => []IInv
<1>1. Init => IInv
  BY InitInv
<1>2. IInv /\ [Next]_vars => IInv'
  BY NextInv
<1> QED
  BY <1>1, <1>2, PTL DEF Spec

\* The state of the thread, the runner and the image keeps its types: the task
\* count never becomes negative, and primitiveCallbackReturn never reads the
\* previous invocation of an empty callback stack.
THEOREM TypeCorrect == Spec => []TypeOK
<1>1. IInv => TypeOK
  BY DEF IInv
<1> QED
  BY <1>1, Invariance, PTL

\* Whatever threads call back, and whether or not the image is restarted: each
\* CALLBACK_RETURN task without a semaphore ends one nested worker_run, and the
\* thread's own loop never ends.
THEOREM LoopsMatch == Spec => []ReturnsMatchLoops
<1>1. IInv => ReturnsMatchLoops
  BY DEF IInv
<1> QED
  BY <1>1, Invariance, PTL

\* executeWorkerTask releases the task of a callout exactly once, and the tasks
\* that are never released are those of callback returns.
THEOREM LeaksOnlyReturns == Spec => []OnlyReturnsLeakTasks
<1>1. IInv => OnlyReturnsLeakTasks
  BY DEF IInv
<1> QED
  BY <1>1, Invariance, PTL

\* Unless the image is restarted inside returnCallback, the invocation that
\* returnCallback pops is the one that primitiveCallbackReturn accepted.
THEOREM PopsOwn == ASSUME Restarts # "anytime" PROVE Spec => []PopsItsOwn
<1>1. IInv => PopsItsOwn
  BY DEF IInv
<1> QED
  BY <1>1, Invariance, PTL

\* When only foreign threads call back, any number of them and with any restarts,
\* worker_enter_callback does not come back before the handler has returned.
THEOREM ForeignFramesOutlive ==
  ASSUME Worker \notin Entering PROVE Spec => []FrameOutlivesHandler
<1>1. IInv => FrameOutlivesHandler
  <2> SUFFICES ASSUME IInv, NEW i \in Invocations, cpc[i] = "resumed" PROVE i \in Returned
    BY DEF FrameOutlivesHandler
  <2>1. thread[i] # Worker
    BY DEF IInv, ThreadInv
  <2> QED
    BY <2>1 DEF IInv, ForeignInv
<1> QED
  BY <1>1, Invariance, PTL
==============================================================================
