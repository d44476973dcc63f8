---------------------------- MODULE PooledCallouts ----------------------------
(***************************************************************************)
(* Callouts that borrow their semaphore from the runner's pool:            *)
(* TFPooledExternalAsyncCall, TFPool, TFExternalSemaphore and the part of  *)
(* TFRunner that creates the pool.  A semaphore is known to the VM by its  *)
(* index in the table of external objects, and executeWorkerTask signals   *)
(* that index.  The mutex of the pool makes takeOne and returnOne atomic;  *)
(* the lazy initialization of the runner is taken to be atomic as well.    *)
(***************************************************************************)
EXTENDS Integers, Sequences, FiniteSets

CONSTANTS
  Callers,     \* image processes that call functions
  Terminable,  \* the ones that may be terminated during a call
  PoolSize,    \* TFRunner semaphorePoolSize
  MaxCalls,    \* bound: calls of each process
  MaxRestarts, \* bound: times the image is started anew
  MaxIndex,    \* bound: size of the table of external objects
  NULL

ASSUME PoolAssumption ==
  /\ Terminable \subseteq Callers
  /\ PoolSize \in Nat /\ PoolSize >= 2
  /\ MaxCalls \in Nat /\ MaxRestarts \in Nat /\ MaxIndex \in Nat
  /\ IsFiniteSet(Callers) /\ NULL \notin Nat

VARIABLES
  pool,     \* [elements, pointer] of the runner's TFPool
  index,    \* index[s]: TFExternalSemaphore index; semaphores are 1, 2, ...
  excess,   \* excess[s]: signals semaphore s holds
  table,    \* the external objects: a semaphore or NULL at each index
  isNull,   \* the runner's handle is null: it has to be initialized
  tasks,    \* tasks the worker has not finished, oldest first
  finished, \* calls whose function came back: <<caller, number>>
  started,  \* how many calls each process began
  held,     \* the semaphore each process took
  pc,       \* control point of executeOn: in each process
  restarts

poolVars == <<pool, index, table, isNull>>
vars == <<pool, index, excess, table, isNull, tasks, finished, started, held, pc,
          restarts>>

Call(c) == <<c, started[c]>>

(***************************************************************************)
(* Semaphores and the table of external objects.                           *)
(***************************************************************************)
\* How many of the first x indices are free.
Rank(t, x) == Cardinality({y \in 1..x : t[y] = NULL})

\* registerExternalObject: answers the first free index, so that the k-th object
\* that is registered is given the k-th free index.
FreeIndex(t, k) == CHOOSE x \in 1..MaxIndex : t[x] = NULL /\ Rank(t, x) = k

\* The bound MaxIndex leaves room for n more objects.
Room(t, n) == \A k \in 1..n : \E x \in 1..MaxIndex : t[x] = NULL /\ Rank(t, x) = k

\* TFExternalSemaphore new, n times: the registry [index, table] afterwards.
Populate(r, n) ==
  [index |-> r.index \o [k \in 1..n |-> FreeIndex(r.table, k)],
   table |-> [x \in 1..MaxIndex |->
                IF r.table[x] = NULL /\ Rank(r.table, x) <= n
                  THEN Len(r.index) + Rank(r.table, x) ELSE r.table[x]]]

\* The semaphores that Populate adds.
Fresh(r, n) == [k \in 1..n |-> Len(r.index) + k]

Registry == [index |-> index, table |-> table]

\* TFPool release: unregister what is in the pool.
Release(r, elements) ==
  [index |-> r.index,
   table |-> [x \in 1..MaxIndex |->
                IF \E k \in DOMAIN elements : elements[k] # NULL /\ elements[k] = r.table[x]
                  THEN NULL ELSE r.table[x]]]

\* TFRunner ensureInitialized and doInitialize: a new pool when the runner is
\* null, in the place of the one it releases.
EnsureInitialized ==
  IF ~isNull
    THEN [pool |-> pool, registry |-> Registry]
    ELSE LET r == Release(Registry, pool.elements) IN
         [pool |-> [elements |-> Fresh(r, PoolSize), pointer |-> 1],
          registry |-> Populate(r, PoolSize)]

GrowRate == PoolSize \div 2

\* TFPool takeOne, up to the choice of the element: grow if nothing is left.
Grown(s) ==
  IF s.pool.pointer > Len(s.pool.elements)
    THEN [pool |-> [elements |-> s.pool.elements \o Fresh(s.registry, GrowRate),
                    pointer |-> s.pool.pointer],
          registry |-> Populate(s.registry, GrowRate)]
    ELSE s

\* The bound MaxIndex leaves room for the pool of a new session, and to grow it.
RoomForPool == isNull => Room(Release(Registry, pool.elements).table, PoolSize)
RoomToGrow == ~isNull /\ pool.pointer > Len(pool.elements) => Room(table, GrowRate)

\* The runner has pool p, the registry is r, and new semaphores hold no signal.
SetRunner(p, r) ==
  /\ pool' = p
  /\ index' = r.index
  /\ table' = r.table
  /\ isNull' = FALSE
  /\ excess' = [k \in DOMAIN r.index |-> IF k \in DOMAIN excess THEN excess[k] ELSE 0]

Init ==
  /\ pool = [elements |-> <<>>, pointer |-> 1]
  /\ index = <<>>
  /\ excess = <<>>
  /\ table = [x \in 1..MaxIndex |-> NULL]
  /\ isNull = TRUE
  /\ tasks = <<>>
  /\ finished = {}
  /\ started = [c \in Callers |-> 0]
  /\ held = [c \in Callers |-> NULL]
  /\ pc = [c \in Callers |-> "idle"]
  /\ restarts = 0

------------------------------------------------------------------------------
(***************************************************************************)
(* Faults: wrong versions of the steps below, which the properties must    *)
(* detect.  No specification uses them.                                    *)
(***************************************************************************)
\* takeOne leaves the element in its slot.
TakeOneLeavesElement(c) ==
  /\ pc[c] = "idle" /\ started[c] < MaxCalls
  /\ RoomForPool /\ RoomToGrow
  /\ LET s == Grown(EnsureInitialized)
         at == s.pool.pointer
     IN /\ SetRunner([elements |-> s.pool.elements, pointer |-> at + 1], s.registry)
        /\ held' = [held EXCEPT ![c] = s.pool.elements[at]]
  /\ started' = [started EXCEPT ![c] = @ + 1]
  /\ pc' = [pc EXCEPT ![c] = "taken"]
  /\ UNCHANGED <<tasks, finished, restarts>>

\* The wait does not wait.
WaitNot(c) ==
  /\ pc[c] = "waiting"
  /\ excess' = [excess EXCEPT ![held[c]] = @ - 1]
  /\ pc' = [pc EXCEPT ![c] = "reading"]
  /\ UNCHANGED <<poolVars, tasks, finished, started, held, restarts>>

\* The ensure block does not reset the semaphore.
ResetForgotten(c) ==
  /\ pc[c] = "resetting"
  /\ pc' = [pc EXCEPT ![c] = "returning"]
  /\ UNCHANGED <<poolVars, excess, tasks, finished, started, held, restarts>>

\* The ensure block does not return the semaphore.
ReturnOneForgotten(c) ==
  /\ pc[c] = "returning"
  /\ held' = [held EXCEPT ![c] = NULL]
  /\ pc' = [pc EXCEPT ![c] = "idle"]
  /\ UNCHANGED <<poolVars, excess, tasks, finished, started, restarts>>

\* The worker does not signal the caller.
RunTaskSilently ==
  /\ tasks # <<>>
  /\ finished' = finished \cup {Head(tasks).call}
  /\ tasks' = Tail(tasks)
  /\ UNCHANGED <<poolVars, excess, started, held, pc, restarts>>

------------------------------------------------------------------------------
(***************************************************************************)
(* TFPooledExternalAsyncCall executeOn:                                    *)
(***************************************************************************)
\* semaphore := aRunner semaphorePool takeOne
TakeOne(c) ==
  /\ pc[c] = "idle" /\ started[c] < MaxCalls
  /\ RoomForPool /\ RoomToGrow
  /\ LET s == Grown(EnsureInitialized)
         at == s.pool.pointer
     IN /\ SetRunner([elements |-> [s.pool.elements EXCEPT ![at] = NULL], pointer |-> at + 1],
                     s.registry)
        /\ held' = [held EXCEPT ![c] = s.pool.elements[at]]
  /\ started' = [started EXCEPT ![c] = @ + 1]
  /\ pc' = [pc EXCEPT ![c] = "taken"]
  /\ UNCHANGED <<tasks, finished, restarts>>

\* prepareExecution raises (the function is not valid): the ensure block runs.
PrepareFails(c) ==
  /\ pc[c] = "taken"
  /\ pc' = [pc EXCEPT ![c] = "resetting"]
  /\ UNCHANGED <<poolVars, excess, tasks, finished, started, held, restarts>>

\* executeFunction: the primitive puts a task; without a worker it fails.
Execute(c) ==
  /\ pc[c] = "taken"
  /\ IF isNull
       THEN pc' = [pc EXCEPT ![c] = "resetting"] /\ UNCHANGED tasks
       ELSE /\ tasks' = Append(tasks, [call |-> Call(c), index |-> index[held[c]]])
            /\ pc' = [pc EXCEPT ![c] = "called"]
  /\ UNCHANGED <<poolVars, excess, finished, started, held, restarts>>

\* self semaphore isSignaled: a signal that is there is not consumed.
CheckSignaled(c) ==
  /\ pc[c] = "called"
  /\ pc' = [pc EXCEPT ![c] = IF excess[held[c]] > 0 THEN "reading" ELSE "waiting"]
  /\ UNCHANGED <<poolVars, excess, tasks, finished, started, held, restarts>>

\* self semaphore wait
Wait(c) ==
  /\ pc[c] = "waiting" /\ excess[held[c]] > 0
  /\ excess' = [excess EXCEPT ![held[c]] = @ - 1]
  /\ pc' = [pc EXCEPT ![c] = "reading"]
  /\ UNCHANGED <<poolVars, tasks, finished, started, held, restarts>>

\* readReturnValueFromTask, the value is read from the task's holder.
ReadReturnValue(c) ==
  /\ pc[c] = "reading"
  /\ pc' = [pc EXCEPT ![c] = "resetting"]
  /\ UNCHANGED <<poolVars, excess, tasks, finished, started, held, restarts>>

\* The process is terminated inside the block: only the ensure block runs.
Terminate(c) ==
  /\ c \in Terminable /\ pc[c] \in {"taken", "called", "waiting", "reading"}
  /\ pc' = [pc EXCEPT ![c] = "resetting"]
  /\ UNCHANGED <<poolVars, excess, tasks, finished, started, held, restarts>>

\* ensure block: semaphore reset, that is consumeAllSignals ...
Reset(c) ==
  /\ pc[c] = "resetting"
  /\ excess' = [excess EXCEPT ![held[c]] = 0]
  /\ pc' = [pc EXCEPT ![c] = "returning"]
  /\ UNCHANGED <<poolVars, tasks, finished, started, held, restarts>>

\* ... and aRunner semaphorePool returnOne: semaphore, which releases the
\* semaphore if no slot of the pool is free.
ReturnOne(c) ==
  /\ pc[c] = "returning"
  /\ RoomForPool
  /\ LET s == EnsureInitialized
         at == s.pool.pointer - 1
     IN IF at > 0
          THEN SetRunner([elements |-> [s.pool.elements EXCEPT ![at] = held[c]], pointer |-> at],
                         s.registry)
          ELSE SetRunner(s.pool, Release(s.registry, <<held[c]>>))
  /\ held' = [held EXCEPT ![c] = NULL]
  /\ pc' = [pc EXCEPT ![c] = "idle"]
  /\ UNCHANGED <<tasks, finished, started, restarts>>

------------------------------------------------------------------------------
(***************************************************************************)
(* The worker and the image.                                               *)
(***************************************************************************)
\* executeWorkerTask: the function comes back, then the index is signalled.
RunTask ==
  /\ tasks # <<>>
  /\ finished' = finished \cup {Head(tasks).call}
  /\ LET s == table[Head(tasks).index] IN
       excess' = IF s = NULL THEN excess ELSE [excess EXCEPT ![s] = @ + 1]
  /\ tasks' = Tail(tasks)
  /\ UNCHANGED <<poolVars, started, held, pc, restarts>>

\* The image is saved and started again: handles of the old session are null,
\* its worker is gone and the table of external objects is empty.  Processes
\* go on where they were.
Restart ==
  /\ restarts < MaxRestarts /\ ~isNull
  /\ restarts' = restarts + 1
  /\ isNull' = TRUE
  /\ table' = [x \in 1..MaxIndex |-> NULL]
  /\ tasks' = <<>>
  /\ UNCHANGED <<pool, index, excess, finished, started, held, pc>>

\* Every process made all its calls, within the bounds of the model.
Rest ==
  /\ \A c \in Callers : pc[c] = "idle" /\ started[c] = MaxCalls
  /\ UNCHANGED vars

Step(c) ==
  \/ TakeOne(c) \/ PrepareFails(c) \/ Execute(c) \/ CheckSignaled(c) \/ Wait(c)
  \/ ReadReturnValue(c) \/ Terminate(c) \/ Reset(c) \/ ReturnOne(c)

Next == (\E c \in Callers : Step(c)) \/ RunTask \/ Restart \/ Rest

Spec == Init /\ [][Next]_vars

\* Processes go on, and the functions they call come back.
FairSpec ==
  /\ Spec
  /\ WF_vars(RunTask)
  /\ \A c \in Callers :
       WF_vars(Execute(c) \/ CheckSignaled(c) \/ Wait(c) \/ ReadReturnValue(c)
               \/ Reset(c) \/ ReturnOne(c))

------------------------------------------------------------------------------
(***************************************************************************)
(* Properties                                                              *)
(***************************************************************************)
Slots == DOMAIN pool.elements

\* The types of the pool, the semaphores, the tasks and the processes.
TypeOK ==
  /\ pool \in [elements : Seq(DOMAIN index \cup {NULL}), pointer : Nat \ {0}]
  /\ pool.pointer <= Len(pool.elements) + 1
  /\ index \in Seq(1..MaxIndex)
  /\ excess \in [DOMAIN index -> Nat]
  /\ table \in [1..MaxIndex -> DOMAIN index \cup {NULL}]
  /\ isNull \in BOOLEAN
  /\ tasks \in Seq([call : Callers \X Nat, index : 1..MaxIndex])
  /\ finished \subseteq Callers \X Nat
  /\ started \in [Callers -> 0..MaxCalls]
  /\ held \in [Callers -> DOMAIN index \cup {NULL}]
  /\ pc \in [Callers -> {"idle", "taken", "called", "waiting", "reading",
                         "resetting", "returning"}]
  /\ restarts \in 0..MaxRestarts

\* A semaphore is in one place: no two calls wait on the same one, none is lent
\* while it is in the pool, and the free slots of the pool are the first ones,
\* also when calls are terminated and when the image is restarted during them.
SemaphoresAreExclusive ==
  /\ \A c, d \in Callers : held[c] # NULL /\ held[c] = held[d] => c = d
  /\ \A c \in Callers, k \in Slots : held[c] # NULL => pool.elements[k] # held[c]
  /\ \A j, k \in Slots : pool.elements[k] # NULL /\ pool.elements[j] = pool.elements[k] => j = k
  /\ \A k \in Slots : pool.elements[k] = NULL <=> k < pool.pointer

\* The pool grows with the number of simultaneous calls, at most one for each
\* caller, and not with the number of calls: what was taken comes back to it.
PoolIsBounded ==
  \/ Len(pool.elements) <= PoolSize
  \/ Len(pool.elements) <= Cardinality(Callers) - 1 + PoolSize \div 2

\* "When the semaphore is signaled, the result is available": a process reads
\* the return value of its call only after its function came back.
ResultIsReady ==
  \A c \in Callers : pc[c] = "reading" => Call(c) \in finished

\* Every call returns: its signal reaches the process that waits.
EveryCallReturns ==
  \A c \in Callers : pc[c] = "taken" ~> pc[c] = "idle"
==============================================================================
