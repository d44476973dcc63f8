# Verification of the threaded FFI

TLA+ models of the threaded FFI of Pharo: the C plugin (`src/plugin`) and the
image code that drives it (`src/src/ThreadedFFI`). TLC checks the models on
small instances; TLAPS proves theorems for every instance of each component:
every invariant that a run checks is also a theorem, in full or under hypotheses
that say which programs and failures it needs (section 5).

    tlc -config MCTSQueue.cfg MCTSQueue          # a run
    tlapm TSQueueProofs.tla                      # proofs
    tlapm SameThreadProofs.tla
    tlapm SequenceLemmas.tla
    tlapm WorkerCallbacksProofs.tla
    tlapm WorkerNestingProofs.tla
    tlapm PooledCalloutsProofs.tla
    tlapm HandlesProofs.tla                      # the longest, a few minutes

Contents: 1 the system, 2 the models, 3 the runs, 4 fairness, 5 proofs,
6 disagreements with the code, 7 what is not modelled, 8 plan.

## 1. The system

A Pharo image calls C functions through a *runner*. A *worker* runner
(`TFWorker`) owns a C thread that executes the calls, so that the VM thread does
not block; the *same-thread* runner executes them on the VM thread. C functions
may call *callbacks*, blocks of the image, on the worker's thread or on any
other C thread.

| Part | State | Operations | Talks to |
|---|---|---|---|
| Thread-safe queue (`threadSafeQueue.c`) | linked list `first`/`last`, mutex, counting semaphore | `put` (any thread), `take` (one consumer), `free`, `size` | semaphores |
| Semaphores (`platformSemaphore.c`, `pharoSemaphore.c`) | POSIX/dispatch/Win32 counter, or an index into the VM's external objects | `wait`, `signal`, `free` | the OS, the VM |
| Worker (`worker.c`, `workerTask.c`, `workerPrimitives.c`) | task queue, the thread's stack of nested `worker_run` loops | callout task, callback-return task, prepare/enter/return of a callback | both queues, semaphores |
| Callbacks, C side (`callbacks.c`, `callbackPrimitives.c`) | `runner->callbackStack` threaded through C frames, the queue of pending invocations | `callbackFrontend`, `primitiveReadNextCallback`, `primitiveCallbackReturn`, (un)register | worker, callback queue |
| Callbacks, image side (`TFRunner`, `TFCallbackQueue`, `TFCallbackInvocation`, run strategies) | `callbackInvocationStack`, `stackProtect`, `callbackReturnSemaphore`, weak dictionary of callbacks | fetch, execute, return (refuse, wait, retry) | the primitives above |
| Pooled calls (`TFPool`, `TFPooledExternalAsyncCall`, `TFExternalAsyncCall`, `TFExternalSemaphore`) | pool of external semaphores | `takeOne`, execute, wait, `reset`, `returnOne:` | the worker signals a semaphore by index |
| Runner lifecycle (`TFWorker`, `TFRunner`, `TFMainThreadRunner`) | handle, session | lazy initialization, release, session restart | all of the above |
| Same-thread runner (`sameThread.c`, `TFSameThreadRunner`) | `callbackStack`, a `VMCallbackContext` for each callback | call, enter and return of callbacks | the VM's interpreter |
| Types and function definitions (`types.c`, `typesPrimitives.c`, `functionDefinitionPrimitives.c`, `TF*Type`, `TFFunctionDefinition`) | handles of `ffi_type`s and `ffi_cif`s | validate, define, free, marshal | libffi |
| UFFI backend (`ThreadedFFI-UFFI`) | none | translation of UFFI types | types |

Hard behaviour:

* three kinds of actors interleave: image processes (preempting each other by
  priority, never inside a primitive), the worker's thread, foreign C threads;
* `take` reads the list before it locks, `put` signals after it unlocked;
* `callbackStack` is shared without a lock by C threads and the VM thread;
* a callback return is *checked* on the VM thread and *executed* later by the
  worker: what was checked can be out of date;
* refused returns wait and retry: a lost wake-up blocks C for ever;
* pooled semaphores are reused, so a late or left-over signal reaches the wrong
  call; processes are terminated and images restarted during calls;
* the C memory of types, definitions, callbacks and workers is made lazily by
  whichever process needs it first (tested in one step, made in a later one) and
  freed by finalizers, while C code and queued tasks still hold its address; a
  primitive that fails half-way may be called again by the VM.

What makes the parts correct: the queue is a FIFO, frees each node once and
never loses a signal; a callback's C frame outlives its handler; callbacks
return in the reverse order of their entry and both callback stacks agree;
every callout and callback returns; no two calls share a semaphore; a result is
read only after its function came back; the pool does not grow without bound;
a handle that is not null owns live memory, what C uses is not freed, failures do
not leak, and an invocation finds the callback that C called.

## 2. The models

### `FIFOQueue`, `TSQueue`, `MCTSQueue`

`FIFOQueue` is the promise: a sequence, `Put` at its end, `Take` from its front.

`TSQueue` is `threadSafeQueue.c` with one step per access to shared memory.
`first`, `last`, `next`, `element` and `heap` are the list and its `malloc`ed
nodes, `mutex` the owner, `semaphore` the count. `PutAllocate` ... `PutSignal`
are the statements of `threadsafe_queue_put`, `TakeWait` ... `TakeFree` those of
`threadsafe_queue_take`; `TakeWaitFails` is the early return after a failed
wait. `chain` is a history variable: the nodes that are in the queue, in order;
`PutLast` and `TakeUnlink` update it and no guard reads it. `malloc` may answer
a node that was just freed, the case in which a stale pointer does harm.

There is one consumer, as in the code: the worker's thread for a task queue
(nested loops are on the same thread), the callback process for the callback
queue. For the callback queue `pharo_semaphore_wait` does nothing in C; the
image waits on the same counting semaphore before it calls the primitive.

### `NestedCalls`, `WorkerCallbacks`, `MCWorkerCallbacks`

`NestedCalls` is the promise to a program whose calls nest: a stack of active
functions and callbacks of which only the innermost may go on or end. A function
is called from outside or by the innermost callback's handler; `Concurrent`
names the processes that may call besides it. A worker promises nesting to one
line of calls (`Concurrent` is empty), the same-thread runner to any number of
processes.

`WorkerCallbacks` composes one worker with the image. The queues are sequences
(justified by `TSQueueProofs`). State and code:

| Variable | Code |
|---|---|
| `wstack` | frames of the worker's thread: `worker_run` loops, functions under `ffi_call` |
| `cpc`, `thread`, `previous`, `payload` | the `CallbackInvocation` in each frame of `callbackFrontend` |
| `callbackStack` | `runner->callbackStack` |
| `taskQueue`, `callbackQueue` | `worker->taskQueue`, `callbackQueue` |
| `liveTasks` | allocated `WorkerTask`s |
| `pc`, `calls`, `signalled` | control point of image processes, callouts left, semaphores of callouts |
| `fetched`, `invocationStack`, `stackProtect` | the callback process and `TFRunner`'s fields |
| `vm`, `below` | a process inside `primitiveCallbackReturn` and the pointer it read |

`EnterCallback`/`PushCallback` split `callbackFrontend`'s unlocked read and write
of `callbackStack`; `PopLoad`/`PopStore` split the same in
`primitiveCallbackReturn`. While `vm` is set no image process moves (a primitive
is not preempted), but C threads do. `ReturnRefused` and `WaitToRetry` are
separate because `returnCallback:` leaves `stackProtect` before it waits. The
fork strategy is what the model shows: every handler has a process of its own.

`Restart` is a save and a start of the image while callbacks are active: the C
frames are gone (`cpc` is `"lost"`), the runner gets a new stack, and the handlers
of the old session go on and find the handles of their invocations null
(`ReturnOfOldSession`). `Restarts` says when it may happen: never, outside of a
return that is between its primitive and its pop (`"quiet"`), or anytime.

`Entering` names the threads whose C code calls callbacks; the runs choose it.
External to `src/`: what C functions do (`CanEnter`), which is: call back, at
most once at a time per thread, and come back.

A callout is put into the queue by a primitive. At this commit `TFWorker` names
`primitiveWorkerCallout` and `primitiveWorkerExtractReturnValue`
(`TFWorker.class.st:62-67,115-120`), which are not in the repository; the models
translate the one that is, `primitivePerformWorkerCall` (`workerPrimitives.c:71-110`:
`StartCallout` here, `PerformWorkerCall` in `Handles`). No property depends on which of
them puts the task.

### `SameThread`, `MCSameThread`

The same-thread runner has no second thread. `cstack` is the C stack of the VM
above its first interpreter: functions under `ffi_call` and the interpreters
that `sameThreadCallbackEnter` entered. Only the innermost frame goes on: C code
(`InC`), or an interpreter with all image processes (`InImage`).

`StartCallout` and `EndCallout` are the two sides of `ffi_call` in
`primitiveSameThreadCallout`. `EnterCallback` is `callbackFrontend` with
`sameThreadCallbackEnter`: push on `callbackStack`, put into the queue, allocate
the `VMCallbackContext`, enter the interpreter. It is one step, because nothing
else runs meanwhile. The return is two steps: `ReturnAccepted` is
`returnCallback:` and `primitiveCallbackReturn` with the checks and the pop of
`callbackStack`, `Jump` is `sameThreadCallbackExit`, the
VM's long jump to the trampoline of the context, and the rest of
`sameThreadCallbackEnter` there. `Jump` goes
to the frame of the invocation *wherever that is on the stack*, and drops what
is above it; that it only ever drops the innermost frame is a result, not an
assumption. The primitive does not come back, so the process still holds
`stackProtect` while C goes on, and `PopInvocation`, the rest of
`returnCallback:`, runs when some interpreter runs again.

`EndCallout` leaves out that `primitiveSameThreadCallout` also signals a semaphore
(`sameThread.c:89`): no process waits on it, the call returns with the primitive. At
this commit `TFSameThreadCall` passes two arguments (`TFSameThreadCall.class.st:42`)
where the primitive reads four; the model is of the primitive.

External to `src/`: the nested interpreter. It resumes the image's processes
where they are, which is what makes a process that waits in the outer
interpreter runnable in the inner one.

### `PooledCallouts`, `MCPooledCallouts`

Calls of several processes through one runner with a pool. Semaphores are
numbered; `index[s]` is what the VM knows the semaphore by, `table` the VM's
external objects. `TakeOne` (with lazy initialization and growth), `Execute`,
`CheckSignaled`, `Wait`, `ReadReturnValue`, `Reset`, `ReturnOne` are the
statements of `executeOn:`; `PrepareFails` and `Terminate` run only the ensure
block. `RunTask` is the worker. `Restart` is a save and start of the image:
external, modelled from how `ensureInitialized`, `isNull` and the comment in
`TFPool>>returnOne:` deal with it: handles are null, the worker is gone, the
table is empty, processes go on.

`registerExternalObject` gives the first free index of the table; `Populate` gives the
`k`-th new semaphore of a pool the `k`-th free index (`Rank` counts the free ones), which is
the same and needs no recursion. `MaxIndex` bounds the table: a call starts only if
there is room for the semaphores it may have to make (`RoomForPool`, `RoomToGrow`).

`takeOne` and `returnOne:` are atomic because both hold the pool's mutex. The
initialization of the runner is atomic in this model; `Handles` has the race.

### `Handles`, `MCHandles`

The C memory behind image objects, for all classes that have a handle: basic
types (libffi's own), struct types, function definitions, callbacks, workers.
`handle[o]` is the address in the handle of `o`; `heap[a]` the group of blocks that
one primitive allocated at `a`, with a part for each `malloc` and the addresses it
contains. The primitives that allocate (`InitializeStructType`, `DefineFunction`,
`RegisterCallback` with `CallbackNew`, `CreateWorker`) are tables: a row for each
way to leave the primitive, with what was allocated and freed until there, whether
the handle was set, and whether the VM calls again. A primitive is one step, since
no image process runs meanwhile.

`Begin`, `Validate` and `Initialize` are the frames of `validate`,
`ensureInitialized` and `register`: a member is tested in one step and initialized
in a later one, so two processes may both do it. `PerformWorkerCall`,
`ExecuteWorkerTask` and `Return` are a call, whose task holds the addresses of the
worker and of the cif.

`Drop` lets the application forget a function or a callback; `Reachable` follows
instance variables from what it keeps and from the frames of processes; `Finalize`
(struct types, definitions, workers) frees what `Owned` lists. The finalizer of a
callback is two steps, `UnregisterCallback` and `BeNull`. `registry` is the weak
dictionary of `TFCallbackQueue`, a set of entries. The key of an entry is an address
*object*, the one in the handle of some callback; so the model has that callback as
the key, and `handle[e.key]` is what the dictionary compares. `RegisterInQueue` is
`at:put:`: if there is an entry with an equal key, it keeps its key and gets the new
value. `BeNull` empties the address object and leaves the dictionary alone. Other
processes may run between the two steps of the finalizer and register callbacks: nothing
in the code prevents it, and handlers run at `highIOPriority - 1`
(`TFCallbackForkRunStrategy.class.st:14`). `Invoke` and `ExecuteCallback` are an
invocation from C until the lookup; C calls callbacks that the application keeps, and
the application may drop a callback while its invocation waits.

In the table of `InitializeStructType`, `badMember` fails; if the member's handle is a
forwarder the VM calls the primitive again, after everything was freed, which amounts to
the row `ok`.

`HandlesAssumption` says what a program's objects look like: the kinds are disjoint,
struct types and definitions have types as members, callbacks types and their
runner, a call a worker and a definition; `Refs`, everything an object keeps in
reach, contains the members and is transitive; no type contains itself (a struct that
did would have no size).

External to `src/`: `malloc`/`free`, the garbage collector, which of its objects the
application keeps, the start of a saved image.

### Faults

Each module has a section of faults: wrong versions of single steps (a lock
that is not taken, a signal that is forgotten). No specification uses them;
each property is violated when one of them replaces its step, so the
properties do depend on the code.

## 3. The runs

| Run | Instance | Checks |
|---|---|---|
| `queue` (112126 states) | 2 producers, 3 nodes, 2 elements | `TypeOK`, `UnlockedReadIsSafe`, `SignalsMatchNodes`, `HeapIsExact`, `ImplementsFIFO`, `EventuallyTaken` |
| `nested` (41409) | 1 caller, 2 calls, 4 callbacks, 2 calls per handler | `TypeOK`, `StacksAgree`, `ImplementsNesting`, `EveryCalloutReturns`, `EveryCallbackReturns` |
| `foreign` (18678) | 2 callers, 2 calls each, 1 foreign thread, 3 callbacks, 1 call per handler | `FrameOutlivesHandler`, `EveryCalloutReturns`, `EveryCallbackReturns` |
| `shared` (3.4 million) | 2 callers, worker and 1 foreign thread call back, 3 callbacks, 1 restart | `ReturnsMatchLoops`, `OnlyReturnsLeakTasks`, `PopsItsOwn` |
| `pool` (541423) | 3 callers, 2 calls each, pool of 2 | `TypeOK`, `PoolIsBounded`, `ResultIsReady`, `EveryCallReturns` |
| `pool_restart` (320 thousand) | 3 callers that may be terminated, 1 call each, 1 restart | `SemaphoresAreExclusive` |
| `same_thread` (15813) | 2 callers, 2 calls each, 3 callbacks, 1 call per handler | `TypeOK`, `ListIsOnTheCStack`, `PopsItsOwn`, `ImplementsNesting`, `ReturnsInOrder` |
| `handles` (1571198) | 2 processes, a function and 2 callbacks that share a struct type and a worker, 8 addresses, 1 pending invocation | `TypeOK`, `HandlesOwnMemory`, `TypesOutliveUsers`, `CallsUseLiveMemory`, `LeaksAreBounded`, `OnlyEmptiedKeysHideCallbacks` |
| `wrong_frame`, `lost_wakeup`, `two_threads`, `late_signal` | the smallest ones | a violation each, see 6 |

Why the bounds are enough for the cases that matter:

* *queue*: three nodes let one node be in the list, one being linked and one
  being freed, and let a freed node come back at once; one node less and the
  branch `first # last` never meets a producer.
* *nested*: four callbacks give depth four, and siblings at depth two after an
  inner one returned.
* *foreign*: callbacks of the thread overlap callouts of two processes and of
  handlers; three invocations reuse the thread. With one thread the callback stack
  has at most one element, so the order of the stacks is not a question here:
  `StacksAgree` is checked in *nested*, and what two threads do to it is run
  `two_threads`.
* *shared*: any mixture of two processes and two threads; what holds here holds
  in spite of the disagreements of section 6. One restart with callbacks of the
  old session at every point of their handlers, and up to two new ones after it.
  Callbacks nest in callouts, callouts in callbacks, and returns may end in the
  wrong frame: `OnlyReturnsLeakTasks` counts the tasks through all of it.
* *same_thread*: callbacks of two processes and of their handlers interleave on
  one stack of up to seven frames, so that returns are refused, retried and
  accepted with another process's frames below; for larger instances the
  theorems of section 5 hold.
* *pool*: three simultaneous calls make a pool of two grow, second calls reuse
  semaphores in every order. There are six calls and the bound of `PoolIsBounded` is
  three: a semaphore that does not come back makes the pool outgrow it. A pool of 5
  (`semaphorePoolSize`) differs only in how many calls it takes to grow.
* *pool_restart*: with one restart, each of the three calls is before, during
  or after it, terminated or not.
* *handles*: two processes race for every object: a struct type and a worker that
  a definition and two callbacks share. The lowest free address is used first, so
  freed memory is used again at once, also by the other callback. Eight addresses
  are two for each object that two processes can make at the same time and one
  for each callback; TLC confirms that one is free whenever a primitive is about
  to allocate. Any number of restarts.
  A callback is registered at the address of another one in every phase of that
  one's finalizer, and both are invoked before and after.
  `Failures` are the early returns that do what they should; for the others see
  section 6.

Deadlock is checked for `queue`, `pool_restart`, `handles` and the violations of
invariants. It is off where a liveness property already excludes that the
system stops (`nested`, `foreign`, `pool`) and in `shared`, `two_threads` and
`same_thread`, where the system can really stop: in the last one a return that
was refused waits in C's way, after a lost wake-up too (section 6).
`ReturnsInOrder` says that nothing else stops it. `Rest` is the stuttering of a
system that has made all the calls the bounds allow.

Symmetry is used in `handles` only, which has no liveness property: processes are
alike, and so are the two callbacks. In the others `Invocations` are numbered, or
liveness excludes it.

## 4. Fairness

* `TSQueue`: a `put` that began goes on and the consumer calls `take` again (the
  loop of `worker_run`, the loop of the callback process): weak fairness. Lock
  steps are strongly fair: the mutex is assumed not to starve a waiting thread.
* `WorkerCallbacks`: the worker's thread, every C frame and every process that
  can go on does (weak fairness); C functions come back and handlers' blocks
  end. Steps that need `stackProtect` are strongly fair, because Pharo
  semaphores serve their waiters in order. Nothing forces a call or a callback
  to start.
* `PooledCallouts`: weak fairness of the worker and of each process inside
  `executeOn:`. Neither failure, termination nor restart is forced.

* `SameThread`: C functions come back, a jump happens (weak fairness). Every step
  of the image is disabled while C runs, so each process is strongly fair: a
  process that is runnable again and again, in whichever interpreter, is
  scheduled.

## 5. Proofs

### `TSQueueProofs`

For any finite set of producers, any sets of nodes and elements
(`QueueAssumption`: these are finite or distinct as the code makes them):

| Theorem | States |
|---|---|
| `TypeCorrect` | `Spec => []TypeOK` |
| `UnlockedReadSafe` | `Spec => []UnlockedReadIsSafe` |
| `SignalsExact` | `Spec => []SignalsMatchNodes` |
| `HeapExact` | `Spec => []HeapIsExact` |
| `Refinement` | `Spec => ImplementsFIFO` |

None of these is inductive. The invariant `IInv` (theorem `Invariance`) adds:

* `MutexInv`: exactly the thread in its critical section owns the mutex;
* `ChainInv`: `chain` is the list from `first` to `last` by way of `next`, and
  `first` is NULL when it is empty, unless a producer is between its two writes;
* `ProducerInv`: a node being prepared is allocated, in no list and not the
  node of another producer; between the two writes it hangs on the end;
* `ConsumerInv`: the node the consumer read is still the head; the node it
  unlinked is allocated, in no list and nobody else's;
* `NoLeak`: nothing else is allocated.

The unlocked reads of `take` are safe because of `SignalsMatchNodes`: a consumer
that passed the wait holds a permit, so the list is not empty (`PermitMeansNode`),
and with one consumer only its own `TakeUnlink` changes the head of a list that
is not empty. One lemma per conjunct (`TypeStep`, `MutexStep`, ...) has one step
per action. For the refinement, `PutLast` maps to `Put`, `TakeUnlink` to `Take`
and every other step to a stutter; `AllocateStutters` needs that the reused node
is not in the list. `IInv` was checked with TLC on the instance of run `queue`
before it was proved.

### `SameThreadProofs`

For any set of callers and any number of calls and callbacks
(`SameThreadAssumption`: the bounds are natural numbers, callers are no
invocations, NULL is neither):

| Theorem | States |
|---|---|
| `TypeCorrect` | `Spec => []TypeOK` |
| `ReturnPopsItsOwn` | `Spec => []PopsItsOwn` |
| `ListOnTheCStack` | `Spec => []ListIsOnTheCStack` |
| `CallsNest` | `Spec => ImplementsNesting` |

The invariant `IInv` (theorem `Invariance`), checked with TLC first, consists of:

* `FrameInv`: functions and interpreters alternate on the C stack, no frame is
  there twice, a process with a function frame waits for it;
* `ListInv`: `callbackStack` and `previous` link each interpreter to the one two
  frames further out. Because of the alternation that is the next interpreter;
* `ContextInv`: contexts belong to frames on the stack;
* `QueueInv`: an invocation is in the queue or fetched at most once and has no
  process yet;
* `ProtectInv`: a handler between its accepted return and its pop is the one
  inside `stackProtect`;
* `JumpInv`: an accepted return is that of the innermost frame.

The argument: the image runs only when the innermost frame is an interpreter
(or there is none), and then `callbackStack` is that interpreter's invocation by
`ListInv`. The test `callbackStack = i` in `primitiveCallbackReturn` therefore lets
only the innermost callback return (`JumpStep`), so the jump drops exactly one
frame (`JumpPopsOne`), which keeps `ListInv`. `PopsItsOwn` follows from
`ProtectInv`: `executeCallback` pushes inside `stackProtect`, hence not between a
return and its pop. For the refinement `ReturnAccepted` maps to `Return` and
`Jump` to `Resume`; the steps of the image's bookkeeping are stutters.

The worker does not have this argument: there the check and the return are on
different threads, which is why run `wrong_frame` has a violation.

`SequenceLemmas` has the facts about sequences that several of the proofs use: a
sequence with an element in front, and how many elements of a set it holds after an
element was added or taken.

### `WorkerCallbacksProofs`

For any callers, threads, threads that call back (`Entering`), callbacks, calls and
restarts (`WorkerAssumption`: bounds are natural numbers, names are distinct):

| Theorem | Hypothesis | States |
|---|---|---|
| `TypeCorrect` | | `Spec => []TypeOK` |
| `LoopsMatch` | | `Spec => []ReturnsMatchLoops` |
| `LeaksOnlyReturns` | | `Spec => []OnlyReturnsLeakTasks` |
| `PopsOwn` | `Restarts # "anytime"` | `Spec => []PopsItsOwn` |
| `ForeignFramesOutlive` | `Worker \notin Entering` | `Spec => []FrameOutlivesHandler` |

The first three hold of every program, also of those of section 6 whose returns end
in the wrong frame: whatever the order of returns, their number is right. `IInv`
(theorem `Invariance`) consists of the properties and of

* `ThreadInv`: an invocation has a thread from its entry on, a process only after it was
  queued, and a semaphore exactly if a foreign thread made it;
* `LoopInv`: the thread's own loop is at the bottom of its stack, and above it is one
  loop for each callback of the worker that has not resumed;
* `QueueInv`: an invocation is in the callback queue or fetched at most once and has
  no process yet;
* `VMInv`: at most one process is inside `primitiveCallbackReturn`, with an invocation
  of this session, and the stack it read was not empty;
* `ForeignInv`: a return task with a semaphore, and a signal, are for an invocation
  whose handler returned;
* `ProtectInv` (without restarts in the middle of a return): the process between its
  accepted return and its pop is inside `stackProtect`.

`ReturnsMatchLoops` and `OnlyReturnsLeakTasks` are sums over the stack, the queues and
the invocations; `LeakSum` and the lemmas `Count...` follow them through each step.
`ForeignFramesOutlive` is `ForeignInv`: a foreign thread waits on a semaphore of its
own invocation, so no other return can wake it.

### `WorkerNestingProofs`

`StacksAgree` and `FrameOutlivesHandler` do not hold of all programs (`wrong_frame`,
`two_threads`). They are proved of the programs whose calls nest in one line, `OneCaller`:
one process calls out, its functions (and those that its handlers call, to any depth)
are the only ones that call back, and the image is not restarted. This is the program
of run `nested`.

| Theorem | Hypothesis | States |
|---|---|---|
| `NestedFramesOutlive` | `OneCaller` | `Spec => []FrameOutlivesHandler` |
| `NestedStacksAgree` | `OneCaller` | `Spec => []StacksAgree` |
| `WorkerNests` | `OneCaller` | `Spec => ImplementsNesting` |

At most one callback is in motion (`Exclusive`: on its way to its handler, or
with a handler that runs), and then `Agree` is inductive: `callbackStack` and `previous`
link the live invocations, newest first; the image's stack has the same order; an
invocation without a handler is the newest; and the two-step updates of
`callbackStack` are not interleaved (`UpdateInv`), which is what fails with two threads.

With one caller the token is passed in one line. `NestInv` states it: functions and
loops alternate on the worker's stack, each function called by the process of the loop
below it (`AlternateInv`); there is at most one task or signal at a time, and it is for
the innermost loop (`TokenInv`). So a return task is taken by the loop of its own
callback, although nothing in the task says which. For the refinement of
`NestedCalls` the active calls are the worker's stack without the thread's own loop,
and a callback has returned when its handler left `primitiveCallbackReturn`; `RunCallout`,
`EndCallout`, the callback's entry, its return and the end of its loop map to the steps
of `NestedCalls`, all steps of the queues and of the image's bookkeeping to stutters.

### `PooledCalloutsProofs`

For any finite set of callers, any pool size of at least 2 (smaller pools cannot grow:
`growRate` is half of the size), any bounds (`PoolAssumption`):

| Theorem | Hypothesis | States |
|---|---|---|
| `PoolTypeCorrect` | | `Spec => []TypeOK` |
| `Exclusive` | | `Spec => []SemaphoresAreExclusive` |
| `PoolBounded` | | `Spec => []PoolIsBounded` |
| `ResultsAreReady` | `NoLateSignals` | `Spec => []ResultIsReady` |

`PoolInv` (theorem `PoolInvariance`) adds that exactly the processes inside a call
hold a semaphore (`HeldInv`) and that the slots that were taken are not more than these
processes (`CountInv`). `CountInv` is the reason why the pool is bounded: it grows only
when all slots are taken, and then the other callers hold at least as many. With
restarts it is an inequality: a call of the old session holds a semaphore without a
slot in the new pool. `Good` is the part of it that lazy initialization and growth keep,
both of which end in `takeOne` or `returnOne:`.

`ResultsAreReady` needs `NoLateSignals`: no call is terminated and the image is not
restarted. Without it run `late_signal` shows a violation. `SignalsInv` says: a task is for
a call that waits, with the index of the semaphore that its process holds; the table
has that semaphore at the index; a semaphore with a signal is held by a call whose
function came back. So a signal that a call found before its wait, and did not
consume, is gone after `reset`, and the next user starts with none.

### `HandlesProofs`

For any objects with any members, any processes, addresses and any `malloc` that answers
free addresses (`HandlesAssumption`):

| Theorem | Hypotheses | States |
|---|---|---|
| `MemoryIsOwned` | `OwnFailures` | `Spec => []HandlesOwnMemory` |
| `TypesOutlive` | `OwnFailures` | `Spec => []TypesOutliveUsers` |
| `CalloutsUseLiveMemory` | `OwnFailures`, `ThreadsStart` | `Spec => []CallsUseLiveMemory` |
| `HandlesTypeCorrect` | `OwnFailures`, `ThreadsStart` | `Spec => []TypeOK` |
| `InvocationsRunTheirCallback` | `OwnFailures` | `Spec => []OnlyEmptiedKeysHideCallbacks` |
| `LeaksBounded` | `OwnFailures`, `NoForwarders`, `ThreadsStart` | `Spec => []LeaksAreBounded` |

The hypotheses name early returns that do not happen: `OwnFailures` those after which a
handle keeps the address of a freed struct, `ThreadsStart` the failure of
`pthread_create`, `NoForwarders` a forwarder as argument. The observations of section 6
show which property each of them breaks; all other failures may happen at any time.

`IInv` (theorem `HandlesInvariance`), checked with TLC on the instance of run `handles`
like the three invariants below, adds to `HandlesOwnMemory`:

* `FrameInv`: in a frame of `validate` the members before the current one have handles,
  although other processes and finalizers run between two members; and a callback is
  registered by one process. This is why a primitive never reads a null handle;
* `CollectInv`: what was collected is out of reach for good and its handle is null,
  but for the callback between the two steps of its finalizer;
* `ThreadInv`: a worker that has a handle has its thread;
* `PointersInv`: *all* memory made for a reachable object points to live memory, also
  the memory that was lost in a race. Without that, `CallsUseLiveMemory` would not
  follow: a task may hold a cif that another process has replaced in the handle.

The argument: `Refs` is transitive, so a member of a reachable object is reachable and
no finalizer frees it (`CollectInv`); every address in a group was read from a handle
in a frame, where it was not null (`FrameInv`) and hence live (`HandlesOwnMemory`). Memory
is freed only by `Finalize` and `UnregisterCallback` of unreachable objects and by a start
of the image, after which all handles are null (`ReachableMemory`).

`TaskInv` (a task has usable memory and its process waits for it, which keeps the call
in reach), `LookupInv` and `LeakInv` are inductive relative to `IInv`. `LookupInv` says that
the key of an entry has the address of the value, as long as the value is not collected, or
was emptied with a collected callback (`EntryOK`); that a registered callback has an entry;
and that its address stays the one its invocations wait with. Two callbacks that are not
collected never have the same address (`HandlesOwnMemory`), so what the lookup finds is the
callback that C called.

For `LeakInv`, the heart is `Counted`: the groups made for an object and the processes
that may still make one are together at most the processes. A process that begins to
validate an object whose handle is null finds no group of it; one that makes a group
ceases to be a maker.

### Only model-checked

* Liveness: `EventuallyTaken`, `EveryCalloutReturns`, `EveryCallbackReturns`,
  `EveryCallReturns`, `ReturnsInOrder` (fairness is out of the prover's reach).
* Every safety property of a passing run is a theorem, some under the hypotheses
  above. Section 6 has the violations outside of them. Where it has none, nothing is
  claimed: one caller and a restart, for example, or `StacksAgree` with one foreign
  thread.
* `NoLostWakeup`, which the code does not have (run `lost_wakeup`).

## 6. Disagreements between the code and what it says

* `wrong_frame`: the comment in `primitiveCallbackReturn` (callbackPrimitives.c:210)
  wants returns in order to avoid stack corruption. The order is checked when
  the return is requested; if the callout of another process is ahead in the
  task queue and calls back, its nested loop takes the return task.
* `lost_wakeup`: `TFRunner>>returnCallback:` leaves its critical section before it
  waits; `signalAll` in between is lost, and the return never retries.
* `two_threads`: two foreign threads push on `callbackStack` and put into the
  callback queue in opposite orders; each return is refused for ever.
* `late_signal`: a terminated call gives its semaphore back while the worker
  still has its task; the late signal wakes the next user of the semaphore.
* `shared`, a passing run: `worker_run` does not release the task of a callback return,
  although the caller of `worker_task_new_callback` is responsible for it
  (workerTask.c:10). One task is lost for each callback; `OnlyReturnsLeakTasks` states
  the exact amount, and that the task of a callout is released once in all programs,
  also in those whose returns end in the wrong frame.
* `handles`, a passing run: `TFCallback class >> finalizeResourceData:` releases a callback
  and then empties its address, which is the key of its entry in the dictionary.
  A callback that another process registers in between at the same address gets that
  entry (`at:put:` keeps the old key), and is not found once the key is empty: 'Callback
  not found.', with C waiting for the return. The mutex of `TFCallbackQueue` is there so
  that no lookup fails (TFCallbackQueue.class.st:109-114), but the finalizer changes
  the key outside of it. `OnlyEmptiedKeysHideCallbacks` says that this is the only way;
  without its second disjunct TLC finds it violated.

Observations without a run of their own. The first ones appear when a constant of
a passing run is changed as said; TLC then finds the named property violated.

* `shared` with `Restarts = "anytime"`, `PopsItsOwn`: a return is interrupted by a
  save between `primitiveCallbackReturn` and its pop. The code allows for an empty
  stack after that (`TFRunner.class.st:153-155`), but if the new session has already
  pushed an invocation, the old process pops that one.
* `handles` with `"badOffsets"` or `"badMember"` added to `Failures`,
  `HandlesOwnMemory`: `primitiveInitializeStructType` stores the address in the
  handle (typesPrimitives.c:173) before its last two checks; when one of them
  fails the struct is freed and the handle still points to it. The type counts as
  valid from then on, and its finalizer frees it again.
* `handles` with `"forwarded"`, `LeaksAreBounded`: the array of parameters is lost when
  the primitive fails before `defineFunctionWithAnd` or `callback_new`. The comments
  (functionDefinitionPrimitives.c:39, callbackPrimitives.c:145-147) say that those
  free it on an error, but they are not called then.
* `handles` with `"forwardedHandle"`, `LeaksAreBounded`: `primitiveDefineFunction`,
  `primitiveRegisterCallback` and `primitiveCreateWorker` allocate before they find
  out that the handle is a forwarder; the VM calls them again (macros.h:18-20) and
  the first cif, callback or worker with its thread is lost.
* `handles` with `"noThread"`, `CallsUseLiveMemory` and `LeaksAreBounded`: when the
  thread cannot be created, `primitiveCreateWorker` calls `failed()`, which asks
  whether the primitive failed, instead of `primitiveFail()`. The image goes on
  with a null worker, and each call tries and leaks again.
* `handles`, a callback that is dropped and collected while its invocation is pending
  (`OnlyEmptiedKeysHideCallbacks` without `i.callback \notin collected`): the lookup finds
  nothing, or another callback that was registered at the address meanwhile, whose block
  then runs instead. C waits for ever in the first case. That a callback stays
  referenced until C is done with it is up to the application.
* `pool` with `MaxRestarts = 1` and `MaxCalls = 1`, `ResultIsReady`: a call that took its
  semaphore before a restart executes after it with the semaphore's old index, at which
  the new table has the semaphore of another call; the worker signals that one.

Plain from the code: the semaphore and the thread of a released worker stay, two
processes that validate the same object at the same time lose one copy
(`LeaksAreBounded` states that it is no more than that), and a call that straddles
a restart may put a semaphore of the old session into the new pool when a slot is
free (`TFPool.class.st:115`).

## 7. Not modelled, and why

* `TFWorker>>release` sent by the application: it does what the finalizer does,
  without the certainty that nobody uses the worker; that nobody does is up to
  the application.
* A call that is terminated while its task is queued (modelled for semaphores in
  `PooledCallouts`) may let its definition be collected; `Handles` has no
  termination, so `CallsUseLiveMemory` is about calls that wait.
* A save in the middle of `validate` or of a call in `Handles` (`Restart` needs idle
  processes): the handles read before it would be null after it.
* A worker's thread that goes back to its queue after it signalled a call, while
  the finalizer frees the queue: in `Handles` a callout is one step of the thread.
* Failures of `sem_init`, and of the `malloc`s whose result the code does not test.
* A nested interpreter that cannot be entered (the warning in
  `sameThreadCallbackEnter`): when that happens is decided in the VM.
* C functions that wait for other threads: what functions do is external, and
  they are taken to come back.
* Values of arguments and results: no property depends on them, and the
  conversions are accessors of the VM or of libffi.
* `primitiveCalls.c`: at this commit no image code calls these primitives. Callouts
  go through `primitiveSameThreadCallout`, and through two primitives of the worker that
  are not in the repository (section 2, `WorkerCallbacks`).
* The byte-size primitives, `primitiveGetCallbackInvocationUserData`,
  `threadsafe_queue_size`: they only read.
* UFFI translation, accessors of the object memory, tests: no protocol.

## 8. Plan

1. Done: `FIFOQueue`, `TSQueue`, `NestedCalls`, `WorkerCallbacks`, `PooledCallouts`,
   `SameThread`, `Handles`, and the proofs of section 5 about each of them.
2. Worth proving next: that the queues of `WorkerCallbacks` may be sequences, by a
   composition of `TSQueue` with one of its users; action properties, such as that a
   handle changes from one address to another only by a race of two processes; weaker
   hypotheses for `StacksAgree` than `OneCaller`.
