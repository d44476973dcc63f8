------------------------------- MODULE Handles -------------------------------
(***************************************************************************)
(* The C memory behind the handles of image objects: struct types          *)
(* (ffi_type), function definitions (ffi_cif), callbacks (Callback and its *)
(* closure) and workers.  A handle is filled lazily: `validate' and        *)
(* `ensureInitialized' test it and then, in a later step, call the         *)
(* primitive that allocates.  It is emptied by the finalizer of an object  *)
(* that became unreachable.  A primitive is one step, because the VM runs  *)
(* no image process meanwhile; its early returns are the rows of a table.  *)
(*                                                                         *)
(* The memory a primitive allocates for one object is a group at one       *)
(* address, with one part for each malloc.                                 *)
(***************************************************************************)
EXTENDS Naturals, Sequences, FiniteSets

CONSTANTS
  BasicTypes, StructTypes, Definitions, Callbacks, Workers,  \* image objects
  Calls,        \* functions a process may call: a worker and a definition
  Members,      \* Members[o]: what o validates before itself, in that order
  Refs,         \* Refs[o]: everything that o keeps reachable
  Processes,    \* image processes
  Addresses,    \* C addresses that malloc may answer
  Statics,      \* addresses of libffi's own types
  StaticOf,     \* StaticOf[t]: the one that stands for basic type t
  Malloc(_),    \* Malloc(F): the addresses malloc may answer when F are free
  Failures,     \* the early returns of the primitives that may happen
  MaxPending,   \* bound: invocations that wait at the same time
  NULL

Types == BasicTypes \cup StructTypes
Objects == Types \cup Definitions \cup Callbacks \cup Workers
Users == Objects \cup Calls

Parts == {"type", "elements", "offsets", "cif", "arg_types", "callback", "closure",
          "parameters", "userData", "worker", "queue", "semaphore", "thread"}
Pointer == Addresses \cup Statics
Group == [object : Objects, parts : SUBSET Parts, pointers : Seq(Pointer)]

\* The key of an entry is the object that holds the address of a callback, not the
\* address: it changes with handle[key].
Entry == [key : Callbacks, value : Callbacks]

\* The kinds of objects are disjoint.  Refs is transitive, and no type contains
\* itself.
ASSUME HandlesAssumption ==
  /\ StructTypes \cap BasicTypes = {} /\ Definitions \cap Types = {}
  /\ Callbacks \cap (Types \cup Definitions) = {}
  /\ Workers \cap (Types \cup Definitions \cup Callbacks) = {}
  /\ Calls \cap Objects = {}
  /\ \A o \in BasicTypes \cup Workers : Members[o] = <<>>
  /\ \A o \in StructTypes \cup Definitions : Members[o] \in Seq(Types) /\ o \notin Refs[o]
  /\ \A c \in Callbacks : Members[c] \in Seq(Types \cup Workers)
  /\ \A k \in Calls : \E w \in Workers, d \in Definitions : Members[k] = <<w, d>>
  /\ \A o \in Users : \A i \in DOMAIN Members[o] : Members[o][i] \in Refs[o]
  /\ \A o \in Users : Refs[o] \in SUBSET Objects /\ \A r \in Refs[o] : Refs[r] \subseteq Refs[o]
  /\ StaticOf \in [BasicTypes -> Statics] /\ Addresses \cap Statics = {}
  /\ NULL \notin Pointer \cup Users /\ NULL \notin Group
  /\ \A F \in SUBSET Addresses : Malloc(F) \subseteq F
  /\ IsFiniteSet(Processes) /\ Processes # {}
  /\ MaxPending \in Nat

VARIABLES
  handle,     \* handle[o]: the address in the object's handle, or NULL
  heap,       \* heap[a]: the group of blocks allocated at a, or NULL
  kept,       \* objects and functions that the application refers to
  collected,  \* objects whose finalizer has begun
  finalizing, \* the callback whose finalizer has released it but not yet
              \* emptied its handle, or NULL
  work,       \* work[p]: frames of validate, register and executeOn:, innermost first
  tasks,      \* callouts that a worker has not finished
  registry,   \* TFCallbackQueue callbacksByAddress: the entries of the dictionary
  pending     \* invocations of callbacks that wait for the callback process

vars == <<handle, heap, kept, collected, finalizing, work, tasks, registry,
          pending>>

Init ==
  /\ handle = [o \in Objects |-> NULL]
  /\ heap = [a \in Addresses |-> NULL]
  /\ kept = Calls \cup Callbacks
  /\ collected = {} /\ finalizing = NULL
  /\ work = [p \in Processes |-> <<>>]
  /\ tasks = {}
  /\ registry = {}
  /\ pending = {}

------------------------------------------------------------------------------
(***************************************************************************)
(* The primitives that allocate.  Each row is a way to leave the           *)
(* primitive: the blocks it allocated and freed until there, whether it    *)
(* had stored the address in the handle, and what follows: "done" (the     *)
(* primitive succeeds), "fail" (it fails, the image raises an error) or    *)
(* "again" (it failed because of a forwarder; the VM resolves it and calls *)
(* the primitive again).                                                   *)
(***************************************************************************)
Row(mallocs, frees, stored, then) ==
  [mallocs |-> mallocs, frees |-> frees, stored |-> stored, then |-> then]

\* Faults: a failed allocation of the members frees nothing; the handle is set
\* before the offsets are allocated.
InitializeStructTypeLeaks ==
  [ok        |-> Row({"type", "elements", "offsets"}, {"offsets"}, TRUE, "done"),
   noMembers |-> Row({"type"}, {}, FALSE, "fail")]
InitializeStructTypeEarly ==
  [ok        |-> Row({"type", "elements", "offsets"}, {"offsets"}, TRUE, "done"),
   noOffsets |-> Row({"type", "elements"}, {"type", "elements"}, TRUE, "fail")]

\* primitiveInitializeStructType.  setHandler stores the address also when the
\* handle of a member could not be read (badMember).  If that handle is a forwarder
\* the VM calls again at once, after everything was freed: this amounts to ok.
InitializeStructType ==
  LET all == {"type", "elements", "offsets"} IN
  [ok              |-> Row(all, {"offsets"}, TRUE, "done"),
   forwardedHandle |-> Row({}, {}, FALSE, "again"),
   noType          |-> Row({}, {}, FALSE, "fail"),
   noMembers       |-> Row({"type"}, {"type"}, FALSE, "fail"),
   noOffsets       |-> Row({"type", "elements"}, {"elements", "type"}, FALSE, "fail"),
   badMember       |-> Row(all, {"elements", "type", "offsets"}, TRUE, "fail"),
   badOffsets      |-> Row(all, {"elements", "type", "offsets"}, TRUE, "fail")]

\* primitiveDefineFunction with defineFunctionWithAnd.
DefineFunction ==
  [ok              |-> Row({"arg_types", "cif"}, {}, TRUE, "done"),
   forwarded       |-> Row({"arg_types"}, {}, FALSE, "again"),
   badCif          |-> Row({"arg_types", "cif"}, {"cif", "arg_types"}, FALSE, "fail"),
   forwardedHandle |-> Row({"arg_types", "cif"}, {}, FALSE, "again")]

\* How callback_new fails, called with the array of parameters already allocated.
CallbackNew ==
  LET all == {"parameters", "callback", "closure"} IN
  [noClosure  |-> Row({"parameters", "callback"}, {"callback", "parameters"}, FALSE, "fail"),
   badCif     |-> Row(all, {"closure", "callback", "parameters"}, FALSE, "fail"),
   badClosure |-> Row(all, {"closure", "callback", "parameters"}, FALSE, "fail")]

\* primitiveRegisterCallback: it fails when the runner has no memory; a
\* forwarder among the parameters loses the array.
RegisterCallback ==
  LET all == {"parameters", "callback", "closure", "userData"} IN
  [ok              |-> Row(all, {}, TRUE, "done"),
   noRunner        |-> Row({}, {}, FALSE, "fail"),
   forwarded       |-> Row({"parameters"}, {}, FALSE, "again"),
   noClosure       |-> CallbackNew.noClosure,
   badCif          |-> CallbackNew.badCif,
   badClosure      |-> CallbackNew.badClosure,
   forwardedHandle |-> Row(all, {}, FALSE, "again")]

\* primitiveCreateWorker with worker_newSpawning.  Without a thread worker_new
\* answers NULL and the primitive calls failed() instead of primitiveFail(): it
\* succeeds and stores nothing.
CreateWorker ==
  LET all == {"worker", "queue", "semaphore", "thread"} IN
  [ok              |-> Row(all, {}, TRUE, "done"),
   noThread        |-> Row(all \ {"thread"}, {}, FALSE, "done"),
   forwardedHandle |-> Row(all, {}, FALSE, "again")]

Primitive(o) ==
  CASE o \in StructTypes -> InitializeStructType
    [] o \in Definitions -> DefineFunction
    [] o \in Callbacks   -> RegisterCallback
    [] o \in Workers     -> CreateWorker

\* What the memory of o will contain: the addresses in the handles of what o
\* refers to, as getHandler reads them.
GetHandler(o) == handle[o]
Pointers(o) == [i \in DOMAIN Members[o] |-> GetHandler(Members[o][i])]
SetHandler(o, a) == handle' = [handle EXCEPT ![o] = a]

\* The ways out of o's primitive in this state.
Exits(o) ==
  IF \E m \in Workers, i \in DOMAIN Members[o] : Members[o][i] = m /\ handle[m] = NULL
    THEN {"noRunner"}
    ELSE DOMAIN Primitive(o) \cap (Failures \cup {"ok"})

\* The blocks that are freed with an object.  threadsafe_queue_free frees neither
\* the semaphore nor the tasks of the queue.
FreeStruct == {"elements", "type"}
FreeDefinition == {"arg_types", "cif"}
CallbackRelease == {"closure", "parameters", "userData", "callback"}
ThreadsafeQueueFree == {"queue"}
WorkerRelease == ThreadsafeQueueFree \cup {"worker"}

\* What has to be there for handle[o] to be used, and what its release frees.
Owned(o) ==
  CASE o \in StructTypes -> FreeStruct
    [] o \in Definitions -> FreeDefinition
    [] o \in Callbacks   -> CallbackRelease
    [] o \in Workers     -> WorkerRelease

\* free() of the blocks of o at address a.
Freed(o, a) ==
  LET left == heap[a].parts \ Owned(o) IN
  [heap EXCEPT ![a] = IF left = {} THEN NULL ELSE [@ EXCEPT !.parts = left]]

------------------------------------------------------------------------------
(***************************************************************************)
(* Reachability: the application and the frames of processes are roots.    *)
(***************************************************************************)
InFrames(o) == \E p \in Processes : \E i \in DOMAIN work[p] : work[p][i].object = o

Roots == kept \cup {o \in Users : InFrames(o)}

\* Fault: objects refer to handles and not to the objects that own them.
ReachableRoots == Roots

Reachable == Roots \cup UNION {Refs[o] : o \in Roots}

\* The application drops its reference and does not get it back.
Drop(o) ==
  /\ o \in kept
  /\ kept' = kept \ {o}
  /\ UNCHANGED <<handle, heap, collected, finalizing, work, tasks, registry,
                 pending>>

\* The finalizer of a struct type, a definition or a worker: free what the
\* handle points to, if anything, and empty the handle.  The thread of a worker
\* goes on waiting on its semaphore, which is not freed.
Finalize(o) ==
  /\ o \in StructTypes \cup Definitions \cup Workers
  /\ o \notin Reachable \cup collected
  /\ collected' = collected \cup {o}
  /\ heap' = IF handle[o] = NULL THEN heap ELSE Freed(o, handle[o])
  /\ SetHandler(o, NULL)
  /\ UNCHANGED <<kept, finalizing, work, tasks, registry, pending>>

\* The finalizer of a callback up to primUnregister: ...
UnregisterCallback(c) ==
  /\ c \in Callbacks /\ finalizing = NULL
  /\ c \notin Reachable \cup collected
  /\ collected' = collected \cup {c}
  /\ IF handle[c] = NULL
       THEN UNCHANGED <<heap, finalizing>>
       ELSE heap' = Freed(c, handle[c]) /\ finalizing' = c
  /\ UNCHANGED <<handle, kept, work, tasks, registry, pending>>

\* ... and its end: beNull changes the address, and an entry of the registry that
\* has it as its key is not found any more.
BeNull ==
  /\ finalizing # NULL
  /\ SetHandler(finalizing, NULL)
  /\ finalizing' = NULL
  /\ UNCHANGED <<heap, kept, collected, work, tasks, registry, pending>>

------------------------------------------------------------------------------
(***************************************************************************)
(* Validation, registration and calls.  A frame [object, done] has         *)
(* validated the first `done' members of its object.                       *)
(***************************************************************************)
Top(p) == work[p][1]
At(p, done) == work[p] # <<>> /\ Top(p).done = done
Ready(p) == work[p] # <<>> /\ At(p, Len(Members[Top(p).object]))
Called(p) == work[p] # <<>> /\ At(p, Len(Members[Top(p).object]) + 1)
Advanced(p) == [work[p] EXCEPT ![1].done = @ + 1]

\* A process calls a function, or creates a callback and registers it.
Begin(p, o) ==
  /\ work[p] = <<>> /\ o \in kept
  /\ o \in Callbacks => handle[o] = NULL /\ ~InFrames(o)
  /\ work' = [work EXCEPT ![p] = <<[object |-> o, done |-> 0]>>]
  /\ UNCHANGED <<handle, heap, kept, collected, finalizing, tasks, registry,
                 pending>>

\* Fault: a handle is taken to be valid as it is.
ValidateNot(p) ==
  /\ work[p] # <<>> /\ Top(p).done < Len(Members[Top(p).object])
  /\ work' = [work EXCEPT ![p] = Advanced(p)]
  /\ UNCHANGED <<handle, heap, kept, collected, finalizing, tasks, registry,
                 pending>>

\* validate of the next member, or ensureInitialized of the runner: nothing to
\* do if its handle is not null.
Validate(p) ==
  /\ work[p] # <<>> /\ Top(p).done < Len(Members[Top(p).object])
  /\ LET m == Members[Top(p).object][Top(p).done + 1] IN
       work' = [work EXCEPT ![p] =
                  IF handle[m] # NULL THEN Advanced(p)
                  ELSE <<[object |-> m, done |-> 0]>> \o Advanced(p)]
  /\ UNCHANGED <<handle, heap, kept, collected, finalizing, tasks, registry,
                 pending>>

\* fillBasicType: libffi's own type for the code of the basic type.
FillBasicType(p) ==
  /\ Ready(p) /\ Top(p).object \in BasicTypes
  /\ SetHandler(Top(p).object, StaticOf[Top(p).object])
  /\ work' = [work EXCEPT ![p] = Tail(@)]
  /\ UNCHANGED <<heap, kept, collected, finalizing, tasks, registry, pending>>

\* The primitive that fills the handle, left by row x.
Initialize(p, x) ==
  /\ Ready(p) /\ Top(p).object \in Objects \ BasicTypes
  /\ x \in Exits(Top(p).object)
  /\ \E a \in Malloc({b \in Addresses : heap[b] = NULL}) :
       LET o == Top(p).object
           row == Primitive(o)[x]
           left == row.mallocs \ row.frees
       IN /\ heap' = IF left = {} THEN heap
                     ELSE [heap EXCEPT ![a] = [object |-> o, parts |-> left,
                                               pointers |-> Pointers(o)]]
          /\ IF row.stored THEN SetHandler(o, a) ELSE UNCHANGED handle
          /\ work' = [work EXCEPT ![p] =
                        CASE row.then = "again" -> @
                          [] row.then = "fail"  -> <<>>
                          [] row.then = "done"  -> IF o \in Callbacks THEN Advanced(p)
                                                   ELSE Tail(@)]
  /\ UNCHANGED <<kept, collected, finalizing, tasks, registry, pending>>

\* Fault: an entry that is already there is left as it is.
RegisterInQueueOnce(p) ==
  /\ Called(p) /\ Top(p).object \in Callbacks
  /\ LET c == Top(p).object IN
       registry' = IF \E e \in registry : handle[e.key] = handle[c] THEN registry
                   ELSE registry \cup {[key |-> c, value |-> c]}
  /\ work' = [work EXCEPT ![p] = Tail(@)]
  /\ UNCHANGED <<handle, heap, kept, collected, finalizing, tasks, pending>>

\* TFCallbackQueue registerCallback: at:put: in the weak dictionary.  If there is an
\* entry for this address it gets the new value and keeps its key.
RegisterInQueue(p) ==
  /\ Called(p) /\ Top(p).object \in Callbacks
  /\ LET c == Top(p).object
         same == {e \in registry : handle[e.key] = handle[c]}
         keys == IF same = {} THEN {c} ELSE {e.key : e \in same}
     IN registry' = (registry \ same) \cup [key : keys, value : {c}]
  /\ work' = [work EXCEPT ![p] = Tail(@)]
  /\ UNCHANGED <<handle, heap, kept, collected, finalizing, tasks, pending>>

\* executeFunction: a task with the cif for the worker's queue, as
\* primitivePerformWorkerCall puts it.
PerformWorkerCall(p) ==
  /\ Ready(p) /\ Top(p).object \in Calls
  /\ LET k == Top(p).object IN
       tasks' = tasks \cup {[process |-> p, call |-> k, worker |-> handle[Members[k][1]],
                            cif |-> handle[Members[k][2]]]}
  /\ work' = [work EXCEPT ![p] = Advanced(p)]
  /\ UNCHANGED <<handle, heap, kept, collected, finalizing, registry, pending>>

\* The worker's thread takes the task from its queue, calls the function and
\* signals the process.
ExecuteWorkerTask(t) ==
  /\ t \in tasks
  /\ heap[t.worker] # NULL /\ {"queue", "thread"} \subseteq heap[t.worker].parts
  /\ tasks' = tasks \ {t}
  /\ UNCHANGED <<handle, heap, kept, collected, finalizing, work, registry,
                 pending>>

\* Fault: the process does not wait for the signal.
ReturnAtOnce(p) ==
  /\ Called(p) /\ Top(p).object \in Calls
  /\ work' = [work EXCEPT ![p] = Tail(@)]
  /\ UNCHANGED <<handle, heap, kept, collected, finalizing, tasks, registry,
                 pending>>

\* The process was signalled and the call returns.
Return(p) ==
  /\ Called(p) /\ Top(p).object \in Calls
  /\ \A t \in tasks : t.process # p
  /\ work' = [work EXCEPT ![p] = Tail(@)]
  /\ UNCHANGED <<handle, heap, kept, collected, finalizing, tasks, registry,
                 pending>>

------------------------------------------------------------------------------
(***************************************************************************)
(* Callbacks that are called, and the start of a saved image.              *)
(***************************************************************************)
\* C calls the function of a callback that the application keeps:
\* callbackFrontend queues an invocation.
Invoke(c) ==
  /\ c \in Callbacks \cap kept /\ handle[c] # NULL /\ ~InFrames(c)
  /\ Cardinality(pending) < MaxPending
  /\ pending' = pending \cup {[callback |-> c, address |-> handle[c]]}
  /\ UNCHANGED <<handle, heap, kept, collected, finalizing, work, tasks, registry>>

\* TFCallbackQueue lookupCallback: nil if no entry has the address as its key, or
\* its value, which is held weakly, was collected.
LookupCallback(a) ==
  LET found == {e \in registry : handle[e.key] = a /\ e.value \notin collected}
  IN IF found = {} THEN NULL ELSE (CHOOSE e \in found : TRUE).value

\* The callback process takes the invocation and runs what it looks up.
ExecuteCallback(i) ==
  /\ i \in pending
  /\ pending' = pending \ {i}
  /\ UNCHANGED <<handle, heap, kept, collected, finalizing, work, tasks, registry>>

\* The image is saved and started again, in no process's validation or call:
\* the memory is gone, the handles are null, the callback queue is a new one.
Restart ==
  /\ finalizing = NULL
  /\ \A p \in Processes : work[p] = <<>>
  /\ handle' = [o \in Objects |-> NULL]
  /\ heap' = [a \in Addresses |-> NULL]
  /\ registry' = {}
  /\ pending' = {}
  /\ UNCHANGED <<kept, collected, finalizing, work, tasks>>

Step(p) ==
  \/ Validate(p) \/ FillBasicType(p) \/ RegisterInQueue(p) \/ PerformWorkerCall(p)
  \/ Return(p) \/ (\E x \in Failures \cup {"ok", "noRunner"} : Initialize(p, x))

Next ==
  \/ \E p \in Processes : Step(p) \/ \E o \in Calls \cup Callbacks : Begin(p, o)
  \/ \E t \in tasks : ExecuteWorkerTask(t)
  \/ \E o \in Users : Drop(o) \/ Finalize(o)
  \/ \E c \in Callbacks : UnregisterCallback(c) \/ Invoke(c)
  \/ BeNull
  \/ \E i \in pending : ExecuteCallback(i)
  \/ Restart

Spec == Init /\ [][Next]_vars

------------------------------------------------------------------------------
(***************************************************************************)
(* Properties                                                              *)
(***************************************************************************)
\* The types of handles, memory, frames, tasks and the registry.  No task and no
\* block of memory contains NULL.
TypeOK ==
  /\ handle \in [Objects -> Pointer \cup {NULL}]
  /\ \A a \in Addresses : heap[a] = NULL \/ heap[a] \in Group
  /\ kept \subseteq Users /\ collected \subseteq Objects
  /\ finalizing \in Callbacks \cup {NULL}
  /\ \A p \in Processes : \A i \in DOMAIN work[p] :
       /\ work[p][i].object \in Users
       /\ work[p][i].done \in 0..(Len(Members[work[p][i].object]) + 1)
  /\ tasks \subseteq [process : Processes, call : Calls, worker : Addresses, cif : Addresses]
  /\ registry \subseteq Entry
  /\ pending \subseteq [callback : Callbacks, address : Addresses]

\* Memory at address a that was made for o and can be used.
Usable(o, a) ==
  IF o \in BasicTypes THEN a = StaticOf[o]
  ELSE a \in Addresses /\ heap[a] # NULL /\ heap[a].object = o
       /\ Owned(o) \subseteq heap[a].parts

\* A handle that counts as valid points to memory made for its object that is
\* still allocated: it neither dangles nor is shared, and its finalizer frees
\* that memory once.
HandlesOwnMemory ==
  \A o \in Objects \ collected : handle[o] # NULL => Usable(o, handle[o])

\* What the memory of a reachable object points to (the members of a struct type,
\* the types of a definition, the types and the runner of a callback) is alive
\* and belongs to the object it was taken from, whatever was collected meanwhile.
TypesOutliveUsers ==
  \A o \in (Reachable \ BasicTypes) \cap Objects :
    handle[o] # NULL =>
      \A i \in DOMAIN heap[handle[o]].pointers :
        Usable(Members[o][i], heap[handle[o]].pointers[i])

\* A callout that is queued or running finds its worker with its thread and its
\* cif with the types it refers to, also if the application dropped the function
\* meanwhile or another process initialized the worker again.
CallsUseLiveMemory ==
  \A t \in tasks :
    LET d == Members[t.call][2] IN
    /\ Usable(Members[t.call][1], t.worker) /\ "thread" \in heap[t.worker].parts
    /\ Usable(d, t.cif)
    /\ \A i \in DOMAIN Members[d] : Usable(Members[d][i], heap[t.cif].pointers[i])

\* Memory made for o that its handle does not lead to.  The semaphore and the
\* thread of a released worker stay.
Lost(o) ==
  {a \in Addresses : /\ heap[a] # NULL /\ heap[a].object = o /\ handle[o] # a
                     /\ ~(heap[a].parts \subseteq {"semaphore", "thread"})}

\* An object loses memory only to processes that initialize it at the same time,
\* one piece for each but the last, however often it fails to be initialized and
\* whatever is finalized.
LeaksAreBounded ==
  \A o \in Objects : Cardinality(Lost(o)) < Cardinality(Processes)

\* An invocation finds the callback whose function C called, while that is not
\* collected, although addresses are used again and keys change: it is never given
\* another callback, and the lookup fails ('Callback not found.') only if the
\* callback shares the key of another one, which that one's finalizer emptied.
OnlyEmptiedKeysHideCallbacks ==
  \A i \in pending : i.callback \notin collected =>
    \/ LookupCallback(i.address) = i.callback
    \/ /\ LookupCallback(i.address) = NULL
       /\ \E e \in registry : e.value = i.callback /\ e.key # i.callback /\ handle[e.key] = NULL
==============================================================================
