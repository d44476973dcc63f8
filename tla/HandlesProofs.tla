---------------------------- MODULE HandlesProofs ----------------------------
(***************************************************************************)
(* Proofs about Handles for any number of processes, objects and addresses *)
(* and any malloc.  IInv is inductive as soon as no primitive stores the   *)
(* address of memory that it frees again (OwnFailures).  TaskInv,          *)
(* LookupInv and LeakInv are inductive relative to IInv, TaskInv and       *)
(* LeakInv under more hypotheses.                                          *)
(***************************************************************************)
EXTENDS Handles, SequenceLemmas

\* Hypotheses about the early returns: the struct type is not freed after its
\* address was stored; threads can be created; the VM resolves no forwarder.
OwnFailures == Failures \cap {"badMember", "badOffsets"} = {}
ThreadsStart == "noThread" \notin Failures
NoForwarders == Failures \cap {"forwarded", "forwardedHandle"} = {}

Frame == [object : Users, done : Nat]

TypeInv ==
  /\ handle \in [Objects -> Pointer \cup {NULL}]
  /\ \A o \in Objects \ BasicTypes : handle[o] \in Addresses \cup {NULL}
  /\ heap \in [Addresses -> Group \cup {NULL}]
  /\ kept \in SUBSET Users /\ collected \in SUBSET Objects
  /\ finalizing \in Callbacks \cup {NULL}
  /\ work \in [Processes -> Seq(Frame)]
  /\ registry \in SUBSET Entry
  /\ pending \in SUBSET [callback : Callbacks, address : Addresses]

\* What a process finds after it validated m.
Made(m) == handle[m] # NULL \/ (m \in Workers /\ "noThread" \in Failures)

\* Frame i of p: each frame but the innermost waits for the member it is at, the
\* members before that one are made, and a callback has its handle exactly
\* between its primitive and its registration.
FrameOK(p, i) ==
  LET o == work[p][i].object
      done == work[p][i].done
      n == Len(Members[o])
  IN /\ done <= n + 1
     /\ done = n + 1 => i = 1 /\ o \in Callbacks \cup Calls
     /\ i > 1 => done >= 1 /\ work[p][i - 1].object = Members[o][done]
     /\ \A k \in 1..n : k < done \/ (k = done /\ i = 1) => Made(Members[o][k])
     /\ o \in Callbacks => (handle[o] # NULL <=> done = n + 1)

\* A callback is registered by one process.
OneRegistration ==
  \A p, q \in Processes : \A i \in DOMAIN work[p], j \in DOMAIN work[q] :
    work[p][i].object \in Callbacks /\ work[p][i].object = work[q][j].object => p = q

FrameInv ==
  /\ \A p \in Processes : \A i \in DOMAIN work[p] : FrameOK(p, i)
  /\ OneRegistration

\* What was collected is out of reach and has no memory, but for a callback whose
\* finalizer is at work.
CollectInv ==
  /\ collected \cap Reachable = {}
  /\ \A o \in collected : handle[o] # NULL => o = finalizing
  /\ finalizing # NULL => finalizing \in collected /\ handle[finalizing] # NULL

PointersLive(a) ==
  LET o == heap[a].object IN
  /\ DOMAIN heap[a].pointers = DOMAIN Members[o]
  /\ \A i \in DOMAIN Members[o] : Usable(Members[o][i], heap[a].pointers[i])

\* All memory made for a reachable object points to live memory, also the memory
\* that its handle does not lead to any more.
PointersInv ==
  \A a \in Addresses : heap[a] # NULL /\ heap[a].object \in Reachable => PointersLive(a)

ThreadInv ==
  \A w \in Workers \ collected : handle[w] # NULL => "thread" \in heap[handle[w]].parts

MemoryInv == HandlesOwnMemory /\ ThreadInv /\ PointersInv

IInv == TypeInv /\ FrameInv /\ CollectInv /\ MemoryInv

\* A process waits for its callout with the definition and the worker in reach, and
\* the task has their memory.
TaskInv ==
  \A t \in tasks :
    /\ t \in [process : Processes, call : Calls, worker : Addresses, cif : Addresses]
    /\ work[t.process] # <<>> /\ Top(t.process).object = t.call
    /\ Top(t.process).done = Len(Members[t.call]) + 1
    /\ Usable(Members[t.call][1], t.worker) /\ "thread" \in heap[t.worker].parts
    /\ Usable(Members[t.call][2], t.cif)

\* The address that an entry has as its key is emptied only with a collected
\* callback, and is until then the one of its value.
EntryOK(e) ==
  /\ handle[e.key] = NULL => e.key \in collected
  /\ e.value \notin collected => handle[e.value] # NULL /\ handle[e.key] \in {handle[e.value], NULL}

\* A callback whose registration is complete has an entry, and keeps the address that
\* an invocation waits with, until it is collected.
LookupInv ==
  /\ \A e \in registry : EntryOK(e)
  /\ \A c \in Callbacks \ collected : handle[c] # NULL /\ ~InFrames(c) =>
       \E e \in registry : e.value = c
  /\ \A i \in pending : i.callback \notin collected =>
       handle[i.callback] = i.address /\ ~InFrames(i.callback)

\* The memory made for o, and the processes that may still make memory for it.
Groups(o) == {a \in Addresses : /\ heap[a] # NULL /\ heap[a].object = o
                               /\ ~(heap[a].parts \subseteq {"semaphore", "thread"})}
Makers(o) == {p \in Processes : \E i \in DOMAIN work[p] :
                work[p][i].object = o /\ work[p][i].done <= Len(Members[o])}

\* An inner frame is for an object that the outer ones refer to.
ChainInv ==
  \A p \in Processes : \A i, j \in DOMAIN work[p] :
    i < j => work[p][i].object \in Refs[work[p][j].object]

\* A finalizer frees all parts of a group but the semaphore and the thread.
GroupInv ==
  \A a \in Addresses : heap[a] # NULL =>
    /\ heap[a].object \notin BasicTypes
    /\ heap[a].parts \subseteq Owned(heap[a].object) \cup {"semaphore", "thread"}

\* Each process makes memory for o at most once while the handle of o is null or
\* was seen to be null.
Counted(o) ==
  /\ IsFiniteSet(Groups(o))
  /\ o \notin collected =>
       /\ Cardinality(Groups(o)) + Cardinality(Makers(o)) <= Cardinality(Processes)
       /\ handle[o] = NULL => Groups(o) = {}
  /\ o \in collected => Cardinality(Groups(o)) < Cardinality(Processes)

LeakInv == ChainInv /\ GroupInv /\ \A o \in Objects : Counted(o)

------------------------------------------------------------------------------
(***************************************************************************)
(* Objects, their members and the primitives.                              *)
(***************************************************************************)
\* The kinds of objects are apart.
LEMMA Kinds ==
  /\ \A o \in StructTypes : o \notin BasicTypes
  /\ \A o \in Definitions : o \notin BasicTypes \cup StructTypes
  /\ \A o \in Callbacks : o \notin BasicTypes \cup StructTypes \cup Definitions
  /\ \A o \in Workers : o \notin BasicTypes \cup StructTypes \cup Definitions \cup Callbacks
  /\ \A o \in Calls : o \notin Objects
  /\ \A o \in Users : o # NULL
  /\ \A a \in Pointer : a # NULL
  /\ \A a \in Addresses : a \notin Statics
  /\ \A g \in Group : g # NULL
BY HandlesAssumption DEF Types, Users, Objects

\* The members of an object are objects that it refers to, and no callbacks.
LEMMA MemberFacts ==
  ASSUME NEW o \in Users
  PROVE  /\ Members[o] \in Seq(Objects \ Callbacks)
         /\ Len(Members[o]) \in Nat /\ DOMAIN Members[o] = 1..Len(Members[o])
         /\ \A i \in 1..Len(Members[o]) :
              /\ Members[o][i] \in Objects /\ Members[o][i] \notin Callbacks
              /\ Members[o][i] \in Refs[o]
              /\ o \notin Calls => Members[o][i] \notin Definitions
         /\ Refs[o] \subseteq Objects
         /\ \A r \in Refs[o] : Refs[r] \subseteq Refs[o]
<1>1. Members[o] \in Seq(Objects \ Callbacks) /\ (o \notin Calls => Members[o] \in Seq(Types \cup Workers))
  <2>1. CASE o \in BasicTypes \cup Workers
    <3>1. Members[o] = <<>> /\ o \notin Calls
      BY <2>1, HandlesAssumption DEF Objects, Types
    <3> QED
      BY <3>1
  <2>2. CASE o \in StructTypes \cup Definitions
    <3>1. Members[o] \in Seq(Types) /\ o \notin Calls
      BY <2>2, HandlesAssumption DEF Objects, Types
    <3>2. Types \subseteq Objects \ Callbacks
      BY Kinds DEF Objects, Types
    <3> QED
      BY <3>1, <3>2
  <2>3. CASE o \in Callbacks
    <3>1. Members[o] \in Seq(Types \cup Workers)
      BY <2>3, HandlesAssumption
    <3>2. Types \cup Workers \subseteq Objects \ Callbacks
      BY Kinds DEF Objects, Types
    <3> QED
      BY <3>1, <3>2
  <2>4. CASE o \in Calls
    <3>1. PICK w \in Workers, d \in Definitions : Members[o] = <<w, d>>
      BY <2>4, HandlesAssumption
    <3>2. w \in Objects \ Callbacks /\ d \in Objects \ Callbacks
      BY Kinds DEF Objects, Types
    <3> QED
      BY <3>1, <3>2, <2>4
  <2> QED
    BY <2>1, <2>2, <2>3, <2>4 DEF Users, Objects, Types
<1>2. Len(Members[o]) \in Nat /\ DOMAIN Members[o] = 1..Len(Members[o])
  BY <1>1
<1>3. \A i \in 1..Len(Members[o]) : Members[o][i] \in Objects \ Callbacks
  BY <1>1, <1>2
<1>4. \A i \in 1..Len(Members[o]) : o \notin Calls => Members[o][i] \in Types \cup Workers
  BY <1>1, <1>2
<1>5. \A r \in Types \cup Workers : r \notin Definitions
  BY Kinds DEF Types
<1>6. \A i \in 1..Len(Members[o]) : Members[o][i] \in Refs[o]
  BY <1>2, HandlesAssumption
<1>7. Refs[o] \subseteq Objects /\ \A r \in Refs[o] : Refs[r] \subseteq Refs[o]
  BY HandlesAssumption
<1> QED
  BY <1>1, <1>2, <1>3, <1>4, <1>5, <1>6, <1>7

\* A call has a worker and a definition.
LEMMA CallFacts ==
  ASSUME NEW k \in Calls
  PROVE  /\ Len(Members[k]) = 2
         /\ Members[k][1] \in Workers /\ Members[k][2] \in Definitions
         /\ k \in Users /\ Members[k][1] \in Objects /\ Members[k][2] \in Objects
<1>1. PICK w \in Workers, d \in Definitions : Members[k] = <<w, d>>
  BY HandlesAssumption
<1> QED
  BY <1>1 DEF Users, Objects

\* What a primitive leaves behind, by row.
Left(o, x) == Primitive(o)[x].mallocs \ Primitive(o)[x].frees

\* The rows of primitiveInitializeStructType.
LEMMA StructRows ==
  ASSUME OwnFailures, NEW o \in StructTypes,
         NEW x \in DOMAIN Primitive(o) \cap (Failures \cup {"ok"})
  PROVE  /\ Left(o, x) \subseteq Parts
         /\ Primitive(o)[x].then \in {"done", "fail", "again"}
         /\ Primitive(o)[x].stored \in BOOLEAN
         /\ Primitive(o)[x].stored <=> Primitive(o)[x].then = "done"
         /\ Primitive(o)[x].stored => Owned(o) \subseteq Left(o, x) /\ Left(o, x) # {}
         /\ Primitive(o)[x].stored => Left(o, x) \subseteq Owned(o) \cup {"semaphore", "thread"}
         /\ ~Primitive(o)[x].stored => Left(o, x) = {}
<1>1. Primitive(o) = InitializeStructType /\ Owned(o) = FreeStruct
  BY Kinds DEF Primitive, Owned
<1>2. x \in {"ok", "forwardedHandle", "noType", "noMembers", "noOffsets"}
  BY <1>1 DEF OwnFailures, InitializeStructType
<1>3. CASE x = "ok"
  <2>1. Primitive(o)[x] = Row({"type", "elements", "offsets"}, {"offsets"}, TRUE, "done")
    BY <1>1, <1>3 DEF InitializeStructType
  <2>2. /\ Primitive(o)[x].stored = TRUE /\ Primitive(o)[x].then = "done"
        /\ Left(o, x) = {"type", "elements", "offsets"} \ {"offsets"}
    BY <2>1 DEF Row, Left
  <2>3. Left(o, x) = {"type", "elements"}
    BY <2>2
  <2> QED
    BY <1>1, <1>2, <1>3, <2>2, <2>3 DEF Parts, FreeStruct
<1>4. CASE x = "forwardedHandle"
  <2>1. Primitive(o)[x] = Row({}, {}, FALSE, "again")
    BY <1>1, <1>4 DEF InitializeStructType
  <2>2. /\ Primitive(o)[x].stored = FALSE /\ Primitive(o)[x].then = "again"
        /\ Left(o, x) = {} \ {}
    BY <2>1 DEF Row, Left
  <2>3. Left(o, x) = {}
    BY <2>2
  <2> QED
    BY <1>1, <1>2, <1>4, <2>2, <2>3 DEF Parts
<1>5. CASE x = "noType"
  <2>1. Primitive(o)[x] = Row({}, {}, FALSE, "fail")
    BY <1>1, <1>5 DEF InitializeStructType
  <2>2. /\ Primitive(o)[x].stored = FALSE /\ Primitive(o)[x].then = "fail"
        /\ Left(o, x) = {} \ {}
    BY <2>1 DEF Row, Left
  <2>3. Left(o, x) = {}
    BY <2>2
  <2> QED
    BY <1>1, <1>2, <1>5, <2>2, <2>3 DEF Parts
<1>6. CASE x = "noMembers"
  <2>1. Primitive(o)[x] = Row({"type"}, {"type"}, FALSE, "fail")
    BY <1>1, <1>6 DEF InitializeStructType
  <2>2. /\ Primitive(o)[x].stored = FALSE /\ Primitive(o)[x].then = "fail"
        /\ Left(o, x) = {"type"} \ {"type"}
    BY <2>1 DEF Row, Left
  <2>3. Left(o, x) = {}
    BY <2>2
  <2> QED
    BY <1>1, <1>2, <1>6, <2>2, <2>3 DEF Parts
<1>7. CASE x = "noOffsets"
  <2>1. Primitive(o)[x] = Row({"type", "elements"}, {"elements", "type"}, FALSE, "fail")
    BY <1>1, <1>7 DEF InitializeStructType
  <2>2. /\ Primitive(o)[x].stored = FALSE /\ Primitive(o)[x].then = "fail"
        /\ Left(o, x) = {"type", "elements"} \ {"elements", "type"}
    BY <2>1 DEF Row, Left
  <2>3. Left(o, x) = {}
    BY <2>2
  <2> QED
    BY <1>1, <1>2, <1>7, <2>2, <2>3 DEF Parts
<1> QED
  BY <1>2, <1>3, <1>4, <1>5, <1>6, <1>7

\* The rows of primitiveDefineFunction.
LEMMA DefinitionRows ==
  ASSUME NEW o \in Definitions,
         NEW x \in DOMAIN Primitive(o) \cap (Failures \cup {"ok"})
  PROVE  /\ Left(o, x) \subseteq Parts
         /\ Primitive(o)[x].then \in {"done", "fail", "again"}
         /\ Primitive(o)[x].stored \in BOOLEAN
         /\ Primitive(o)[x].stored <=> Primitive(o)[x].then = "done"
         /\ Primitive(o)[x].stored => Owned(o) \subseteq Left(o, x) /\ Left(o, x) # {}
         /\ Primitive(o)[x].stored => Left(o, x) \subseteq Owned(o) \cup {"semaphore", "thread"}
         /\ NoForwarders /\ ~Primitive(o)[x].stored => Left(o, x) = {}
<1>1. Primitive(o) = DefineFunction /\ Owned(o) = FreeDefinition
  BY Kinds DEF Primitive, Owned
<1>2. /\ x \in {"ok", "forwarded", "badCif", "forwardedHandle"}
      /\ NoForwarders => x \notin {"forwarded", "forwardedHandle"}
  BY <1>1 DEF DefineFunction, NoForwarders
<1>3. CASE x = "ok"
  <2>1. Primitive(o)[x] = Row({"arg_types", "cif"}, {}, TRUE, "done")
    BY <1>1, <1>3 DEF DefineFunction
  <2>2. /\ Primitive(o)[x].stored = TRUE /\ Primitive(o)[x].then = "done"
        /\ Left(o, x) = {"arg_types", "cif"} \ {}
    BY <2>1 DEF Row, Left
  <2>3. Left(o, x) = {"arg_types", "cif"}
    BY <2>2
  <2> QED
    BY <1>1, <1>2, <1>3, <2>2, <2>3 DEF Parts, FreeDefinition
<1>4. CASE x = "forwarded"
  <2>1. Primitive(o)[x] = Row({"arg_types"}, {}, FALSE, "again")
    BY <1>1, <1>4 DEF DefineFunction
  <2>2. /\ Primitive(o)[x].stored = FALSE /\ Primitive(o)[x].then = "again"
        /\ Left(o, x) = {"arg_types"} \ {}
    BY <2>1 DEF Row, Left
  <2>3. Left(o, x) = {"arg_types"}
    BY <2>2
  <2> QED
    BY <1>1, <1>2, <1>4, <2>2, <2>3 DEF Parts
<1>5. CASE x = "badCif"
  <2>1. Primitive(o)[x] = Row({"arg_types", "cif"}, {"cif", "arg_types"}, FALSE, "fail")
    BY <1>1, <1>5 DEF DefineFunction
  <2>2. /\ Primitive(o)[x].stored = FALSE /\ Primitive(o)[x].then = "fail"
        /\ Left(o, x) = {"arg_types", "cif"} \ {"cif", "arg_types"}
    BY <2>1 DEF Row, Left
  <2>3. Left(o, x) = {}
    BY <2>2
  <2> QED
    BY <1>1, <1>2, <1>5, <2>2, <2>3 DEF Parts
<1>6. CASE x = "forwardedHandle"
  <2>1. Primitive(o)[x] = Row({"arg_types", "cif"}, {}, FALSE, "again")
    BY <1>1, <1>6 DEF DefineFunction
  <2>2. /\ Primitive(o)[x].stored = FALSE /\ Primitive(o)[x].then = "again"
        /\ Left(o, x) = {"arg_types", "cif"} \ {}
    BY <2>1 DEF Row, Left
  <2>3. Left(o, x) = {"arg_types", "cif"}
    BY <2>2
  <2> QED
    BY <1>1, <1>2, <1>6, <2>2, <2>3 DEF Parts
<1> QED
  BY <1>2, <1>3, <1>4, <1>5, <1>6

\* The rows of primitiveRegisterCallback.
LEMMA CallbackRows ==
  ASSUME NEW o \in Callbacks,
         NEW x \in DOMAIN Primitive(o) \cap (Failures \cup {"ok", "noRunner"})
  PROVE  /\ Left(o, x) \subseteq Parts
         /\ Primitive(o)[x].then \in {"done", "fail", "again"}
         /\ Primitive(o)[x].stored \in BOOLEAN
         /\ Primitive(o)[x].stored <=> Primitive(o)[x].then = "done"
         /\ Primitive(o)[x].stored => Owned(o) \subseteq Left(o, x) /\ Left(o, x) # {}
         /\ Primitive(o)[x].stored => Left(o, x) \subseteq Owned(o) \cup {"semaphore", "thread"}
         /\ NoForwarders /\ ~Primitive(o)[x].stored => Left(o, x) = {}
         /\ x = "noRunner" => ~Primitive(o)[x].stored /\ Left(o, x) = {}
<1>1. Primitive(o) = RegisterCallback /\ Owned(o) = CallbackRelease
  BY Kinds DEF Primitive, Owned
<1>2. /\ x \in {"ok", "noRunner", "forwarded", "noClosure", "badCif", "badClosure", "forwardedHandle"}
      /\ NoForwarders => x \notin {"forwarded", "forwardedHandle"}
  BY <1>1 DEF RegisterCallback, NoForwarders
<1>3. CASE x = "ok"
  <2>1. Primitive(o)[x] = Row({"parameters", "callback", "closure", "userData"}, {}, TRUE, "done")
    BY <1>1, <1>3 DEF RegisterCallback, CallbackNew
  <2>2. /\ Primitive(o)[x].stored = TRUE /\ Primitive(o)[x].then = "done"
        /\ Left(o, x) = {"parameters", "callback", "closure", "userData"} \ {}
    BY <2>1 DEF Row, Left
  <2>3. Left(o, x) = {"parameters", "callback", "closure", "userData"}
    BY <2>2
  <2> QED
    BY <1>1, <1>2, <1>3, <2>2, <2>3 DEF Parts, CallbackRelease
<1>4. CASE x = "noRunner"
  <2>1. Primitive(o)[x] = Row({}, {}, FALSE, "fail")
    BY <1>1, <1>4 DEF RegisterCallback, CallbackNew
  <2>2. /\ Primitive(o)[x].stored = FALSE /\ Primitive(o)[x].then = "fail"
        /\ Left(o, x) = {} \ {}
    BY <2>1 DEF Row, Left
  <2>3. Left(o, x) = {}
    BY <2>2
  <2> QED
    BY <1>1, <1>2, <1>4, <2>2, <2>3 DEF Parts
<1>5. CASE x = "forwarded"
  <2>1. Primitive(o)[x] = Row({"parameters"}, {}, FALSE, "again")
    BY <1>1, <1>5 DEF RegisterCallback, CallbackNew
  <2>2. /\ Primitive(o)[x].stored = FALSE /\ Primitive(o)[x].then = "again"
        /\ Left(o, x) = {"parameters"} \ {}
    BY <2>1 DEF Row, Left
  <2>3. Left(o, x) = {"parameters"}
    BY <2>2
  <2> QED
    BY <1>1, <1>2, <1>5, <2>2, <2>3 DEF Parts
<1>6. CASE x = "noClosure"
  <2>1. Primitive(o)[x] = Row({"parameters", "callback"}, {"callback", "parameters"}, FALSE, "fail")
    BY <1>1, <1>6 DEF RegisterCallback, CallbackNew
  <2>2. /\ Primitive(o)[x].stored = FALSE /\ Primitive(o)[x].then = "fail"
        /\ Left(o, x) = {"parameters", "callback"} \ {"callback", "parameters"}
    BY <2>1 DEF Row, Left
  <2>3. Left(o, x) = {}
    BY <2>2
  <2> QED
    BY <1>1, <1>2, <1>6, <2>2, <2>3 DEF Parts
<1>7. CASE x = "badCif"
  <2>1. Primitive(o)[x] = Row({"parameters", "callback", "closure"}, {"closure", "callback", "parameters"}, FALSE, "fail")
    BY <1>1, <1>7 DEF RegisterCallback, CallbackNew
  <2>2. /\ Primitive(o)[x].stored = FALSE /\ Primitive(o)[x].then = "fail"
        /\ Left(o, x) = {"parameters", "callback", "closure"} \ {"closure", "callback", "parameters"}
    BY <2>1 DEF Row, Left
  <2>3. Left(o, x) = {}
    BY <2>2
  <2> QED
    BY <1>1, <1>2, <1>7, <2>2, <2>3 DEF Parts
<1>8. CASE x = "badClosure"
  <2>1. Primitive(o)[x] = Row({"parameters", "callback", "closure"}, {"closure", "callback", "parameters"}, FALSE, "fail")
    BY <1>1, <1>8 DEF RegisterCallback, CallbackNew
  <2>2. /\ Primitive(o)[x].stored = FALSE /\ Primitive(o)[x].then = "fail"
        /\ Left(o, x) = {"parameters", "callback", "closure"} \ {"closure", "callback", "parameters"}
    BY <2>1 DEF Row, Left
  <2>3. Left(o, x) = {}
    BY <2>2
  <2> QED
    BY <1>1, <1>2, <1>8, <2>2, <2>3 DEF Parts
<1>9. CASE x = "forwardedHandle"
  <2>1. Primitive(o)[x] = Row({"parameters", "callback", "closure", "userData"}, {}, FALSE, "again")
    BY <1>1, <1>9 DEF RegisterCallback, CallbackNew
  <2>2. /\ Primitive(o)[x].stored = FALSE /\ Primitive(o)[x].then = "again"
        /\ Left(o, x) = {"parameters", "callback", "closure", "userData"} \ {}
    BY <2>1 DEF Row, Left
  <2>3. Left(o, x) = {"parameters", "callback", "closure", "userData"}
    BY <2>2
  <2> QED
    BY <1>1, <1>2, <1>9, <2>2, <2>3 DEF Parts
<1> QED
  BY <1>2, <1>3, <1>4, <1>5, <1>6, <1>7, <1>8, <1>9

\* The rows of primitiveCreateWorker.
LEMMA WorkerRows ==
  ASSUME NEW o \in Workers,
         NEW x \in DOMAIN Primitive(o) \cap (Failures \cup {"ok"})
  PROVE  /\ Left(o, x) \subseteq Parts
         /\ Primitive(o)[x].then \in {"done", "fail", "again"}
         /\ Primitive(o)[x].stored \in BOOLEAN
         /\ Primitive(o)[x].stored => Primitive(o)[x].then = "done"
         /\ Primitive(o)[x].then = "done" => Primitive(o)[x].stored \/ "noThread" \in Failures
         /\ Primitive(o)[x].stored => /\ Owned(o) \subseteq Left(o, x) /\ Left(o, x) # {}
                                      /\ "thread" \in Left(o, x)
         /\ Primitive(o)[x].stored => Left(o, x) \subseteq Owned(o) \cup {"semaphore", "thread"}
         /\ NoForwarders /\ ThreadsStart => Primitive(o)[x].stored
<1>1. Primitive(o) = CreateWorker /\ Owned(o) = WorkerRelease
  BY Kinds DEF Primitive, Owned
<1>2. /\ x \in {"ok", "noThread", "forwardedHandle"}
      /\ x = "noThread" => "noThread" \in Failures
      /\ NoForwarders /\ ThreadsStart => x = "ok"
  BY <1>1 DEF CreateWorker, NoForwarders, ThreadsStart
<1>3. CASE x = "ok"
  <2>1. Primitive(o)[x] = Row({"worker", "queue", "semaphore", "thread"}, {}, TRUE, "done")
    BY <1>1, <1>3 DEF CreateWorker
  <2>2. /\ Primitive(o)[x].stored = TRUE /\ Primitive(o)[x].then = "done"
        /\ Left(o, x) = {"worker", "queue", "semaphore", "thread"} \ {}
    BY <2>1 DEF Row, Left
  <2>3. Left(o, x) = {"worker", "queue", "semaphore", "thread"}
    BY <2>2
  <2> QED
    BY <1>1, <1>2, <1>3, <2>2, <2>3 DEF Parts, WorkerRelease, ThreadsafeQueueFree
<1>4. CASE x = "noThread"
  <2>1. Primitive(o)[x] = Row({"worker", "queue", "semaphore", "thread"} \ {"thread"}, {}, FALSE, "done")
    BY <1>1, <1>4 DEF CreateWorker
  <2>2. /\ Primitive(o)[x].stored = FALSE /\ Primitive(o)[x].then = "done"
        /\ Left(o, x) = ({"worker", "queue", "semaphore", "thread"} \ {"thread"}) \ {}
    BY <2>1 DEF Row, Left
  <2>3. Left(o, x) = {"worker", "queue", "semaphore"}
    BY <2>2
  <2> QED
    BY <1>1, <1>2, <1>4, <2>2, <2>3 DEF Parts
<1>5. CASE x = "forwardedHandle"
  <2>1. Primitive(o)[x] = Row({"worker", "queue", "semaphore", "thread"}, {}, FALSE, "again")
    BY <1>1, <1>5 DEF CreateWorker
  <2>2. /\ Primitive(o)[x].stored = FALSE /\ Primitive(o)[x].then = "again"
        /\ Left(o, x) = {"worker", "queue", "semaphore", "thread"} \ {}
    BY <2>1 DEF Row, Left
  <2>3. Left(o, x) = {"worker", "queue", "semaphore", "thread"}
    BY <2>2
  <2> QED
    BY <1>1, <1>2, <1>5, <2>2, <2>3 DEF Parts
<1> QED
  BY <1>2, <1>3, <1>4, <1>5

\* A primitive stores an address exactly when it succeeds and left there all that
\* the finalizer will free.  It leaves memory only when its members are made.
LEMMA RowFacts ==
  ASSUME OwnFailures, NEW o \in Objects \ BasicTypes, NEW x \in Exits(o)
  PROVE  /\ Left(o, x) \subseteq Parts
         /\ Primitive(o)[x].then \in {"done", "fail", "again"}
         /\ Primitive(o)[x].stored \in BOOLEAN
         /\ Primitive(o)[x].stored => /\ Primitive(o)[x].then = "done"
                                      /\ Owned(o) \subseteq Left(o, x) /\ Left(o, x) # {}
                                      /\ o \in Workers => "thread" \in Left(o, x)
                                      /\ Left(o, x) \subseteq Owned(o) \cup {"semaphore", "thread"}
         /\ Primitive(o)[x].then = "done" =>
              Primitive(o)[x].stored \/ (o \in Workers /\ "noThread" \in Failures)
         /\ NoForwarders /\ ThreadsStart /\ ~Primitive(o)[x].stored => Left(o, x) = {}
         /\ Left(o, x) # {} => \A i \in DOMAIN Members[o] :
                                  Members[o][i] \in Workers => handle[Members[o][i]] # NULL
<1> DEFINE Unmade == \E m \in Workers, i \in DOMAIN Members[o] : Members[o][i] = m /\ handle[m] = NULL
<1>1. o \in Users
  BY DEF Users
<1>2. x \in DOMAIN Primitive(o) \cap (Failures \cup {"ok"}) \/ (Unmade /\ x = "noRunner")
  BY DEF Exits
<1>3. x # "noRunner" => ~Unmade
  BY DEF Exits
<1> HIDE DEF Unmade
<1>4. Unmade => o \in Callbacks
  <2>1. CASE o \in StructTypes \cup Definitions
    <3>1. Members[o] \in Seq(Types) /\ \A m \in Workers : m \notin Types
      BY <2>1, Kinds, HandlesAssumption DEF Types
    <3> QED
      BY <3>1 DEF Unmade
  <2>2. CASE o \in Workers
    BY <2>2, HandlesAssumption DEF Unmade
  <2> QED
    BY <2>1, <2>2 DEF Objects, Types
<1>5. CASE o \in StructTypes
  BY <1>2, <1>3, <1>4, <1>5, StructRows, Kinds DEF Unmade
<1>6. CASE o \in Definitions
  BY <1>2, <1>3, <1>4, <1>6, DefinitionRows, Kinds DEF Unmade
<1>7. CASE o \in Callbacks
  <2>1. x \in DOMAIN Primitive(o) \cap (Failures \cup {"ok", "noRunner"})
    <3>1. "noRunner" \in DOMAIN Primitive(o)
      BY <1>7, Kinds DEF Primitive, RegisterCallback
    <3> QED
      BY <1>2, <3>1
  <2>2. Left(o, x) # {} => x # "noRunner"
    BY <1>7, <2>1, CallbackRows
  <2>3. Left(o, x) # {} => \A i \in DOMAIN Members[o] :
                              Members[o][i] \in Workers => handle[Members[o][i]] # NULL
    BY <1>3, <2>2 DEF Unmade
  <2> QED
    BY <1>7, <2>1, <2>3, CallbackRows, Kinds
<1>8. CASE o \in Workers
  BY <1>2, <1>3, <1>4, <1>8, WorkerRows, Kinds DEF Unmade
<1> QED
  BY <1>5, <1>6, <1>7, <1>8 DEF Objects, Types

------------------------------------------------------------------------------
(***************************************************************************)
(* Memory and reachability.                                                *)
(***************************************************************************)
\* A pointer stays usable as long as nobody touches what it points to.
LEMMA UsableKept ==
  ASSUME NEW o \in Objects, NEW a, Usable(o, a), o \in BasicTypes \/ heap'[a] = heap[a]
  PROVE  Usable(o, a)'
BY DEF Usable

\* What free() leaves.
LEMMA FreedFacts ==
  ASSUME heap \in [Addresses -> Group \cup {NULL}], NEW o \in Objects,
         NEW a \in Addresses, heap[a] # NULL
  PROVE  /\ Freed(o, a) \in [Addresses -> Group \cup {NULL}]
         /\ \A b \in Addresses : b # a => Freed(o, a)[b] = heap[b]
         /\ heap[a].parts \subseteq Owned(o) => Freed(o, a)[a] = NULL
         /\ Freed(o, a)[a] # NULL =>
              /\ Freed(o, a)[a].object = heap[a].object
              /\ Freed(o, a)[a].parts = heap[a].parts \ Owned(o)
<1> DEFINE left == heap[a].parts \ Owned(o)
           g == [object |-> heap[a].object, parts |-> left, pointers |-> heap[a].pointers]
<1>1. heap[a] \in Group
  OBVIOUS
<1>2. g \in Group /\ g # NULL
  BY <1>1, Kinds DEF Group
<1>3. [heap[a] EXCEPT !.parts = left] = g
  <2>1. PICK o1 \in Objects, p1 \in SUBSET Parts, q1 \in Seq(Pointer) :
           heap[a] = [object |-> o1, parts |-> p1, pointers |-> q1]
    BY <1>1 DEF Group
  <2>2. \A l : [[object |-> o1, parts |-> p1, pointers |-> q1] EXCEPT !.parts = l] =
               [object |-> o1, parts |-> l, pointers |-> q1]
    OBVIOUS
  <2>3. heap[a].object = o1 /\ heap[a].pointers = q1
    BY <2>1
  <2>4. [heap[a] EXCEPT !.parts = left] = [object |-> o1, parts |-> left, pointers |-> q1]
    BY <2>1, <2>2, Zenon
  <2> QED
    BY <2>3, <2>4
<1>4. Freed(o, a) = [heap EXCEPT ![a] = IF left = {} THEN NULL ELSE g]
  BY <1>3 DEF Freed
<1>5. g.object = heap[a].object /\ g.parts = left
  OBVIOUS
<1>6. heap[a].parts \subseteq Owned(o) => left = {}
  OBVIOUS
<1> HIDE DEF g
<1> QED
  BY <1>2, <1>4, <1>5, <1>6

\* Objects in frames are users, and reachable with all they refer to.
LEMMA FrameFacts ==
  ASSUME TypeInv, NEW p \in Processes, NEW i \in DOMAIN work[p]
  PROVE  /\ work[p] \in Seq(Frame) /\ Len(work[p]) \in Nat /\ DOMAIN work[p] = 1..Len(work[p])
         /\ work[p][i] \in Frame /\ work[p][i].object \in Users /\ work[p][i].done \in Nat
         /\ work[p][i].object \in Roots /\ work[p][i].object \in Reachable
         /\ Refs[work[p][i].object] \subseteq Reachable
<1>1. work[p] \in Seq(Frame)
  BY DEF TypeInv
<1>2. /\ Len(work[p]) \in Nat /\ DOMAIN work[p] = 1..Len(work[p])
      /\ work[p][i] \in Frame
  BY <1>1
<1>3. work[p][i].object \in Users /\ work[p][i].done \in Nat
  BY <1>2 DEF Frame
<1>4. work[p][i].object \in Roots
  BY <1>3 DEF Roots, InFrames
<1> QED
  BY <1>1, <1>2, <1>3, <1>4 DEF Reachable

\* What a reachable object refers to is reachable.
LEMMA ReachableRefs ==
  ASSUME TypeInv, NEW o \in Reachable
  PROVE  o \in Users /\ Refs[o] \subseteq Reachable
<1>1. Roots \subseteq Users
  BY DEF TypeInv, Roots
<1>2. CASE o \in Roots
  BY <1>1, <1>2 DEF Reachable
<1>3. ASSUME NEW r \in Roots, o \in Refs[r] PROVE o \in Users /\ Refs[o] \subseteq Reachable
  <2>1. Refs[r] \subseteq Objects /\ Refs[o] \subseteq Refs[r]
    BY <1>1, <1>3, MemberFacts
  <2> QED
    BY <1>3, <2>1 DEF Reachable, Users
<1> QED
  BY <1>2, <1>3 DEF Reachable

\* No step makes an object reachable again: a process uses what it can reach.
LEMMA ReachableShrinks ==
  ASSUME TypeInv, kept' \subseteq kept,
         \A p \in Processes : \A i \in DOMAIN work'[p] : work'[p][i].object \in Reachable
  PROVE  Reachable' \subseteq Reachable
<1>1. Roots' \subseteq Reachable
  BY DEF Roots, InFrames, Reachable
<1>2. \A o \in Roots' : Refs[o] \subseteq Reachable
  BY <1>1, ReachableRefs
<1> QED
  BY <1>1, <1>2 DEF Reachable

\* Reachability depends on the application and the frames alone.
LEMMA ReachableSame ==
  ASSUME kept' = kept, work' = work
  PROVE  Reachable' = Reachable /\ Roots' = Roots
BY DEF Roots, InFrames, Reachable

\* A reachable object with a handle has usable memory.
LEMMA ReachableOwns ==
  ASSUME IInv, NEW o \in Objects, o \in Reachable, handle[o] # NULL
  PROVE  o \notin collected /\ Usable(o, handle[o])
BY DEF IInv, CollectInv, MemoryInv, HandlesOwnMemory

\* Steps that neither allocate nor free.
LEMMA MemoryKept ==
  ASSUME IInv, UNCHANGED <<handle, heap, collected, finalizing>>, Reachable' \subseteq Reachable
  PROVE  CollectInv' /\ MemoryInv'
<1>1. \A o, a : Usable(o, a)' = Usable(o, a)
  BY DEF Usable
<1>2. \A a : PointersLive(a)' = PointersLive(a)
  BY <1>1 DEF PointersLive
<1>3. CollectInv'
  BY DEF IInv, CollectInv
<1>4. HandlesOwnMemory' /\ ThreadInv'
  BY <1>1 DEF IInv, MemoryInv, HandlesOwnMemory, ThreadInv
<1>5. PointersInv'
  BY <1>2 DEF IInv, MemoryInv, PointersInv
<1> QED
  BY <1>3, <1>4, <1>5 DEF MemoryInv

\* The release of x leaves the memory of other objects alone.
LEMMA OthersKept ==
  ASSUME IInv, NEW x \in Objects \ BasicTypes, x \notin collected,
         heap' = IF handle[x] = NULL THEN heap ELSE Freed(x, handle[x])
  PROVE  /\ heap' \in [Addresses -> Group \cup {NULL}]
         /\ \A a \in Addresses : heap[a] # NULL /\ heap[a].object # x => heap'[a] = heap[a]
         /\ \A a \in Addresses : heap'[a] # NULL =>
              heap[a] # NULL /\ heap'[a].object = heap[a].object
         /\ \A o \in Objects, a \in Pointer : o # x /\ Usable(o, a) => Usable(o, a)'
<1>1. heap \in [Addresses -> Group \cup {NULL}]
  BY DEF IInv, TypeInv
<1>2. handle[x] # NULL => /\ handle[x] \in Addresses /\ heap[handle[x]] # NULL
                          /\ heap[handle[x]].object = x
  BY DEF IInv, MemoryInv, HandlesOwnMemory, Usable
<1>3. /\ heap' \in [Addresses -> Group \cup {NULL}]
      /\ \A a \in Addresses : a # handle[x] => heap'[a] = heap[a]
      /\ handle[x] = NULL => heap' = heap
      /\ handle[x] # NULL /\ heap'[handle[x]] # NULL => heap'[handle[x]].object = x
  BY <1>1, <1>2, FreedFacts
<1>4. \A a \in Addresses : heap[a] # NULL /\ heap[a].object # x => heap'[a] = heap[a]
  BY <1>2, <1>3
<1>5. \A o \in Objects, a \in Pointer : o # x /\ Usable(o, a) => Usable(o, a)'
  <2> SUFFICES ASSUME NEW o \in Objects, NEW a \in Pointer, o # x, Usable(o, a)
               PROVE  Usable(o, a)'
    OBVIOUS
  <2>1. o \in BasicTypes \/ heap'[a] = heap[a]
    BY <1>4 DEF Usable
  <2> QED
    BY <2>1, UsableKept
<1> QED
  BY <1>2, <1>3, <1>4, <1>5

\* The release of an object that is out of reach.
LEMMA MemoryReleased ==
  ASSUME IInv, NEW x \in Objects \ BasicTypes, x \notin collected, x \notin Reachable,
         heap' = IF handle[x] = NULL THEN heap ELSE Freed(x, handle[x]),
         collected' = collected \cup {x}, UNCHANGED <<kept, work>>,
         \A o \in Objects : o # x => handle'[o] = handle[o]
  PROVE  MemoryInv' /\ collected' \cap Reachable' = {}
<1>1. /\ \A a \in Addresses : heap[a] # NULL /\ heap[a].object # x => heap'[a] = heap[a]
      /\ \A a \in Addresses : heap'[a] # NULL =>
           heap[a] # NULL /\ heap'[a].object = heap[a].object
      /\ \A o \in Objects, a \in Pointer : o # x /\ Usable(o, a) => Usable(o, a)'
  BY OthersKept
<1>2. Reachable' = Reachable
  BY ReachableSame
<1>3. \A o \in Objects : handle[o] \in Pointer \cup {NULL}
  BY DEF IInv, TypeInv
<1>4. HandlesOwnMemory'
  BY <1>1, <1>3 DEF IInv, MemoryInv, HandlesOwnMemory
<1>5. ThreadInv'
  <2> SUFFICES ASSUME NEW w \in Workers, w \notin collected', handle'[w] # NULL
               PROVE  "thread" \in heap'[handle'[w]].parts
    BY DEF ThreadInv
  <2>1. w \in Objects /\ w \notin BasicTypes /\ w # x /\ w \notin collected /\ handle'[w] = handle[w]
    BY Kinds DEF Objects
  <2>2. "thread" \in heap[handle[w]].parts /\ Usable(w, handle[w])
    BY <2>1 DEF IInv, MemoryInv, ThreadInv, HandlesOwnMemory
  <2>3. heap'[handle[w]] = heap[handle[w]]
    BY <1>1, <2>1, <2>2 DEF Usable
  <2> QED
    BY <2>1, <2>2, <2>3
<1>6. PointersInv'
  <2> SUFFICES ASSUME NEW a \in Addresses, heap'[a] # NULL, heap'[a].object \in Reachable
               PROVE  PointersLive(a)'
    BY <1>2 DEF PointersInv
  <2> DEFINE o == heap[a].object
  <2>1. heap[a] # NULL /\ o \in Reachable /\ heap'[a] = heap[a]
    BY <1>1
  <2>2. PointersLive(a) /\ heap[a] \in Group
    BY <2>1 DEF IInv, MemoryInv, PointersInv, TypeInv
  <2>3. o \in Users /\ Refs[o] \subseteq Reachable
    BY <2>1, ReachableRefs DEF IInv
  <2>4. \A i \in DOMAIN Members[o] : Members[o][i] \in Objects /\ Members[o][i] # x
    BY <2>3, MemberFacts
  <2>5. \A i \in DOMAIN Members[o] : heap[a].pointers[i] \in Pointer
    BY <2>2 DEF Group, PointersLive
  <2>6. \A i \in DOMAIN Members[o] : Usable(Members[o][i], heap[a].pointers[i])'
    BY <1>1, <2>1, <2>2, <2>4, <2>5 DEF PointersLive
  <2> QED
    BY <2>1, <2>2, <2>6 DEF PointersLive
<1>7. collected' \cap Reachable' = {}
  BY <1>2 DEF IInv, CollectInv
<1> QED
  BY <1>4, <1>5, <1>6, <1>7 DEF MemoryInv

------------------------------------------------------------------------------
(***************************************************************************)
(* Frames.                                                                 *)
(***************************************************************************)
\* The innermost frame.
LEMMA TopFacts ==
  ASSUME TypeInv, NEW p \in Processes, work[p] # <<>>
  PROVE  /\ work[p] \in Seq(Frame) /\ Len(work[p]) \in Nat \ {0} /\ DOMAIN work[p] = 1..Len(work[p])
         /\ 1 \in DOMAIN work[p] /\ Top(p) = work[p][1]
         /\ Top(p).object \in Users /\ Top(p).done \in Nat
         /\ Top(p).object \in Roots /\ Top(p).object \in Reachable
         /\ Refs[Top(p).object] \subseteq Reachable
         /\ Len(Members[Top(p).object]) \in Nat
<1>1. work[p] \in Seq(Frame) /\ Len(work[p]) \in Nat \ {0}
  BY EmptySeq DEF TypeInv
<1>2. DOMAIN work[p] = 1..Len(work[p]) /\ 1 \in DOMAIN work[p]
  BY <1>1
<1> QED
  BY <1>1, <1>2, FrameFacts, MemberFacts DEF Top

\* Only the outermost frame is a call or a registration.
LEMMA OutermostFrame ==
  ASSUME TypeInv, FrameInv, NEW p \in Processes, NEW i \in DOMAIN work[p],
         work[p][i].object \in Callbacks \cup Calls
  PROVE  i = Len(work[p])
<1>1. Len(work[p]) \in Nat /\ DOMAIN work[p] = 1..Len(work[p])
  BY FrameFacts
<1> SUFFICES ASSUME i # Len(work[p]) PROVE FALSE
  OBVIOUS
<1>2. i + 1 \in DOMAIN work[p] /\ i + 1 > 1 /\ (i + 1) - 1 = i
  BY <1>1
<1> DEFINE f == work[p][i + 1]
<1>3. f.object \in Users /\ f.done \in Nat
  BY <1>2, FrameFacts
<1>4. FrameOK(p, i + 1)
  BY <1>2 DEF FrameInv
<1>5. /\ f.done >= 1 /\ f.done <= Len(Members[f.object])
      /\ work[p][i].object = Members[f.object][f.done]
  <2>1. Len(Members[f.object]) \in Nat
    BY <1>3, MemberFacts
  <2> HIDE DEF f
  <2> QED
    BY <1>2, <1>3, <1>4, <2>1 DEF FrameOK, f
<1>6. work[p][i].object \in Objects /\ work[p][i].object \notin Callbacks
  BY <1>3, <1>5, MemberFacts
<1> QED
  BY <1>6, Kinds

\* The frames after done + 1.
LEMMA AdvancedFacts ==
  ASSUME TypeInv, NEW p \in Processes, work[p] # <<>>
  PROVE  /\ Advanced(p) \in Seq(Frame) /\ Len(Advanced(p)) = Len(work[p])
         /\ Advanced(p)[1].object = Top(p).object /\ Advanced(p)[1].done = Top(p).done + 1
         /\ \A i \in 2..Len(work[p]) : Advanced(p)[i] = work[p][i]
<1> DEFINE f == [object |-> Top(p).object, done |-> Top(p).done + 1]
<1>1. /\ work[p] \in Seq(Frame) /\ Len(work[p]) \in Nat \ {0}
      /\ Top(p) = work[p][1] /\ Top(p) \in Frame /\ f \in Frame
  <2>1. /\ work[p] \in Seq(Frame) /\ Len(work[p]) \in Nat \ {0} /\ 1 \in DOMAIN work[p]
        /\ Top(p) = work[p][1] /\ Top(p).object \in Users /\ Top(p).done \in Nat
    BY TopFacts
  <2>2. work[p][1] \in Frame
    BY <2>1, FrameFacts
  <2>3. f \in Frame
    BY <2>1 DEF Frame
  <2> QED
    BY <2>1, <2>2, <2>3
<1>2. [work[p][1] EXCEPT !.done = work[p][1].done + 1] = f
  BY <1>1 DEF Frame
<1>3. Advanced(p) = [work[p] EXCEPT ![1] = f]
  BY <1>2 DEF Advanced
<1>4. f.object = Top(p).object /\ f.done = Top(p).done + 1
  OBVIOUS
<1> HIDE DEF f
<1> QED
  BY <1>1, <1>3, <1>4, ExceptSeq

\* A process changed its frames; handles that were made stay.
LEMMA FrameStep ==
  ASSUME TypeInv, FrameInv, NEW q \in Processes, NEW s \in Seq(Frame),
         work' = [work EXCEPT ![q] = s],
         \A m \in Objects : handle[m] # NULL => handle'[m] # NULL,
         \A p \in Processes : \A i \in DOMAIN work[p] : p # q =>
           (work[p][i].object \in Callbacks => handle'[work[p][i].object] = handle[work[p][i].object]),
         \A i \in DOMAIN s : FrameOK(q, i)',
         \A i \in DOMAIN s : s[i].object \in Callbacks =>
           \/ \E j \in DOMAIN work[q] : work[q][j].object = s[i].object
           \/ ~InFrames(s[i].object)
  PROVE  FrameInv' /\ work' \in [Processes -> Seq(Frame)]
<1>1. /\ work \in [Processes -> Seq(Frame)] /\ work' \in [Processes -> Seq(Frame)]
      /\ work'[q] = s /\ \A p \in Processes : p # q => work'[p] = work[p]
  BY DEF TypeInv
<1>2. ASSUME NEW p \in Processes, NEW i \in DOMAIN work'[p] PROVE FrameOK(p, i)'
  <2>1. CASE p = q
    BY <1>1, <2>1
  <2>2. CASE p # q
    <3> DEFINE f == work[p][i]
    <3>1. work'[p] = work[p] /\ i \in DOMAIN work[p]
      BY <1>1, <2>2
    <3>2. f.object \in Users /\ FrameOK(p, i)
      BY <3>1, FrameFacts DEF FrameInv
    <3>3. \A k \in 1..Len(Members[f.object]) : Made(Members[f.object][k]) => Made(Members[f.object][k])'
      <4>1. \A k \in 1..Len(Members[f.object]) : Members[f.object][k] \in Objects
        BY <3>2, MemberFacts
      <4> QED
        BY <3>1, <4>1 DEF Made
    <3>4. f.object \in Callbacks => handle'[f.object] = handle[f.object]
      BY <2>2, <3>1
    <3>5. /\ f.done <= Len(Members[f.object]) + 1
          /\ f.done = Len(Members[f.object]) + 1 => i = 1 /\ f.object \in Callbacks \cup Calls
          /\ i > 1 => f.done >= 1 /\ work[p][i - 1].object = Members[f.object][f.done]
      BY <3>2 DEF FrameOK
    <3>6. \A k \in 1..Len(Members[f.object]) : k < f.done \/ (k = f.done /\ i = 1) =>
            Made(Members[f.object][k])'
      BY <3>2, <3>3 DEF FrameOK
    <3>7. f.object \in Callbacks => (handle'[f.object] # NULL <=> f.done = Len(Members[f.object]) + 1)
      BY <3>2, <3>4 DEF FrameOK
    <3> QED
      BY <3>1, <3>5, <3>6, <3>7 DEF FrameOK, Made
  <2> QED
    BY <2>1, <2>2
<1>3. OneRegistration'
  <2> SUFFICES ASSUME NEW p \in Processes, NEW r \in Processes,
                      NEW i \in DOMAIN work'[p], NEW j \in DOMAIN work'[r],
                      work'[p][i].object \in Callbacks, work'[p][i].object = work'[r][j].object,
                      p # r
               PROVE  FALSE
    BY DEF OneRegistration
  <2>1. ASSUME NEW u \in Processes, NEW v \in Processes, NEW k \in DOMAIN work'[u],
               NEW l \in DOMAIN work'[v], u = q, v # q,
               work'[u][k].object \in Callbacks, work'[u][k].object = work'[v][l].object
        PROVE  FALSE
    <3>1. work'[v] = work[v] /\ l \in DOMAIN work[v] /\ k \in DOMAIN s /\ s[k].object = work[v][l].object
      BY <1>1, <2>1
    <3>2. InFrames(s[k].object)
      BY <3>1 DEF InFrames
    <3>3. PICK m \in DOMAIN work[q] : work[q][m].object = s[k].object
      BY <1>1, <2>1, <3>1, <3>2
    <3> QED
      BY <1>1, <2>1, <3>1, <3>3 DEF FrameInv, OneRegistration
  <2>2. CASE p = q
    BY <2>1, <2>2
  <2>3. CASE r = q
    BY <2>1, <2>3
  <2>4. CASE p # q /\ r # q
    BY <1>1, <2>4 DEF FrameInv, OneRegistration
  <2> QED
    BY <2>2, <2>3, <2>4
<1> QED
  BY <1>1, <1>2, <1>3 DEF FrameInv

\* A step that changes no frame, and no handle that a frame knows.
LEMMA FrameKept ==
  ASSUME TypeInv, FrameInv, work' = work,
         \A m \in Reachable \cap Objects : handle'[m] = handle[m]
  PROVE  FrameInv'
<1>1. ASSUME NEW p \in Processes, NEW i \in DOMAIN work[p] PROVE FrameOK(p, i)'
  <2> DEFINE f == work[p][i]
  <2>1. /\ f.object \in Users /\ FrameOK(p, i) /\ f.object \in Reachable
        /\ Refs[f.object] \subseteq Reachable
    BY <1>1, FrameFacts DEF FrameInv
  <2>2. \A k \in 1..Len(Members[f.object]) : Made(Members[f.object][k]) => Made(Members[f.object][k])'
    BY <2>1, MemberFacts DEF Made
  <2>3. f.object \in Callbacks => handle'[f.object] = handle[f.object]
    BY <2>1 DEF Objects
  <2> QED
    BY <1>1, <2>1, <2>2, <2>3 DEF FrameOK
<1>2. OneRegistration'
  BY DEF FrameInv, OneRegistration
<1> QED
  BY <1>1, <1>2 DEF FrameInv

\* The innermost frame ends, with its object made.
LEMMA TailFrames ==
  ASSUME TypeInv, FrameInv, NEW q \in Processes, work[q] # <<>>,
         work' = [work EXCEPT ![q] = Tail(work[q])],
         \A m \in Objects : handle[m] # NULL => handle'[m] # NULL,
         \A c \in Callbacks : handle'[c] = handle[c],
         Top(q).object \in Objects \ Callbacks =>
           handle'[Top(q).object] # NULL \/ (Top(q).object \in Workers /\ "noThread" \in Failures)
  PROVE  /\ FrameInv' /\ work' \in [Processes -> Seq(Frame)]
         /\ \A i \in DOMAIN work'[q] : i + 1 \in DOMAIN work[q] /\ work'[q][i] = work[q][i + 1]
<1> DEFINE s == Tail(work[q])
<1>1. /\ work[q] \in Seq(Frame) /\ Len(work[q]) \in Nat \ {0} /\ DOMAIN work[q] = 1..Len(work[q])
      /\ Top(q) = work[q][1]
  BY TopFacts
<1>2. /\ s \in Seq(Frame) /\ Len(s) = Len(work[q]) - 1
      /\ \A i \in 1..Len(s) : s[i] = work[q][i + 1]
  BY <1>1, HeadTailProperties
<1>3. work'[q] = s
  BY DEF TypeInv
<1> HIDE DEF s
<1>4. \A i \in DOMAIN s : i \in 1..Len(s) /\ i + 1 \in DOMAIN work[q] /\ s[i] = work[q][i + 1] /\ i \in Nat
  BY <1>1, <1>2
<1>5. ASSUME NEW i \in DOMAIN s PROVE FrameOK(q, i)'
  <2> DEFINE o == s[i].object
             n == Len(Members[o])
             d == s[i].done
  <2>1. o \in Users /\ d \in Nat /\ n \in Nat /\ FrameOK(q, i + 1)
    BY <1>4, FrameFacts, MemberFacts DEF FrameInv
  <2>2. i \in Nat /\ i >= 1 /\ (i + 1) - 1 = i /\ i + 1 > 1 /\ i + 1 # 1 /\ s[i] = work[q][i + 1]
    BY <1>2, <1>4
  <2>3. /\ d <= n /\ d >= 1 /\ work[q][i].object = Members[o][d]
        /\ \A k \in 1..n : k < d => Made(Members[o][k])
        /\ o \in Callbacks => (handle[o] # NULL <=> d = n + 1)
    <3>1. /\ work[q][i + 1].done <= Len(Members[work[q][i + 1].object]) + 1
          /\ work[q][i + 1].done # Len(Members[work[q][i + 1].object]) + 1
          /\ work[q][i + 1].done >= 1
          /\ work[q][i].object = Members[work[q][i + 1].object][work[q][i + 1].done]
      BY <2>1, <2>2 DEF FrameOK
    <3>2. /\ \A k \in 1..n : k < d => Made(Members[o][k])
          /\ o \in Callbacks => (handle[o] # NULL <=> d = n + 1)
      BY <2>1, <2>2 DEF FrameOK
    <3>3. work[q][i + 1].done = d /\ work[q][i + 1].object = o /\ n = Len(Members[o])
      BY <2>2
    <3> HIDE DEF o, n, d
    <3> QED
      BY <2>1, <3>1, <3>2, <3>3
  <2>4. \A k \in 1..n : Members[o][k] \in Objects /\ Members[o][k] \notin Callbacks
    BY <2>1, MemberFacts
  <2>5. i > 1 => work'[q][i - 1].object = Members[o][d]
    <3> SUFFICES ASSUME i > 1 PROVE work'[q][i - 1].object = Members[o][d]
      OBVIOUS
    <3>1. i - 1 \in DOMAIN s /\ (i - 1) + 1 = i
      BY <1>2, <1>5, <2>2
    <3> QED
      BY <1>3, <1>4, <2>3, <3>1
  <2>6. \A k \in 1..n : k < d \/ (k = d /\ i = 1) =>
          handle'[Members[o][k]] # NULL \/ (Members[o][k] \in Workers /\ "noThread" \in Failures)
    <3> SUFFICES ASSUME NEW k \in 1..n, k < d \/ (k = d /\ i = 1)
                 PROVE  handle'[Members[o][k]] # NULL \/ (Members[o][k] \in Workers /\ "noThread" \in Failures)
      OBVIOUS
    <3>1. CASE k < d
      BY <2>3, <2>4, <3>1 DEF Made
    <3>2. CASE k = d /\ i = 1
      BY <1>1, <2>3, <2>4, <3>2
    <3> QED
      BY <3>1, <3>2
  <2>7. o \in Callbacks => (handle'[o] # NULL <=> d = n + 1)
    BY <2>3
  <2>8. work'[q][i].object = o /\ work'[q][i].done = d
    BY <1>3
  <2>9. n = Len(Members[o])
    OBVIOUS
  <2> HIDE DEF o, n, d
  <2>10. d # n + 1 /\ d <= n + 1 /\ d >= 1
    BY <2>1, <2>3
  <2> QED
    BY <2>5, <2>6, <2>7, <2>8, <2>9, <2>10 DEF FrameOK, Made
<1>6. \A i \in DOMAIN s : \E j \in DOMAIN work[q] : work[q][j].object = s[i].object
  BY <1>4
<1>7. work' = [work EXCEPT ![q] = s]
  BY DEF s
<1>8. FrameInv' /\ work' \in [Processes -> Seq(Frame)]
  BY <1>2, <1>5, <1>6, <1>7, FrameStep
<1> QED
  BY <1>3, <1>4, <1>8

\* The object of a frame has one more member done, or passes its own primitive.
LEMMA AdvanceFrame ==
  ASSUME TypeInv, FrameInv, NEW q \in Processes, work[q] # <<>>,
         NEW o, NEW n, NEW d, o = Top(q).object, n = Len(Members[o]), d = Top(q).done,
         d <= n, d = n => o \in Callbacks \cup Calls, NEW j \in {1, 2},
         j = 1 => (d < n => handle[Members[o][d + 1]] # NULL),
         j = 2 => d < n /\ work'[q][1].object = Members[o][d + 1],
         work'[q][j].object = o, work'[q][j].done = d + 1,
         \A m \in Objects : handle[m] # NULL => handle'[m] # NULL,
         o \in Callbacks => (handle'[o] # NULL <=> d = n)
  PROVE  FrameOK(q, j)'
<1>1. o \in Users /\ d \in Nat /\ n \in Nat /\ 1 \in DOMAIN work[q] /\ Top(q) = work[q][1]
  BY TopFacts
<1>2. \A k \in 1..n : k <= d => Made(Members[o][k])
  <2>1. FrameOK(q, 1)
    BY <1>1 DEF FrameInv
  <2>2. \A k \in 1..n : k < d \/ k = d => Made(Members[o][k])
    BY <1>1, <2>1 DEF FrameOK
  <2> QED
    BY <1>1, <2>2
<1>3. \A k \in 1..n : Members[o][k] \in Objects
  BY <1>1, MemberFacts
<1>4. \A k \in 1..n : k < d + 1 \/ (k = d + 1 /\ j = 1) =>
        handle'[Members[o][k]] # NULL \/ (Members[o][k] \in Workers /\ "noThread" \in Failures)
  <2> SUFFICES ASSUME NEW k \in 1..n, k < d + 1 \/ (k = d + 1 /\ j = 1)
               PROVE  handle'[Members[o][k]] # NULL \/ (Members[o][k] \in Workers /\ "noThread" \in Failures)
    OBVIOUS
  <2>1. CASE k <= d
    BY <1>2, <1>3, <2>1 DEF Made
  <2>2. CASE k = d + 1 /\ j = 1
    <3>1. d < n /\ Members[o][d + 1] \in Objects
      BY <1>1, <1>3, <2>2
    <3> QED
      BY <2>2, <3>1
  <2> QED
    BY <1>1, <2>1, <2>2
<1>5. d + 1 <= n + 1 /\ (d + 1 = n + 1 => d = n) /\ (d = n => d + 1 = n + 1) /\ d + 1 >= 1 /\ (d < n => d # n)
  BY <1>1
<1>6. j > 1 => j = 2 /\ j - 1 = 1
  OBVIOUS
<1>7. d + 1 = n + 1 => j = 1 /\ o \in Callbacks \cup Calls
  BY <1>5
<1>8. j > 1 => work'[q][j - 1].object = Members[o][d + 1]
  BY <1>6
<1>9. o \in Callbacks => (handle'[o] # NULL <=> d + 1 = n + 1)
  BY <1>5
<1> QED
  BY <1>4, <1>5, <1>7, <1>8, <1>9 DEF FrameOK, Made

\* A frame further out does not change.
LEMMA LowerFrame ==
  ASSUME TypeInv, FrameInv, NEW q \in Processes, NEW i \in DOMAIN work[q], i > 1,
         NEW j \in {i, i + 1},
         work'[q][j] = work[q][i], work'[q][j - 1].object = work[q][i - 1].object,
         \A m \in Objects : handle[m] # NULL => handle'[m] # NULL,
         work[q][i].object \in Callbacks => handle'[work[q][i].object] = handle[work[q][i].object]
  PROVE  FrameOK(q, j)'
<1> DEFINE o == work[q][i].object
           n == Len(Members[o])
           d == work[q][i].done
<1>1. i \in Nat /\ o \in Users /\ d \in Nat /\ n \in Nat /\ FrameOK(q, i)
  BY FrameFacts, MemberFacts DEF FrameInv
<1>2. /\ d <= n + 1 /\ d # n + 1 /\ d >= 1 /\ work[q][i - 1].object = Members[o][d]
      /\ \A k \in 1..n : k < d => Made(Members[o][k])
      /\ o \in Callbacks => (handle[o] # NULL <=> d = n + 1)
  BY <1>1 DEF FrameOK
<1>3. \A k \in 1..n : Members[o][k] \in Objects
  BY <1>1, MemberFacts
<1>4. \A k \in 1..n : k < d =>
        handle'[Members[o][k]] # NULL \/ (Members[o][k] \in Workers /\ "noThread" \in Failures)
  BY <1>2, <1>3 DEF Made
<1>5. n = Len(Members[o]) /\ work'[q][j].object = o /\ work'[q][j].done = d
  OBVIOUS
<1>6. o \in Callbacks => (handle'[o] # NULL <=> d = n + 1)
  BY <1>2
<1>7. work'[q][j - 1].object = Members[o][d] /\ j # 1
  BY <1>1, <1>2
<1> HIDE DEF o, n, d
<1> QED
  BY <1>2, <1>4, <1>5, <1>6, <1>7 DEF FrameOK, Made

\* Another process's registration is not the one of this process.
LEMMA OtherFrames ==
  ASSUME TypeInv, FrameInv, NEW q \in Processes, work[q] # <<>>,
         \A c \in Callbacks : c # Top(q).object => handle'[c] = handle[c]
  PROVE  /\ \A p \in Processes : \A i \in DOMAIN work[p] : p # q =>
              (work[p][i].object \in Callbacks => handle'[work[p][i].object] = handle[work[p][i].object])
         /\ \A i \in DOMAIN work[q] : i > 1 =>
              (work[q][i].object \in Callbacks => handle'[work[q][i].object] = handle[work[q][i].object])
<1>1. 1 \in DOMAIN work[q] /\ Top(q) = work[q][1] /\ Len(work[q]) \in Nat /\ DOMAIN work[q] = 1..Len(work[q])
  BY TopFacts
<1>2. \A p \in Processes : \A i \in DOMAIN work[p] : p # q /\ work[p][i].object \in Callbacks =>
        work[p][i].object # Top(q).object
  BY <1>1 DEF FrameInv, OneRegistration
<1>3. Top(q).object \in Callbacks => Len(work[q]) = 1
  BY <1>1, OutermostFrame
<1>4. ASSUME NEW i \in DOMAIN work[q], i > 1 PROVE Top(q).object \notin Callbacks
  <2>1. i \in 1..Len(work[q])
    BY <1>1, <1>4
  <2>2. Len(work[q]) # 1
    BY <1>1, <1>4, <2>1
  <2> QED
    BY <1>3, <2>2
<1> QED
  BY <1>2, <1>4

\* One more member is done, or the primitive of the object.
LEMMA AdvanceFrames ==
  ASSUME TypeInv, FrameInv, NEW q \in Processes, work[q] # <<>>,
         work' = [work EXCEPT ![q] = Advanced(q)],
         Top(q).done <= Len(Members[Top(q).object]),
         Top(q).done = Len(Members[Top(q).object]) => Top(q).object \in Callbacks \cup Calls,
         Top(q).done < Len(Members[Top(q).object]) =>
           handle[Members[Top(q).object][Top(q).done + 1]] # NULL,
         \A m \in Objects : handle[m] # NULL => handle'[m] # NULL,
         \A c \in Callbacks : c # Top(q).object => handle'[c] = handle[c],
         Top(q).object \in Callbacks =>
           (handle'[Top(q).object] # NULL <=> Top(q).done = Len(Members[Top(q).object]))
  PROVE  /\ FrameInv' /\ work' \in [Processes -> Seq(Frame)]
         /\ \A i \in DOMAIN work'[q] : i \in DOMAIN work[q] /\ work'[q][i].object = work[q][i].object
<1> DEFINE o == Top(q).object
           n == Len(Members[o])
           d == Top(q).done
<1>0. /\ o = Top(q).object /\ n = Len(Members[o]) /\ d = Top(q).done
      /\ d <= n /\ (d = n => o \in Callbacks \cup Calls)
      /\ d < n => handle[Members[o][d + 1]] # NULL
      /\ o \in Callbacks => (handle'[o] # NULL <=> d = n)
  OBVIOUS
<1> HIDE DEF o, n, d
<1> DEFINE s == Advanced(q)
<1>1. /\ s \in Seq(Frame) /\ Len(s) = Len(work[q]) /\ s[1].object = o /\ s[1].done = d + 1
      /\ \A i \in 2..Len(work[q]) : s[i] = work[q][i]
  BY <1>0, AdvancedFacts
<1>2. /\ Len(work[q]) \in Nat \ {0} /\ DOMAIN work[q] = 1..Len(work[q]) /\ Top(q) = work[q][1]
  BY TopFacts
<1>3. work'[q] = s
  BY DEF TypeInv
<1> HIDE DEF s
<1>4. DOMAIN s = DOMAIN work[q] /\ \A i \in DOMAIN s : s[i].object = work[q][i].object
  BY <1>0, <1>1, <1>2
<1>5. ASSUME NEW i \in DOMAIN s PROVE FrameOK(q, i)'
  <2>1. CASE i = 1
    <3>1. work'[q][1].object = o /\ work'[q][1].done = d + 1
      BY <1>1, <1>3
    <3>2. FrameOK(q, 1)'
      BY <1>0, <3>1, AdvanceFrame
    <3> QED
      BY <2>1, <3>2
  <2>2. CASE i # 1
    <3>1. i \in DOMAIN work[q] /\ i > 1 /\ i - 1 \in DOMAIN s /\ i \in 2..Len(work[q])
      BY <1>1, <1>2, <1>5, <2>2
    <3>2. work'[q][i] = work[q][i] /\ work'[q][i - 1].object = work[q][i - 1].object
      BY <1>1, <1>3, <1>4, <3>1
    <3>3. work[q][i].object \in Callbacks => handle'[work[q][i].object] = handle[work[q][i].object]
      BY <3>1, OtherFrames
    <3> QED
      BY <3>1, <3>2, <3>3, LowerFrame
  <2> QED
    BY <2>1, <2>2
<1>6. \A i \in DOMAIN s : \E j \in DOMAIN work[q] : work[q][j].object = s[i].object
  BY <1>4
<1>7. work' = [work EXCEPT ![q] = s]
  BY DEF s
<1>8. \A p \in Processes : \A i \in DOMAIN work[p] : p # q =>
        (work[p][i].object \in Callbacks => handle'[work[p][i].object] = handle[work[p][i].object])
  BY OtherFrames
<1>9. FrameInv' /\ work' \in [Processes -> Seq(Frame)]
  <2>1. /\ \A m \in Objects : handle[m] # NULL => handle'[m] # NULL
        /\ TypeInv /\ FrameInv /\ q \in Processes
    OBVIOUS
  <2>2. \A i \in DOMAIN s : FrameOK(q, i)'
    BY <1>5
  <2> QED
    BY ONLY <1>1, <1>6, <1>7, <1>8, <2>1, <2>2, FrameStep
<1> QED
  BY <1>3, <1>4, <1>9

\* validate of a member whose handle is null.
LEMMA PushFrames ==
  ASSUME TypeInv, FrameInv, NEW q \in Processes, work[q] # <<>>, handle' = handle,
         Top(q).done < Len(Members[Top(q).object]),
         work' = [work EXCEPT ![q] =
           <<[object |-> Members[Top(q).object][Top(q).done + 1], done |-> 0]>> \o Advanced(q)]
  PROVE  /\ FrameInv' /\ work' \in [Processes -> Seq(Frame)]
         /\ \A i \in DOMAIN work'[q] :
              \/ i = 1 /\ work'[q][i].object = Members[Top(q).object][Top(q).done + 1]
              \/ i - 1 \in DOMAIN work[q] /\ work'[q][i].object = work[q][i - 1].object
<1> DEFINE o == Top(q).object
           d == Top(q).done
           n == Len(Members[o])
           m == Members[o][d + 1]
           r == Advanced(q)
           f == [object |-> m, done |-> 0]
           s == <<f>> \o r
<1>0. /\ o = Top(q).object /\ n = Len(Members[o]) /\ d = Top(q).done /\ d < n
      /\ m = Members[o][d + 1] /\ work' = [work EXCEPT ![q] = s]
  OBVIOUS
<1>1. /\ r \in Seq(Frame) /\ Len(r) = Len(work[q]) /\ r[1].object = o /\ r[1].done = d + 1
      /\ \A i \in 2..Len(work[q]) : r[i] = work[q][i]
  BY AdvancedFacts
<1>2. /\ Len(work[q]) \in Nat \ {0} /\ DOMAIN work[q] = 1..Len(work[q]) /\ Top(q) = work[q][1]
      /\ o \in Users /\ d \in Nat /\ n \in Nat /\ 1 \in DOMAIN work[q]
  BY TopFacts
<1>3. m \in Objects /\ m \notin Callbacks /\ m \in Users /\ d + 1 \in 1..n
  <2>1. d + 1 \in 1..n
    BY <1>2
  <2> QED
    BY <1>0, <1>2, <2>1, MemberFacts DEF Users
<1>4. f \in Frame /\ f.object = m /\ f.done = 0
  BY <1>3 DEF Frame
<1> HIDE DEF o, d, n, m, r, f
<1>5. /\ s \in Seq(Frame) /\ Len(s) = Len(work[q]) + 1 /\ s[1] = f
      /\ \A i \in 2..(Len(work[q]) + 1) : s[i] = r[i - 1]
  BY <1>1, <1>4, PushProperties
<1> HIDE DEF s
<1>7. work'[q] = s
  BY <1>0 DEF TypeInv
<1>8. \A i \in DOMAIN s : i # 1 => /\ i \in 2..(Len(work[q]) + 1) /\ i - 1 \in DOMAIN work[q]
                                   /\ s[i] = r[i - 1] /\ s[i].object = work[q][i - 1].object
  <2> SUFFICES ASSUME NEW i \in DOMAIN s, i # 1
               PROVE  /\ i \in 2..(Len(work[q]) + 1) /\ i - 1 \in DOMAIN work[q]
                      /\ s[i] = r[i - 1] /\ s[i].object = work[q][i - 1].object
    OBVIOUS
  <2>1. i \in 2..(Len(work[q]) + 1) /\ i - 1 \in 1..Len(work[q])
    BY <1>2, <1>5
  <2>2. s[i] = r[i - 1]
    BY <1>5, <2>1
  <2>3. r[i - 1].object = work[q][i - 1].object
    <3>1. CASE i - 1 = 1
      BY <1>0, <1>1, <1>2, <3>1
    <3>2. CASE i - 1 # 1
      BY <1>1, <1>2, <2>1, <3>2
    <3> QED
      BY <3>1, <3>2
  <2> QED
    BY <1>2, <2>1, <2>2, <2>3
<1>9. ASSUME NEW i \in DOMAIN s PROVE FrameOK(q, i)'
  <2>1. CASE i = 1
    <3>1. work'[q][1].object = m /\ work'[q][1].done = 0 /\ Len(Members[m]) \in Nat
      BY <1>3, <1>4, <1>5, <1>7, MemberFacts
    <3>2. \A k \in 1..Len(Members[m]) : ~(k < 0 \/ k = 0)
      BY <3>1
    <3>3. 0 <= Len(Members[m]) + 1 /\ 0 # Len(Members[m]) + 1
      BY <3>1
    <3>4. m \notin Callbacks /\ ~(1 > 1)
      BY <1>3
    <3>5. FrameOK(q, 1)'
      BY ONLY <3>1, <3>2, <3>3, <3>4 DEF FrameOK
    <3> QED
      BY <2>1, <3>5
  <2>2. CASE i = 2
    <3>1. work'[q][2].object = o /\ work'[q][2].done = d + 1 /\ work'[q][1].object = m
      BY <1>1, <1>2, <1>4, <1>5, <1>7
    <3>2. FrameOK(q, 1)
      BY <1>2 DEF FrameInv
    <3>3. o \in Callbacks => (handle'[o] # NULL <=> d = n)
      BY <1>0, <1>2, <3>2 DEF FrameOK
    <3>4. d <= n /\ d # n
      BY <1>0, <1>2
    <3>5. /\ \A x \in Objects : handle[x] # NULL => handle'[x] # NULL
          /\ TypeInv /\ FrameInv /\ q \in Processes /\ work[q] # <<>> /\ d < n
          /\ o = Top(q).object /\ n = Len(Members[o]) /\ d = Top(q).done
          /\ work'[q][1].object = Members[o][d + 1]
      BY <1>0, <3>1
    <3>6. FrameOK(q, 2)'
      BY ONLY <3>1, <3>3, <3>4, <3>5, AdvanceFrame
    <3> QED
      BY <2>2, <3>6
  <2>3. CASE i # 1 /\ i # 2
    <3> DEFINE l == i - 1
    <3>1. l \in DOMAIN work[q] /\ l > 1 /\ l \in 2..Len(work[q]) /\ i = l + 1 /\ i - 1 \in DOMAIN s
      <4>1. i \in 2..(Len(work[q]) + 1) /\ l \in DOMAIN work[q]
        BY <1>8, <1>9, <2>3
      <4>2. l > 1 /\ l \in 2..Len(work[q]) /\ i = l + 1 /\ i - 1 \in 1..(Len(work[q]) + 1)
        BY <1>2, <2>3, <4>1
      <4>3. DOMAIN s = 1..(Len(work[q]) + 1)
        BY <1>2, <1>5
      <4> QED
        BY <4>1, <4>2, <4>3
    <3>2. work'[q][i] = work[q][l]
      BY <1>1, <1>7, <1>8, <1>9, <2>3, <3>1
    <3>3. work'[q][i - 1].object = work[q][l - 1].object
      <4>1. i - 1 # 1 /\ (i - 1) - 1 = l - 1
        BY <3>1
      <4> QED
        BY <1>7, <1>8, <3>1, <4>1
    <3> HIDE DEF l
    <3>4. FrameOK(q, l + 1)'
      BY <3>1, <3>2, <3>3, LowerFrame
    <3> QED
      BY <3>1, <3>4
  <2> QED
    BY <2>1, <2>2, <2>3
<1>10. \A i \in DOMAIN s : s[i].object \in Callbacks =>
         \E j \in DOMAIN work[q] : work[q][j].object = s[i].object
  BY <1>3, <1>4, <1>5, <1>8
<1>11. FrameInv' /\ work' \in [Processes -> Seq(Frame)]
  <2>1. /\ \A x \in Objects : handle[x] # NULL => handle'[x] # NULL
        /\ \A p \in Processes : \A i \in DOMAIN work[p] : p # q =>
             (work[p][i].object \in Callbacks => handle'[work[p][i].object] = handle[work[p][i].object])
        /\ TypeInv /\ FrameInv /\ q \in Processes /\ work' = [work EXCEPT ![q] = s]
    BY <1>0
  <2>2. \A i \in DOMAIN s : FrameOK(q, i)'
    BY <1>9
  <2> QED
    BY ONLY <1>5, <1>10, <2>1, <2>2, FrameStep
<1> QED
  BY <1>4, <1>5, <1>7, <1>8, <1>11 DEF m, o, d

\* A call or a registration begins.
LEMMA BeginFrames ==
  ASSUME TypeInv, FrameInv, NEW q \in Processes, handle' = handle,
         NEW o \in Users, o \in Callbacks => handle[o] = NULL /\ ~InFrames(o),
         o \notin Calls => o \in Callbacks,
         work' = [work EXCEPT ![q] = <<[object |-> o, done |-> 0]>>]
  PROVE  /\ FrameInv' /\ work' \in [Processes -> Seq(Frame)]
         /\ \A i \in DOMAIN work'[q] : work'[q][i].object = o
<1> DEFINE f == [object |-> o, done |-> 0]
<1>1. f \in Frame /\ f.object = o /\ f.done = 0
  BY DEF Frame
<1>2. work' = [work EXCEPT ![q] = <<f>>]
  BY DEF f
<1> HIDE DEF f
<1>3. <<f>> \in Seq(Frame) /\ DOMAIN <<f>> = {1} /\ <<f>>[1] = f
  BY <1>1
<1>4. work'[q] = <<f>>
  BY <1>2 DEF TypeInv
<1>5. FrameOK(q, 1)'
  <2>1. work'[q][1].object = o /\ work'[q][1].done = 0 /\ Len(Members[o]) \in Nat
    BY <1>1, <1>3, <1>4, MemberFacts
  <2>2. \A k \in 1..Len(Members[o]) : ~(k < 0 \/ k = 0)
    BY <2>1
  <2>3. 0 <= Len(Members[o]) + 1 /\ 0 # Len(Members[o]) + 1
    BY <2>1
  <2> QED
    BY <2>1, <2>2, <2>3 DEF FrameOK
<1>6. \A i \in DOMAIN <<f>> : <<f>>[i].object \in Callbacks => ~InFrames(<<f>>[i].object)
  BY <1>1, <1>3
<1>7. \A i \in DOMAIN <<f>> : FrameOK(q, i)'
  BY <1>3, <1>5
<1>8. FrameInv' /\ work' \in [Processes -> Seq(Frame)]
  BY <1>2, <1>3, <1>6, <1>7, FrameStep
<1> QED
  BY <1>1, <1>3, <1>4, <1>8

\* An error ends all frames.
LEMMA EmptyFrames ==
  ASSUME TypeInv, FrameInv, NEW q \in Processes, handle' = handle,
         work' = [work EXCEPT ![q] = <<>>]
  PROVE  FrameInv' /\ work' \in [Processes -> Seq(Frame)] /\ work'[q] = <<>>
<1>1. <<>> \in Seq(Frame) /\ DOMAIN <<>> = {}
  OBVIOUS
<1>2. FrameInv' /\ work' \in [Processes -> Seq(Frame)]
  BY <1>1, FrameStep
<1> QED
  BY <1>2 DEF TypeInv

------------------------------------------------------------------------------
(***************************************************************************)
(* Primitives that allocate.                                               *)
(***************************************************************************)
\* The object whose primitive is called is reachable, and its members are made.
LEMMA InitializeFacts ==
  ASSUME IInv, OwnFailures, NEW p \in Processes, NEW x, Initialize(p, x),
         NEW o, o = Top(p).object
  PROVE  /\ work[p] # <<>> /\ o \in Objects \ BasicTypes /\ o \in Users
         /\ o \in Reachable /\ o \notin collected /\ Refs[o] \subseteq Reachable
         /\ Top(p).done = Len(Members[o]) /\ x \in Exits(o)
         /\ \A k \in 1..Len(Members[o]) : Made(Members[o][k])
         /\ \E a \in Addresses :
              /\ heap[a] = NULL
              /\ heap' = IF Left(o, x) = {} THEN heap
                         ELSE [heap EXCEPT ![a] = [object |-> o, parts |-> Left(o, x),
                                                   pointers |-> Pointers(o)]]
              /\ handle' = IF Primitive(o)[x].stored THEN [handle EXCEPT ![o] = a] ELSE handle
         /\ Primitive(o)[x].then = "again" => work' = [work EXCEPT ![p] = work[p]]
         /\ Primitive(o)[x].then = "fail" => work' = [work EXCEPT ![p] = <<>>]
         /\ Primitive(o)[x].then = "done" /\ o \in Callbacks => work' = [work EXCEPT ![p] = Advanced(p)]
         /\ Primitive(o)[x].then = "done" /\ o \notin Callbacks =>
              work' = [work EXCEPT ![p] = Tail(work[p])]
<1>1. /\ work[p] # <<>> /\ o \in Objects \ BasicTypes /\ o \in Users
      /\ Top(p).done = Len(Members[o]) /\ x \in Exits(o)
  BY DEF Initialize, Ready, At, Users
<1>2. /\ 1 \in DOMAIN work[p] /\ Top(p) = work[p][1] /\ o \in Reachable /\ Refs[o] \subseteq Reachable
      /\ Len(Members[o]) \in Nat
  BY <1>1, TopFacts DEF IInv
<1>3. o \notin collected
  BY <1>2 DEF IInv, CollectInv
<1>4. \A k \in 1..Len(Members[o]) : Made(Members[o][k])
  <2>1. FrameOK(p, 1)
    BY <1>2 DEF IInv, FrameInv
  <2>2. \A k \in 1..Len(Members[o]) : k < Top(p).done \/ k = Top(p).done => Made(Members[o][k])
    BY <1>2, <2>1 DEF FrameOK
  <2>3. \A k \in 1..Len(Members[o]) : k < Top(p).done \/ k = Top(p).done
    BY <1>1, <1>2
  <2> QED
    BY <2>2, <2>3
<1>5. \A a \in Malloc({b \in Addresses : heap[b] = NULL}) : a \in Addresses /\ heap[a] = NULL
  BY HandlesAssumption
<1>6. /\ \E a \in Addresses :
           /\ heap[a] = NULL
           /\ heap' = IF Left(o, x) = {} THEN heap
                      ELSE [heap EXCEPT ![a] = [object |-> o, parts |-> Left(o, x),
                                                pointers |-> Pointers(o)]]
           /\ handle' = IF Primitive(o)[x].stored THEN [handle EXCEPT ![o] = a] ELSE handle
      /\ work' = [work EXCEPT ![p] =
                    CASE Primitive(o)[x].then = "again" -> work[p]
                      [] Primitive(o)[x].then = "fail"  -> <<>>
                      [] Primitive(o)[x].then = "done"  -> IF o \in Callbacks THEN Advanced(p)
                                                           ELSE Tail(work[p])]
  BY <1>5, Zenon DEF Initialize, Left, SetHandler
<1>7. PICK then : then = Primitive(o)[x].then
  OBVIOUS
<1>8. work' = [work EXCEPT ![p] =
                 CASE then = "again" -> work[p]
                   [] then = "fail"  -> <<>>
                   [] then = "done"  -> IF o \in Callbacks THEN Advanced(p) ELSE Tail(work[p])]
  BY <1>6, <1>7, Zenon
<1>9. /\ then = "again" => work' = [work EXCEPT ![p] = work[p]]
      /\ then = "fail" => work' = [work EXCEPT ![p] = <<>>]
      /\ then = "done" /\ o \in Callbacks => work' = [work EXCEPT ![p] = Advanced(p)]
      /\ then = "done" /\ o \notin Callbacks => work' = [work EXCEPT ![p] = Tail(work[p])]
  BY ONLY <1>8
<1> QED
  BY <1>1, <1>2, <1>3, <1>4, <1>6, <1>7, <1>9

\* What o's memory contains when its members are made: a pointer for each member,
\* to usable memory.
LEMMA PointersFacts ==
  ASSUME IInv, NEW o \in Users, o \in Reachable,
         \A k \in 1..Len(Members[o]) : handle[Members[o][k]] # NULL
  PROVE  /\ Pointers(o) \in Seq(Pointer) /\ DOMAIN Pointers(o) = DOMAIN Members[o]
         /\ \A k \in DOMAIN Members[o] : Usable(Members[o][k], Pointers(o)[k])
<1>1. /\ Len(Members[o]) \in Nat /\ DOMAIN Members[o] = 1..Len(Members[o])
      /\ \A k \in 1..Len(Members[o]) : Members[o][k] \in Objects /\ Members[o][k] \in Refs[o]
  BY MemberFacts
<1>2. Refs[o] \subseteq Reachable
  BY ReachableRefs DEF IInv
<1>3. \A k \in 1..Len(Members[o]) : handle[Members[o][k]] \in Pointer
  BY <1>1 DEF IInv, TypeInv
<1>4. Pointers(o) = [k \in 1..Len(Members[o]) |-> handle[Members[o][k]]]
  BY <1>1 DEF Pointers, GetHandler
<1>5. Pointers(o) \in [1..Len(Members[o]) -> Pointer]
  BY <1>3, <1>4
<1>6. Pointers(o) \in Seq(Pointer)
  BY <1>1, <1>5
<1>7. \A k \in 1..Len(Members[o]) : Usable(Members[o][k], handle[Members[o][k]])
  BY <1>1, <1>2, ReachableOwns
<1> QED
  BY <1>1, <1>4, <1>6, <1>7

\* The memory after the primitive: what was usable stays usable, and a stored
\* address is that of o's new memory.
LEMMA Allocation ==
  ASSUME IInv, OwnFailures, NEW p \in Processes, NEW x, Initialize(p, x),
         NEW o, o = Top(p).object
  PROVE  /\ heap' \in [Addresses -> Group \cup {NULL}]
         /\ \A b \in Addresses : heap[b] # NULL => heap'[b] = heap[b]
         /\ \A m \in Objects : \A b : Usable(m, b) => Usable(m, b)'
         /\ \A b \in Addresses : heap'[b] # NULL /\ heap[b] = NULL =>
              /\ heap'[b].object = o /\ heap'[b].parts = Left(o, x) /\ PointersLive(b)'
         /\ \A m \in Objects : m # o => handle'[m] = handle[m]
         /\ ~Primitive(o)[x].stored => handle' = handle
         /\ Primitive(o)[x].stored => /\ handle'[o] \in Addresses /\ heap[handle'[o]] = NULL
                                      /\ heap'[handle'[o]] # NULL /\ Usable(o, handle[o])'
                                      /\ o \in Workers => "thread" \in heap'[handle'[o]].parts
         /\ \A b, c \in Addresses : heap[b] = NULL /\ heap'[b] # NULL /\ heap[c] = NULL /\ heap'[c] # NULL => b = c
         /\ Left(o, x) = {} => heap' = heap
<1> DEFINE g == [object |-> o, parts |-> Left(o, x), pointers |-> Pointers(o)]
<1>1. /\ o \in Objects \ BasicTypes /\ o \in Users /\ o \in Reachable /\ x \in Exits(o)
      /\ \A k \in 1..Len(Members[o]) : Made(Members[o][k])
  BY InitializeFacts
<1>2. PICK a \in Addresses :
        /\ heap[a] = NULL
        /\ heap' = IF Left(o, x) = {} THEN heap ELSE [heap EXCEPT ![a] = g]
        /\ handle' = IF Primitive(o)[x].stored THEN [handle EXCEPT ![o] = a] ELSE handle
  BY InitializeFacts
<1>3. /\ Left(o, x) \subseteq Parts
      /\ Primitive(o)[x].stored => /\ Owned(o) \subseteq Left(o, x) /\ Left(o, x) # {}
                                   /\ o \in Workers => "thread" \in Left(o, x)
      /\ Left(o, x) # {} => \A i \in DOMAIN Members[o] :
                               Members[o][i] \in Workers => handle[Members[o][i]] # NULL
  BY <1>1, RowFacts
<1>4. /\ heap \in [Addresses -> Group \cup {NULL}] /\ handle \in [Objects -> Pointer \cup {NULL}]
      /\ DOMAIN Members[o] = 1..Len(Members[o])
  BY <1>1, MemberFacts DEF IInv, TypeInv
<1>5. Left(o, x) # {} => /\ Pointers(o) \in Seq(Pointer) /\ DOMAIN Pointers(o) = DOMAIN Members[o]
                         /\ \A k \in DOMAIN Members[o] : Usable(Members[o][k], Pointers(o)[k])
  <2> SUFFICES ASSUME Left(o, x) # {}
               PROVE  \A k \in 1..Len(Members[o]) : handle[Members[o][k]] # NULL
    BY <1>1, PointersFacts
  <2> QED
    BY <1>1, <1>3, <1>4 DEF Made
<1>6. Left(o, x) # {} => g \in Group /\ g # NULL
  BY <1>1, <1>3, <1>5, Kinds DEF Group
<1>7. g.object = o /\ g.parts = Left(o, x) /\ g.pointers = Pointers(o)
  OBVIOUS
<1> HIDE DEF g
<1>8. /\ heap' \in [Addresses -> Group \cup {NULL}]
      /\ \A b \in Addresses : b # a => heap'[b] = heap[b]
      /\ Left(o, x) = {} => heap' = heap
      /\ Left(o, x) # {} => heap'[a] = g
  BY <1>2, <1>4, <1>6
<1>9. \A b \in Addresses : heap[b] # NULL => heap'[b] = heap[b]
  BY <1>2, <1>8
<1>10. \A m \in Objects : \A b : Usable(m, b) => Usable(m, b)'
  <2> SUFFICES ASSUME NEW m \in Objects, NEW b, Usable(m, b) PROVE Usable(m, b)'
    OBVIOUS
  <2>1. m \in BasicTypes \/ heap'[b] = heap[b]
    BY <1>9 DEF Usable
  <2> QED
    BY <2>1, UsableKept
<1>11. \A b \in Addresses : heap'[b] # NULL /\ heap[b] = NULL => b = a /\ Left(o, x) # {}
  BY <1>8
<1>12. Left(o, x) # {} => PointersLive(a)'
  <2> SUFFICES ASSUME Left(o, x) # {} PROVE PointersLive(a)'
    OBVIOUS
  <2>1. heap'[a].object = o /\ heap'[a].pointers = Pointers(o)
    BY <1>7, <1>8
  <2>2. \A k \in DOMAIN Members[o] : Members[o][k] \in Objects
    BY <1>1, <1>4, MemberFacts
  <2>3. \A m \in Objects : \A b : Usable(m, b) => Usable(m, b)'
    BY <1>10
  <2>4. \A k \in DOMAIN Members[o] : Usable(Members[o][k], heap[a].pointers[k])'
    <3> TAKE k \in DOMAIN Members[o]
    <3>1. PICK b : b = Pointers(o)[k]
      OBVIOUS
    <3>2. Usable(Members[o][k], b)
      BY <1>5, <3>1
    <3>3. Usable(Members[o][k], b)'
      BY <2>2, <2>3, <3>2
    <3> QED
      BY <2>1, <3>1, <3>3 DEF Usable
  <2> QED
    BY <1>5, <2>1, <2>4 DEF PointersLive
<1>13. Primitive(o)[x].stored => /\ handle'[o] = a /\ heap'[a] # NULL /\ Usable(o, a)'
                                 /\ o \in Workers => "thread" \in heap'[a].parts
  BY <1>1, <1>2, <1>3, <1>4, <1>6, <1>7, <1>8 DEF Usable
<1>14. /\ \A m \in Objects : m # o => handle'[m] = handle[m]
       /\ ~Primitive(o)[x].stored => handle' = handle
  BY <1>2, <1>4
<1>15. \A b \in Addresses : heap'[b] # NULL /\ heap[b] = NULL =>
         /\ heap'[b].object = o /\ heap'[b].parts = Left(o, x) /\ PointersLive(b)'
  BY <1>7, <1>8, <1>11, <1>12
<1>16. Primitive(o)[x].stored => Usable(o, handle[o])'
  BY <1>13 DEF Usable
<1> QED
  BY <1>2, <1>8, <1>9, <1>10, <1>11, <1>13, <1>14, <1>15, <1>16

------------------------------------------------------------------------------
(***************************************************************************)
(* Every step keeps IInv.                                                  *)
(***************************************************************************)
\* A process goes on without allocating.
LEMMA WorkStep ==
  ASSUME IInv, NEW q \in Processes, FrameInv', work' \in [Processes -> Seq(Frame)],
         \A p \in Processes : p # q => work'[p] = work[p],
         \A i \in DOMAIN work'[q] : work'[q][i].object \in Reachable,
         UNCHANGED <<handle, heap, kept, collected, finalizing, pending>>,
         registry' \in SUBSET Entry
  PROVE  IInv' /\ Reachable' \subseteq Reachable
<1>1. \A p \in Processes : \A i \in DOMAIN work'[p] : work'[p][i].object \in Reachable
  BY FrameFacts DEF IInv
<1>2. Reachable' \subseteq Reachable
  BY <1>1, ReachableShrinks DEF IInv
<1>3. CollectInv' /\ MemoryInv'
  BY <1>2, MemoryKept
<1>4. TypeInv'
  BY DEF IInv, TypeInv
<1> QED
  BY <1>2, <1>3, <1>4 DEF IInv

\* Steps of the frames of a process that leave memory alone.
LEMMA ProcessStep ==
  ASSUME IInv, NEW p \in Processes,
         \/ \E o \in Calls \cup Callbacks : Begin(p, o)
         \/ Validate(p) \/ RegisterInQueue(p) \/ PerformWorkerCall(p) \/ Return(p)
  PROVE  IInv' /\ Reachable' \subseteq Reachable
<1>a. TypeInv /\ FrameInv
  BY DEF IInv
<1>b. work \in [Processes -> Seq(Frame)] /\ registry \in SUBSET Entry
  BY DEF IInv, TypeInv
<1>1. ASSUME NEW o \in Calls \cup Callbacks, Begin(p, o) PROVE IInv' /\ Reachable' \subseteq Reachable
  <2>1. /\ work' = [work EXCEPT ![p] = <<[object |-> o, done |-> 0]>>]
        /\ UNCHANGED <<handle, heap, kept, collected, finalizing, pending>> /\ registry' = registry
        /\ o \in kept /\ (o \in Callbacks => handle[o] = NULL /\ ~InFrames(o))
    BY <1>1 DEF Begin
  <2>2. o \in Users /\ (o \notin Calls => o \in Callbacks)
    BY DEF Users, Objects
  <2>3. /\ FrameInv' /\ work' \in [Processes -> Seq(Frame)]
        /\ \A i \in DOMAIN work'[p] : work'[p][i].object = o
    BY <1>a, <2>1, <2>2, BeginFrames
  <2>4. o \in Reachable
    BY <2>1 DEF Reachable, Roots
  <2> QED
    BY <1>b, <2>1, <2>3, <2>4, WorkStep
<1>2. CASE Validate(p)
  <2> DEFINE o == Top(p).object
             d == Top(p).done
             n == Len(Members[o])
             m == Members[o][d + 1]
  <2>1. /\ work[p] # <<>> /\ d < n
        /\ work' = [work EXCEPT ![p] = IF handle[m] # NULL THEN Advanced(p)
                                       ELSE <<[object |-> m, done |-> 0]>> \o Advanced(p)]
        /\ UNCHANGED <<handle, heap, kept, collected, finalizing, pending>> /\ registry' = registry
    BY <1>2 DEF Validate
  <2>2. /\ o \in Users /\ d \in Nat /\ n \in Nat /\ d <= n /\ d # n /\ d + 1 \in 1..n
        /\ o \in Reachable /\ Refs[o] \subseteq Reachable /\ 1 \in DOMAIN work[p] /\ Top(p) = work[p][1]
    <3>1. /\ o \in Users /\ d \in Nat /\ n \in Nat
          /\ o \in Reachable /\ Refs[o] \subseteq Reachable /\ 1 \in DOMAIN work[p] /\ Top(p) = work[p][1]
      BY <1>a, <2>1, TopFacts
    <3> QED
      BY <2>1, <3>1
  <2>3. o \in Callbacks => (handle'[o] # NULL <=> d = n)
    <3>1. FrameOK(p, 1)
      BY <1>a, <2>2 DEF FrameInv
    <3>2. o \in Callbacks => (handle[o] # NULL <=> d = n + 1)
      BY <2>2, <3>1 DEF FrameOK
    <3> QED
      BY <2>1, <2>2, <3>2
  <2>4. m \in Reachable
    BY <2>2, MemberFacts
  <2>5. CASE handle[m] # NULL
    <3>1. work' = [work EXCEPT ![p] = Advanced(p)]
      BY <2>1, <2>5
    <3>2. /\ FrameInv' /\ work' \in [Processes -> Seq(Frame)]
          /\ \A i \in DOMAIN work'[p] : i \in DOMAIN work[p] /\ work'[p][i].object = work[p][i].object
      BY <1>a, <2>1, <2>2, <2>3, <2>5, <3>1, AdvanceFrames
    <3>3. \A i \in DOMAIN work'[p] : work'[p][i].object \in Reachable
      BY <1>a, <3>2, FrameFacts
    <3> QED
      BY <1>b, <2>1, <3>1, <3>2, <3>3, WorkStep
  <2>6. CASE handle[m] = NULL
    <3>1. work' = [work EXCEPT ![p] = <<[object |-> m, done |-> 0]>> \o Advanced(p)]
      BY <2>1, <2>6
    <3>2. /\ FrameInv' /\ work' \in [Processes -> Seq(Frame)]
          /\ \A i \in DOMAIN work'[p] :
               \/ i = 1 /\ work'[p][i].object = m
               \/ i - 1 \in DOMAIN work[p] /\ work'[p][i].object = work[p][i - 1].object
      BY <1>a, <2>1, <3>1, PushFrames
    <3>3. \A i \in DOMAIN work'[p] : work'[p][i].object \in Reachable
      BY <1>a, <2>4, <3>2, FrameFacts
    <3> QED
      BY <1>b, <2>1, <3>1, <3>2, <3>3, WorkStep
  <2> QED
    BY <2>5, <2>6
<1>3. ASSUME work[p] # <<>>, Top(p).object \in Callbacks \cup Calls,
             work' = [work EXCEPT ![p] = Tail(work[p])],
             UNCHANGED <<handle, heap, kept, collected, finalizing, pending>>,
             registry' \in SUBSET Entry
      PROVE  IInv' /\ Reachable' \subseteq Reachable
  <2>1. Top(p).object \in Objects \ Callbacks => FALSE
    BY <1>3, Kinds
  <2>2. /\ FrameInv' /\ work' \in [Processes -> Seq(Frame)]
        /\ \A i \in DOMAIN work'[p] : i + 1 \in DOMAIN work[p] /\ work'[p][i] = work[p][i + 1]
    BY <1>a, <1>3, <2>1, TailFrames
  <2>3. \A i \in DOMAIN work'[p] : work'[p][i].object \in Reachable
    BY <1>a, <2>2, FrameFacts
  <2> QED
    BY <1>b, <1>3, <2>2, <2>3, WorkStep
<1>4. CASE RegisterInQueue(p)
  <2> DEFINE c == Top(p).object
             same == {e \in registry : handle[e.key] = handle[c]}
             keys == IF same = {} THEN {c} ELSE {e.key : e \in same}
  <2>1. /\ work[p] # <<>> /\ c \in Callbacks /\ work' = [work EXCEPT ![p] = Tail(work[p])]
        /\ UNCHANGED <<handle, heap, kept, collected, finalizing, pending>>
        /\ registry' = (registry \ same) \cup [key : keys, value : {c}]
    BY <1>4 DEF RegisterInQueue, Called
  <2>2. registry' \in SUBSET Entry
    <3>1. \A e \in registry : e.key \in Callbacks
      BY <1>b DEF Entry
    <3>2. keys \subseteq Callbacks
      BY <2>1, <3>1
    <3> HIDE DEF keys, same, c
    <3>3. [key : keys, value : {c}] \subseteq Entry
      BY <2>1, <3>2 DEF Entry
    <3> QED
      BY <1>b, <2>1, <3>3
  <2> QED
    BY <1>3, <2>1, <2>2
<1>5. CASE Return(p)
  BY <1>b, <1>3, <1>5 DEF Return, Called
<1>6. CASE PerformWorkerCall(p)
  <2> DEFINE o == Top(p).object
             d == Top(p).done
             n == Len(Members[o])
  <2>1. /\ work[p] # <<>> /\ d = n /\ o \in Calls
        /\ work' = [work EXCEPT ![p] = Advanced(p)]
        /\ UNCHANGED <<handle, heap, kept, collected, finalizing, pending>> /\ registry' = registry
    BY <1>6 DEF PerformWorkerCall, Ready, At
  <2>2. d \in Nat /\ n \in Nat /\ o \notin Callbacks
    <3>1. d \in Nat /\ n \in Nat
      BY <1>a, <2>1, TopFacts
    <3> QED
      BY <2>1, <3>1, Kinds DEF Objects
  <2>3. d <= n /\ ~(d < n)
    BY <2>1, <2>2
  <2>4. /\ FrameInv' /\ work' \in [Processes -> Seq(Frame)]
        /\ \A i \in DOMAIN work'[p] : i \in DOMAIN work[p] /\ work'[p][i].object = work[p][i].object
    BY <1>a, <2>1, <2>2, <2>3, AdvanceFrames
  <2>5. \A i \in DOMAIN work'[p] : work'[p][i].object \in Reachable
    BY <1>a, <2>4, FrameFacts
  <2> QED
    BY <1>b, <2>1, <2>4, <2>5, WorkStep
<1> QED
  BY <1>1, <1>2, <1>4, <1>5, <1>6

\* fillBasicType.
LEMMA FillStep ==
  ASSUME IInv, NEW p \in Processes, FillBasicType(p)
  PROVE  IInv' /\ Reachable' \subseteq Reachable
<1> DEFINE o == Top(p).object
<1>1. /\ work[p] # <<>> /\ o \in BasicTypes /\ handle' = [handle EXCEPT ![o] = StaticOf[o]]
      /\ work' = [work EXCEPT ![p] = Tail(work[p])]
      /\ UNCHANGED <<heap, kept, collected, finalizing, registry, pending>>
  BY DEF FillBasicType, SetHandler, Ready
<1>2. o \in Reachable /\ o \notin collected /\ o \in Objects /\ StaticOf[o] \in Pointer /\ StaticOf[o] # NULL
  <2>1. o \in Reachable
    BY <1>1, TopFacts DEF IInv
  <2>2. StaticOf[o] \in Pointer
    BY <1>1, HandlesAssumption DEF Pointer
  <2> QED
    BY <1>1, <2>1, <2>2, Kinds DEF IInv, CollectInv, Objects, Types
<1>3. TypeInv /\ FrameInv /\ handle \in [Objects -> Pointer \cup {NULL}] /\ work \in [Processes -> Seq(Frame)]
  BY DEF IInv, TypeInv
<1> HIDE DEF o
<1>4. /\ handle' \in [Objects -> Pointer \cup {NULL}] /\ handle'[o] = StaticOf[o]
      /\ \A m \in Objects : m # o => handle'[m] = handle[m]
  BY <1>1, <1>2, <1>3
<1>5. \A m \in Objects : handle[m] # NULL => handle'[m] # NULL
  BY <1>2, <1>4
<1>6. \A c \in Callbacks : handle'[c] = handle[c]
  BY <1>1, <1>4, Kinds DEF Objects
<1>7. /\ FrameInv' /\ work' \in [Processes -> Seq(Frame)]
      /\ \A i \in DOMAIN work'[p] : i + 1 \in DOMAIN work[p] /\ work'[p][i] = work[p][i + 1]
  BY <1>1, <1>2, <1>3, <1>4, <1>5, <1>6, TailFrames DEF o
<1>8. \A q \in Processes : \A i \in DOMAIN work'[q] : work'[q][i].object \in Reachable
  <2>1. \A q \in Processes : q # p => work'[q] = work[q]
    BY <1>1, <1>3
  <2>2. \A q \in Processes : \A i \in DOMAIN work[q] : work[q][i].object \in Reachable
    BY <1>3, FrameFacts
  <2> QED
    BY <1>7, <2>1, <2>2
<1>9. Reachable' \subseteq Reachable
  BY <1>1, <1>3, <1>8, ReachableShrinks
<1>10. TypeInv'
  BY <1>1, <1>3, <1>4, <1>7 DEF TypeInv
<1>11. \A m, a : Usable(m, a)' = Usable(m, a)
  BY <1>1 DEF Usable
<1>12. HandlesOwnMemory'
  <2> SUFFICES ASSUME NEW m \in Objects \ collected, handle'[m] # NULL PROVE Usable(m, handle'[m])
    BY <1>1, <1>11 DEF HandlesOwnMemory
  <2>1. CASE m = o
    BY <1>1, <1>4, <2>1 DEF Usable
  <2>2. CASE m # o
    BY <1>4, <2>2 DEF IInv, MemoryInv, HandlesOwnMemory
  <2> QED
    BY <2>1, <2>2
<1>13. ThreadInv'
  BY <1>1, <1>4, Kinds DEF IInv, MemoryInv, ThreadInv, Objects
<1>14. PointersInv'
  BY <1>1, <1>9, <1>11 DEF IInv, MemoryInv, PointersInv, PointersLive
<1>15. CollectInv'
  <2>1. finalizing # NULL => finalizing \in collected /\ handle'[finalizing] # NULL
    BY <1>2, <1>5 DEF IInv, CollectInv, TypeInv
  <2>2. \A m \in collected : handle'[m] # NULL => m = finalizing
    BY <1>2, <1>3, <1>4 DEF IInv, CollectInv, TypeInv
  <2> QED
    BY <1>1, <1>9, <2>1, <2>2 DEF IInv, CollectInv
<1> QED
  BY <1>7, <1>9, <1>10, <1>12, <1>13, <1>14, <1>15 DEF IInv, MemoryInv

\* The frames after a primitive.
LEMMA InitializeFrames ==
  ASSUME IInv, OwnFailures, NEW p \in Processes, NEW x, Initialize(p, x)
  PROVE  /\ FrameInv' /\ work' \in [Processes -> Seq(Frame)]
         /\ \A q \in Processes : \A i \in DOMAIN work'[q] : work'[q][i].object \in Reachable
<1> DEFINE o == Top(p).object
           n == Len(Members[o])
           row == Primitive(o)[x]
<1>1. /\ work[p] # <<>> /\ o \in Objects \ BasicTypes /\ o \in Users /\ Top(p).done = n /\ x \in Exits(o)
      /\ row.then = "again" => work' = [work EXCEPT ![p] = work[p]]
      /\ row.then = "fail" => work' = [work EXCEPT ![p] = <<>>]
      /\ row.then = "done" /\ o \in Callbacks => work' = [work EXCEPT ![p] = Advanced(p)]
      /\ row.then = "done" /\ o \notin Callbacks => work' = [work EXCEPT ![p] = Tail(work[p])]
  BY InitializeFacts
<1>2. /\ \A m \in Objects : m # o => handle'[m] = handle[m]
      /\ ~row.stored => handle' = handle
      /\ row.stored => handle'[o] \in Addresses
  BY Allocation
<1>3. /\ row.then \in {"done", "fail", "again"} /\ row.stored \in BOOLEAN
      /\ row.stored => row.then = "done"
      /\ row.then = "done" => row.stored \/ (o \in Workers /\ "noThread" \in Failures)
  BY <1>1, RowFacts
<1>4. TypeInv /\ FrameInv /\ work \in [Processes -> Seq(Frame)] /\ n \in Nat
  BY <1>1, MemberFacts DEF IInv, TypeInv
<1>5. \A q \in Processes : \A i \in DOMAIN work[q] : work[q][i].object \in Reachable
  BY <1>4, FrameFacts
<1>6. \A m \in Objects : handle[m] # NULL => handle'[m] # NULL
  <2>1. row.stored => handle'[o] # NULL
    BY <1>2, Kinds DEF Pointer
  <2> QED
    BY <1>2, <1>3, <2>1
<1>7. \A c \in Callbacks : c # o => handle'[c] = handle[c]
  BY <1>2 DEF Objects
<1>8. CASE row.then = "again"
  <2>1. work' = work /\ handle' = handle
    <3>1. handle' = handle
      BY <1>2, <1>3, <1>8
    <3>2. work' = [work EXCEPT ![p] = work[p]]
      BY <1>1, <1>8
    <3> QED
      BY <1>4, <3>1, <3>2
  <2>2. FrameInv'
    BY <1>4, <2>1, FrameKept
  <2> QED
    BY <1>4, <1>5, <2>1, <2>2
<1>9. CASE row.then = "fail"
  <2>1. work' = [work EXCEPT ![p] = <<>>] /\ handle' = handle
    <3>1. handle' = handle
      BY <1>2, <1>3, <1>9
    <3>2. work' = [work EXCEPT ![p] = <<>>]
      BY <1>1, <1>9
    <3> QED
      BY <3>1, <3>2
  <2>2. FrameInv' /\ work' \in [Processes -> Seq(Frame)] /\ work'[p] = <<>>
    BY <1>4, <2>1, EmptyFrames
  <2>3. DOMAIN work'[p] = {} /\ \A q \in Processes : q # p => work'[q] = work[q]
    BY <1>4, <2>1, <2>2
  <2> QED
    BY <1>5, <2>2, <2>3
<1>10. CASE row.then = "done" /\ o \in Callbacks
  <2>1. work' = [work EXCEPT ![p] = Advanced(p)] /\ row.stored
    BY <1>1, <1>3, <1>10, Kinds
  <2>2. handle'[o] # NULL
    BY <1>2, <2>1, Kinds DEF Pointer
  <2>3. n <= n /\ ~(n < n)
    BY <1>4
  <2>4. /\ FrameInv' /\ work' \in [Processes -> Seq(Frame)]
        /\ \A i \in DOMAIN work'[p] : i \in DOMAIN work[p] /\ work'[p][i].object = work[p][i].object
    <3>1. /\ p \in Processes /\ TypeInv /\ FrameInv /\ work[p] # <<>>
          /\ o = Top(p).object /\ n = Len(Members[o]) /\ n = Top(p).done
          /\ o \in Callbacks \cup Calls
      BY <1>1, <1>4, <1>10
    <3> QED
      BY <1>1, <1>4, <1>6, <1>7, <1>10, <2>1, <2>2, <2>3, <3>1, AdvanceFrames
  <2>5. \A q \in Processes : q # p => work'[q] = work[q]
    BY <1>4, <2>1
  <2> QED
    BY <1>5, <2>4, <2>5
<1>11. CASE row.then = "done" /\ o \notin Callbacks
  <2>1. work' = [work EXCEPT ![p] = Tail(work[p])]
    BY <1>1, <1>11
  <2>2. handle'[o] # NULL \/ (o \in Workers /\ "noThread" \in Failures)
    BY <1>2, <1>3, <1>11, Kinds DEF Pointer
  <2>3. \A c \in Callbacks : handle'[c] = handle[c]
    BY <1>7, <1>11
  <2>4. /\ FrameInv' /\ work' \in [Processes -> Seq(Frame)]
        /\ \A i \in DOMAIN work'[p] : i + 1 \in DOMAIN work[p] /\ work'[p][i] = work[p][i + 1]
    BY <1>1, <1>4, <1>6, <2>1, <2>2, <2>3, TailFrames
  <2>5. \A q \in Processes : q # p => work'[q] = work[q]
    BY <1>4, <2>1
  <2> QED
    BY <1>5, <2>4, <2>5
<1> QED
  BY <1>3, <1>8, <1>9, <1>10, <1>11

\* A primitive that allocates.
LEMMA InitializeStep ==
  ASSUME IInv, OwnFailures, NEW p \in Processes, NEW x, Initialize(p, x)
  PROVE  IInv' /\ Reachable' \subseteq Reachable
<1>1. PICK o : o = Top(p).object
  OBVIOUS
<1>2. /\ o \in Objects \ BasicTypes /\ o \notin collected /\ o \in Reachable
      /\ UNCHANGED <<kept, collected, finalizing, registry, pending>>
  BY <1>1, InitializeFacts DEF Initialize
<1>3. /\ heap' \in [Addresses -> Group \cup {NULL}]
      /\ \A b \in Addresses : heap[b] # NULL => heap'[b] = heap[b]
      /\ \A m \in Objects : \A b : Usable(m, b) => Usable(m, b)'
      /\ \A b \in Addresses : heap'[b] # NULL /\ heap[b] = NULL => PointersLive(b)'
      /\ \A m \in Objects : m # o => handle'[m] = handle[m]
  BY <1>1, Allocation
<1>4. \/ handle' = handle
      \/ /\ handle'[o] \in Addresses /\ Usable(o, handle[o])'
         /\ o \in Workers => "thread" \in heap'[handle'[o]].parts
  BY <1>1, Allocation
<1>5. /\ FrameInv' /\ work' \in [Processes -> Seq(Frame)]
      /\ \A q \in Processes : \A i \in DOMAIN work'[q] : work'[q][i].object \in Reachable
  BY InitializeFrames
<1>6. Reachable' \subseteq Reachable
  BY <1>2, <1>5, ReachableShrinks DEF IInv
<1>7. /\ handle \in [Objects -> Pointer \cup {NULL}]
      /\ \A m \in Objects \ BasicTypes : handle[m] \in Addresses \cup {NULL}
  BY DEF IInv, TypeInv
<1>8. \A m \in Objects : handle'[m] = handle[m] \/ (m = o /\ handle'[m] \in Addresses)
  BY <1>3, <1>4
<1>9. TypeInv'
  <2>1. \E a \in Addresses : handle' = handle \/ handle' = [handle EXCEPT ![o] = a]
    BY <1>1, InitializeFacts
  <2>2. handle' \in [Objects -> Pointer \cup {NULL}]
    BY <1>2, <1>7, <2>1 DEF Pointer
  <2>3. \A m \in Objects \ BasicTypes : handle'[m] \in Addresses \cup {NULL}
    BY <1>7, <1>8
  <2> QED
    BY <1>2, <1>3, <1>5, <2>2, <2>3 DEF IInv, TypeInv
<1>10. HandlesOwnMemory'
  <2> SUFFICES ASSUME NEW m \in Objects \ collected, handle'[m] # NULL PROVE Usable(m, handle[m])'
    BY <1>2 DEF HandlesOwnMemory
  <2>1. CASE handle'[m] = handle[m]
    <3>1. Usable(m, handle[m])
      BY <2>1 DEF IInv, MemoryInv, HandlesOwnMemory
    <3>2. PICK b : b = handle[m]
      OBVIOUS
    <3>3. Usable(m, b)'
      BY <1>3, <3>1, <3>2
    <3> QED
      BY <2>1, <3>2, <3>3 DEF Usable
  <2>2. CASE handle'[m] # handle[m]
    BY <1>3, <1>4, <2>2
  <2> QED
    BY <2>1, <2>2
<1>11. ThreadInv'
  <2> SUFFICES ASSUME NEW w \in Workers, w \notin collected, handle'[w] # NULL
               PROVE  "thread" \in heap'[handle'[w]].parts
    BY <1>2 DEF ThreadInv
  <2>1. w \in Objects /\ w \notin BasicTypes
    BY Kinds DEF Objects
  <2>2. CASE handle'[w] = handle[w]
    <3>1. "thread" \in heap[handle[w]].parts /\ Usable(w, handle[w])
      BY <2>1, <2>2 DEF IInv, MemoryInv, ThreadInv, HandlesOwnMemory
    <3>2. heap'[handle[w]] = heap[handle[w]]
      BY <1>3, <2>1, <3>1 DEF Usable
    <3> QED
      BY <2>2, <3>1, <3>2
  <2>3. CASE handle'[w] # handle[w]
    BY <1>3, <1>4, <2>1, <2>3
  <2> QED
    BY <2>2, <2>3
<1>12. PointersInv'
  <2> SUFFICES ASSUME NEW b \in Addresses, heap'[b] # NULL, heap'[b].object \in Reachable
               PROVE  PointersLive(b)'
    BY <1>6 DEF PointersInv
  <2>1. CASE heap[b] = NULL
    BY <1>3, <2>1
  <2>2. CASE heap[b] # NULL
    <3>1. heap'[b] = heap[b] /\ PointersLive(b) /\ heap[b].object \in Reachable
      BY <1>3, <2>2 DEF IInv, MemoryInv, PointersInv
    <3>2. PICK u \in Users : u = heap[b].object
      BY <3>1, ReachableRefs DEF IInv
    <3>3. \A i \in DOMAIN Members[u] : Members[u][i] \in Objects
      BY MemberFacts
    <3>4. \A i \in DOMAIN Members[u] : Usable(Members[u][i], heap[b].pointers[i])
      BY <3>1, <3>2 DEF PointersLive
    <3>5. PICK ps : ps = heap[b].pointers
      OBVIOUS
    <3>6. \A i \in DOMAIN Members[u] : Usable(Members[u][i], ps[i])'
      BY <1>3, <3>3, <3>4, <3>5
    <3>7. /\ heap'[b].object = u /\ heap'[b].pointers = ps
          /\ DOMAIN ps = DOMAIN Members[u]
      BY <3>1, <3>2, <3>5 DEF PointersLive
    <3>8. \A i \in DOMAIN Members[u] : Usable(Members[u][i], heap[b].pointers[i])'
      BY <3>6, <3>7 DEF Usable
    <3> QED
      BY <3>7, <3>8 DEF PointersLive
  <2> QED
    BY <2>1, <2>2
<1>13. CollectInv'
  <2>1. \A m \in collected : handle'[m] = handle[m]
    BY <1>2, <1>3 DEF IInv, TypeInv
  <2> QED
    BY <1>2, <1>6, <2>1 DEF IInv, CollectInv
<1> QED
  BY <1>5, <1>6, <1>9, <1>10, <1>11, <1>12, <1>13 DEF IInv, MemoryInv


\* Steps of the application, of C and of the worker, which change neither memory
\* nor frames.
LEMMA OutsideStep ==
  ASSUME IInv, UNCHANGED <<handle, heap, collected, finalizing, work, registry>>,
         kept' \subseteq kept, pending' \in SUBSET [callback : Callbacks, address : Addresses]
  PROVE  IInv' /\ Reachable' \subseteq Reachable
<1>1. \A p \in Processes : \A i \in DOMAIN work'[p] : work'[p][i].object \in Reachable
  BY FrameFacts DEF IInv
<1>2. Reachable' \subseteq Reachable
  BY <1>1, ReachableShrinks DEF IInv
<1>3. CollectInv' /\ MemoryInv'
  BY <1>2, MemoryKept
<1>4. FrameInv'
  BY FrameKept DEF IInv
<1>5. TypeInv'
  BY DEF IInv, TypeInv
<1> QED
  BY <1>2, <1>3, <1>4, <1>5 DEF IInv

\* Reachable objects keep their handles when one that is out of reach is released.
LEMMA FinalizeStep ==
  ASSUME IInv, NEW o, Finalize(o)
  PROVE  IInv' /\ Reachable' = Reachable
<1>1. /\ o \in Objects \ BasicTypes /\ o \notin Callbacks /\ o \notin collected /\ o \notin Reachable
      /\ heap' = IF handle[o] = NULL THEN heap ELSE Freed(o, handle[o])
      /\ collected' = collected \cup {o} /\ handle' = [handle EXCEPT ![o] = NULL]
      /\ UNCHANGED <<kept, finalizing, work, registry, pending>>
  BY Kinds DEF Finalize, SetHandler, Objects, Types
<1>2. /\ handle \in [Objects -> Pointer \cup {NULL}]
      /\ \A m \in Objects \ BasicTypes : handle[m] \in Addresses \cup {NULL}
  BY DEF IInv, TypeInv
<1>3. /\ handle' \in [Objects -> Pointer \cup {NULL}] /\ handle'[o] = NULL
      /\ \A m \in Objects : m # o => handle'[m] = handle[m]
  BY <1>1, <1>2
<1>4. Reachable' = Reachable
  BY <1>1, ReachableSame
<1>5. FrameInv'
  BY <1>1, <1>3, FrameKept DEF IInv
<1>6. MemoryInv' /\ collected' \cap Reachable' = {}
  BY <1>1, <1>3, MemoryReleased
<1>7. heap' \in [Addresses -> Group \cup {NULL}]
  BY <1>1, OthersKept
<1>8. TypeInv'
  <2>1. \A m \in Objects \ BasicTypes : handle'[m] \in Addresses \cup {NULL}
    BY <1>2, <1>3
  <2>2. collected' \in SUBSET Objects
    BY <1>1 DEF IInv, TypeInv
  <2> QED
    BY <1>1, <1>3, <1>7, <2>1, <2>2 DEF IInv, TypeInv
<1>9. CollectInv'
  <2>1. \A m \in collected' : handle'[m] # NULL => m = finalizing
    BY <1>1, <1>3 DEF IInv, CollectInv, TypeInv
  <2>2. finalizing # NULL => finalizing \in collected /\ handle'[finalizing] # NULL
    BY <1>1, <1>3 DEF IInv, CollectInv, TypeInv
  <2> QED
    BY <1>1, <1>6, <2>1, <2>2 DEF CollectInv
<1> QED
  BY <1>4, <1>5, <1>6, <1>8, <1>9 DEF IInv

\* The memory of a callback is released; its handle dangles until BeNull.
LEMMA UnregisterStep ==
  ASSUME IInv, NEW c, UnregisterCallback(c)
  PROVE  IInv' /\ Reachable' = Reachable
<1>1. /\ c \in Objects \ BasicTypes /\ c \in Callbacks /\ c \notin collected /\ c \notin Reachable
      /\ heap' = IF handle[c] = NULL THEN heap ELSE Freed(c, handle[c])
      /\ collected' = collected \cup {c} /\ finalizing = NULL
      /\ finalizing' = IF handle[c] = NULL THEN NULL ELSE c
      /\ UNCHANGED <<handle, kept, work, registry, pending>>
  BY Kinds DEF UnregisterCallback, Objects
<1>2. Reachable' = Reachable
  BY <1>1, ReachableSame
<1>3. FrameInv'
  BY <1>1, FrameKept DEF IInv
<1>4. MemoryInv' /\ collected' \cap Reachable' = {}
  BY <1>1, MemoryReleased
<1>5. heap' \in [Addresses -> Group \cup {NULL}]
  BY <1>1, OthersKept
<1>6. TypeInv'
  <2>1. finalizing' \in Callbacks \cup {NULL} /\ collected' \in SUBSET Objects
    BY <1>1 DEF IInv, TypeInv
  <2> QED
    BY <1>1, <1>5, <2>1 DEF IInv, TypeInv
<1>7. CollectInv'
  <2>1. c # NULL
    BY <1>1, Kinds DEF Users
  <2>2. \A m \in collected' : handle'[m] # NULL => m = finalizing'
    <3>1. \A m \in collected : m # NULL
      BY Kinds DEF IInv, TypeInv, Users
    <3> QED
      BY <1>1, <3>1 DEF IInv, CollectInv
  <2>3. finalizing' # NULL => finalizing' \in collected' /\ handle'[finalizing'] # NULL
    BY <1>1
  <2> QED
    BY <1>4, <2>2, <2>3 DEF CollectInv
<1> QED
  BY <1>2, <1>3, <1>4, <1>6, <1>7 DEF IInv

\* The end of a callback's finalizer empties the handle of a collected callback.
LEMMA BeNullStep ==
  ASSUME IInv, BeNull
  PROVE  IInv' /\ Reachable' = Reachable
<1>1. PICK c : c = finalizing
  OBVIOUS
<1>2. /\ c # NULL /\ handle' = [handle EXCEPT ![c] = NULL] /\ finalizing' = NULL
      /\ UNCHANGED <<heap, kept, collected, work, registry, pending>>
  BY <1>1 DEF BeNull, SetHandler
<1>3. c \in Callbacks /\ c \in Objects /\ c \in collected /\ c \notin Reachable
  BY <1>1, <1>2 DEF IInv, CollectInv, TypeInv, Objects
<1>4. /\ handle \in [Objects -> Pointer \cup {NULL}]
      /\ \A m \in Objects \ BasicTypes : handle[m] \in Addresses \cup {NULL}
  BY DEF IInv, TypeInv
<1>5. /\ handle' \in [Objects -> Pointer \cup {NULL}] /\ handle'[c] = NULL
      /\ \A m \in Objects : m # c => handle'[m] = handle[m]
  BY <1>2, <1>3, <1>4
<1>6. Reachable' = Reachable
  BY <1>2, ReachableSame
<1>7. FrameInv'
  BY <1>2, <1>3, <1>5, FrameKept DEF IInv
<1>8. TypeInv'
  <2>1. \A m \in Objects \ BasicTypes : handle'[m] \in Addresses \cup {NULL}
    BY <1>4, <1>5
  <2> QED
    BY <1>2, <1>5, <2>1 DEF IInv, TypeInv
<1>9. \A o, a : Usable(o, a)' = Usable(o, a)
  BY <1>2 DEF Usable
<1>10. HandlesOwnMemory'
  <2> SUFFICES ASSUME NEW m \in Objects \ collected, handle'[m] # NULL PROVE Usable(m, handle'[m])
    BY <1>2, <1>9 DEF HandlesOwnMemory
  <2> QED
    BY <1>3, <1>5 DEF IInv, MemoryInv, HandlesOwnMemory
<1>11. ThreadInv'
  BY <1>2, <1>3, <1>5 DEF IInv, MemoryInv, ThreadInv, Objects
<1>12. PointersInv'
  BY <1>2, <1>6, <1>9 DEF IInv, MemoryInv, PointersInv, PointersLive
<1>13. CollectInv'
  <2>1. \A m \in collected : handle'[m] = NULL
    BY <1>1, <1>3, <1>5 DEF IInv, CollectInv, TypeInv
  <2> QED
    BY <1>2, <1>6, <2>1 DEF IInv, CollectInv
<1> QED
  BY <1>6, <1>7, <1>8, <1>10, <1>11, <1>12, <1>13 DEF IInv, MemoryInv

\* A started image has no handles and no memory.
LEMMA RestartStep ==
  ASSUME IInv, Restart
  PROVE  IInv' /\ Reachable' = Reachable
<1>1. /\ finalizing = NULL /\ \A p \in Processes : work[p] = <<>>
      /\ handle' = [o \in Objects |-> NULL] /\ heap' = [a \in Addresses |-> NULL]
      /\ registry' = {} /\ pending' = {}
      /\ UNCHANGED <<kept, collected, finalizing, work>>
  BY DEF Restart
<1>2. Reachable' = Reachable
  BY <1>1, ReachableSame
<1>3. \A o \in Objects : handle'[o] = NULL
  BY <1>1
<1>4. \A a \in Addresses : heap'[a] = NULL
  BY <1>1
<1>5. FrameInv'
  BY <1>1 DEF FrameInv, OneRegistration
<1>6. TypeInv'
  BY <1>1 DEF IInv, TypeInv
<1>7. CollectInv'
  BY <1>1, <1>2, <1>3 DEF IInv, CollectInv, TypeInv
<1>8. HandlesOwnMemory' /\ PointersInv'
  BY <1>3, <1>4 DEF HandlesOwnMemory, PointersInv
<1>9. ThreadInv'
  BY <1>3 DEF ThreadInv, Objects
<1> QED
  BY <1>2, <1>5, <1>6, <1>7, <1>8, <1>9 DEF IInv, MemoryInv

\* Init has no handles, no memory and no frames.
LEMMA InitIInv ==
  ASSUME Init
  PROVE  IInv
<1>1. FrameInv
  BY DEF Init, FrameInv, OneRegistration
<1>2. TypeInv
  BY DEF Init, TypeInv, Users, Objects
<1>3. CollectInv
  BY DEF Init, CollectInv
<1>4. HandlesOwnMemory /\ PointersInv
  BY DEF Init, HandlesOwnMemory, PointersInv
<1>5. ThreadInv
  BY DEF Init, ThreadInv, Objects
<1> QED
  BY <1>1, <1>2, <1>3, <1>4, <1>5 DEF IInv, MemoryInv

\* Each step keeps IInv, and makes nothing reachable that was not.
LEMMA NextStep ==
  ASSUME IInv, OwnFailures, [Next]_vars
  PROVE  IInv' /\ Reachable' \subseteq Reachable
<1>1. ASSUME NEW p \in Processes, Step(p) PROVE IInv' /\ Reachable' \subseteq Reachable
  BY <1>1, ProcessStep, FillStep, InitializeStep DEF Step
<1>2. ASSUME NEW p \in Processes, NEW o \in Calls \cup Callbacks, Begin(p, o)
      PROVE  IInv' /\ Reachable' \subseteq Reachable
  BY <1>2, ProcessStep
<1>3. ASSUME NEW t \in tasks, ExecuteWorkerTask(t) PROVE IInv' /\ Reachable' \subseteq Reachable
  BY <1>3, OutsideStep DEF ExecuteWorkerTask, IInv, TypeInv
<1>4. ASSUME NEW o \in Users, Drop(o) PROVE IInv' /\ Reachable' \subseteq Reachable
  BY <1>4, OutsideStep DEF Drop, IInv, TypeInv
<1>5. ASSUME NEW o \in Users, Finalize(o) PROVE IInv' /\ Reachable' \subseteq Reachable
  BY <1>5, FinalizeStep
<1>6. ASSUME NEW c \in Callbacks, UnregisterCallback(c) PROVE IInv' /\ Reachable' \subseteq Reachable
  BY <1>6, UnregisterStep
<1>7. ASSUME NEW c \in Callbacks, Invoke(c) PROVE IInv' /\ Reachable' \subseteq Reachable
  <2>1. handle[c] \in Addresses
    <3>1. c \in Objects \ BasicTypes
      BY Kinds DEF Objects
    <3> QED
      BY <1>7, <3>1 DEF Invoke, IInv, TypeInv
  <2>2. pending' \in SUBSET [callback : Callbacks, address : Addresses]
    BY <1>7, <2>1 DEF Invoke, IInv, TypeInv
  <2> QED
    BY <1>7, <2>2, OutsideStep DEF Invoke
<1>8. CASE BeNull
  BY <1>8, BeNullStep
<1>9. ASSUME NEW i \in pending, ExecuteCallback(i) PROVE IInv' /\ Reachable' \subseteq Reachable
  BY <1>9, OutsideStep DEF ExecuteCallback, IInv, TypeInv
<1>10. CASE Restart
  BY <1>10, RestartStep
<1>11. CASE UNCHANGED vars
  BY <1>11, OutsideStep DEF vars, IInv, TypeInv
<1> QED
  BY <1>1, <1>2, <1>3, <1>4, <1>5, <1>6, <1>7, <1>8, <1>9, <1>10, <1>11 DEF Next

\* IInv holds in every reachable state.
THEOREM HandlesInvariance ==
  ASSUME OwnFailures
  PROVE  Spec => []IInv
<1>1. Init => IInv
  BY InitIInv
<1>2. IInv /\ [Next]_vars => IInv'
  BY NextStep
<1> QED
  BY <1>1, <1>2, PTL DEF Spec

\* A handle that is not null is that of live memory made for its object, which is
\* freed once: however processes interleave the test of a handle in validate with
\* the primitive that fills it.
THEOREM MemoryIsOwned ==
  ASSUME OwnFailures
  PROVE  Spec => []HandlesOwnMemory
<1>1. IInv => HandlesOwnMemory
  BY DEF IInv, MemoryInv
<1> QED
  BY <1>1, HandlesInvariance, PTL

\* The types and the worker that the memory of a reachable object points to are
\* not freed before it, whatever is dropped and finalized.
THEOREM TypesOutlive ==
  ASSUME OwnFailures
  PROVE  Spec => []TypesOutliveUsers
<1>1. IInv => TypesOutliveUsers
  <2> SUFFICES ASSUME IInv, NEW o \in (Reachable \ BasicTypes) \cap Objects, handle[o] # NULL,
                      NEW i \in DOMAIN heap[handle[o]].pointers
               PROVE  Usable(Members[o][i], heap[handle[o]].pointers[i])
    BY DEF TypesOutliveUsers
  <2>1. handle[o] \in Addresses /\ heap[handle[o]] # NULL /\ heap[handle[o]].object = o
    BY ReachableOwns DEF Usable
  <2>2. PointersLive(handle[o])
    BY <2>1 DEF IInv, MemoryInv, PointersInv
  <2> QED
    BY <2>1, <2>2 DEF PointersLive
<1> QED
  BY <1>1, HandlesInvariance, PTL

------------------------------------------------------------------------------
(***************************************************************************)
(* Callouts of workers.                                                    *)
(***************************************************************************)
\* No step changes memory made for an object that is in reach, but a start of the
\* image.
LEMMA ReachableMemory ==
  ASSUME IInv, OwnFailures, [Next]_vars, ~Restart
  PROVE  \A a \in Addresses : heap[a] # NULL /\ heap[a].object \in Reachable => heap'[a] = heap[a]
<1>1. CASE heap' = heap
  BY <1>1
<1>2. ASSUME NEW p \in Processes, NEW x, Initialize(p, x)
      PROVE  \A a \in Addresses : heap[a] # NULL => heap'[a] = heap[a]
  BY <1>2, Allocation
<1>3. ASSUME NEW o \in Objects \ BasicTypes, o \notin collected, o \notin Reachable,
             heap' = IF handle[o] = NULL THEN heap ELSE Freed(o, handle[o])
      PROVE  \A a \in Addresses : heap[a] # NULL /\ heap[a].object \in Reachable => heap'[a] = heap[a]
  BY <1>3, OthersKept
<1>4. ASSUME NEW o, Finalize(o)
      PROVE  \A a \in Addresses : heap[a] # NULL /\ heap[a].object \in Reachable => heap'[a] = heap[a]
  BY <1>3, <1>4, Kinds DEF Finalize, Objects, Types
<1>5. ASSUME NEW c, UnregisterCallback(c)
      PROVE  \A a \in Addresses : heap[a] # NULL /\ heap[a].object \in Reachable => heap'[a] = heap[a]
  BY <1>3, <1>5, Kinds DEF UnregisterCallback, Objects
<1>6. \/ heap' = heap \/ (\E p \in Processes : \E x : Initialize(p, x))
      \/ (\E o : Finalize(o)) \/ (\E c : UnregisterCallback(c))
  BY DEF Next, Step, vars, Validate, FillBasicType, RegisterInQueue, PerformWorkerCall, Return,
         Begin, ExecuteWorkerTask, Drop, Invoke, BeNull, ExecuteCallback
<1> QED
  BY <1>1, <1>2, <1>4, <1>5, <1>6

\* The tasks that are left keep their memory.
LEMMA TaskKept ==
  ASSUME IInv, OwnFailures, [Next]_vars, TaskInv, tasks' \subseteq tasks,
         \A t \in tasks' : work'[t.process] = work[t.process]
  PROVE  TaskInv'
<1> SUFFICES ASSUME NEW t \in tasks'
             PROVE  /\ t \in [process : Processes, call : Calls, worker : Addresses, cif : Addresses]
                    /\ work'[t.process] # <<>> /\ Top(t.process)'.object = t.call
                    /\ Top(t.process)'.done = Len(Members[t.call]) + 1
                    /\ Usable(Members[t.call][1], t.worker)' /\ "thread" \in heap'[t.worker].parts
                    /\ Usable(Members[t.call][2], t.cif)'
  BY DEF TaskInv
<1>1. /\ t \in [process : Processes, call : Calls, worker : Addresses, cif : Addresses]
      /\ work[t.process] # <<>> /\ Top(t.process).object = t.call
      /\ Top(t.process).done = Len(Members[t.call]) + 1
      /\ Usable(Members[t.call][1], t.worker) /\ "thread" \in heap[t.worker].parts
      /\ Usable(Members[t.call][2], t.cif) /\ work'[t.process] = work[t.process]
  BY DEF TaskInv
<1>2. t.process \in Processes /\ t.call \in Calls /\ t.worker \in Addresses /\ t.cif \in Addresses
  BY <1>1
<1>3. ~Restart
  BY <1>1, <1>2 DEF Restart
<1>4. /\ Members[t.call][1] \in Workers /\ Members[t.call][2] \in Definitions
      /\ Members[t.call][1] \in Objects /\ Members[t.call][2] \in Objects
      /\ Members[t.call][1] \notin BasicTypes /\ Members[t.call][2] \notin BasicTypes
      /\ Members[t.call][1] \in Refs[t.call] /\ Members[t.call][2] \in Refs[t.call]
  <2>1. Len(Members[t.call]) = 2 /\ t.call \in Users
    BY <1>2, CallFacts
  <2>2. 1 \in 1..Len(Members[t.call]) /\ 2 \in 1..Len(Members[t.call])
    BY <2>1
  <2>3. Members[t.call][1] \in Refs[t.call] /\ Members[t.call][2] \in Refs[t.call]
    BY <2>1, <2>2, MemberFacts
  <2> QED
    BY <1>2, <2>3, CallFacts, Kinds
<1>5. Refs[t.call] \subseteq Reachable
  BY <1>1, <1>2, TopFacts DEF IInv
<1>6. heap'[t.worker] = heap[t.worker] /\ heap'[t.cif] = heap[t.cif]
  BY <1>1, <1>2, <1>3, <1>4, <1>5, ReachableMemory DEF Usable
<1>7. Usable(Members[t.call][1], t.worker)' /\ Usable(Members[t.call][2], t.cif)'
  BY <1>1, <1>4, <1>6, UsableKept
<1> QED
  BY <1>1, <1>6, <1>7 DEF Top

\* A callout is queued with the memory of the worker and of the definition.
LEMMA QueueTask ==
  ASSUME IInv, OwnFailures, ThreadsStart, TaskInv, NEW p \in Processes, PerformWorkerCall(p)
  PROVE  TaskInv'
<1>a. Top(p).object \in Calls /\ Top(p).done = Len(Members[Top(p).object])
  BY DEF PerformWorkerCall, Ready, At
<1>b. Top(p).done # Len(Members[Top(p).object]) + 1
  <2>1. Len(Members[Top(p).object]) = 2
    BY <1>a, CallFacts
  <2> QED
    BY <1>a, <2>1
<1>c. \A u \in tasks : u.process # p
  <2>1. \A u \in tasks : Top(u.process).object = u.call /\ Top(u.process).done = Len(Members[u.call]) + 1
    BY DEF TaskInv
  <2> QED
    BY <1>b, <2>1
<1> DEFINE k == Top(p).object
           w == Members[k][1]
           d == Members[k][2]
           t == [process |-> p, call |-> k, worker |-> handle[w], cif |-> handle[d]]
<1>1. /\ work[p] # <<>> /\ k \in Calls /\ Top(p).done = Len(Members[k])
      /\ tasks' = tasks \cup {t} /\ work' = [work EXCEPT ![p] = Advanced(p)] /\ heap' = heap
  BY DEF PerformWorkerCall, Ready, At
<1>2. /\ Len(Members[k]) = 2 /\ w \in Workers /\ d \in Definitions
      /\ k \in Users /\ w \in Objects /\ d \in Objects /\ w \notin BasicTypes /\ d \notin BasicTypes
      /\ d \notin Workers /\ 1 \in 1..Len(Members[k]) /\ 2 \in 1..Len(Members[k])
  <2>1. /\ Len(Members[k]) = 2 /\ w \in Workers /\ d \in Definitions
        /\ k \in Users /\ w \in Objects /\ d \in Objects
    BY <1>1, CallFacts
  <2> QED
    BY <2>1, Kinds
<1>3. w \in Reachable /\ d \in Reachable /\ FrameOK(p, 1) /\ Top(p) = work[p][1]
  <2>1. Refs[k] \subseteq Reachable /\ 1 \in DOMAIN work[p] /\ Top(p) = work[p][1]
    BY <1>1, TopFacts DEF IInv
  <2>2. w \in Refs[k] /\ d \in Refs[k]
    BY <1>2, MemberFacts
  <2> QED
    BY <2>1, <2>2 DEF IInv, FrameInv
<1>4. handle[w] # NULL /\ handle[d] # NULL
  <2>1. \A j \in 1..Len(Members[k]) : j < Top(p).done \/ j = Top(p).done => Made(Members[k][j])
    BY <1>3 DEF FrameOK
  <2>2. 1 < Top(p).done /\ 2 = Top(p).done
    BY <1>1, <1>2
  <2>3. Made(w) /\ Made(d)
    BY <1>2, <2>1, <2>2
  <2> QED
    BY <1>2, <2>3 DEF Made, ThreadsStart
<1>5. Usable(w, handle[w]) /\ Usable(d, handle[d]) /\ w \notin collected
  BY <1>2, <1>3, <1>4, ReachableOwns
<1>6. "thread" \in heap[handle[w]].parts
  <2>1. ThreadInv
    BY Zenon DEF IInv, MemoryInv
  <2> QED
    BY ONLY <1>2, <1>4, <1>5, <2>1 DEF ThreadInv
<1>7. handle[w] \in Addresses /\ handle[d] \in Addresses
  BY <1>2, <1>5 DEF Usable
<1>8. work \in [Processes -> Seq(Frame)]
  BY DEF IInv, TypeInv
<1>9. /\ work'[p] # <<>> /\ work'[p][1].object = k /\ work'[p][1].done = Len(Members[k]) + 1
  <2>1. /\ Advanced(p) \in Seq(Frame) /\ Len(Advanced(p)) = Len(work[p])
        /\ Advanced(p)[1].object = k /\ Advanced(p)[1].done = Top(p).done + 1
    BY <1>1, AdvancedFacts DEF IInv
  <2>2. Len(work[p]) \in Nat \ {0}
    BY <1>1, TopFacts DEF IInv
  <2>3. Advanced(p) # <<>>
    BY <2>1, <2>2
  <2>4. work'[p] = Advanced(p)
    BY <1>1, <1>8
  <2> QED
    BY <1>1, <2>1, <2>3, <2>4
<1> SUFFICES ASSUME NEW u \in tasks'
             PROVE  /\ u \in [process : Processes, call : Calls, worker : Addresses, cif : Addresses]
                    /\ work'[u.process] # <<>> /\ work'[u.process][1].object = u.call
                    /\ work'[u.process][1].done = Len(Members[u.call]) + 1
                    /\ Usable(Members[u.call][1], u.worker) /\ "thread" \in heap[u.worker].parts
                    /\ Usable(Members[u.call][2], u.cif)
  BY <1>1 DEF TaskInv, Top, Usable
<1>10. CASE u \in tasks
  <2>1. u.process \in Processes /\ u.process # p
    BY <1>c, <1>10 DEF TaskInv
  <2>2. work'[u.process] = work[u.process]
    BY <1>1, <1>8, <2>1
  <2> QED
    BY <1>10, <2>2 DEF TaskInv, Top
<1>11. CASE u = t
  <2>1. u.process = p /\ u.call = k /\ u.worker = handle[w] /\ u.cif = handle[d]
    BY <1>11
  <2>2. t \in [process : Processes, call : Calls, worker : Addresses, cif : Addresses]
    BY <1>1, <1>7
  <2> HIDE DEF k, w, d, t
  <2> QED
    BY <1>5, <1>6, <1>9, <1>11, <2>1, <2>2 DEF w, d
<1> QED
  BY <1>1, <1>10, <1>11

\* A process that waits for its callout does nothing else.
LEMMA TaskStep ==
  ASSUME IInv, OwnFailures, ThreadsStart, TaskInv, [Next]_vars
  PROVE  TaskInv'
<1>1. \A t \in tasks : /\ t.process \in Processes /\ t.call \in Calls
                       /\ work[t.process] # <<>> /\ Top(t.process).object = t.call
                       /\ Top(t.process).done = Len(Members[t.call]) + 1
                       /\ Len(Members[t.call]) = 2
  BY CallFacts DEF TaskInv
<1>2. work \in [Processes -> Seq(Frame)]
  BY DEF IInv, TypeInv
<1>3. ASSUME NEW p \in Processes, NEW s, work' = [work EXCEPT ![p] = s], tasks' = tasks,
             \A t \in tasks : t.process # p
      PROVE  TaskInv'
  BY <1>1, <1>2, <1>3, TaskKept
<1>4. ASSUME NEW p \in Processes, Validate(p) PROVE TaskInv'
  <2>1. \A t \in tasks : t.process # p
    BY <1>1, <1>4 DEF Validate
  <2> QED
    BY <1>3, <1>4, <2>1 DEF Validate
<1>5. ASSUME NEW p \in Processes, FillBasicType(p) PROVE TaskInv'
  <2>1. \A t \in tasks : t.process # p
    BY <1>1, <1>5 DEF FillBasicType, Ready, At
  <2> QED
    BY <1>3, <1>5, <2>1 DEF FillBasicType
<1>6. ASSUME NEW p \in Processes, RegisterInQueue(p) PROVE TaskInv'
  <2>1. \A t \in tasks : t.process # p
    BY <1>1, <1>6, Kinds DEF RegisterInQueue, Objects
  <2> QED
    BY <1>3, <1>6, <2>1 DEF RegisterInQueue
<1>7. ASSUME NEW p \in Processes, PerformWorkerCall(p) PROVE TaskInv'
  BY <1>7, QueueTask
<1>8. ASSUME NEW p \in Processes, Return(p) PROVE TaskInv'
  BY <1>3, <1>8 DEF Return
<1>9. ASSUME NEW p \in Processes, NEW x, Initialize(p, x) PROVE TaskInv'
  <2>1. \A t \in tasks : t.process # p
    BY <1>1, <1>9 DEF Initialize, Ready, At
  <2>2. tasks' = tasks /\ \E s : work' = [work EXCEPT ![p] = s]
    <3>1. tasks' = tasks
      BY <1>9 DEF Initialize
    <3>2. \E s : work' = [work EXCEPT ![p] = s]
      BY <1>9 DEF Initialize
    <3> QED
      BY <3>1, <3>2
  <2> QED
    BY <1>3, <2>1, <2>2
<1>10. ASSUME NEW p \in Processes, NEW o \in Calls \cup Callbacks, Begin(p, o) PROVE TaskInv'
  <2>1. \A t \in tasks : t.process # p
    BY <1>1, <1>10 DEF Begin
  <2> QED
    BY <1>3, <1>10, <2>1 DEF Begin
<1>11. CASE tasks' \subseteq tasks /\ work' = work
  BY <1>11, TaskKept
<1> QED
  BY <1>4, <1>5, <1>6, <1>7, <1>8, <1>9, <1>10, <1>11
     DEF Next, Step, vars, ExecuteWorkerTask, Drop, Finalize, UnregisterCallback, Invoke, BeNull,
         ExecuteCallback, Restart

\* A callout on a worker runs with the worker's thread and with a cif whose types
\* are alive, although the application may drop the function and another process
\* may initialize the worker again before the worker takes the task.
THEOREM CalloutsUseLiveMemory ==
  ASSUME OwnFailures, ThreadsStart
  PROVE  Spec => []CallsUseLiveMemory
<1>1. Init => TaskInv
  BY DEF Init, TaskInv
<1>2. IInv /\ TaskInv /\ [Next]_vars => TaskInv'
  BY TaskStep
<1>3. IInv /\ TaskInv => CallsUseLiveMemory
  <2> SUFFICES ASSUME IInv, TaskInv, NEW t \in tasks
               PROVE  /\ Usable(Members[t.call][1], t.worker) /\ "thread" \in heap[t.worker].parts
                      /\ Usable(Members[t.call][2], t.cif)
                      /\ \A i \in DOMAIN Members[Members[t.call][2]] :
                           Usable(Members[Members[t.call][2]][i], heap[t.cif].pointers[i])
    BY DEF CallsUseLiveMemory
  <2>1. /\ t.process \in Processes /\ t.call \in Calls /\ t.cif \in Addresses
        /\ work[t.process] # <<>> /\ Top(t.process).object = t.call
        /\ Usable(Members[t.call][1], t.worker) /\ "thread" \in heap[t.worker].parts
        /\ Usable(Members[t.call][2], t.cif)
    BY DEF TaskInv
  <2>2. Members[t.call][2] \in Refs[t.call] /\ Members[t.call][2] \notin BasicTypes
    <3>1. /\ Len(Members[t.call]) = 2 /\ t.call \in Users /\ Members[t.call][2] \in Definitions
      BY <2>1, CallFacts
    <3>2. 2 \in 1..Len(Members[t.call])
      BY <3>1
    <3> QED
      BY <3>1, <3>2, MemberFacts, Kinds
  <2>3. Members[t.call][2] \in Reachable
    BY <2>1, <2>2, TopFacts DEF IInv
  <2>4. heap[t.cif] # NULL /\ heap[t.cif].object = Members[t.call][2]
    BY <2>1, <2>2 DEF Usable
  <2>5. PointersLive(t.cif)
    BY <2>1, <2>3, <2>4 DEF IInv, MemoryInv, PointersInv
  <2> QED
    BY <2>1, <2>4, <2>5 DEF PointersLive
<1> QED
  BY <1>1, <1>2, <1>3, HandlesInvariance, PTL DEF Spec

\* TypeOK, which says that no task contains NULL.
THEOREM HandlesTypeCorrect ==
  ASSUME OwnFailures, ThreadsStart
  PROVE  Spec => []TypeOK
<1>1. Init => TaskInv
  BY DEF Init, TaskInv
<1>2. IInv /\ TaskInv /\ [Next]_vars => TaskInv'
  BY TaskStep
<1>3. IInv /\ TaskInv => TypeOK
  <2> SUFFICES ASSUME IInv, TaskInv PROVE TypeOK
    OBVIOUS
  <2>1. \A p \in Processes : \A i \in DOMAIN work[p] :
          /\ work[p][i].object \in Users
          /\ work[p][i].done \in 0..(Len(Members[work[p][i].object]) + 1)
    <3> TAKE p \in Processes
    <3> TAKE i \in DOMAIN work[p]
    <3>1. work[p][i].object \in Users /\ work[p][i].done \in Nat /\ FrameOK(p, i)
      BY FrameFacts DEF IInv, FrameInv
    <3>2. Len(Members[work[p][i].object]) \in Nat
      BY <3>1, MemberFacts
    <3>3. work[p][i].done <= Len(Members[work[p][i].object]) + 1
      BY <3>1 DEF FrameOK
    <3> QED
      BY <3>1, <3>2, <3>3
  <2>2. tasks \subseteq [process : Processes, call : Calls, worker : Addresses, cif : Addresses]
    BY DEF TaskInv
  <2>3. \A a \in Addresses : (heap[a] = NULL \/ heap[a] \in Group)
    BY DEF IInv, TypeInv
  <2> QED
    BY <2>1, <2>2, <2>3 DEF TypeOK, IInv, TypeInv
<1> QED
  BY <1>1, <1>2, <1>3, HandlesInvariance, PTL DEF Spec

------------------------------------------------------------------------------
(***************************************************************************)
(* The registry of callbacks.                                              *)
(***************************************************************************)
\* A step that leaves the registry alone, fills or empties handles as it may, and
\* completes no registration.
LEMMA LookupKept ==
  ASSUME IInv, LookupInv, registry' = registry, pending' \subseteq pending,
         \A c \in Callbacks : \/ handle'[c] = handle[c]
                              \/ c \notin collected /\ handle[c] = NULL
                              \/ c \in collected /\ handle'[c] = NULL,
         \A c \in Callbacks : InFrames(c)' => InFrames(c) \/ handle[c] = NULL,
         \A c \in Callbacks : handle'[c] # NULL /\ ~InFrames(c)' =>
           handle[c] = handle'[c] /\ ~InFrames(c),
         collected \subseteq collected'
  PROVE  LookupInv'
<1>1. /\ \A e \in registry : e.key \in Callbacks /\ e.value \in Callbacks
      /\ \A i \in pending : i.callback \in Callbacks /\ i.address # NULL
  BY Kinds DEF IInv, TypeInv, Entry, Pointer
<1>2. ASSUME NEW e \in registry PROVE EntryOK(e)'
  <2>1. EntryOK(e) /\ e.key \in Callbacks /\ e.value \in Callbacks
    BY <1>1 DEF LookupInv
  <2> QED
    BY <2>1 DEF EntryOK
<1>3. \A c \in Callbacks \ collected' : handle'[c] # NULL /\ ~InFrames(c)' =>
        \E e \in registry' : e.value = c
  BY DEF LookupInv
<1>4. ASSUME NEW i \in pending, i.callback \notin collected'
      PROVE  handle'[i.callback] = i.address /\ ~InFrames(i.callback)'
  <2>1. handle[i.callback] = i.address /\ ~InFrames(i.callback) /\ i.callback \notin collected
    BY <1>4 DEF LookupInv
  <2> QED
    BY <1>1, <2>1
<1> QED
  BY <1>2, <1>3, <1>4 DEF LookupInv

\* Steps that fill no handle and change no frame.
LEMMA LookupUntouched ==
  ASSUME IInv, LookupInv, UNCHANGED <<registry, work>>, pending' \subseteq pending,
         \A c \in Callbacks : handle'[c] = handle[c] \/ (c \in collected /\ handle'[c] = NULL),
         collected \subseteq collected'
  PROVE  LookupInv'
<1>1. \A c : InFrames(c)' = InFrames(c)
  BY DEF InFrames
<1> QED
  BY <1>1, LookupKept

\* Steps of a process that do not register a callback.
LEMMA LookupProcess ==
  ASSUME IInv, LookupInv, NEW p \in Processes, UNCHANGED <<registry, pending, collected>>,
         \A q \in Processes : q # p => work'[q] = work[q],
         \A c \in Callbacks : handle'[c] = handle[c] \/ (c \notin collected /\ handle[c] = NULL),
         \A c \in Callbacks : handle'[c] # handle[c] => InFrames(c)',
         \A i \in DOMAIN work'[p] : work'[p][i].object \in Callbacks =>
           \/ handle[work'[p][i].object] = NULL
           \/ \E j \in DOMAIN work[p] : work[p][j].object = work'[p][i].object,
         \A i \in DOMAIN work[p] : work[p][i].object \in Callbacks =>
           \/ handle'[work[p][i].object] = NULL
           \/ \E j \in DOMAIN work'[p] : work'[p][j].object = work[p][i].object
  PROVE  LookupInv'
<1>1. \A c \in Callbacks : InFrames(c)' => InFrames(c) \/ handle[c] = NULL
  BY DEF InFrames
<1>2. \A c \in Callbacks : InFrames(c) /\ ~InFrames(c)' => handle'[c] = NULL
  BY DEF InFrames
<1>3. \A c \in Callbacks : handle'[c] # NULL /\ ~InFrames(c)' => handle[c] = handle'[c] /\ ~InFrames(c)
  BY <1>2
<1> QED
  BY <1>1, <1>3, LookupKept

\* validate of a member keeps the frames that are there.
LEMMA LookupValidate ==
  ASSUME IInv, LookupInv, NEW p \in Processes, Validate(p)
  PROVE  LookupInv'
<1> DEFINE o == Top(p).object
           d == Top(p).done
           m == Members[o][d + 1]
<1>1. /\ work[p] # <<>> /\ d < Len(Members[o])
      /\ work' = [work EXCEPT ![p] = IF handle[m] # NULL THEN Advanced(p)
                                     ELSE <<[object |-> m, done |-> 0]>> \o Advanced(p)]
      /\ UNCHANGED <<handle, collected, registry, pending>>
  BY DEF Validate
<1>2. /\ Advanced(p) \in Seq(Frame) /\ Len(Advanced(p)) = Len(work[p])
      /\ Advanced(p)[1].object = o
      /\ \A i \in 2..Len(work[p]) : Advanced(p)[i] = work[p][i]
  BY <1>1, AdvancedFacts DEF IInv
<1>3. /\ Len(work[p]) \in Nat \ {0} /\ DOMAIN work[p] = 1..Len(work[p]) /\ Top(p) = work[p][1]
      /\ o \in Users /\ d \in Nat
  BY <1>1, TopFacts DEF IInv
<1>4. m \in Objects /\ m \notin Callbacks
  <2>1. Len(Members[o]) \in Nat
    BY <1>3, MemberFacts
  <2>2. d + 1 \in 1..Len(Members[o])
    BY <1>1, <1>3, <2>1
  <2> QED
    BY <1>3, <2>2, MemberFacts
<1>5. \A i \in 1..Len(work[p]) : Advanced(p)[i].object = work[p][i].object
  BY <1>2, <1>3
<1>6. work \in [Processes -> Seq(Frame)]
  BY DEF IInv, TypeInv
<1>7. \A q \in Processes : q # p => work'[q] = work[q]
  BY <1>1, <1>6
<1>8. CASE handle[m] # NULL
  <2>1. work'[p] = Advanced(p)
    BY <1>1, <1>6, <1>8
  <2>2. DOMAIN work'[p] = DOMAIN work[p]
    BY <1>2, <1>3, <2>1
  <2> HIDE DEF o, d, m
  <2> QED
    BY <1>1, <1>3, <1>5, <1>7, <2>1, <2>2, LookupProcess
<1>9. CASE handle[m] = NULL
  <2> DEFINE f == [object |-> m, done |-> 0]
             s == <<f>> \o Advanced(p)
  <2>1. work'[p] = s
    BY <1>1, <1>6, <1>9
  <2>2. f \in Frame /\ f.object = m
    BY <1>4 DEF Frame, Users
  <2> HIDE DEF f, o, d, m
  <2>3. /\ s \in Seq(Frame) /\ Len(s) = Len(work[p]) + 1 /\ s[1] = f
        /\ \A i \in 1..Len(work[p]) : s[i + 1] = Advanced(p)[i]
    BY <1>2, <2>2, PushProperties
  <2> HIDE DEF s
  <2>4. \A i \in DOMAIN s : i = 1 \/ (i - 1 \in DOMAIN work[p] /\ s[i].object = work[p][i - 1].object)
    <3> SUFFICES ASSUME NEW i \in DOMAIN s, i # 1
                 PROVE  i - 1 \in DOMAIN work[p] /\ s[i].object = work[p][i - 1].object
      OBVIOUS
    <3>1. i - 1 \in 1..Len(work[p]) /\ (i - 1) + 1 = i
      BY <1>3, <2>3
    <3> QED
      BY <1>3, <1>5, <2>3, <3>1
  <2>5. \A i \in DOMAIN work[p] : i + 1 \in DOMAIN s /\ s[i + 1].object = work[p][i].object
    BY <1>3, <1>5, <2>3
  <2>6. \A i \in DOMAIN work'[p] : work'[p][i].object \in Callbacks =>
          \E j \in DOMAIN work[p] : work[p][j].object = work'[p][i].object
    BY <1>4, <2>1, <2>2, <2>3, <2>4
  <2>7. \A i \in DOMAIN work[p] : \E j \in DOMAIN work'[p] : work'[p][j].object = work[p][i].object
    BY <2>1, <2>5
  <2> QED
    BY <1>1, <1>7, <2>6, <2>7, LookupProcess
<1> QED
  BY <1>8, <1>9

\* A primitive that fails ends registrations whose callback has no handle; one that
\* succeeds fills the handle of a callback in a frame.
LEMMA LookupInitialize ==
  ASSUME IInv, OwnFailures, LookupInv, NEW p \in Processes, NEW x, Initialize(p, x)
  PROVE  LookupInv'
<1>1. PICK o : o = Top(p).object
  OBVIOUS
<1>2. /\ work[p] # <<>> /\ o \in Objects \ BasicTypes /\ o \in Users
      /\ Top(p).done = Len(Members[o]) /\ x \in Exits(o)
      /\ Primitive(o)[x].then = "again" => work' = [work EXCEPT ![p] = work[p]]
      /\ Primitive(o)[x].then = "fail" => work' = [work EXCEPT ![p] = <<>>]
      /\ Primitive(o)[x].then = "done" /\ o \in Callbacks => work' = [work EXCEPT ![p] = Advanced(p)]
      /\ Primitive(o)[x].then = "done" /\ o \notin Callbacks => work' = [work EXCEPT ![p] = Tail(work[p])]
  BY <1>1, InitializeFacts
<1>3. /\ \A m \in Objects : m # o => handle'[m] = handle[m]
      /\ ~Primitive(o)[x].stored => handle' = handle
  BY <1>1, Allocation
<1>4. /\ Primitive(o)[x].then \in {"done", "fail", "again"}
      /\ Primitive(o)[x].stored => Primitive(o)[x].then = "done"
      /\ Primitive(o)[x].stored \in BOOLEAN
  BY <1>2, RowFacts
<1>5. UNCHANGED <<registry, pending, collected>>
  BY DEF Initialize
<1>6. /\ Len(work[p]) \in Nat \ {0} /\ DOMAIN work[p] = 1..Len(work[p]) /\ Top(p) = work[p][1]
      /\ work[p] \in Seq(Frame) /\ Len(Members[o]) \in Nat
      /\ work \in [Processes -> Seq(Frame)] /\ \A i \in DOMAIN work[p] : FrameOK(p, i)
      /\ 1 \in DOMAIN work[p]
  BY <1>1, <1>2, TopFacts DEF IInv, TypeInv, FrameInv
<1>7. o \in Callbacks => handle[o] = NULL
  <2>1. FrameOK(p, 1) /\ Len(Members[o]) # Len(Members[o]) + 1
    BY <1>6
  <2> QED
    BY <1>1, <1>2, <1>6, <2>1 DEF FrameOK
<1>8. \A i \in DOMAIN work[p] : work[p][i].object \in Callbacks => handle[work[p][i].object] = NULL
  <2> SUFFICES ASSUME NEW i \in DOMAIN work[p], work[p][i].object \in Callbacks
               PROVE  handle[work[p][i].object] = NULL
    OBVIOUS
  <2>1. CASE i = 1
    BY <1>1, <1>6, <1>7, <2>1
  <2>2. CASE i # 1
    BY <1>6, <2>2 DEF FrameOK
  <2> QED
    BY <2>1, <2>2
<1>9. /\ \A c \in Callbacks : handle'[c] = handle[c] \/ (c \notin collected /\ handle[c] = NULL)
      /\ \A c \in Callbacks : handle'[c] # handle[c] => c = o /\ Primitive(o)[x].stored
  <2>1. \A c \in Callbacks : c \in Objects
    BY DEF Objects
  <2>2. o \notin collected
    BY <1>1, <1>2, TopFacts DEF IInv, CollectInv
  <2> QED
    BY <1>3, <1>4, <1>7, <2>1, <2>2
<1>10. \A s : work' = [work EXCEPT ![p] = s] =>
         work'[p] = s /\ \A q \in Processes : q # p => work'[q] = work[q]
  BY <1>6
<1>11. CASE Primitive(o)[x].then = "again"
  <2>1. work'[p] = work[p] /\ \A q \in Processes : q # p => work'[q] = work[q]
    BY <1>2, <1>10, <1>11
  <2>2. \A c \in Callbacks : handle'[c] = handle[c]
    BY <1>4, <1>9, <1>11
  <2> QED
    BY <1>5, <2>1, <2>2, LookupProcess
<1>12. CASE Primitive(o)[x].then = "fail"
  <2>1. work'[p] = <<>> /\ \A q \in Processes : q # p => work'[q] = work[q]
    BY <1>2, <1>10, <1>12
  <2>2. \A c \in Callbacks : handle'[c] = handle[c]
    BY <1>4, <1>9, <1>12
  <2>3. DOMAIN work'[p] = {}
    BY <2>1
  <2> QED
    BY <1>5, <1>8, <2>1, <2>2, <2>3, LookupProcess
<1>13. CASE Primitive(o)[x].then = "done" /\ o \in Callbacks
  <2>1. work'[p] = Advanced(p) /\ \A q \in Processes : q # p => work'[q] = work[q]
    BY <1>2, <1>10, <1>13
  <2>2. /\ Advanced(p) \in Seq(Frame) /\ Len(Advanced(p)) = Len(work[p])
        /\ Advanced(p)[1].object = o
        /\ \A i \in 2..Len(work[p]) : Advanced(p)[i] = work[p][i]
    BY <1>1, <1>2, AdvancedFacts DEF IInv
  <2>3. DOMAIN work'[p] = DOMAIN work[p] /\ \A i \in DOMAIN work[p] : work'[p][i].object = work[p][i].object
    BY <1>1, <1>6, <2>1, <2>2
  <2>4. \A c \in Callbacks : handle'[c] # handle[c] => InFrames(c)'
    BY <1>1, <1>6, <1>9, <2>3 DEF InFrames
  <2> QED
    BY <1>5, <1>9, <2>1, <2>3, <2>4, LookupProcess
<1>14. CASE Primitive(o)[x].then = "done" /\ o \notin Callbacks
  <2>1. work'[p] = Tail(work[p]) /\ \A q \in Processes : q # p => work'[q] = work[q]
    BY <1>2, <1>10, <1>14
  <2>2. /\ Tail(work[p]) \in Seq(Frame) /\ Len(Tail(work[p])) = Len(work[p]) - 1
        /\ \A i \in 1..Len(Tail(work[p])) : Tail(work[p])[i] = work[p][i + 1]
    BY <1>6, <1>2, HeadTailProperties
  <2>3. \A c \in Callbacks : handle'[c] = handle[c]
    BY <1>9, <1>14
  <2>4. \A i \in DOMAIN work'[p] : \E j \in DOMAIN work[p] : work[p][j].object = work'[p][i].object
    <3> TAKE i \in DOMAIN work'[p]
    <3>1. i \in 1..Len(Tail(work[p])) /\ i + 1 \in DOMAIN work[p]
      BY <1>6, <2>1, <2>2
    <3> QED
      BY <2>1, <2>2, <3>1
  <2> QED
    BY <1>5, <1>8, <2>1, <2>3, <2>4, LookupProcess
<1> QED
  BY <1>4, <1>11, <1>12, <1>13, <1>14

\* A callback gets the entry whose key has its address, or a new one.  No other
\* callback that is not collected has that address.
LEMMA LookupRegister ==
  ASSUME IInv, LookupInv, NEW p \in Processes, RegisterInQueue(p)
  PROVE  LookupInv'
<1> DEFINE c == Top(p).object
           a == handle[c]
           same == {e \in registry : handle[e.key] = a}
           keys == IF same = {} THEN {c} ELSE {e.key : e \in same}
<1>1. /\ work[p] # <<>> /\ c \in Callbacks /\ Top(p).done = Len(Members[c]) + 1
      /\ work' = [work EXCEPT ![p] = Tail(work[p])]
      /\ registry' = (registry \ same) \cup [key : keys, value : {c}]
      /\ UNCHANGED <<handle, collected, pending>>
  BY DEF RegisterInQueue, Called, At
<1>2. /\ work[p] \in Seq(Frame) /\ Len(work[p]) \in Nat \ {0} /\ DOMAIN work[p] = 1..Len(work[p])
      /\ Top(p) = work[p][1] /\ 1 \in DOMAIN work[p] /\ c \in Reachable
      /\ work \in [Processes -> Seq(Frame)] /\ registry \in SUBSET Entry /\ FrameOK(p, 1)
  BY <1>1, TopFacts DEF IInv, TypeInv, FrameInv
<1>3. c \in Objects /\ c \notin BasicTypes /\ a # NULL
  BY <1>1, <1>2, Kinds DEF FrameOK, Objects
<1>4. c \notin collected /\ heap[a].object = c
  BY <1>2, <1>3, ReachableOwns DEF Usable
<1>5. \A e \in registry : handle[e.key] = a /\ e.value \notin collected => e.value = c
  <2> SUFFICES ASSUME NEW e \in registry, handle[e.key] = a, e.value \notin collected PROVE e.value = c
    OBVIOUS
  <2>1. e.value \in Callbacks /\ EntryOK(e)
    BY <1>2 DEF Entry, LookupInv
  <2>2. e.value \in Objects /\ e.value \notin BasicTypes
    BY <2>1, Kinds DEF Objects
  <2>3. handle[e.value] = a
    BY <1>3, <2>1 DEF EntryOK
  <2>4. Usable(e.value, a)
    BY <1>3, <2>2, <2>3 DEF IInv, MemoryInv, HandlesOwnMemory
  <2> QED
    BY <1>4, <2>2, <2>4 DEF Usable
<1>6. Len(work[p]) = 1 /\ work'[p] = <<>>
  <2>1. Len(work[p]) = 1
    BY <1>1, <1>2, OutermostFrame DEF IInv
  <2>2. Len(Tail(work[p])) = 0 /\ Tail(work[p]) \in Seq(Frame)
    BY <1>1, <1>2, <2>1, HeadTailProperties
  <2>3. Tail(work[p]) = <<>>
    BY <2>2, EmptySeq
  <2> QED
    BY <1>1, <1>2, <2>1, <2>3
<1>7. \A q \in Processes : q # p => work'[q] = work[q]
  BY <1>1, <1>2
<1>8. \A d : d # c => InFrames(d)' = InFrames(d)
  <2>1. DOMAIN work'[p] = {} /\ DOMAIN work[p] = {1}
    BY <1>2, <1>6
  <2>2. \A d : d # c => \A i \in DOMAIN work[p] : work[p][i].object # d
    BY <1>2, <2>1
  <2> QED
    BY <1>7, <2>1, <2>2 DEF InFrames
<1>9. InFrames(c)
  BY <1>2 DEF InFrames
<1>10. keys # {} /\ \A k \in keys : handle[k] = a
  OBVIOUS
<1>11. \A e \in registry : handle[e.key] # a => e \in registry'
  BY <1>1
<1>12. \A e \in registry' : e \in registry \/ (e.value = c /\ handle[e.key] = a)
  BY <1>1, <1>10
<1>13. \E e \in registry' : e.value = c
  <2>1. PICK k \in keys : TRUE
    BY <1>10
  <2>2. [key |-> k, value |-> c] \in registry'
    BY <1>1, <2>1
  <2> QED
    BY <2>2
<1> HIDE DEF c, a, same, keys
<1>14. \A e \in registry' : EntryOK(e)'
  <2> TAKE e \in registry'
  <2>1. CASE e \in registry
    BY <1>1, <2>1 DEF EntryOK, LookupInv
  <2>2. CASE e.value = c /\ handle[e.key] = a
    BY <1>1, <1>3, <2>2 DEF EntryOK, a
  <2> QED
    BY <1>12, <2>1, <2>2
<1>15. \A d \in Callbacks \ collected' : handle'[d] # NULL /\ ~InFrames(d)' =>
         \E e \in registry' : e.value = d
  <2> SUFFICES ASSUME NEW d \in Callbacks, d \notin collected, handle[d] # NULL, ~InFrames(d)', d # c
               PROVE  \E e \in registry' : e.value = d
    BY <1>1, <1>13
  <2>1. PICK e \in registry : e.value = d
    BY <1>8 DEF LookupInv
  <2> QED
    BY <1>5, <1>11, <2>1
<1>16. \A i \in pending' : i.callback \notin collected' =>
         handle'[i.callback] = i.address /\ ~InFrames(i.callback)'
  BY <1>1, <1>8, <1>9 DEF LookupInv
<1> QED
  BY <1>14, <1>15, <1>16 DEF LookupInv
\* A process calls a function, begins a registration, or goes on with a call.
LEMMA LookupCall ==
  ASSUME IInv, LookupInv, NEW p \in Processes,
         \/ \E o \in Calls \cup Callbacks : Begin(p, o)
         \/ FillBasicType(p) \/ PerformWorkerCall(p) \/ Return(p)
  PROVE  LookupInv'
<1>1. work \in [Processes -> Seq(Frame)]
  BY DEF IInv, TypeInv
<1>2. \A s : work' = [work EXCEPT ![p] = s] =>
        work'[p] = s /\ \A q \in Processes : q # p => work'[q] = work[q]
  BY <1>1
<1>3. ASSUME NEW o \in Calls \cup Callbacks, Begin(p, o) PROVE LookupInv'
  <2> DEFINE f == [object |-> o, done |-> 0]
  <2>1. /\ work[p] = <<>> /\ (o \in Callbacks => handle[o] = NULL)
        /\ work' = [work EXCEPT ![p] = <<f>>]
        /\ UNCHANGED <<handle, collected, registry, pending>>
    BY <1>3 DEF Begin
  <2>2. work'[p] = <<f>> /\ \A q \in Processes : q # p => work'[q] = work[q]
    BY <1>2, <2>1
  <2>3. f.object = o
    OBVIOUS
  <2> HIDE DEF f
  <2>4. DOMAIN work'[p] = {1} /\ work'[p][1].object = o /\ DOMAIN work[p] = {}
    BY <2>1, <2>2, <2>3
  <2> QED
    BY <2>1, <2>2, <2>4, LookupProcess
<1>4. ASSUME work[p] # <<>>, Top(p).object \notin Callbacks,
             work' = [work EXCEPT ![p] = Tail(work[p])],
             UNCHANGED <<collected, registry, pending>>,
             \A c \in Callbacks : handle'[c] = handle[c]
      PROVE  LookupInv'
  <2>1. /\ Len(work[p]) \in Nat \ {0} /\ DOMAIN work[p] = 1..Len(work[p]) /\ Top(p) = work[p][1]
        /\ work[p] \in Seq(Frame)
    BY <1>4, TopFacts DEF IInv
  <2>2. /\ Tail(work[p]) \in Seq(Frame) /\ Len(Tail(work[p])) = Len(work[p]) - 1
        /\ \A i \in 1..Len(Tail(work[p])) : Tail(work[p])[i] = work[p][i + 1]
    BY <1>4, <2>1, HeadTailProperties
  <2>3. work'[p] = Tail(work[p]) /\ \A q \in Processes : q # p => work'[q] = work[q]
    BY <1>2, <1>4
  <2>4. \A i \in DOMAIN work'[p] : i + 1 \in DOMAIN work[p] /\ work[p][i + 1].object = work'[p][i].object
    <3> TAKE i \in DOMAIN work'[p]
    <3>1. i \in 1..Len(Tail(work[p])) /\ i + 1 \in DOMAIN work[p]
      BY <2>1, <2>2, <2>3
    <3> QED
      BY <2>2, <2>3, <3>1
  <2>5. \A i \in DOMAIN work[p] : i # 1 =>
          i - 1 \in DOMAIN work'[p] /\ work'[p][i - 1].object = work[p][i].object
    <3> SUFFICES ASSUME NEW i \in DOMAIN work[p], i # 1
                 PROVE  i - 1 \in DOMAIN work'[p] /\ work'[p][i - 1].object = work[p][i].object
      OBVIOUS
    <3>1. i - 1 \in 1..Len(Tail(work[p])) /\ (i - 1) + 1 = i
      BY <2>1, <2>2
    <3>2. i - 1 \in DOMAIN work'[p]
      BY <2>2, <2>3, <3>1
    <3> QED
      BY <2>2, <2>3, <3>1, <3>2
  <2>6. \A i \in DOMAIN work'[p] : \E j \in DOMAIN work[p] : work[p][j].object = work'[p][i].object
    BY <2>4
  <2>7. \A i \in DOMAIN work[p] : work[p][i].object \in Callbacks =>
          \E j \in DOMAIN work'[p] : work'[p][j].object = work[p][i].object
    BY <1>4, <2>1, <2>5
  <2> QED
    BY <1>4, <2>3, <2>6, <2>7, LookupProcess
<1>5. CASE FillBasicType(p)
  <2>1. /\ work[p] # <<>> /\ Top(p).object \in BasicTypes
        /\ handle' = [handle EXCEPT ![Top(p).object] = StaticOf[Top(p).object]]
        /\ work' = [work EXCEPT ![p] = Tail(work[p])] /\ UNCHANGED <<collected, registry, pending>>
    BY <1>5 DEF FillBasicType, SetHandler, Ready
  <2>2. \A c \in Callbacks : c \in Objects /\ c # Top(p).object
    BY <2>1, Kinds DEF Objects
  <2>3. \A c \in Callbacks : handle'[c] = handle[c]
    BY <2>1, <2>2 DEF IInv, TypeInv
  <2> QED
    BY <1>4, <2>1, <2>2, <2>3
<1>6. CASE Return(p)
  BY <1>4, <1>6, Kinds DEF Return, Called, Objects
<1>7. CASE PerformWorkerCall(p)
  <2>1. /\ work[p] # <<>> /\ work' = [work EXCEPT ![p] = Advanced(p)]
        /\ UNCHANGED <<handle, collected, registry, pending>>
    BY <1>7 DEF PerformWorkerCall, Ready
  <2>2. work'[p] = Advanced(p) /\ \A q \in Processes : q # p => work'[q] = work[q]
    BY <1>2, <2>1
  <2>3. /\ Len(work[p]) \in Nat \ {0} /\ DOMAIN work[p] = 1..Len(work[p]) /\ Top(p) = work[p][1]
    BY <2>1, TopFacts DEF IInv
  <2>4. /\ Advanced(p) \in Seq(Frame) /\ Len(Advanced(p)) = Len(work[p])
        /\ Advanced(p)[1].object = Top(p).object
        /\ \A i \in 2..Len(work[p]) : Advanced(p)[i] = work[p][i]
    BY <2>1, AdvancedFacts DEF IInv
  <2>5. DOMAIN work'[p] = DOMAIN work[p] /\ \A i \in DOMAIN work[p] : work'[p][i].object = work[p][i].object
    BY <2>2, <2>3, <2>4
  <2> QED
    BY <2>1, <2>2, <2>5, LookupProcess
<1> QED
  BY <1>3, <1>5, <1>6, <1>7

\* Each step keeps the registry in agreement with the handles.  The end of a
\* callback's finalizer empties the handle of a collected callback.
LEMMA LookupStep ==
  ASSUME IInv, OwnFailures, LookupInv, [Next]_vars
  PROVE  LookupInv'
<1>0. \A c \in Callbacks : c \in Objects /\ c \notin StructTypes \cup Definitions \cup Workers
  BY Kinds DEF Objects
<1>1. ASSUME NEW p \in Processes, Step(p) PROVE LookupInv'
  BY <1>1, LookupValidate, LookupCall, LookupRegister, LookupInitialize DEF Step
<1>2. ASSUME NEW p \in Processes, NEW o \in Calls \cup Callbacks, Begin(p, o) PROVE LookupInv'
  BY <1>2, LookupCall
<1>3. ASSUME NEW t \in tasks, ExecuteWorkerTask(t) PROVE LookupInv'
  BY <1>3, LookupUntouched DEF ExecuteWorkerTask
<1>4. ASSUME NEW o \in Users, Drop(o) PROVE LookupInv'
  BY <1>4, LookupUntouched DEF Drop
<1>5. ASSUME NEW o \in Users, Finalize(o) PROVE LookupInv'
  <2>1. \A c \in Callbacks : handle'[c] = handle[c]
    BY <1>0, <1>5 DEF Finalize, SetHandler, IInv, TypeInv
  <2> QED
    BY <1>5, <2>1, LookupUntouched DEF Finalize
<1>6. ASSUME NEW c \in Callbacks, UnregisterCallback(c) PROVE LookupInv'
  BY <1>6, LookupUntouched DEF UnregisterCallback
<1>7. ASSUME NEW c \in Callbacks, Invoke(c) PROVE LookupInv'
  <2> DEFINE i == [callback |-> c, address |-> handle[c]]
  <2>1. /\ ~InFrames(c) /\ pending' = pending \cup {i}
        /\ UNCHANGED <<handle, collected, work, registry>>
    BY <1>7 DEF Invoke
  <2>2. \A d : InFrames(d)' = InFrames(d)
    BY <2>1 DEF InFrames
  <2>3. \A j \in pending' : j.callback \notin collected =>
          handle[j.callback] = j.address /\ ~InFrames(j.callback)
    BY <2>1 DEF LookupInv
  <2>4. \A e \in registry : EntryOK(e)' = EntryOK(e)
    BY <2>1 DEF EntryOK
  <2> HIDE DEF i
  <2> QED
    BY <2>1, <2>2, <2>3, <2>4 DEF LookupInv
<1>8. CASE BeNull
  <2>1. finalizing \in collected
    BY <1>8 DEF BeNull, IInv, CollectInv
  <2>2. \A c \in Callbacks : handle'[c] = handle[c] \/ (c \in collected /\ handle'[c] = NULL)
    BY <1>0, <1>8, <2>1 DEF BeNull, SetHandler, IInv, TypeInv
  <2> QED
    BY <1>8, <2>2, LookupUntouched DEF BeNull
<1>9. ASSUME NEW i \in pending, ExecuteCallback(i) PROVE LookupInv'
  BY <1>9, LookupUntouched DEF ExecuteCallback
<1>10. CASE Restart
  <2>1. registry' = {} /\ pending' = {} /\ \A c \in Callbacks : handle'[c] = NULL
    BY <1>0, <1>10 DEF Restart
  <2> QED
    BY <2>1 DEF LookupInv
<1>11. CASE UNCHANGED vars
  BY <1>11, LookupUntouched DEF vars
<1> QED
  BY <1>1, <1>2, <1>3, <1>4, <1>5, <1>6, <1>7, <1>8, <1>9, <1>10, <1>11 DEF Next

\* The invocation of a callback that is not collected never runs another callback,
\* however addresses are used again and whenever finalizers run.  It is not found
\* only while the entry of its callback has the emptied handle of another one as
\* its key.
THEOREM InvocationsRunTheirCallback ==
  ASSUME OwnFailures
  PROVE  Spec => []OnlyEmptiedKeysHideCallbacks
<1>1. Init => LookupInv
  BY DEF Init, LookupInv, Objects
<1>2. IInv /\ LookupInv /\ [Next]_vars => LookupInv'
  BY LookupStep
<1>3. IInv /\ LookupInv => OnlyEmptiedKeysHideCallbacks
  <2> SUFFICES ASSUME IInv, LookupInv, NEW i \in pending, i.callback \notin collected
               PROVE  \/ LookupCallback(i.address) = i.callback
                      \/ /\ LookupCallback(i.address) = NULL
                         /\ \E e \in registry : /\ e.value = i.callback /\ e.key # i.callback
                                                /\ handle[e.key] = NULL
    BY DEF OnlyEmptiedKeysHideCallbacks
  <2> DEFINE c == i.callback
             a == i.address
             found == {e \in registry : handle[e.key] = a /\ e.value \notin collected}
  <2>1. c \in Callbacks /\ handle[c] = a /\ ~InFrames(c) /\ a # NULL
    BY Kinds DEF LookupInv, IInv, TypeInv, Pointer
  <2>2. \A e \in registry : e.value \in Callbacks /\ EntryOK(e)
    BY DEF LookupInv, IInv, TypeInv, Entry
  <2>3. \A d \in Callbacks \ collected : handle[d] = a => d = c
    <3>1. \A d \in Callbacks : d \in Objects /\ d \notin BasicTypes
      BY Kinds DEF Objects
    <3>2. \A d \in Callbacks \ collected : handle[d] = a => heap[a].object = d
      BY <2>1, <3>1 DEF IInv, MemoryInv, HandlesOwnMemory, Usable
    <3> QED
      BY <2>1, <3>2
  <2>4. \A e \in found : e.value = c
    BY <2>1, <2>2, <2>3 DEF EntryOK
  <2>5. CASE found # {}
    <3>1. (CHOOSE e \in found : TRUE) \in found
      BY <2>5
    <3>2. LookupCallback(a) = (CHOOSE e \in found : TRUE).value
      BY <2>5 DEF LookupCallback
    <3> QED
      BY <2>4, <3>1, <3>2
  <2>6. CASE found = {}
    <3>1. LookupCallback(a) = NULL
      BY <2>6 DEF LookupCallback
    <3>2. PICK e \in registry : e.value = c
      BY <2>1 DEF LookupInv
    <3>3. handle[e.key] = NULL
      BY <2>1, <2>2, <2>6, <3>2 DEF EntryOK
    <3> QED
      BY <2>1, <3>1, <3>2, <3>3
  <2> QED
    BY <2>5, <2>6
<1> QED
  BY <1>1, <1>2, <1>3, HandlesInvariance, PTL DEF Spec

------------------------------------------------------------------------------
(***************************************************************************)
(* Memory that is lost.                                                    *)
(***************************************************************************)
\* Makers are processes, and there are finitely many.
LEMMA MakersFinite ==
  ASSUME NEW S \in SUBSET Processes
  PROVE  /\ IsFiniteSet(S) /\ Cardinality(S) \in Nat
         /\ Cardinality(S) <= Cardinality(Processes)
         /\ Cardinality(Processes) \in Nat /\ Cardinality(Processes) > 0
<1>1. IsFiniteSet(Processes) /\ Processes # {}
  BY HandlesAssumption
<1>2. Cardinality(Processes) \in Nat /\ Cardinality(Processes) # 0
  BY <1>1, FS_EmptySet, FS_CardinalityType
<1>3. IsFiniteSet(S) /\ Cardinality(S) <= Cardinality(Processes)
  BY <1>1, FS_Subset
<1> QED
  BY <1>2, <1>3, FS_CardinalityType

\* The bound stays when o gets no memory and no maker that did not find its handle
\* null.
LEMMA CountKept ==
  ASSUME NEW o \in Objects, Counted(o), Groups(o)' \subseteq Groups(o),
         Makers(o)' \subseteq Makers(o) \/ handle[o] = NULL,
         o \in collected' <=> o \in collected, handle'[o] = NULL => handle[o] = NULL \/ o \in collected
  PROVE  Counted(o)'
<1>1. /\ IsFiniteSet(Groups(o)') /\ Cardinality(Groups(o)') \in Nat /\ Cardinality(Groups(o)) \in Nat
      /\ Cardinality(Groups(o)') <= Cardinality(Groups(o))
  BY FS_Subset, FS_CardinalityType DEF Counted
<1>2. /\ Makers(o)' \in SUBSET Processes /\ Makers(o) \in SUBSET Processes
  BY DEF Makers
<1>3. /\ IsFiniteSet(Makers(o)) /\ Cardinality(Makers(o)) \in Nat /\ Cardinality(Makers(o)') \in Nat
      /\ Cardinality(Makers(o)') <= Cardinality(Processes) /\ Cardinality(Processes) \in Nat
  BY <1>2, MakersFinite
<1>4. CASE o \in collected
  <2>1. Cardinality(Groups(o)') < Cardinality(Processes)
    BY <1>1, <1>3, <1>4 DEF Counted
  <2> QED
    BY <1>1, <1>4, <2>1 DEF Counted
<1>5. CASE o \notin collected
  <2>1. handle'[o] = NULL => Groups(o)' = {}
    BY <1>5 DEF Counted
  <2>2. Cardinality(Groups(o)') + Cardinality(Makers(o)') <= Cardinality(Processes)
    <3>1. CASE handle[o] = NULL
      <4>1. Groups(o)' = {}
        BY <1>5, <3>1 DEF Counted
      <4>2. Cardinality(Groups(o)') = 0
        BY <4>1, FS_EmptySet
      <4> QED
        BY <1>3, <4>2
    <3>2. CASE Makers(o)' \subseteq Makers(o)
      <4>1. Cardinality(Makers(o)') <= Cardinality(Makers(o))
        BY <1>3, <3>2, FS_Subset
      <4>2. Cardinality(Groups(o)) + Cardinality(Makers(o)) <= Cardinality(Processes)
        BY <1>5 DEF Counted
      <4> QED
        BY <1>1, <1>3, <4>1, <4>2
    <3> QED
      BY <3>1, <3>2
  <2> QED
    BY <1>1, <1>5, <2>1, <2>2 DEF Counted
<1> QED
  BY <1>4, <1>5

\* Steps that change no memory.
LEMMA LeakKept ==
  ASSUME LeakInv, heap' = heap, collected' = collected, ChainInv',
         \A o \in Objects : Makers(o)' \subseteq Makers(o) \/ handle[o] = NULL,
         \A o \in Objects : handle'[o] = NULL => handle[o] = NULL \/ o \in collected
  PROVE  LeakInv'
<1>1. \A o : Groups(o)' = Groups(o)
  BY DEF Groups
<1>2. \A o \in Objects : Counted(o)'
  BY <1>1, CountKept DEF LeakInv
<1>3. GroupInv'
  BY DEF LeakInv, GroupInv
<1> QED
  BY <1>2, <1>3 DEF LeakInv

\* The frames of one process decide about ChainInv and Makers.
LEMMA OneProcess ==
  ASSUME TypeInv, ChainInv, NEW p \in Processes, NEW s \in Seq(Frame), work' = [work EXCEPT ![p] = s],
         \A i, j \in DOMAIN s : i < j => s[i].object \in Refs[s[j].object]
  PROVE  /\ ChainInv'
         /\ \A o \in Objects :
              (\A i \in DOMAIN s : s[i].object = o /\ s[i].done <= Len(Members[o]) =>
                 \E j \in DOMAIN work[p] : work[p][j].object = o /\ work[p][j].done <= Len(Members[o]))
              => Makers(o)' \subseteq Makers(o)
         /\ \A o \in Objects :
              (\A i \in DOMAIN s : ~(s[i].object = o /\ s[i].done <= Len(Members[o])))
              => p \notin Makers(o)'
<1>1. work'[p] = s /\ \A q \in Processes : q # p => work'[q] = work[q]
  BY DEF TypeInv
<1> QED
  BY <1>1 DEF ChainInv, Makers

\* A member is done: no new frame, and the count of the innermost grows.
LEMMA AdvanceChain ==
  ASSUME TypeInv, ChainInv, NEW p \in Processes, work[p] # <<>>,
         work' = [work EXCEPT ![p] = Advanced(p)]
  PROVE  ChainInv' /\ \A o \in Objects : Makers(o)' \subseteq Makers(o)
<1>1. /\ Advanced(p) \in Seq(Frame) /\ Len(Advanced(p)) = Len(work[p])
      /\ Advanced(p)[1].object = Top(p).object /\ Advanced(p)[1].done = Top(p).done + 1
      /\ \A i \in 2..Len(work[p]) : Advanced(p)[i] = work[p][i]
  BY AdvancedFacts
<1>2. /\ Len(work[p]) \in Nat \ {0} /\ DOMAIN work[p] = 1..Len(work[p]) /\ Top(p) = work[p][1]
      /\ Top(p).done \in Nat
  BY TopFacts
<1>3. PICK s \in Seq(Frame) : s = Advanced(p)
  BY <1>1
<1>4. DOMAIN s = DOMAIN work[p] /\ \A i \in DOMAIN s : s[i].object = work[p][i].object
  BY <1>1, <1>2, <1>3
<1>5. \A i, j \in DOMAIN s : i < j => s[i].object \in Refs[s[j].object]
  BY <1>4 DEF ChainInv
<1>6. \A o \in Objects : \A i \in DOMAIN s : s[i].object = o /\ s[i].done <= Len(Members[o]) =>
        work[p][i].object = o /\ work[p][i].done <= Len(Members[o])
  <2> SUFFICES ASSUME NEW o \in Objects, NEW i \in DOMAIN s, s[i].object = o, s[i].done <= Len(Members[o])
               PROVE  work[p][i].done <= Len(Members[o])
    BY <1>4
  <2>1. Len(Members[o]) \in Nat
    BY MemberFacts DEF Users
  <2>2. CASE i = 1
    BY <1>1, <1>2, <1>3, <2>1, <2>2
  <2>3. CASE i # 1
    <3>1. i \in 2..Len(work[p])
      BY <1>2, <1>4, <2>3
    <3> QED
      BY <1>1, <1>3, <3>1
  <2> QED
    BY <2>2, <2>3
<1> QED
  BY <1>3, <1>4, <1>5, <1>6, OneProcess

\* The innermost frame ends, and the process has no other frame for its object: no
\* type contains itself.
LEMMA TailChain ==
  ASSUME TypeInv, FrameInv, ChainInv, NEW p \in Processes, work[p] # <<>>,
         work' = [work EXCEPT ![p] = Tail(work[p])]
  PROVE  /\ ChainInv' /\ \A o \in Objects : Makers(o)' \subseteq Makers(o)
         /\ \A o \in Objects \ BasicTypes : o = Top(p).object => p \notin Makers(o)'
<1>0. PICK u : u = Top(p).object
  OBVIOUS
<1>1. /\ work[p] \in Seq(Frame) /\ Len(work[p]) \in Nat \ {0} /\ DOMAIN work[p] = 1..Len(work[p])
      /\ Top(p) = work[p][1] /\ 1 \in DOMAIN work[p]
  BY TopFacts
<1>2. PICK s \in Seq(Frame) : /\ s = Tail(work[p]) /\ Len(s) = Len(work[p]) - 1
                              /\ \A i \in 1..Len(s) : s[i] = work[p][i + 1]
  BY <1>1, HeadTailProperties
<1>3. \A i \in DOMAIN s : i + 1 \in DOMAIN work[p] /\ i + 1 > 1 /\ s[i] = work[p][i + 1]
  BY <1>1, <1>2
<1>4. \A i, j \in DOMAIN s : i < j => s[i].object \in Refs[s[j].object]
  <2> SUFFICES ASSUME NEW i \in DOMAIN s, NEW j \in DOMAIN s, i < j
               PROVE  s[i].object \in Refs[s[j].object]
    OBVIOUS
  <2>1. i + 1 < j + 1
    BY <1>2
  <2> QED
    BY <1>3, <2>1 DEF ChainInv
<1>5. ASSUME u \in Objects \ BasicTypes, NEW i \in DOMAIN s, s[i].object = u
      PROVE  FALSE
  <2>1. i + 1 \in DOMAIN work[p] /\ 1 < i + 1 /\ work[p][i + 1].object = u
    BY <1>3, <1>5
  <2>2. u \in Refs[u]
    BY <1>0, <1>1, <2>1 DEF ChainInv
  <2>3. CASE u \in StructTypes \cup Definitions
    BY <2>2, <2>3, HandlesAssumption
  <2>4. CASE u \in Callbacks
    <3>1. 1 = Len(work[p])
      BY <1>0, <1>1, <2>4, OutermostFrame
    <3> QED
      BY <1>1, <2>1, <3>1
  <2>5. CASE u \in Workers
    <3>1. Members[u] = <<>> /\ u \notin Callbacks \cup Calls
      BY <2>5, Kinds, HandlesAssumption DEF Objects
    <3>2. Len(Members[u]) = 0
      BY <3>1
    <3>3. FrameOK(p, i + 1) /\ work[p][i + 1].done \in Nat
      BY <2>1, FrameFacts DEF FrameInv
    <3>4. /\ work[p][i + 1].done <= Len(Members[u]) + 1
          /\ work[p][i + 1].done # Len(Members[u]) + 1 /\ work[p][i + 1].done >= 1
      BY <2>1, <3>1, <3>3 DEF FrameOK
    <3> QED
      BY <3>2, <3>3, <3>4
  <2> QED
    BY <1>5, <2>3, <2>4, <2>5 DEF Objects, Types
<1>6. \A o \in Objects : \A i \in DOMAIN s : s[i].object = o /\ s[i].done <= Len(Members[o]) =>
        \E j \in DOMAIN work[p] : work[p][j].object = o /\ work[p][j].done <= Len(Members[o])
  BY <1>3
<1>7. u \in Objects \ BasicTypes => \A i \in DOMAIN s : ~(s[i].object = u /\ s[i].done <= Len(Members[u]))
  BY <1>5
<1>8. work' = [work EXCEPT ![p] = s]
  BY <1>2
<1>9. ChainInv' /\ \A o \in Objects : Makers(o)' \subseteq Makers(o)
  BY <1>4, <1>6, <1>8, OneProcess
<1>10. u \in Objects \ BasicTypes => p \notin Makers(u)'
  BY <1>4, <1>7, <1>8, OneProcess
<1> QED
  BY <1>0, <1>9, <1>10

\* A frame for the member that is validated next.
LEMMA PushChain ==
  ASSUME TypeInv, ChainInv, NEW p \in Processes, work[p] # <<>>,
         Top(p).done < Len(Members[Top(p).object]),
         work' = [work EXCEPT ![p] =
           <<[object |-> Members[Top(p).object][Top(p).done + 1], done |-> 0]>> \o Advanced(p)]
  PROVE  /\ ChainInv'
         /\ \A o \in Objects : o # Members[Top(p).object][Top(p).done + 1] =>
              Makers(o)' \subseteq Makers(o)
<1> DEFINE u == Top(p).object
           d == Top(p).done
           m == Members[u][d + 1]
           f == [object |-> m, done |-> 0]
<1>1. /\ Len(work[p]) \in Nat \ {0} /\ DOMAIN work[p] = 1..Len(work[p]) /\ Top(p) = work[p][1]
      /\ 1 \in DOMAIN work[p] /\ u \in Users /\ d \in Nat /\ Len(Members[u]) \in Nat
  BY TopFacts
<1>2. m \in Objects /\ m \in Refs[u]
  <2>1. d + 1 \in 1..Len(Members[u])
    BY <1>1
  <2> QED
    BY <1>1, <2>1, MemberFacts
<1>3. f \in Frame /\ f.object = m /\ f.done = 0
  BY <1>2 DEF Frame, Users
<1>4. /\ Advanced(p) \in Seq(Frame) /\ Len(Advanced(p)) = Len(work[p])
      /\ Advanced(p)[1].object = u /\ Advanced(p)[1].done = d + 1
      /\ \A i \in 2..Len(work[p]) : Advanced(p)[i] = work[p][i]
  BY AdvancedFacts
<1>5. work' = [work EXCEPT ![p] = <<f>> \o Advanced(p)]
  OBVIOUS
<1>6. u = Top(p).object /\ d = Top(p).done /\ m = Members[Top(p).object][Top(p).done + 1]
  OBVIOUS
<1> HIDE DEF u, d, m, f
<1>a. /\ <<f>> \o Advanced(p) \in Seq(Frame) /\ Len(<<f>> \o Advanced(p)) = Len(work[p]) + 1
      /\ (<<f>> \o Advanced(p))[1] = f
      /\ \A i \in 2..(Len(work[p]) + 1) : (<<f>> \o Advanced(p))[i] = Advanced(p)[i - 1]
  BY <1>3, <1>4, PushProperties
<1>7. PICK s \in Seq(Frame) : /\ s = <<f>> \o Advanced(p) /\ Len(s) = Len(work[p]) + 1 /\ s[1] = f
                              /\ \A i \in 2..(Len(work[p]) + 1) : s[i] = Advanced(p)[i - 1]
  BY <1>a
<1>8. \A i \in DOMAIN s : i # 1 => /\ i - 1 \in DOMAIN work[p] /\ s[i].object = work[p][i - 1].object
                                   /\ s[i].done = work[p][i - 1].done \/ s[i].done = work[p][i - 1].done + 1
  <2> SUFFICES ASSUME NEW i \in DOMAIN s, i # 1
               PROVE  /\ i - 1 \in DOMAIN work[p] /\ s[i].object = work[p][i - 1].object
                      /\ s[i].done = work[p][i - 1].done \/ s[i].done = work[p][i - 1].done + 1
    OBVIOUS
  <2>1. i \in 2..(Len(work[p]) + 1) /\ i - 1 \in 1..Len(work[p])
    BY <1>1, <1>7
  <2>2. s[i] = Advanced(p)[i - 1]
    BY <1>7, <2>1
  <2>3. CASE i - 1 = 1
    BY <1>1, <1>4, <1>6, <2>2, <2>3
  <2>4. CASE i - 1 # 1
    BY <1>1, <1>4, <2>1, <2>2, <2>4
  <2> QED
    BY <2>3, <2>4
<1>9. \A i, j \in DOMAIN s : i < j => s[i].object \in Refs[s[j].object]
  <2> SUFFICES ASSUME NEW i \in DOMAIN s, NEW j \in DOMAIN s, i < j
               PROVE  s[i].object \in Refs[s[j].object]
    OBVIOUS
  <2>1. i \in Nat /\ j \in Nat /\ j # 1 /\ j - 1 \in DOMAIN work[p] /\ s[j].object = work[p][j - 1].object
    BY <1>7, <1>8
  <2>2. CASE i = 1
    <3>1. work[p][j - 1].object \in Users
      BY <2>1, FrameFacts
    <3>2. CASE j - 1 = 1
      BY <1>1, <1>2, <1>3, <1>6, <1>7, <2>1, <2>2, <3>2
    <3>3. CASE j - 1 # 1
      <4>1. 1 < j - 1
        BY <1>1, <2>1, <3>3
      <4>2. u \in Refs[work[p][j - 1].object]
        BY <1>1, <1>6, <2>1, <4>1 DEF ChainInv
      <4>3. Refs[u] \subseteq Refs[work[p][j - 1].object]
        BY <3>1, <4>2, MemberFacts
      <4> QED
        BY <1>2, <1>3, <1>7, <2>1, <2>2, <4>3
    <3> QED
      BY <3>2, <3>3
  <2>3. CASE i # 1
    <3>1. i - 1 \in DOMAIN work[p] /\ s[i].object = work[p][i - 1].object
      BY <1>8, <2>3
    <3>2. i - 1 < j - 1
      BY <2>1
    <3> QED
      BY <2>1, <3>1, <3>2 DEF ChainInv
  <2> QED
    BY <2>2, <2>3
<1>10. \A o \in Objects : o # m => \A i \in DOMAIN s : s[i].object = o /\ s[i].done <= Len(Members[o]) =>
         \E j \in DOMAIN work[p] : work[p][j].object = o /\ work[p][j].done <= Len(Members[o])
  <2> SUFFICES ASSUME NEW o \in Objects, o # m, NEW i \in DOMAIN s, s[i].object = o,
                      s[i].done <= Len(Members[o])
               PROVE  \E j \in DOMAIN work[p] : work[p][j].object = o /\ work[p][j].done <= Len(Members[o])
    OBVIOUS
  <2>1. i # 1
    BY <1>3, <1>7
  <2>2. /\ i - 1 \in DOMAIN work[p] /\ work[p][i - 1].object = o
        /\ s[i].done = work[p][i - 1].done \/ s[i].done = work[p][i - 1].done + 1
    BY <1>8, <2>1
  <2>3. work[p][i - 1].done \in Nat /\ Len(Members[o]) \in Nat
    BY <2>2, FrameFacts, MemberFacts DEF Users
  <2>4. work[p][i - 1].done <= Len(Members[o])
    BY <2>2, <2>3
  <2> QED
    BY <2>2, <2>4
<1> QED
  BY <1>5, <1>6, <1>7, <1>9, <1>10, OneProcess

\* What a finalizer frees is more than a semaphore and a thread.
LEMMA OwnedFacts ==
  ASSUME NEW o \in Objects \ BasicTypes
  PROVE  ~(Owned(o) \subseteq {"semaphore", "thread"})
<1>1. CASE o \in StructTypes
  BY <1>1, Kinds DEF Owned, FreeStruct
<1>2. CASE o \in Definitions
  <2>1. Owned(o) = FreeDefinition
    BY <1>2, Kinds DEF Owned
  <2> QED
    BY <2>1 DEF FreeDefinition
<1>3. CASE o \in Callbacks
  <2>1. Owned(o) = CallbackRelease
    BY <1>3, Kinds DEF Owned
  <2> QED
    BY <2>1 DEF CallbackRelease
<1>4. CASE o \in Workers
  <2>1. Owned(o) = WorkerRelease
    BY <1>4, Kinds DEF Owned
  <2> QED
    BY <2>1 DEF WorkerRelease
<1> QED
  BY <1>1, <1>2, <1>3, <1>4 DEF Objects, Types

\* An object with a handle has one group more than it lost.
LEMMA OwnGroup ==
  ASSUME IInv, LeakInv, NEW o \in Objects \ BasicTypes, o \notin collected, handle[o] # NULL
  PROVE  /\ handle[o] \in Groups(o)
         /\ IsFiniteSet(Groups(o) \ {handle[o]})
         /\ Cardinality(Groups(o) \ {handle[o]}) < Cardinality(Processes)
<1>1. handle[o] \in Groups(o)
  BY OwnedFacts DEF IInv, MemoryInv, HandlesOwnMemory, Usable, Groups
<1>2. Counted(o) /\ Makers(o) \in SUBSET Processes
  BY DEF LeakInv, Makers
<1>3. IsFiniteSet(Groups(o)) /\ Cardinality(Groups(o)) + Cardinality(Makers(o)) <= Cardinality(Processes)
  BY <1>2 DEF Counted
<1>4. Cardinality(Makers(o)) \in Nat /\ Cardinality(Processes) \in Nat /\ Cardinality(Groups(o)) \in Nat
  BY <1>2, <1>3, MakersFinite, FS_CardinalityType
<1>5. IsFiniteSet(Groups(o) \ {handle[o]}) /\ Cardinality(Groups(o) \ {handle[o]}) = Cardinality(Groups(o)) - 1
  BY <1>1, <1>3, FS_RemoveElement
<1> QED
  BY <1>1, <1>3, <1>4, <1>5

\* A finalizer loses nothing but what was lost before.
LEMMA LeakRelease ==
  ASSUME IInv, LeakInv, NEW x \in Objects \ BasicTypes, x \notin collected,
         heap' = IF handle[x] = NULL THEN heap ELSE Freed(x, handle[x]),
         collected' = collected \cup {x}, work' = work,
         \A o \in Objects : o # x => handle'[o] = handle[o]
  PROVE  LeakInv'
<1>1. heap \in [Addresses -> Group \cup {NULL}]
  BY DEF IInv, TypeInv
<1>2. handle[x] # NULL => handle[x] \in Addresses /\ heap[handle[x]] # NULL /\ heap[handle[x]].object = x
  BY DEF IInv, MemoryInv, HandlesOwnMemory, Usable
<1>3. \A a \in Addresses : heap'[a] # NULL => /\ heap[a] # NULL /\ heap'[a].object = heap[a].object
                                              /\ heap'[a].parts \subseteq heap[a].parts
                                              /\ heap[a].object # x \/ a # handle[x] => heap'[a] = heap[a]
  <2> SUFFICES ASSUME NEW a \in Addresses, heap'[a] # NULL
               PROVE  /\ heap[a] # NULL /\ heap'[a].object = heap[a].object
                      /\ heap'[a].parts \subseteq heap[a].parts
                      /\ heap[a].object # x \/ a # handle[x] => heap'[a] = heap[a]
    OBVIOUS
  <2>1. CASE a = handle[x]
    <3>1. handle[x] # NULL
      BY <2>1, Kinds DEF Pointer
    <3>2. heap' = Freed(x, a) /\ heap[a] # NULL /\ heap[a].object = x
      BY <1>2, <2>1, <3>1
    <3>3. heap'[a].object = heap[a].object /\ heap'[a].parts = heap[a].parts \ Owned(x)
      BY <1>1, <3>2, FreedFacts
    <3> QED
      BY <2>1, <3>2, <3>3
  <2>2. CASE a # handle[x]
    <3>1. heap'[a] = heap[a]
      BY <1>1, <1>2, <2>2, FreedFacts
    <3> QED
      BY <3>1
  <2> QED
    BY <2>1, <2>2
<1>4. handle[x] # NULL /\ heap'[handle[x]] # NULL =>
        heap'[handle[x]].parts \subseteq {"semaphore", "thread"}
  <2> SUFFICES ASSUME handle[x] # NULL, heap'[handle[x]] # NULL
               PROVE  heap'[handle[x]].parts \subseteq {"semaphore", "thread"}
    OBVIOUS
  <2>1. heap'[handle[x]].parts = heap[handle[x]].parts \ Owned(x)
    BY <1>1, <1>2, FreedFacts
  <2>2. heap[handle[x]].parts \subseteq Owned(x) \cup {"semaphore", "thread"}
    BY <1>2 DEF LeakInv, GroupInv
  <2> QED
    BY <2>1, <2>2
<1>5. \A o \in Objects : Groups(o)' \subseteq Groups(o)
  <2> SUFFICES ASSUME NEW o \in Objects, NEW a \in Groups(o)' PROVE a \in Groups(o)
    OBVIOUS
  <2>1. a \in Addresses /\ heap'[a] # NULL /\ heap'[a].object = o /\ ~(heap'[a].parts \subseteq {"semaphore", "thread"})
    BY DEF Groups
  <2>2. heap[a] # NULL /\ heap[a].object = o /\ heap'[a].parts \subseteq heap[a].parts
    BY <1>3, <2>1
  <2> QED
    BY <2>1, <2>2 DEF Groups
<1>6. \A o : Makers(o)' = Makers(o)
  BY DEF Makers
<1>7. Counted(x)'
  <2>1. Cardinality(Processes) \in Nat /\ Cardinality(Processes) > 0
    BY MakersFinite
  <2>2. CASE handle[x] = NULL
    <3>1. Groups(x)' = {}
      BY <1>5, <2>2 DEF LeakInv, Counted
    <3>2. IsFiniteSet(Groups(x)') /\ Cardinality(Groups(x)') = 0
      BY <3>1, FS_EmptySet
    <3> QED
      BY <2>1, <3>2 DEF Counted
  <2>3. CASE handle[x] # NULL
    <3>1. handle[x] \notin Groups(x)'
      BY <1>4, <2>3 DEF Groups
    <3>2. Groups(x)' \subseteq Groups(x) \ {handle[x]}
      BY <1>5, <3>1
    <3>3. /\ IsFiniteSet(Groups(x) \ {handle[x]})
          /\ Cardinality(Groups(x) \ {handle[x]}) < Cardinality(Processes)
      BY <2>3, OwnGroup
    <3>4. IsFiniteSet(Groups(x)') /\ Cardinality(Groups(x)') <= Cardinality(Groups(x) \ {handle[x]})
      BY <3>2, <3>3, FS_Subset
    <3>5. Cardinality(Groups(x)') \in Nat /\ Cardinality(Groups(x) \ {handle[x]}) \in Nat
      BY <3>3, <3>4, FS_CardinalityType
    <3>6. Cardinality(Groups(x)') < Cardinality(Processes)
      BY <2>1, <3>3, <3>4, <3>5
    <3> QED
      BY <3>4, <3>6 DEF Counted
  <2> QED
    BY <2>2, <2>3
<1>8. \A o \in Objects : Counted(o)'
  <2> SUFFICES ASSUME NEW o \in Objects, o # x PROVE Counted(o)'
    BY <1>7
  <2>1. Counted(o) /\ Groups(o)' \subseteq Groups(o) /\ Makers(o)' \subseteq Makers(o)
    BY <1>5, <1>6 DEF LeakInv
  <2>2. (o \in collected' <=> o \in collected) /\ handle'[o] = handle[o]
    OBVIOUS
  <2> QED
    BY <2>1, <2>2, CountKept
<1>9. GroupInv'
  BY <1>3 DEF LeakInv, GroupInv
<1>10. ChainInv'
  BY DEF LeakInv, ChainInv
<1> QED
  BY <1>8, <1>9, <1>10 DEF LeakInv

\* A process that stores the address of new memory will not make more.
LEMMA LeakInitialize ==
  ASSUME IInv, OwnFailures, NoForwarders, ThreadsStart, LeakInv,
         NEW p \in Processes, NEW x, Initialize(p, x)
  PROVE  LeakInv'
<1>1. PICK o : o = Top(p).object
  OBVIOUS
<1>2. /\ work[p] # <<>> /\ o \in Objects \ BasicTypes /\ o \in Users /\ o \notin collected
      /\ Top(p).done = Len(Members[o]) /\ x \in Exits(o)
      /\ Primitive(o)[x].then = "again" => work' = [work EXCEPT ![p] = work[p]]
      /\ Primitive(o)[x].then = "fail" => work' = [work EXCEPT ![p] = <<>>]
      /\ Primitive(o)[x].then = "done" /\ o \in Callbacks => work' = [work EXCEPT ![p] = Advanced(p)]
      /\ Primitive(o)[x].then = "done" /\ o \notin Callbacks => work' = [work EXCEPT ![p] = Tail(work[p])]
  BY <1>1, InitializeFacts
<1>3. /\ \A b \in Addresses : heap[b] # NULL => heap'[b] = heap[b]
      /\ \A b \in Addresses : heap'[b] # NULL /\ heap[b] = NULL =>
           heap'[b].object = o /\ heap'[b].parts = Left(o, x)
      /\ \A m \in Objects : m # o => handle'[m] = handle[m]
      /\ ~Primitive(o)[x].stored => handle' = handle
      /\ Primitive(o)[x].stored => /\ handle'[o] \in Addresses /\ heap[handle'[o]] = NULL
                                   /\ heap'[handle'[o]] # NULL
      /\ \A b, c \in Addresses : heap[b] = NULL /\ heap'[b] # NULL /\ heap[c] = NULL /\ heap'[c] # NULL => b = c
      /\ Left(o, x) = {} => heap' = heap
  BY <1>1, Allocation
<1>4. /\ Primitive(o)[x].then \in {"done", "fail", "again"} /\ Primitive(o)[x].stored \in BOOLEAN
      /\ Primitive(o)[x].stored => /\ Primitive(o)[x].then = "done"
                                   /\ Left(o, x) \subseteq Owned(o) \cup {"semaphore", "thread"}
      /\ Primitive(o)[x].then = "done" => Primitive(o)[x].stored
      /\ ~Primitive(o)[x].stored => Left(o, x) = {}
  BY <1>2, RowFacts DEF ThreadsStart
<1>5. UNCHANGED collected
  BY DEF Initialize
<1>6. /\ TypeInv /\ FrameInv /\ ChainInv /\ work \in [Processes -> Seq(Frame)]
      /\ work[p] \in Seq(Frame) /\ Len(work[p]) \in Nat \ {0} /\ DOMAIN work[p] = 1..Len(work[p])
      /\ Top(p) = work[p][1] /\ 1 \in DOMAIN work[p] /\ Len(Members[o]) \in Nat
  BY <1>1, <1>2, TopFacts DEF IInv, TypeInv, LeakInv
<1>7. CASE Primitive(o)[x].then = "again"
  <2>1. heap' = heap /\ handle' = handle
    BY <1>3, <1>4, <1>7
  <2>2. work' = work
    BY <1>2, <1>6, <1>7
  <2>3. ChainInv' /\ \A m : Makers(m)' = Makers(m)
    BY <1>6, <2>2 DEF ChainInv, Makers
  <2> QED
    BY <1>5, <2>1, <2>3, LeakKept
<1>8. CASE Primitive(o)[x].then = "fail"
  <2>1. heap' = heap /\ handle' = handle
    BY <1>3, <1>4, <1>8
  <2>2. <<>> \in Seq(Frame) /\ DOMAIN <<>> = {} /\ work' = [work EXCEPT ![p] = <<>>]
    BY <1>2, <1>8
  <2>3. ChainInv' /\ \A m \in Objects : Makers(m)' \subseteq Makers(m)
    BY <1>6, <2>2, OneProcess
  <2> QED
    BY <1>5, <2>1, <2>3, LeakKept
<1>9. CASE Primitive(o)[x].then = "done"
  <2>1. PICK a \in Addresses : a = handle'[o]
    BY <1>3, <1>4, <1>9
  <2>2. heap[a] = NULL /\ heap'[a] # NULL /\ heap'[a].object = o /\ heap'[a].parts = Left(o, x) /\ a # NULL
    BY <1>3, <1>4, <1>9, <2>1, Kinds DEF Pointer
  <2>3. ChainInv' /\ (\A m \in Objects : Makers(m)' \subseteq Makers(m)) /\ p \notin Makers(o)'
    <3>1. CASE o \in Callbacks
      <4>1. work' = [work EXCEPT ![p] = Advanced(p)]
        BY <1>2, <1>9, <3>1
      <4>2. ChainInv' /\ \A m \in Objects : Makers(m)' \subseteq Makers(m)
        BY <1>2, <1>6, <4>1, AdvanceChain
      <4>3. Len(work[p]) = 1
        BY <1>1, <1>6, <3>1, OutermostFrame
      <4>4. Advanced(p) \in Seq(Frame) /\ Len(Advanced(p)) = 1 /\ Advanced(p)[1].done = Len(Members[o]) + 1
        BY <1>2, <1>6, <4>3, AdvancedFacts
      <4>5. work'[p] = Advanced(p)
        BY <1>6, <4>1
      <4>6. DOMAIN work'[p] = {1} /\ ~(work'[p][1].done <= Len(Members[o]))
        BY <1>6, <4>4, <4>5
      <4>7. p \notin Makers(o)'
        BY <4>6 DEF Makers
      <4> QED
        BY <4>2, <4>7
    <3>2. CASE o \notin Callbacks
      <4>1. work' = [work EXCEPT ![p] = Tail(work[p])]
        BY <1>2, <1>9, <3>2
      <4> QED
        BY <1>1, <1>2, <1>6, <4>1, TailChain
    <3> QED
      BY <3>1, <3>2
  <2>4. p \in Makers(o)
    <3>1. Top(p).done <= Len(Members[o])
      BY <1>2, <1>6
    <3> QED
      BY <1>1, <1>6, <3>1 DEF Makers
  <2>5. \A b \in Addresses : b # a => heap'[b] = heap[b]
    BY <1>3, <2>2
  <2>6. \A m \in Objects : m # o => Groups(m)' \subseteq Groups(m)
    BY <2>2, <2>5 DEF Groups
  <2>7. Groups(o)' \subseteq Groups(o) \cup {a}
    BY <2>5 DEF Groups
  <2>8. Counted(o)'
    <3>1. /\ IsFiniteSet(Groups(o)) /\ Makers(o) \in SUBSET Processes
          /\ Cardinality(Groups(o)) + Cardinality(Makers(o)) <= Cardinality(Processes)
      BY <1>2 DEF LeakInv, Counted, Makers
    <3>2. IsFiniteSet(Makers(o)) /\ Cardinality(Makers(o)) \in Nat /\ Cardinality(Processes) \in Nat
      BY <3>1, MakersFinite
    <3>3. IsFiniteSet(Groups(o) \cup {a}) /\ Cardinality(Groups(o) \cup {a}) <= Cardinality(Groups(o)) + 1
      <4>1. Cardinality(Groups(o)) \in Nat
        BY <3>1, FS_CardinalityType
      <4>2. /\ IsFiniteSet(Groups(o) \cup {a})
            /\ Cardinality(Groups(o) \cup {a}) =
                 IF a \in Groups(o) THEN Cardinality(Groups(o)) ELSE Cardinality(Groups(o)) + 1
        BY <3>1, FS_AddElement, Zenon
      <4> QED
        BY <4>1, <4>2
    <3>4. IsFiniteSet(Groups(o)') /\ Cardinality(Groups(o)') <= Cardinality(Groups(o) \cup {a})
      BY <2>7, <3>3, FS_Subset
    <3>5. /\ IsFiniteSet(Makers(o) \ {p}) /\ Cardinality(Makers(o) \ {p}) = Cardinality(Makers(o)) - 1
      BY <2>4, <3>2, FS_RemoveElement
    <3>6. Makers(o)' \subseteq Makers(o) \ {p}
      BY <1>2, <2>3
    <3>7. IsFiniteSet(Makers(o)') /\ Cardinality(Makers(o)') <= Cardinality(Makers(o) \ {p})
      BY <3>5, <3>6, FS_Subset
    <3>8. /\ Cardinality(Groups(o)) \in Nat /\ Cardinality(Groups(o)') \in Nat
          /\ Cardinality(Groups(o) \cup {a}) \in Nat /\ Cardinality(Makers(o)') \in Nat
      BY <3>1, <3>3, <3>4, <3>7, FS_CardinalityType
    <3>9. Cardinality(Groups(o)') + Cardinality(Makers(o)') <= Cardinality(Processes)
      BY <3>1, <3>2, <3>3, <3>4, <3>5, <3>7, <3>8
    <3>10. handle'[o] # NULL /\ o \notin collected'
      BY <1>2, <1>5, <2>1, <2>2
    <3> QED
      BY <3>4, <3>9, <3>10 DEF Counted
  <2>9. \A m \in Objects : Counted(m)'
    <3> SUFFICES ASSUME NEW m \in Objects, m # o PROVE Counted(m)'
      BY <2>8
    <3>1. Counted(m) /\ Groups(m)' \subseteq Groups(m) /\ Makers(m)' \subseteq Makers(m)
      BY <2>3, <2>6 DEF LeakInv
    <3>2. handle'[m] = handle[m]
      BY <1>3
    <3> QED
      BY <1>5, <3>1, <3>2, CountKept
  <2>10. GroupInv'
    <3> SUFFICES ASSUME NEW b \in Addresses, heap'[b] # NULL
                 PROVE  /\ heap'[b].object \notin BasicTypes
                        /\ heap'[b].parts \subseteq Owned(heap'[b].object) \cup {"semaphore", "thread"}
      BY DEF GroupInv, Owned
    <3>1. CASE b = a
      BY <1>2, <1>4, <1>9, <2>2, <3>1
    <3>2. CASE b # a
      BY <2>5, <3>2 DEF LeakInv, GroupInv
    <3> QED
      BY <3>1, <3>2
  <2> QED
    BY <2>3, <2>9, <2>10 DEF LeakInv
<1> QED
  BY <1>4, <1>7, <1>8, <1>9

\* Steps of a process that allocate nothing.
LEMMA LeakProcess ==
  ASSUME IInv, LeakInv, NEW p \in Processes,
         \/ \E o \in Calls \cup Callbacks : Begin(p, o)
         \/ Validate(p) \/ FillBasicType(p) \/ RegisterInQueue(p) \/ PerformWorkerCall(p) \/ Return(p)
  PROVE  LeakInv'
<1>1. TypeInv /\ FrameInv /\ ChainInv /\ work \in [Processes -> Seq(Frame)]
  BY DEF IInv, TypeInv, LeakInv
<1>2. ASSUME work[p] # <<>>, work' = [work EXCEPT ![p] = Tail(work[p])],
             heap' = heap, collected' = collected,
             \A o \in Objects : handle'[o] = NULL => handle[o] = NULL
      PROVE  LeakInv'
  <2>1. ChainInv' /\ \A o \in Objects : Makers(o)' \subseteq Makers(o)
    BY <1>1, <1>2, TailChain
  <2> QED
    BY <1>2, <2>1, LeakKept
<1>3. ASSUME work[p] # <<>>, work' = [work EXCEPT ![p] = Advanced(p)],
             heap' = heap, collected' = collected, handle' = handle
      PROVE  LeakInv'
  <2>1. ChainInv' /\ \A o \in Objects : Makers(o)' \subseteq Makers(o)
    BY <1>1, <1>3, AdvanceChain
  <2> QED
    BY <1>3, <2>1, LeakKept
<1>4. ASSUME NEW o \in Calls \cup Callbacks, Begin(p, o) PROVE LeakInv'
  <2> DEFINE f == [object |-> o, done |-> 0]
  <2>1. /\ work' = [work EXCEPT ![p] = <<f>>] /\ UNCHANGED <<handle, heap, collected>>
        /\ o \in Callbacks => handle[o] = NULL
    BY <1>4 DEF Begin
  <2>2. f \in Frame /\ f.object = o
    BY DEF Frame, Users, Objects
  <2> HIDE DEF f
  <2>3. <<f>> \in Seq(Frame) /\ DOMAIN <<f>> = {1} /\ <<f>>[1].object = o
    BY <2>2
  <2>4. ChainInv' /\ \A m \in Objects : m # o => Makers(m)' \subseteq Makers(m)
    <3>1. PICK s \in Seq(Frame) : s = <<f>>
      BY <2>3
    <3>2. work' = [work EXCEPT ![p] = s] /\ DOMAIN s = {1} /\ s[1].object = o
      BY <2>1, <2>3, <3>1
    <3>3. \A i, j \in DOMAIN s : i < j => s[i].object \in Refs[s[j].object]
      BY <3>2
    <3>4. \A m \in Objects : m # o => \A i \in DOMAIN s : s[i].object # m
      BY <3>2
    <3>5. /\ ChainInv'
          /\ \A m \in Objects :
               (\A i \in DOMAIN s : s[i].object = m /\ s[i].done <= Len(Members[m]) =>
                  \E j \in DOMAIN work[p] : work[p][j].object = m /\ work[p][j].done <= Len(Members[m]))
               => Makers(m)' \subseteq Makers(m)
      BY ONLY <1>1, <3>2, <3>3, p \in Processes, OneProcess
    <3>6. \A m \in Objects : m # o =>
            (\A i \in DOMAIN s : s[i].object = m /\ s[i].done <= Len(Members[m]) =>
               \E j \in DOMAIN work[p] : work[p][j].object = m /\ work[p][j].done <= Len(Members[m]))
      BY <3>4
    <3> QED
      BY <3>5, <3>6
  <2>5. \A m \in Objects : Makers(m)' \subseteq Makers(m) \/ handle[m] = NULL
    BY <2>1, <2>4, Kinds
  <2> QED
    BY <2>1, <2>4, <2>5, LeakKept
<1>5. CASE Validate(p)
  <2>1. PICK m : m = Members[Top(p).object][Top(p).done + 1]
    OBVIOUS
  <2>2. /\ work[p] # <<>> /\ Top(p).done < Len(Members[Top(p).object])
        /\ work' = [work EXCEPT ![p] = IF handle[m] # NULL THEN Advanced(p)
                                       ELSE <<[object |-> m, done |-> 0]>> \o Advanced(p)]
        /\ UNCHANGED <<handle, heap, collected>>
    BY <1>5, <2>1 DEF Validate
  <2>3. CASE handle[m] # NULL
    BY <1>3, <2>2, <2>3
  <2>4. CASE handle[m] = NULL
    <3>1. work' = [work EXCEPT ![p] =
            <<[object |-> Members[Top(p).object][Top(p).done + 1], done |-> 0]>> \o Advanced(p)]
      BY <2>1, <2>2, <2>4
    <3>2. ChainInv' /\ \A o \in Objects : o # m => Makers(o)' \subseteq Makers(o)
      BY <1>1, <2>1, <2>2, <3>1, PushChain
    <3>3. \A o \in Objects : Makers(o)' \subseteq Makers(o) \/ handle[o] = NULL
      BY <2>4, <3>2
    <3> QED
      BY <2>2, <3>2, <3>3, LeakKept
  <2> QED
    BY <2>3, <2>4
<1>6. CASE FillBasicType(p)
  <2>1. /\ work[p] # <<>> /\ Top(p).object \in BasicTypes
        /\ handle' = [handle EXCEPT ![Top(p).object] = StaticOf[Top(p).object]]
        /\ work' = [work EXCEPT ![p] = Tail(work[p])] /\ heap' = heap /\ collected' = collected
    BY <1>6 DEF FillBasicType, SetHandler, Ready
  <2>2. StaticOf[Top(p).object] # NULL
    BY <2>1, HandlesAssumption, Kinds DEF Pointer
  <2>3. \A o \in Objects : handle'[o] = NULL => handle[o] = NULL
    BY <2>1, <2>2 DEF IInv, TypeInv
  <2> QED
    BY <1>2, <2>1, <2>3
<1>7. CASE RegisterInQueue(p)
  BY <1>2, <1>7 DEF RegisterInQueue, Called
<1>8. CASE PerformWorkerCall(p)
  BY <1>3, <1>8 DEF PerformWorkerCall, Ready
<1>9. CASE Return(p)
  BY <1>2, <1>9 DEF Return, Called
<1> QED
  BY <1>4, <1>5, <1>6, <1>7, <1>8, <1>9

\* Each step keeps the count of groups and makers.
LEMMA LeakStep ==
  ASSUME IInv, OwnFailures, NoForwarders, ThreadsStart, LeakInv, [Next]_vars
  PROVE  LeakInv'
<1>1. ASSUME NEW p \in Processes, Step(p) PROVE LeakInv'
  BY <1>1, LeakProcess, LeakInitialize DEF Step
<1>2. ASSUME NEW p \in Processes, NEW o \in Calls \cup Callbacks, Begin(p, o) PROVE LeakInv'
  BY <1>2, LeakProcess
<1>3. ASSUME UNCHANGED <<heap, collected, work>>,
             \A o \in Objects : handle'[o] = NULL => handle[o] = NULL \/ o \in collected
      PROVE  LeakInv'
  <2>1. ChainInv' /\ \A o : Makers(o)' = Makers(o)
    BY <1>3 DEF LeakInv, ChainInv, Makers
  <2> QED
    BY <1>3, <2>1, LeakKept
<1>4. ASSUME NEW o, Finalize(o) PROVE LeakInv'
  <2>1. /\ o \in Objects \ BasicTypes /\ o \notin collected /\ work' = work
        /\ heap' = IF handle[o] = NULL THEN heap ELSE Freed(o, handle[o])
        /\ collected' = collected \cup {o} /\ handle' = [handle EXCEPT ![o] = NULL]
    BY <1>4, Kinds DEF Finalize, SetHandler, Objects, Types
  <2>2. \A m \in Objects : m # o => handle'[m] = handle[m]
    BY <2>1 DEF IInv, TypeInv
  <2> QED
    BY <2>1, <2>2, LeakRelease
<1>5. ASSUME NEW c, UnregisterCallback(c) PROVE LeakInv'
  BY <1>5, LeakRelease, Kinds DEF UnregisterCallback, Objects
<1>6. CASE BeNull
  <2>1. UNCHANGED <<heap, collected, work>> /\ handle' = [handle EXCEPT ![finalizing] = NULL]
        /\ finalizing # NULL
    BY <1>6 DEF BeNull, SetHandler
  <2>2. \A o \in Objects : handle'[o] = NULL => handle[o] = NULL \/ o \in collected
    BY <2>1 DEF IInv, TypeInv, CollectInv
  <2> QED
    BY <1>3, <2>1, <2>2
<1>7. CASE Restart
  <2>1. \A o : Groups(o)' = {}
    BY <1>7 DEF Restart, Groups
  <2>2. IsFiniteSet({}) /\ Cardinality({}) = 0
    BY FS_EmptySet
  <2>3. \A o : Makers(o)' \in SUBSET Processes
    BY DEF Makers
  <2>4. /\ \A o : Cardinality(Makers(o)') \in Nat /\ Cardinality(Makers(o)') <= Cardinality(Processes)
        /\ Cardinality(Processes) \in Nat /\ Cardinality(Processes) > 0
    BY <2>3, MakersFinite
  <2>5. \A o \in Objects : Counted(o)'
    BY <2>1, <2>2, <2>4 DEF Counted
  <2>6. GroupInv' /\ ChainInv'
    BY <1>7 DEF Restart, GroupInv, LeakInv, ChainInv
  <2> QED
    BY <2>5, <2>6 DEF LeakInv
<1>8. CASE UNCHANGED <<handle, heap, collected, work>>
  BY <1>3, <1>8
<1> QED
  BY <1>1, <1>2, <1>4, <1>5, <1>6, <1>7, <1>8
     DEF Next, vars, ExecuteWorkerTask, Drop, Invoke, ExecuteCallback

\* Processes that initialize the same object at the same time lose memory, at most
\* one group for each but one of them; nothing else does: no failing primitive and
\* no finalizer.
THEOREM LeaksBounded ==
  ASSUME OwnFailures, NoForwarders, ThreadsStart
  PROVE  Spec => []LeaksAreBounded
<1>1. Init => LeakInv
  <2> SUFFICES ASSUME Init PROVE LeakInv
    OBVIOUS
  <2>1. ChainInv /\ GroupInv
    BY DEF Init, ChainInv, GroupInv
  <2>2. \A o : Groups(o) = {}
    BY DEF Init, Groups
  <2>3. IsFiniteSet({}) /\ Cardinality({}) = 0
    BY FS_EmptySet
  <2>4. \A o : Makers(o) \in SUBSET Processes
    BY DEF Makers
  <2>5. /\ \A o : Cardinality(Makers(o)) \in Nat /\ Cardinality(Makers(o)) <= Cardinality(Processes)
        /\ Cardinality(Processes) \in Nat /\ Cardinality(Processes) > 0
    BY <2>4, MakersFinite
  <2>6. \A o \in Objects : Counted(o)
    BY <2>2, <2>3, <2>5 DEF Counted
  <2> QED
    BY <2>1, <2>6 DEF LeakInv
<1>2. IInv /\ LeakInv /\ [Next]_vars => LeakInv'
  BY LeakStep
<1>3. IInv /\ LeakInv => LeaksAreBounded
  <2> SUFFICES ASSUME IInv, LeakInv, NEW o \in Objects
               PROVE  Cardinality(Lost(o)) < Cardinality(Processes)
    BY DEF LeaksAreBounded
  <2>1. Lost(o) \subseteq Groups(o) /\ handle[o] \notin Lost(o)
    BY DEF Lost, Groups
  <2>2. Counted(o) /\ Cardinality(Processes) \in Nat /\ Cardinality(Processes) > 0
    BY MakersFinite DEF LeakInv
  <2>3. CASE Groups(o) = {}
    <3>1. Lost(o) = {}
      BY <2>1, <2>3
    <3> QED
      BY <2>2, <3>1, FS_EmptySet
  <2>4. CASE o \in collected
    <3>1. /\ IsFiniteSet(Groups(o)) /\ Cardinality(Groups(o)) < Cardinality(Processes)
      BY <2>2, <2>4 DEF Counted
    <3>2. IsFiniteSet(Lost(o)) /\ Cardinality(Lost(o)) <= Cardinality(Groups(o))
      BY <2>1, <3>1, FS_Subset
    <3>3. Cardinality(Groups(o)) \in Nat /\ Cardinality(Lost(o)) \in Nat
      BY <3>1, <3>2, FS_CardinalityType
    <3> QED
      BY <2>2, <3>1, <3>2, <3>3
  <2>5. CASE o \notin collected /\ Groups(o) # {}
    <3>1. handle[o] # NULL /\ o \notin BasicTypes
      BY <2>2, <2>5 DEF Counted, LeakInv, GroupInv, Groups
    <3>2. /\ IsFiniteSet(Groups(o) \ {handle[o]})
          /\ Cardinality(Groups(o) \ {handle[o]}) < Cardinality(Processes)
      BY <2>5, <3>1, OwnGroup
    <3>3. Lost(o) \subseteq Groups(o) \ {handle[o]}
      BY <2>1
    <3>4. IsFiniteSet(Lost(o)) /\ Cardinality(Lost(o)) <= Cardinality(Groups(o) \ {handle[o]})
      BY <3>2, <3>3, FS_Subset
    <3>5. Cardinality(Groups(o) \ {handle[o]}) \in Nat /\ Cardinality(Lost(o)) \in Nat
      BY <3>2, <3>4, FS_CardinalityType
    <3> QED
      BY <2>2, <3>2, <3>4, <3>5
  <2> QED
    BY <2>3, <2>4, <2>5
<1> QED
  BY <1>1, <1>2, <1>3, HandlesInvariance, PTL DEF Spec

==============================================================================
