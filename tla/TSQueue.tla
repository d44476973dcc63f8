------------------------------- MODULE TSQueue -------------------------------
(***************************************************************************)
(* The linked list of queue/threadSafeQueue.c, one step per access to the  *)
(* shared memory.  Any number of threads put; one thread takes, which is   *)
(* how the plugin uses both of its queues: a worker's task queue is taken  *)
(* from by the thread in worker_run only, the callback queue by the VM     *)
(* thread only.  The take reads the head before it locks the mutex.        *)
(***************************************************************************)
EXTENDS Integers, Sequences, FiniteSets

CONSTANTS Producers, \* threads that call threadsafe_queue_put
          Consumer,  \* the thread that calls threadsafe_queue_take
          Nodes,     \* addresses malloc may answer for a TSQueueNode
          Elements,  \* what is put
          NULL

ASSUME QueueAssumption ==
  /\ NULL \notin Nodes \cup Elements \cup Producers \cup {Consumer}
  /\ Consumer \notin Producers
  /\ IsFiniteSet(Producers)

VARIABLES
  first, last,  \* fields of __TSQueue
  mutex,        \* the owner of queue->mutex, or NULL
  semaphore,    \* the count of queue->semaphore
  element, next, \* fields of the nodes
  heap,         \* the nodes that are allocated
  ppc, pnode,   \* control point and local `node` of each producer
  cpc, cnode, celement, \* control point and locals of the consumer
  taken,        \* the answer of the last threadsafe_queue_take
  chain         \* history: the linked nodes, oldest first

queueVars == <<first, last, element, next, heap, chain>>
vars == <<first, last, mutex, semaphore, element, next, heap, ppc, pnode,
          cpc, cnode, celement, taken, chain>>

PutLabels == {"idle", "lock", "link", "last", "unlock", "signal"}
TakeLabels == {"idle", "first", "element", "lock", "unlink", "last", "unlock",
               "free"}

(***************************************************************************)
(* threadsafe_queue_new                                                    *)
(***************************************************************************)
Init ==
  /\ first = NULL
  /\ last = NULL
  /\ mutex = NULL
  /\ semaphore = 0
  /\ element \in [Nodes -> Elements]
  /\ next = [n \in Nodes |-> NULL]
  /\ heap = {}
  /\ ppc = [p \in Producers |-> "idle"]
  /\ pnode = [p \in Producers |-> NULL]
  /\ cpc = "idle"
  /\ cnode = NULL
  /\ celement = NULL
  /\ taken = NULL
  /\ chain = <<>>

(***************************************************************************)
(* Faults: wrong versions of the steps below, which the properties must    *)
(* detect.  No specification uses them.                                    *)
(***************************************************************************)
\* put does not lock the mutex.
PutLockWithoutMutex(p) ==
  /\ ppc[p] = "lock"
  /\ ppc' = [ppc EXCEPT ![p] = "link"]
  /\ UNCHANGED <<queueVars, mutex, semaphore, pnode, cpc, cnode, celement, taken>>

\* put does not signal the semaphore.
PutSignalForgotten(p) ==
  /\ ppc[p] = "signal"
  /\ pnode' = [pnode EXCEPT ![p] = NULL]
  /\ ppc' = [ppc EXCEPT ![p] = "idle"]
  /\ UNCHANGED <<queueVars, mutex, semaphore, cpc, cnode, celement, taken>>

\* take does not wait, as if pharo_semaphore_wait were all the waiting.
TakeWaitNot ==
  /\ cpc = "idle"
  /\ cpc' = "first"
  /\ UNCHANGED <<queueVars, mutex, semaphore, ppc, pnode, cnode, celement, taken>>

\* take consumes a signal that is not there.
TakeWaitUnderflow ==
  /\ cpc = "idle"
  /\ semaphore' = semaphore - 1
  /\ cpc' = "first"
  /\ UNCHANGED <<queueVars, mutex, ppc, pnode, cnode, celement, taken>>

\* take waits for one signal too many.
TakeWaitForTwo ==
  /\ cpc = "idle"
  /\ semaphore > 1
  /\ semaphore' = semaphore - 1
  /\ cpc' = "first"
  /\ UNCHANGED <<queueVars, mutex, ppc, pnode, cnode, celement, taken>>

\* take does not free the node.
TakeFreeForgotten ==
  /\ cpc = "free"
  /\ taken' = celement
  /\ cnode' = NULL
  /\ celement' = NULL
  /\ cpc' = "idle"
  /\ UNCHANGED <<queueVars, mutex, semaphore, ppc, pnode>>

(***************************************************************************)
(* threadsafe_queue_put                                                    *)
(***************************************************************************)
\* malloc the node and fill it in: no other thread knows it yet.
PutAllocate(p) ==
  /\ ppc[p] = "idle"
  /\ \E n \in Nodes \ heap, e \in Elements :
       /\ heap' = heap \cup {n}
       /\ element' = [element EXCEPT ![n] = e]
       /\ next' = [next EXCEPT ![n] = NULL]
       /\ pnode' = [pnode EXCEPT ![p] = n]
  /\ ppc' = [ppc EXCEPT ![p] = "lock"]
  /\ UNCHANGED <<first, last, mutex, semaphore, cpc, cnode, celement, taken, chain>>

PutLock(p) ==
  /\ ppc[p] = "lock"
  /\ mutex = NULL
  /\ mutex' = p
  /\ ppc' = [ppc EXCEPT ![p] = "link"]
  /\ UNCHANGED <<queueVars, semaphore, pnode, cpc, cnode, celement, taken>>

\* queue->first = node, or queue->last->next = node.
PutLink(p) ==
  /\ ppc[p] = "link"
  /\ IF first = NULL
       THEN first' = pnode[p] /\ UNCHANGED next
       ELSE next' = [next EXCEPT ![last] = pnode[p]] /\ UNCHANGED first
  /\ ppc' = [ppc EXCEPT ![p] = "last"]
  /\ UNCHANGED <<last, mutex, semaphore, element, heap, pnode, cpc, cnode,
                 celement, taken, chain>>

\* queue->last = node.  From here on the node counts as in the queue.
PutLast(p) ==
  /\ ppc[p] = "last"
  /\ last' = pnode[p]
  /\ chain' = Append(chain, pnode[p])
  /\ ppc' = [ppc EXCEPT ![p] = "unlock"]
  /\ UNCHANGED <<first, mutex, semaphore, element, next, heap, pnode, cpc,
                 cnode, celement, taken>>

PutUnlock(p) ==
  /\ ppc[p] = "unlock"
  /\ mutex' = NULL
  /\ ppc' = [ppc EXCEPT ![p] = "signal"]
  /\ UNCHANGED <<queueVars, semaphore, pnode, cpc, cnode, celement, taken>>

\* queue->semaphore->signal; put returns and forgets its node.
PutSignal(p) ==
  /\ ppc[p] = "signal"
  /\ semaphore' = semaphore + 1
  /\ pnode' = [pnode EXCEPT ![p] = NULL]
  /\ ppc' = [ppc EXCEPT ![p] = "idle"]
  /\ UNCHANGED <<queueVars, mutex, cpc, cnode, celement, taken>>

Put(p) ==
  \/ PutAllocate(p) \/ PutLock(p) \/ PutLink(p) \/ PutLast(p)
  \/ PutUnlock(p) \/ PutSignal(p)

(***************************************************************************)
(* threadsafe_queue_take                                                   *)
(***************************************************************************)
\* The wait on the semaphore.  For the callback queue it is the image that
\* waits: pharo_semaphore_wait does nothing, but the callback process only
\* calls the primitive after it waited on the same counting semaphore.
TakeWait ==
  /\ cpc = "idle"
  /\ semaphore > 0
  /\ semaphore' = semaphore - 1
  /\ cpc' = "first"
  /\ UNCHANGED <<queueVars, mutex, ppc, pnode, cnode, celement, taken>>

\* The wait answers an error: take answers NULL.
TakeWaitFails ==
  /\ cpc = "idle"
  /\ taken' = NULL
  /\ UNCHANGED <<queueVars, mutex, semaphore, ppc, pnode, cpc, cnode, celement>>

\* Read queue->first, without the mutex.
TakeFirst ==
  /\ cpc = "first"
  /\ cnode' = first
  /\ IF first = NULL
       THEN cpc' = "idle" /\ taken' = NULL
       ELSE cpc' = "element" /\ UNCHANGED taken
  /\ UNCHANGED <<queueVars, mutex, semaphore, ppc, pnode, celement>>

\* Read node->element, without the mutex.
TakeElement ==
  /\ cpc = "element"
  /\ celement' = element[cnode]
  /\ cpc' = "lock"
  /\ UNCHANGED <<queueVars, mutex, semaphore, ppc, pnode, cnode, taken>>

TakeLock ==
  /\ cpc = "lock"
  /\ mutex = NULL
  /\ mutex' = Consumer
  /\ cpc' = "unlink"
  /\ UNCHANGED <<queueVars, semaphore, ppc, pnode, cnode, celement, taken>>

\* queue->first = NULL, or queue->first = node->next.  The node leaves here.
TakeUnlink ==
  /\ cpc = "unlink"
  /\ IF first = last
       THEN first' = NULL /\ cpc' = "last"
       ELSE first' = next[cnode] /\ cpc' = "unlock"
  /\ chain' = Tail(chain)
  /\ UNCHANGED <<last, mutex, semaphore, element, next, heap, ppc, pnode,
                 cnode, celement, taken>>

\* queue->last = NULL.
TakeLast ==
  /\ cpc = "last"
  /\ last' = NULL
  /\ cpc' = "unlock"
  /\ UNCHANGED <<first, mutex, semaphore, element, next, heap, ppc, pnode,
                 cnode, celement, taken, chain>>

TakeUnlock ==
  /\ cpc = "unlock"
  /\ mutex' = NULL
  /\ cpc' = "free"
  /\ UNCHANGED <<queueVars, semaphore, ppc, pnode, cnode, celement, taken>>

\* free(node) and answer the element.
TakeFree ==
  /\ cpc = "free"
  /\ heap' = heap \ {cnode}
  /\ taken' = celement
  /\ cnode' = NULL
  /\ celement' = NULL
  /\ cpc' = "idle"
  /\ UNCHANGED <<first, last, mutex, semaphore, element, next, ppc, pnode, chain>>

Take ==
  \/ TakeWait \/ TakeWaitFails \/ TakeFirst \/ TakeElement \/ TakeLock
  \/ TakeUnlink \/ TakeLast \/ TakeUnlock \/ TakeFree

Next == (\E p \in Producers : Put(p)) \/ Take

Spec == Init /\ [][Next]_vars

(***************************************************************************)
(* A put that began goes on, and the worker loop (or the callback process) *)
(* calls take again and again.  The mutex is assumed not to starve a       *)
(* thread that waits for it (strong fairness of the two lock steps).       *)
(***************************************************************************)
Fairness ==
  /\ \A p \in Producers :
       /\ WF_vars(PutLink(p) \/ PutLast(p) \/ PutUnlock(p) \/ PutSignal(p))
       /\ SF_vars(PutLock(p))
  /\ WF_vars(TakeWait)
  /\ WF_vars(TakeFirst \/ TakeElement \/ TakeUnlink \/ TakeLast
             \/ TakeUnlock \/ TakeFree)
  /\ SF_vars(TakeLock)

FairSpec == Spec /\ Fairness

------------------------------------------------------------------------------
(***************************************************************************)
(* Properties                                                              *)
(***************************************************************************)
Linked(n) == \E i \in 1..Len(chain) : chain[i] = n

\* Producers between linking their node and signalling the semaphore.
Unsignalled == {p \in Producers : ppc[p] \in {"unlock", "signal"}}

\* 1 while the consumer has passed the wait and not yet unlinked a node.
Permit == IF cpc \in {"first", "element", "lock", "unlink"} THEN 1 ELSE 0

\* The elements in the queue, oldest first.
Contents == [i \in 1..Len(chain) |-> element[chain[i]]]

\* The element the consumer carries out of the queue, or the last answer.
Answer == IF cpc \in {"last", "unlock", "free"} THEN celement ELSE taken

\* The types of the queue, the nodes and the locals of put and take.
TypeOK ==
  /\ first \in Nodes \cup {NULL}
  /\ last \in Nodes \cup {NULL}
  /\ mutex \in Producers \cup {Consumer, NULL}
  /\ semaphore \in Nat
  /\ element \in [Nodes -> Elements]
  /\ next \in [Nodes -> Nodes \cup {NULL}]
  /\ heap \in SUBSET Nodes
  /\ ppc \in [Producers -> PutLabels]
  /\ pnode \in [Producers -> Nodes \cup {NULL}]
  /\ cpc \in TakeLabels
  /\ cnode \in Nodes \cup {NULL}
  /\ celement \in Elements \cup {NULL}
  /\ taken \in Elements \cup {NULL}
  /\ chain \in Seq(Nodes)

\* threadsafe_queue_take reads the head and its element before it locks.
\* Nevertheless a take that passed the wait finds a node (so worker_run never
\* sees the NULL task), the node is allocated, and it still is the head when
\* the mutex is held.
UnlockedReadIsSafe ==
  /\ cpc = "first" => first \in heap
  /\ cpc \in {"element", "lock", "unlink"} => cnode \in heap /\ cnode = first
  /\ cpc \in {"lock", "unlink"} => celement = element[first]

\* No lost and no surplus signal: what the semaphore counts, what the consumer
\* was granted and what producers have yet to signal add up to the nodes in
\* the queue.
SignalsMatchNodes ==
  semaphore + Permit + Cardinality(Unsignalled) = Len(chain)

\* Every node is freed once, after nobody can reach it: the heap holds exactly
\* the linked nodes, the ones producers still prepare and the one the consumer
\* is about to free.
HeapIsExact ==
  /\ \A n \in Nodes :
       n \in heap <=>
         \/ Linked(n)
         \/ \E p \in Producers : pnode[p] = n /\ ppc[p] \in {"lock", "link", "last"}
         \/ cnode = n /\ cpc \in {"last", "unlock", "free"}
  /\ \A i, j \in 1..Len(chain) : chain[i] = chain[j] => i = j
  /\ \A n \in Nodes : Linked(n) => ~(cnode = n /\ cpc \in {"last", "unlock", "free"})

\* The linked list is a thread-safe FIFO queue (PutLast and TakeUnlink are the
\* steps that take effect).
FIFO == INSTANCE FIFOQueue WITH queue <- Contents, out <- Answer
ImplementsFIFO == FIFO!Spec

\* What was put does not stay in the queue for ever: neither a signal nor the
\* mutex gets lost between producers and the consumer.
EventuallyTaken == \A n \in Nodes : Linked(n) ~> ~Linked(n)
==============================================================================
