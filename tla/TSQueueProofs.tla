---------------------------- MODULE TSQueueProofs ----------------------------
(***************************************************************************)
(* Proofs about the thread-safe queue, for any number of producers, nodes  *)
(* and elements: its type invariant, the three safety invariants that      *)
(* TLC checks on a small instance, and that it implements FIFOQueue.       *)
(***************************************************************************)
EXTENDS TSQueue, FiniteSetTheorems, SequenceTheorems, TLAPS

Preparing == {"lock", "link", "last"}     \* put owns a node nobody knows
Locked == {"link", "last", "unlock"}      \* put holds the mutex
Holding == {"element", "lock", "unlink"}  \* take has read the head
Outgoing == {"last", "unlock", "free"}    \* take owns the node it unlinked

\* The mutex has the one owner that is inside its critical section.
MutexInv ==
  /\ \A p \in Producers : ppc[p] \in Locked <=> mutex = p
  /\ cpc \in {"unlink", "last", "unlock"} <=> mutex = Consumer

\* The chain is the linked list from first to last.
ChainInv ==
  /\ \A i \in 1..Len(chain) : chain[i] \in heap
  /\ \A i, j \in 1..Len(chain) : chain[i] = chain[j] => i = j
  /\ \A i \in 1..(Len(chain) - 1) : next[chain[i]] = chain[i + 1]
  /\ Len(chain) > 0 => first = chain[1] /\ last = chain[Len(chain)]
  /\ Len(chain) = 0 /\ (\A p \in Producers : ppc[p] # "last") => first = NULL

\* What producers hold: nodes of their own, the one being linked reachable
\* from the end of the list.
ProducerInv ==
  /\ \A p \in Producers : ppc[p] \in Preparing =>
       /\ pnode[p] \in heap
       /\ \A i \in 1..Len(chain) : chain[i] # pnode[p]
       /\ \A q \in Producers : q # p /\ ppc[q] \in Preparing => pnode[q] # pnode[p]
  /\ \A p \in Producers : ppc[p] = "last" =>
       IF Len(chain) = 0 THEN first = pnode[p] ELSE next[last] = pnode[p]

\* What the consumer holds: the head, or the node it has unlinked.
ConsumerInv ==
  /\ cpc \in Holding => cnode = first
  /\ cpc \in {"lock", "unlink"} => celement = element[cnode]
  /\ cpc = "last" => Len(chain) = 0
  /\ cpc \in Outgoing =>
       /\ cnode \in heap
       /\ celement \in Elements
       /\ \A i \in 1..Len(chain) : chain[i] # cnode
       /\ \A p \in Producers : ppc[p] \in Preparing => pnode[p] # cnode

\* Nothing else is allocated.
NoLeak ==
  \A n \in heap :
    \/ Linked(n)
    \/ \E p \in Producers : pnode[p] = n /\ ppc[p] \in Preparing
    \/ cnode = n /\ cpc \in Outgoing

IInv ==
  /\ TypeOK
  /\ MutexInv
  /\ ChainInv
  /\ ProducerInv
  /\ ConsumerInv
  /\ SignalsMatchNodes
  /\ NoLeak

------------------------------------------------------------------------------

\* Only finitely many producers are between their link and their signal.
LEMMA UnsignalledFinite ==
  IsFiniteSet(Unsignalled) /\ Cardinality(Unsignalled) \in Nat
BY QueueAssumption, FS_Subset, FS_CardinalityType DEF Unsignalled

\* A consumer that passed the wait has a node: the reason why take may read
\* the head without the mutex.
LEMMA PermitMeansNode ==
  ASSUME IInv, cpc \in {"first", "element", "lock", "unlink"}
  PROVE  /\ Len(chain) \in Nat \ {0}
         /\ chain # <<>>
         /\ first = chain[1]
         /\ first \in heap
         /\ first \in Nodes
<1>1. Permit = 1
  BY DEF Permit
<1>2. Len(chain) \in Nat \ {0}
  BY <1>1, UnsignalledFinite DEF IInv, TypeOK, SignalsMatchNodes
<1> QED
  BY <1>2 DEF IInv, TypeOK, ChainInv

\* What is left of the list after its head is unlinked.
LEMMA UnlinkFacts ==
  ASSUME IInv, TakeUnlink
  PROVE  /\ chain' \in Seq(Nodes)
         /\ Len(chain') = Len(chain) - 1
         /\ \A i \in 1..Len(chain') : chain'[i] = chain[i + 1]
         /\ cnode = chain[1]
         /\ first = last <=> Len(chain) = 1
         /\ Len(chain) > 1 => next[cnode] = chain[2]
<1>1. cpc = "unlink" /\ chain' = Tail(chain)
  BY DEF TakeUnlink
<1>2. chain \in Seq(Nodes) /\ chain # <<>> /\ Len(chain) \in Nat \ {0} /\ first = chain[1]
  BY <1>1, PermitMeansNode DEF IInv, TypeOK
<1>3. /\ chain' \in Seq(Nodes)
      /\ Len(chain') = Len(chain) - 1
      /\ \A i \in 1..Len(chain') : chain'[i] = chain[i + 1]
  BY <1>1, <1>2, HeadTailProperties
<1>4. cnode = chain[1]
  BY <1>1, <1>2 DEF IInv, ConsumerInv, Holding
<1>5. first = last <=> Len(chain) = 1
  <2>1. 1 \in 1..Len(chain) /\ Len(chain) \in 1..Len(chain)
    BY <1>2
  <2>2. last = chain[Len(chain)]
    BY <1>2 DEF IInv, ChainInv
  <2>3. chain[1] = chain[Len(chain)] => 1 = Len(chain)
    BY <2>1 DEF IInv, ChainInv
  <2> QED
    BY <1>2, <2>2, <2>3
<1>6. Len(chain) > 1 => next[cnode] = chain[2]
  <2> SUFFICES ASSUME Len(chain) > 1 PROVE next[cnode] = chain[2]
    OBVIOUS
  <2>1. 1 \in 1..(Len(chain) - 1)
    BY <1>2
  <2> QED
    BY <2>1, <1>4 DEF IInv, ChainInv
<1> QED
  BY <1>3, <1>4, <1>5, <1>6

\* Every step keeps the types.
LEMMA TypeStep == IInv /\ [Next]_vars => TypeOK'
<1> SUFFICES ASSUME IInv, [Next]_vars PROVE TypeOK'
  OBVIOUS
<1> USE QueueAssumption DEF IInv, TypeOK, MutexInv, ConsumerInv, ChainInv, PutLabels, TakeLabels
<1>1. ASSUME NEW p \in Producers, PutAllocate(p) PROVE TypeOK'
  BY <1>1 DEF PutAllocate, queueVars
<1>2. ASSUME NEW p \in Producers, PutLock(p) PROVE TypeOK'
  BY <1>2 DEF PutLock, queueVars
<1>3. ASSUME NEW p \in Producers, PutLink(p) PROVE TypeOK'
  <2>1. first' \in Nodes \cup {NULL}
    BY <1>3 DEF PutLink
  <2>2. next' \in [Nodes -> Nodes \cup {NULL}]
    BY <1>3 DEF PutLink
  <2>3. ppc' \in [Producers -> PutLabels]
    BY <1>3 DEF PutLink
  <2> QED
    BY <1>3, <2>1, <2>2, <2>3 DEF PutLink
<1>4. ASSUME NEW p \in Producers, PutLast(p) PROVE TypeOK'
  BY <1>4, AppendProperties DEF PutLast, ProducerInv, Preparing
<1>5. ASSUME NEW p \in Producers, PutUnlock(p) PROVE TypeOK'
  BY <1>5 DEF PutUnlock, queueVars
<1>6. ASSUME NEW p \in Producers, PutSignal(p) PROVE TypeOK'
  BY <1>6 DEF PutSignal, queueVars
<1>7. CASE TakeWait
  BY <1>7 DEF TakeWait, queueVars
<1>8. CASE TakeWaitFails
  BY <1>8 DEF TakeWaitFails, queueVars
<1>9. CASE TakeFirst
  BY <1>9 DEF TakeFirst, queueVars
<1>10. CASE TakeElement
  BY <1>10, PermitMeansNode DEF TakeElement, queueVars, Holding
<1>11. CASE TakeLock
  BY <1>11 DEF TakeLock, queueVars
<1>12. CASE TakeUnlink
  BY <1>12, UnlinkFacts DEF TakeUnlink, queueVars
<1>13. CASE TakeLast
  BY <1>13 DEF TakeLast, queueVars
<1>14. CASE TakeUnlock
  BY <1>14 DEF TakeUnlock, queueVars
<1>15. CASE TakeFree
  BY <1>15 DEF TakeFree, queueVars
<1>16. CASE UNCHANGED vars
  BY <1>16 DEF vars
<1> QED
  BY <1>1, <1>2, <1>3, <1>4, <1>5, <1>6, <1>7, <1>8, <1>9, <1>10, <1>11, <1>12, <1>13, <1>14, <1>15, <1>16 DEF Next, Put, Take

\* Every step keeps the mutex with the thread in its critical section.
LEMMA MutexStep == IInv /\ [Next]_vars => MutexInv'
<1> SUFFICES ASSUME IInv, [Next]_vars PROVE MutexInv'
  OBVIOUS
<1> USE QueueAssumption DEF IInv, TypeOK, MutexInv, Locked, PutLabels, TakeLabels
<1>1. ASSUME NEW p \in Producers, PutAllocate(p) PROVE MutexInv'
  BY <1>1 DEF PutAllocate, queueVars
<1>2. ASSUME NEW p \in Producers, PutLock(p) PROVE MutexInv'
  BY <1>2 DEF PutLock, queueVars
<1>3. ASSUME NEW p \in Producers, PutLink(p) PROVE MutexInv'
  BY <1>3 DEF PutLink, queueVars
<1>4. ASSUME NEW p \in Producers, PutLast(p) PROVE MutexInv'
  BY <1>4 DEF PutLast, queueVars
<1>5. ASSUME NEW p \in Producers, PutUnlock(p) PROVE MutexInv'
  BY <1>5 DEF PutUnlock, queueVars
<1>6. ASSUME NEW p \in Producers, PutSignal(p) PROVE MutexInv'
  BY <1>6 DEF PutSignal, queueVars
<1>7. CASE TakeWait
  BY <1>7 DEF TakeWait, queueVars
<1>8. CASE TakeWaitFails
  BY <1>8 DEF TakeWaitFails, queueVars
<1>9. CASE TakeFirst
  BY <1>9 DEF TakeFirst, queueVars
<1>10. CASE TakeElement
  BY <1>10 DEF TakeElement, queueVars
<1>11. CASE TakeLock
  BY <1>11 DEF TakeLock, queueVars
<1>12. CASE TakeUnlink
  BY <1>12, UnlinkFacts DEF TakeUnlink, queueVars
<1>13. CASE TakeLast
  BY <1>13 DEF TakeLast, queueVars
<1>14. CASE TakeUnlock
  BY <1>14 DEF TakeUnlock, queueVars
<1>15. CASE TakeFree
  BY <1>15 DEF TakeFree, queueVars
<1>16. CASE UNCHANGED vars
  BY <1>16 DEF vars
<1> QED
  BY <1>1, <1>2, <1>3, <1>4, <1>5, <1>6, <1>7, <1>8, <1>9, <1>10, <1>11, <1>12, <1>13, <1>14, <1>15, <1>16 DEF Next, Put, Take

\* Every step keeps the list linked from first to last.
LEMMA ChainStep == IInv /\ [Next]_vars => ChainInv'
<1> SUFFICES ASSUME IInv, [Next]_vars PROVE ChainInv'
  OBVIOUS
<1> USE QueueAssumption DEF IInv, TypeOK, MutexInv, ConsumerInv, ChainInv, ProducerInv, Preparing, Locked, Holding, Outgoing, SignalsMatchNodes, Permit
<1>1. ASSUME NEW p \in Producers, PutAllocate(p) PROVE ChainInv'
  BY <1>1 DEF PutAllocate, queueVars
<1>2. ASSUME NEW p \in Producers, PutLock(p) PROVE ChainInv'
  BY <1>2 DEF PutLock, queueVars
<1>3. ASSUME NEW p \in Producers, PutLink(p) PROVE ChainInv'
  BY <1>3 DEF PutLink, queueVars
<1>4. ASSUME NEW p \in Producers, PutLast(p) PROVE ChainInv'
  BY <1>4 DEF PutLast, queueVars
<1>5. ASSUME NEW p \in Producers, PutUnlock(p) PROVE ChainInv'
  BY <1>5 DEF PutUnlock, queueVars
<1>6. ASSUME NEW p \in Producers, PutSignal(p) PROVE ChainInv'
  BY <1>6 DEF PutSignal, queueVars
<1>7. CASE TakeWait
  BY <1>7 DEF TakeWait, queueVars
<1>8. CASE TakeWaitFails
  BY <1>8 DEF TakeWaitFails, queueVars
<1>9. CASE TakeFirst
  BY <1>9 DEF TakeFirst, queueVars
<1>10. CASE TakeElement
  BY <1>10 DEF TakeElement, queueVars
<1>11. CASE TakeLock
  BY <1>11 DEF TakeLock, queueVars
<1>12. CASE TakeUnlink
  BY <1>12, UnlinkFacts DEF TakeUnlink, queueVars
<1>13. CASE TakeLast
  BY <1>13 DEF TakeLast, queueVars
<1>14. CASE TakeUnlock
  BY <1>14 DEF TakeUnlock, queueVars
<1>15. CASE TakeFree
  BY <1>15 DEF TakeFree, queueVars
<1>16. CASE UNCHANGED vars
  BY <1>16 DEF vars
<1> QED
  BY <1>1, <1>2, <1>3, <1>4, <1>5, <1>6, <1>7, <1>8, <1>9, <1>10, <1>11, <1>12, <1>13, <1>14, <1>15, <1>16 DEF Next, Put, Take

\* Every step keeps what producers hold.
LEMMA ProducerStep == IInv /\ [Next]_vars => ProducerInv'
<1> SUFFICES ASSUME IInv, [Next]_vars PROVE ProducerInv'
  OBVIOUS
<1> USE QueueAssumption DEF IInv, TypeOK, MutexInv, ConsumerInv, ChainInv, ProducerInv, Preparing, Locked, Holding, Outgoing
<1>1. ASSUME NEW p \in Producers, PutAllocate(p) PROVE ProducerInv'
  BY <1>1 DEF PutAllocate, queueVars
<1>2. ASSUME NEW p \in Producers, PutLock(p) PROVE ProducerInv'
  BY <1>2 DEF PutLock, queueVars
<1>3. ASSUME NEW p \in Producers, PutLink(p) PROVE ProducerInv'
  BY <1>3 DEF PutLink, queueVars
<1>4. ASSUME NEW p \in Producers, PutLast(p) PROVE ProducerInv'
  BY <1>4 DEF PutLast, queueVars
<1>5. ASSUME NEW p \in Producers, PutUnlock(p) PROVE ProducerInv'
  BY <1>5 DEF PutUnlock, queueVars
<1>6. ASSUME NEW p \in Producers, PutSignal(p) PROVE ProducerInv'
  BY <1>6 DEF PutSignal, queueVars
<1>7. CASE TakeWait
  BY <1>7 DEF TakeWait, queueVars
<1>8. CASE TakeWaitFails
  BY <1>8 DEF TakeWaitFails, queueVars
<1>9. CASE TakeFirst
  BY <1>9 DEF TakeFirst, queueVars
<1>10. CASE TakeElement
  BY <1>10 DEF TakeElement, queueVars
<1>11. CASE TakeLock
  BY <1>11 DEF TakeLock, queueVars
<1>12. CASE TakeUnlink
  BY <1>12, UnlinkFacts DEF TakeUnlink, queueVars
<1>13. CASE TakeLast
  BY <1>13 DEF TakeLast, queueVars
<1>14. CASE TakeUnlock
  BY <1>14 DEF TakeUnlock, queueVars
<1>15. CASE TakeFree
  BY <1>15 DEF TakeFree, queueVars
<1>16. CASE UNCHANGED vars
  BY <1>16 DEF vars
<1> QED
  BY <1>1, <1>2, <1>3, <1>4, <1>5, <1>6, <1>7, <1>8, <1>9, <1>10, <1>11, <1>12, <1>13, <1>14, <1>15, <1>16 DEF Next, Put, Take

\* Every step keeps what the consumer holds.
LEMMA ConsumerStep == IInv /\ [Next]_vars => ConsumerInv'
<1> SUFFICES ASSUME IInv, [Next]_vars PROVE ConsumerInv'
  OBVIOUS
<1> USE QueueAssumption DEF IInv, TypeOK, MutexInv, ConsumerInv, ChainInv, ProducerInv, Preparing, Locked, Holding, Outgoing
<1>1. ASSUME NEW p \in Producers, PutAllocate(p) PROVE ConsumerInv'
  BY <1>1 DEF PutAllocate, queueVars
<1>2. ASSUME NEW p \in Producers, PutLock(p) PROVE ConsumerInv'
  BY <1>2 DEF PutLock, queueVars
<1>3. ASSUME NEW p \in Producers, PutLink(p) PROVE ConsumerInv'
  BY <1>3, PermitMeansNode DEF PutLink, queueVars
<1>4. ASSUME NEW p \in Producers, PutLast(p) PROVE ConsumerInv'
  BY <1>4 DEF PutLast, queueVars
<1>5. ASSUME NEW p \in Producers, PutUnlock(p) PROVE ConsumerInv'
  BY <1>5 DEF PutUnlock, queueVars
<1>6. ASSUME NEW p \in Producers, PutSignal(p) PROVE ConsumerInv'
  BY <1>6 DEF PutSignal, queueVars
<1>7. CASE TakeWait
  BY <1>7 DEF TakeWait, queueVars
<1>8. CASE TakeWaitFails
  BY <1>8 DEF TakeWaitFails, queueVars
<1>9. CASE TakeFirst
  BY <1>9 DEF TakeFirst, queueVars
<1>10. CASE TakeElement
  BY <1>10 DEF TakeElement, queueVars
<1>11. CASE TakeLock
  BY <1>11 DEF TakeLock, queueVars
<1>12. CASE TakeUnlink
  BY <1>12, UnlinkFacts DEF TakeUnlink, queueVars
<1>13. CASE TakeLast
  BY <1>13 DEF TakeLast, queueVars
<1>14. CASE TakeUnlock
  BY <1>14 DEF TakeUnlock, queueVars
<1>15. CASE TakeFree
  BY <1>15 DEF TakeFree, queueVars
<1>16. CASE UNCHANGED vars
  BY <1>16 DEF vars
<1> QED
  BY <1>1, <1>2, <1>3, <1>4, <1>5, <1>6, <1>7, <1>8, <1>9, <1>10, <1>11, <1>12, <1>13, <1>14, <1>15, <1>16 DEF Next, Put, Take

\* Every step keeps the heap free of leaks.
LEMMA NoLeakStep == IInv /\ [Next]_vars => NoLeak'
<1> SUFFICES ASSUME IInv, [Next]_vars PROVE NoLeak'
  OBVIOUS
<1> USE QueueAssumption DEF IInv, TypeOK, NoLeak, Linked, MutexInv, ConsumerInv, ChainInv, ProducerInv, Preparing, Locked, Holding, Outgoing
<1>1. ASSUME NEW p \in Producers, PutAllocate(p) PROVE NoLeak'
  BY <1>1 DEF PutAllocate, queueVars
<1>2. ASSUME NEW p \in Producers, PutLock(p) PROVE NoLeak'
  BY <1>2 DEF PutLock, queueVars
<1>3. ASSUME NEW p \in Producers, PutLink(p) PROVE NoLeak'
  BY <1>3 DEF PutLink, queueVars
<1>4. ASSUME NEW p \in Producers, PutLast(p) PROVE NoLeak'
  BY <1>4 DEF PutLast, queueVars
<1>5. ASSUME NEW p \in Producers, PutUnlock(p) PROVE NoLeak'
  BY <1>5 DEF PutUnlock, queueVars
<1>6. ASSUME NEW p \in Producers, PutSignal(p) PROVE NoLeak'
  BY <1>6 DEF PutSignal, queueVars
<1>7. CASE TakeWait
  BY <1>7 DEF TakeWait, queueVars
<1>8. CASE TakeWaitFails
  BY <1>8 DEF TakeWaitFails, queueVars
<1>9. CASE TakeFirst
  BY <1>9 DEF TakeFirst, queueVars
<1>10. CASE TakeElement
  BY <1>10 DEF TakeElement, queueVars
<1>11. CASE TakeLock
  BY <1>11 DEF TakeLock, queueVars
<1>12. CASE TakeUnlink
  <2>1. cpc' \in Outgoing /\ cnode' = cnode /\ cnode = chain[1] /\ heap' = heap
        /\ pnode' = pnode /\ ppc' = ppc /\ cpc \notin Outgoing
    BY <1>12, UnlinkFacts DEF TakeUnlink
  <2>2. ASSUME NEW n \in heap, Linked(n) PROVE Linked(n)' \/ cnode = n
    <3>1. PICK i \in 1..Len(chain) : chain[i] = n
      BY <2>2
    <3>2. CASE i = 1
      BY <2>1, <3>1, <3>2
    <3>3. CASE i > 1
      <4>1. i - 1 \in 1..Len(chain') /\ chain'[i - 1] = chain[(i - 1) + 1]
        BY <1>12, <3>1, <3>3, UnlinkFacts
      <4> QED
        BY <3>1, <4>1
    <3> QED
      BY <3>1, <3>2, <3>3
  <2> QED
    BY <2>1, <2>2
<1>13. CASE TakeLast
  BY <1>13 DEF TakeLast, queueVars
<1>14. CASE TakeUnlock
  BY <1>14 DEF TakeUnlock, queueVars
<1>15. CASE TakeFree
  BY <1>15 DEF TakeFree, queueVars
<1>16. CASE UNCHANGED vars
  BY <1>16 DEF vars
<1> QED
  BY <1>1, <1>2, <1>3, <1>4, <1>5, <1>6, <1>7, <1>8, <1>9, <1>10, <1>11, <1>12, <1>13, <1>14, <1>15, <1>16 DEF Next, Put, Take

\* Every step keeps the count of signals equal to the count of nodes.
LEMMA SignalsStep == IInv /\ [Next]_vars => SignalsMatchNodes'
<1> SUFFICES ASSUME IInv, [Next]_vars PROVE SignalsMatchNodes'
  OBVIOUS
<1> USE QueueAssumption DEF IInv, TypeOK, SignalsMatchNodes
<1>0. /\ Len(chain) \in Nat /\ semaphore \in Nat
      /\ IsFiniteSet(Unsignalled) /\ Cardinality(Unsignalled) \in Nat
  BY UnsignalledFinite
<1>1. ASSUME NEW p \in Producers, PutLast(p) PROVE SignalsMatchNodes'
  <2>1. Unsignalled' = Unsignalled \cup {p} /\ p \notin Unsignalled
    BY <1>1 DEF PutLast, Unsignalled, PutLabels
  <2>2. Len(chain') = Len(chain) + 1
    BY <1>1, AppendProperties DEF PutLast, MutexInv, Locked, ProducerInv, Preparing
  <2>3. Permit' = Permit /\ Permit \in Nat /\ semaphore' = semaphore
    BY <1>1 DEF PutLast, Permit
  <2>4. Cardinality(Unsignalled') = Cardinality(Unsignalled) + 1
    BY <2>1, <1>0, FS_AddElement
  <2> QED
    BY <1>0, <2>2, <2>3, <2>4
<1>2. ASSUME NEW p \in Producers, PutSignal(p) PROVE SignalsMatchNodes'
  <2>1. Unsignalled' = Unsignalled \ {p} /\ p \in Unsignalled
    BY <1>2 DEF PutSignal, Unsignalled, PutLabels
  <2>2. Cardinality(Unsignalled') = Cardinality(Unsignalled) - 1
    BY <2>1, <1>0, FS_RemoveElement
  <2>3. Permit' = Permit /\ Permit \in Nat /\ chain' = chain
    BY <1>2 DEF PutSignal, Permit, queueVars
  <2>4. semaphore' = semaphore + 1
    BY <1>2 DEF PutSignal
  <2> QED
    BY <1>0, <2>2, <2>3, <2>4
<1>3. ASSUME NEW p \in Producers,
             PutAllocate(p) \/ PutLock(p) \/ PutLink(p) \/ PutUnlock(p)
      PROVE  SignalsMatchNodes'
  <2>1. Unsignalled' = Unsignalled
    BY <1>3 DEF PutAllocate, PutLock, PutLink, PutUnlock, Unsignalled, PutLabels
  <2>2. Permit' = Permit /\ chain' = chain /\ semaphore' = semaphore
    BY <1>3 DEF PutAllocate, PutLock, PutLink, PutUnlock, Permit, queueVars
  <2> QED
    BY <2>1, <2>2
<1>4. CASE Take
  <2>1. Unsignalled' = Unsignalled
    BY <1>4 DEF Take, TakeWait, TakeWaitFails, TakeFirst, TakeElement, TakeLock,
         TakeUnlink, TakeLast, TakeUnlock, TakeFree, Unsignalled
  <2>2. CASE TakeUnlink
    <3>1. Permit = 1 /\ Permit' = 0 /\ semaphore' = semaphore
      BY <2>2 DEF TakeUnlink, Permit
    <3>2. Len(chain') = Len(chain) - 1
      BY <2>2, UnlinkFacts
    <3> QED
      BY <1>0, <2>1, <3>1, <3>2
  <2>3. CASE TakeWait
    <3>1. Permit = 0 /\ Permit' = 1 /\ semaphore' = semaphore - 1 /\ chain' = chain
      BY <2>3 DEF TakeWait, Permit, queueVars
    <3> QED
      BY <1>0, <2>1, <3>1
  <2>4. CASE TakeWaitFails \/ TakeFirst \/ TakeElement \/ TakeLock \/ TakeLast
             \/ TakeUnlock \/ TakeFree
    <3>1. Permit' = Permit /\ semaphore' = semaphore /\ chain' = chain
      BY <2>4, PermitMeansNode DEF TakeWaitFails, TakeFirst, TakeElement, TakeLock,
           TakeLast, TakeUnlock, TakeFree, Permit, queueVars
    <3> QED
      BY <2>1, <3>1
  <2> QED
    BY <1>4, <2>2, <2>3, <2>4 DEF Take
<1>5. CASE UNCHANGED vars
  BY <1>5 DEF vars, Permit, Unsignalled
<1> QED
  BY <1>1, <1>2, <1>3, <1>4, <1>5 DEF Next, Put

\* A new queue satisfies the invariant.
LEMMA InitInv == Init => IInv
<1> SUFFICES ASSUME Init PROVE IInv
  OBVIOUS
<1> USE QueueAssumption DEF Init
<1>1. chain \in Seq(Nodes) /\ Len(chain) = 0
  BY EmptySeq
<1>2. TypeOK
  BY <1>1 DEF TypeOK, PutLabels, TakeLabels
<1>3. Unsignalled = {} /\ Permit = 0
  BY DEF Unsignalled, Permit
<1>4. SignalsMatchNodes
  BY <1>1, <1>3, FS_EmptySet DEF SignalsMatchNodes
<1>5. MutexInv
  BY DEF MutexInv, Locked
<1> QED
  BY <1>1, <1>2, <1>4, <1>5 DEF IInv, ChainInv, ProducerInv, ConsumerInv, NoLeak,
       Preparing, Holding, Outgoing

\* The invariant is inductive: it holds in every state of the queue.
THEOREM Invariance == Spec => []IInv
<1>1. IInv /\ [Next]_vars => IInv'
  BY TypeStep, MutexStep, ChainStep, ProducerStep, ConsumerStep, SignalsStep,
     NoLeakStep DEF IInv
<1> QED
  BY <1>1, InitInv, PTL DEF Spec

\* The fields of the queue, the nodes and the locals of put and take keep
\* their types, whatever threads put and take.
THEOREM TypeCorrect == Spec => []TypeOK
<1>1. IInv => TypeOK
  BY DEF IInv
<1> QED
  BY <1>1, Invariance, PTL

\* The head and the element that threadsafe_queue_take reads without the mutex
\* are those of an allocated node that is still the head once it has locked.
THEOREM UnlockedReadSafe == Spec => []UnlockedReadIsSafe
<1>1. IInv => UnlockedReadIsSafe
  <2> SUFFICES ASSUME IInv PROVE UnlockedReadIsSafe
    OBVIOUS
  <2> QED
    BY PermitMeansNode DEF IInv, ConsumerInv, Holding, UnlockedReadIsSafe
<1> QED
  BY <1>1, Invariance, PTL

\* The semaphore counts the nodes: no signal is lost and none is in excess.
THEOREM SignalsExact == Spec => []SignalsMatchNodes
<1>1. IInv => SignalsMatchNodes
  BY DEF IInv
<1> QED
  BY <1>1, Invariance, PTL

\* Every node put allocates is freed once, by the take that returns its
\* element: none leaks and none is freed while it can be reached.
THEOREM HeapExact == Spec => []HeapIsExact
<1>1. IInv => HeapIsExact
  BY DEF IInv, ChainInv, ProducerInv, ConsumerInv, NoLeak, HeapIsExact, Linked,
     Preparing, Outgoing, TypeOK
<1> QED
  BY <1>1, Invariance, PTL

------------------------------------------------------------------------------
(***************************************************************************)
(* Refinement.                                                             *)
(***************************************************************************)
\* The last write of put adds its element at the end of the abstract queue.
LEMMA PutRefines ==
  ASSUME IInv, NEW p \in Producers, PutLast(p)
  PROVE  FIFO!Put(element[pnode[p]]) /\ element[pnode[p]] \in Elements
<1>1. /\ pnode[p] \in Nodes /\ element' = element /\ chain \in Seq(Nodes)
      /\ chain' = Append(chain, pnode[p])
  BY DEF IInv, TypeOK, ProducerInv, Preparing, PutLast
<1>2. /\ Len(chain) \in Nat
      /\ Len(chain') = Len(chain) + 1
      /\ \A i \in 1..Len(chain) : chain'[i] = chain[i]
      /\ chain'[Len(chain) + 1] = pnode[p]
  BY <1>1, AppendProperties
<1>3. Contents \in Seq(Elements) /\ Len(Contents) = Len(chain)
      /\ \A i \in 1..Len(chain) : Contents[i] = element[chain[i]]
  BY <1>1, <1>2 DEF Contents, IInv, TypeOK
<1>4. element[pnode[p]] \in Elements
  BY <1>1 DEF IInv, TypeOK
<1>5. Contents' = Append(Contents, element[pnode[p]])
  <2>1. Contents' \in Seq(Elements) /\ Len(Contents') = Len(chain) + 1
        /\ \A i \in 1..(Len(chain) + 1) : Contents'[i] = element[chain'[i]]
    <3>1. chain' \in Seq(Nodes)
      BY <1>1, AppendProperties
    <3> QED
      BY <1>1, <1>2, <3>1 DEF Contents, IInv, TypeOK
  <2> DEFINE after == Append(Contents, element[pnode[p]])
  <2>2. after \in Seq(Elements) /\ Len(after) = Len(chain) + 1
        /\ \A i \in 1..Len(chain) : after[i] = Contents[i]
        /\ after[Len(chain) + 1] = element[pnode[p]]
    BY <1>3, <1>4, AppendProperties
  <2>3. \A i \in 1..(Len(chain) + 1) : Contents'[i] = after[i]
    BY <1>2, <1>3, <2>1, <2>2
  <2> QED
    BY <2>1, <2>2, <2>3, SeqEqual
<1>6. Answer' = Answer
  BY DEF PutLast, Answer
<1> QED
  BY <1>4, <1>5, <1>6 DEF FIFO!Put

\* Unlinking the head takes the oldest element out of the abstract queue.
LEMMA TakeRefines ==
  ASSUME IInv, TakeUnlink
  PROVE  FIFO!Take
<1>1. /\ chain \in Seq(Nodes) /\ chain' \in Seq(Nodes)
      /\ Len(chain) \in Nat \ {0}
      /\ Len(chain') = Len(chain) - 1
      /\ \A i \in 1..Len(chain') : chain'[i] = chain[i + 1]
      /\ element' = element /\ element \in [Nodes -> Elements]
  BY UnlinkFacts, PermitMeansNode DEF IInv, TypeOK, TakeUnlink
<1>2. Contents \in Seq(Elements) /\ Len(Contents) = Len(chain)
      /\ \A i \in 1..Len(chain) : Contents[i] = element[chain[i]]
  BY <1>1 DEF Contents
<1>3. Contents' \in Seq(Elements) /\ Len(Contents') = Len(chain) - 1
      /\ \A i \in 1..(Len(chain) - 1) : Contents'[i] = element[chain[i + 1]]
  BY <1>1 DEF Contents
<1>4. Contents # <<>>
  BY <1>1, <1>2
<1>5. Contents' = Tail(Contents)
  <2>1. Tail(Contents) \in Seq(Elements) /\ Len(Tail(Contents)) = Len(chain) - 1
        /\ \A i \in 1..(Len(chain) - 1) : Tail(Contents)[i] = Contents[i + 1]
    BY <1>2, <1>4, HeadTailProperties
  <2>2. ASSUME NEW i \in 1..(Len(chain) - 1) PROVE Contents'[i] = Tail(Contents)[i]
    <3>1. i + 1 \in 1..Len(chain)
      BY <1>1
    <3>2. Contents[i + 1] = element[chain[i + 1]]
      BY <1>2, <3>1
    <3>3. Contents'[i] = element[chain[i + 1]]
      BY <1>3
    <3>4. Tail(Contents)[i] = Contents[i + 1]
      BY <2>1
    <3> QED
      BY <3>2, <3>3, <3>4
  <2> QED
    BY <1>3, <2>1, <2>2, SeqEqual
<1>6. Answer' = Head(Contents)
  <2>1. Head(Contents) = element[chain[1]]
    BY <1>1, <1>2, <1>4
  <2>2. Answer' = celement
    BY DEF TakeUnlink, Answer
  <2>3. celement = element[chain[1]]
    BY UnlinkFacts DEF TakeUnlink, IInv, ConsumerInv
  <2> QED
    BY <2>1, <2>2, <2>3
<1> QED
  BY <1>4, <1>5, <1>6 DEF FIFO!Take

\* Allocating a node does not touch the elements that are in the queue.
LEMMA AllocateStutters ==
  ASSUME IInv, NEW p \in Producers, PutAllocate(p)
  PROVE  Contents' = Contents /\ Answer' = Answer
<1>1. chain' = chain /\ Answer' = Answer /\ Len(chain) \in Nat
  BY DEF PutAllocate, Answer, IInv, TypeOK
<1>2. \A i \in 1..Len(chain) : element'[chain[i]] = element[chain[i]]
  BY DEF PutAllocate, IInv, TypeOK, ChainInv
<1> QED
  BY <1>1, <1>2 DEF Contents

\* The linked list implements the FIFO queue: the theorem worker.c and
\* callbacks.c rely on, and the reason why the other modules may treat their
\* queues as sequences.
THEOREM Refinement == Spec => ImplementsFIFO
<1>1. Init => FIFO!Init
  <2> SUFFICES ASSUME Init PROVE Contents = <<>> /\ Answer = NULL
    BY DEF FIFO!Init
  <2>1. Len(chain) = 0
    BY EmptySeq DEF Init
  <2>2. Contents = <<>>
    <3>1. 1..Len(chain) = {}
      BY <2>1
    <3> QED
      BY <3>1 DEF Contents
  <2> QED
    BY <2>2 DEF Init, Answer
<1>2. IInv /\ [Next]_vars => [FIFO!Next]_(FIFO!vars)
  <2> SUFFICES ASSUME IInv, [Next]_vars PROVE FIFO!Next \/ UNCHANGED FIFO!vars
    OBVIOUS
  <2>1. ASSUME NEW p \in Producers, PutAllocate(p) PROVE UNCHANGED FIFO!vars
    BY <2>1, AllocateStutters DEF FIFO!vars
  <2>2. ASSUME NEW p \in Producers,
               PutLock(p) \/ PutLink(p) \/ PutUnlock(p) \/ PutSignal(p)
        PROVE  UNCHANGED FIFO!vars
    BY <2>2 DEF FIFO!vars, PutLock, PutLink, PutUnlock, PutSignal, queueVars,
         Contents, Answer
  <2>3. ASSUME NEW p \in Producers, PutLast(p) PROVE FIFO!Next
    BY <2>3, PutRefines DEF FIFO!Next
  <2>4. CASE TakeUnlink
    BY <2>4, TakeRefines DEF FIFO!Next
  <2>5. CASE TakeWaitFails
    BY <2>5 DEF TakeWaitFails, FIFO!Next, FIFO!TakeNothing, Contents, Answer, queueVars
  <2>6. CASE TakeFirst
    BY <2>6, PermitMeansNode, QueueAssumption DEF TakeFirst, FIFO!vars, Contents,
         Answer, queueVars
  <2>7. CASE TakeWait \/ TakeElement \/ TakeLock \/ TakeLast \/ TakeUnlock \/ TakeFree
    BY <2>7 DEF TakeWait, TakeElement, TakeLock, TakeLast, TakeUnlock, TakeFree,
         FIFO!vars, Contents, Answer, queueVars
  <2>8. CASE UNCHANGED vars
    BY <2>8 DEF vars, FIFO!vars, Contents, Answer
  <2> QED
    BY <2>1, <2>2, <2>3, <2>4, <2>5, <2>6, <2>7, <2>8 DEF Next, Put, Take
<1> QED
  BY <1>1, <1>2, Invariance, PTL DEF Spec, ImplementsFIFO, FIFO!Spec
==============================================================================
