------------------------ MODULE PooledCalloutsProofs ------------------------
(***************************************************************************)
(* Proofs about pooled calls, for any callers, pool size, table and bounds.*)
(***************************************************************************)
EXTENDS PooledCallouts, SequenceLemmas

\* A process holds a semaphore during its calls.
HeldInv == \A c \in Callers : held[c] # NULL <=> pc[c] # "idle"

\* The slots that were taken are not more than the processes in a call.
Holders == {c \in Callers : held[c] # NULL}
CountInv == pool.pointer - 1 <= Cardinality(Holders)

PoolInv ==
  /\ TypeOK
  /\ HeldInv
  /\ SemaphoresAreExclusive
  /\ CountInv
  /\ PoolIsBounded

\* A pending task belongs to a call whose process waits, and holds the index of the
\* semaphore that this process took.
TaskInv ==
  /\ \A k \in 1..Len(tasks) : \E c \in Callers :
       /\ tasks[k].call = Call(c) /\ tasks[k].index = index[held[c]]
       /\ pc[c] \in {"called", "waiting"} /\ Call(c) \notin finished
  /\ \A j, k \in 1..Len(tasks) : tasks[j].call = tasks[k].call => j = k

\* A semaphore holds a signal only for a call whose function came back.
SignalInv ==
  \A s \in DOMAIN index : excess[s] > 0 =>
    \E c \in Callers : /\ held[c] = s /\ Call(c) \in finished
                       /\ pc[c] \in {"called", "waiting", "reading", "resetting"}

\* Calls are numbered, and finish once they were made.
FinishedInv ==
  /\ \A call \in finished : call[2] <= started[call[1]]
  /\ \A c \in Callers : pc[c] = "taken" => Call(c) \notin finished

\* The table knows every semaphore that is lent or in the pool by its index.
RegisteredInv ==
  \A s \in DOMAIN index :
    (\E c \in Callers : held[c] = s) \/ (\E k \in Slots : pool.elements[k] = s)
      => table[index[s]] = s

SignalsInv == TaskInv /\ SignalInv /\ FinishedInv /\ RegisteredInv /\ ResultIsReady

------------------------------------------------------------------------------
(***************************************************************************)
(* The registry of external objects                                        *)
(***************************************************************************)
Indices == 1..MaxIndex

\* Free indices are counted from 1.
LEMMA RankType ==
  ASSUME NEW t, NEW x \in Indices
  PROVE  /\ IsFiniteSet({y \in 1..x : t[y] = NULL})
         /\ Rank(t, x) \in Nat
         /\ t[x] = NULL => Rank(t, x) >= 1
<1> DEFINE F == {y \in 1..x : t[y] = NULL}
<1>1. x \in Nat /\ 1 \in Int /\ x \in Int /\ x \in 1..x
  BY PoolAssumption DEF Indices
<1>2. IsFiniteSet(1..x)
  BY <1>1, FS_Interval
<1>3. F \subseteq 1..x
  OBVIOUS
<1>4. IsFiniteSet(F)
  BY <1>2, <1>3, FS_Subset
<1>5. Cardinality(F) \in Nat
  BY <1>4, FS_CardinalityType
<1>6. t[x] = NULL => Cardinality(F) # 0
  BY <1>1, <1>4, FS_EmptySet
<1> QED
  BY <1>4, <1>5, <1>6 DEF Rank

\* Different free indices have different ranks.
LEMMA RankUnique ==
  ASSUME NEW t, NEW x \in Indices, NEW y \in Indices,
         t[x] = NULL, t[y] = NULL, Rank(t, x) = Rank(t, y)
  PROVE  x = y
<1>1. ASSUME NEW a \in Indices, NEW b \in Indices, t[a] = NULL, t[b] = NULL,
             Rank(t, a) = Rank(t, b), a < b
      PROVE  FALSE
  <2> DEFINE F == {k \in 1..a : t[k] = NULL}
             G == {k \in 1..b : t[k] = NULL}
  <2>1. a \in Int /\ b \in Int /\ b \in 1..b /\ b \notin 1..a /\ 1..a \subseteq 1..b
    BY <1>1 DEF Indices
  <2>2. F \subseteq G /\ b \in G /\ b \notin F
    BY <1>1, <2>1
  <2>3. IsFiniteSet(G) /\ Cardinality(F) = Cardinality(G)
    BY <1>1, RankType DEF Rank
  <2>4. F = G
    BY <2>2, <2>3, FS_Subset
  <2> QED
    BY <2>2, <2>4
<1>2. x \in Int /\ y \in Int
  BY DEF Indices
<1>3. x < y \/ y < x \/ x = y
  BY <1>2
<1> QED
  BY <1>1, <1>3

\* What populate: does to the registry: n semaphores with new numbers, at indices
\* that were free; nothing that was registered moves.
LEMMA PopulateFacts ==
  ASSUME NEW r, NEW n \in Nat, r.index \in Seq(Indices),
         r.table \in [Indices -> (1..Len(r.index)) \cup {NULL}], Room(r.table, n)
  PROVE  /\ Populate(r, n).index \in Seq(Indices)
         /\ Len(Populate(r, n).index) = Len(r.index) + n
         /\ \A s \in 1..Len(r.index) : Populate(r, n).index[s] = r.index[s]
         /\ Populate(r, n).table \in [Indices -> (1..(Len(r.index) + n)) \cup {NULL}]
         /\ \A x \in Indices : r.table[x] # NULL => Populate(r, n).table[x] = r.table[x]
         /\ \A s \in (Len(r.index) + 1)..(Len(r.index) + n) :
              Populate(r, n).table[Populate(r, n).index[s]] = s
<1> DEFINE t == r.table
           L == Len(r.index)
           new == [k \in 1..n |-> FreeIndex(t, k)]
           P == Populate(r, n)
<1>1. \A k \in 1..n : new[k] \in Indices /\ t[new[k]] = NULL /\ Rank(t, new[k]) = k
  <2> TAKE k \in 1..n
  <2>1. \E x \in 1..MaxIndex : t[x] = NULL /\ Rank(t, x) = k
    BY DEF Room
  <2> QED
    BY <2>1 DEF FreeIndex, Indices
<1>2. new \in Seq(Indices) /\ Len(new) = n
  <2>1. new \in [1..n -> Indices]
    BY <1>1
  <2>2. new \in Seq(Indices)
    BY <2>1, SeqDef
  <2> QED
    BY <2>1, <2>2, LenProperties
<1>3. L \in Nat
  OBVIOUS
<1>4. P.index = r.index \o new
  BY DEF Populate
<1>5. \A x \in Indices : P.table[x] = IF t[x] = NULL /\ Rank(t, x) <= n THEN L + Rank(t, x) ELSE t[x]
  BY DEF Populate, Indices
<1>6. P.table \in [Indices -> (1..(L + n)) \cup {NULL}]
  <2>1. P.table = [x \in Indices |-> IF t[x] = NULL /\ Rank(t, x) <= n THEN L + Rank(t, x) ELSE t[x]]
    BY DEF Populate, Indices
  <2>2. ASSUME NEW x \in Indices
        PROVE  (IF t[x] = NULL /\ Rank(t, x) <= n THEN L + Rank(t, x) ELSE t[x]) \in (1..(L + n)) \cup {NULL}
    <3>1. CASE t[x] = NULL /\ Rank(t, x) <= n
      <4>1. Rank(t, x) \in Nat /\ Rank(t, x) >= 1 /\ Rank(t, x) <= n
        BY <3>1, RankType
      <4>2. \A k \in Nat : k >= 1 /\ k <= n => L + k \in 1..(L + n)
        BY <1>3
      <4> QED
        BY <3>1, <4>1, <4>2
    <3>2. CASE ~(t[x] = NULL /\ Rank(t, x) <= n)
      <4>1. t[x] \in (1..L) \cup {NULL}
        OBVIOUS
      <4>2. 1..L \subseteq 1..(L + n)
        BY <1>3
      <4> QED
        BY <3>2, <4>1, <4>2
    <3> QED
      BY <3>1, <3>2
  <2> QED
    BY <2>1, <2>2
<1> HIDE DEF new, P
<1>7. /\ P.index \in Seq(Indices) /\ Len(P.index) = L + n
      /\ \A s \in 1..(L + n) : P.index[s] = IF s <= L THEN r.index[s] ELSE new[s - L]
  <2>1. /\ r.index \o new \in Seq(Indices) /\ Len(r.index \o new) = L + Len(new)
        /\ \A s \in 1..(L + Len(new)) : (r.index \o new)[s] = IF s <= L THEN r.index[s] ELSE new[s - L]
    BY <1>2, ConcatProperties
  <2> QED
    BY <1>2, <1>4, <2>1
<1>8. \A s \in 1..L : P.index[s] = r.index[s]
  BY <1>3, <1>7
<1>9. \A x \in Indices : t[x] # NULL => P.table[x] = t[x]
  BY <1>5
<1>10. ASSUME NEW s \in (L + 1)..(L + n) PROVE P.table[P.index[s]] = s
  <2>1. s \in Int /\ s - L \in 1..n /\ P.index[s] = new[s - L]
    <3>1. s \in 1..(L + n) /\ ~(s <= L) /\ s - L \in 1..n
      BY <1>3
    <3> QED
      BY <1>7, <3>1
  <2>2. /\ new[s - L] \in Indices /\ t[new[s - L]] = NULL /\ Rank(t, new[s - L]) = s - L
    BY <1>1, <2>1
  <2>3. P.table[new[s - L]] = L + (s - L)
    BY <1>5, <2>1, <2>2
  <2> QED
    BY <1>3, <2>1, <2>3
<1> QED
  BY <1>6, <1>7, <1>8, <1>9, <1>10 DEF P

\* What the release of elements does to the registry.
LEMMA ReleaseFacts ==
  ASSUME NEW r, NEW elements, NEW S, r.table \in [Indices -> S \cup {NULL}]
  PROVE  /\ Release(r, elements).index = r.index
         /\ Release(r, elements).table \in [Indices -> S \cup {NULL}]
         /\ \A x \in Indices : (\A k \in DOMAIN elements : elements[k] # r.table[x])
              => Release(r, elements).table[x] = r.table[x]
  BY DEF Release, Indices

\* The semaphores that are added have numbers of their own.
LEMMA FreshFacts ==
  ASSUME NEW r, NEW n \in Nat, Len(r.index) \in Nat
  PROVE  /\ Fresh(r, n) \in Seq((Len(r.index) + 1)..(Len(r.index) + n))
         /\ Len(Fresh(r, n)) = n
         /\ \A k \in 1..n : Fresh(r, n)[k] = Len(r.index) + k
<1> DEFINE L == Len(r.index)
           S == (L + 1)..(L + n)
<1> HIDE DEF L
<1>1. L \in Nat
  BY DEF L
<1>2. Fresh(r, n) = [k \in 1..n |-> L + k]
  BY DEF Fresh, L
<1>3. Fresh(r, n) \in [1..n -> S]
  BY <1>1, <1>2
<1>4. Fresh(r, n) \in Seq(S)
  BY <1>3, SeqDef
<1>5. Len(Fresh(r, n)) = n
  BY <1>3, <1>4, LenProperties
<1>6. \A k \in 1..n : Fresh(r, n)[k] = L + k
  BY <1>2
<1> QED
  BY <1>4, <1>5, <1>6 DEF L

------------------------------------------------------------------------------
(***************************************************************************)
(* The pool that takeOne and returnOne: work on                            *)
(***************************************************************************)
\* PoolIsBounded, of a pool with n elements.
Bounded(n) == n <= PoolSize \/ n <= Cardinality(Callers) - 1 + PoolSize \div 2

\* A pool and a registry s that may take the place of the present ones.
Good(s) ==
  /\ s.registry.index \in Seq(Indices)
  /\ Len(index) <= Len(s.registry.index)
  /\ \A k \in 1..Len(index) : s.registry.index[k] = index[k]
  /\ s.registry.table \in [Indices -> (1..Len(s.registry.index)) \cup {NULL}]
  /\ s.pool.elements \in Seq((1..Len(s.registry.index)) \cup {NULL})
  /\ s.pool = [elements |-> s.pool.elements, pointer |-> s.pool.pointer]
  /\ s.pool.pointer \in 1..(Len(s.pool.elements) + 1)
  /\ \A c \in Callers, k \in 1..Len(s.pool.elements) :
       held[c] # NULL => s.pool.elements[k] # held[c]
  /\ \A j, k \in 1..Len(s.pool.elements) :
       s.pool.elements[k] # NULL /\ s.pool.elements[j] = s.pool.elements[k] => j = k
  /\ \A k \in 1..Len(s.pool.elements) : s.pool.elements[k] = NULL <=> k < s.pool.pointer
  /\ s.pool.pointer - 1 <= Cardinality(Holders)
  /\ Bounded(Len(s.pool.elements))

\* RegisteredInv, of s.
Registered(s) ==
  \A k \in 1..Len(s.registry.index) :
    (\E c \in Callers : held[c] = k) \/ (\E j \in 1..Len(s.pool.elements) : s.pool.elements[j] = k)
      => s.registry.table[s.registry.index[k]] = k

\* What the types say of the pool and the registry.
LEMMA PoolTypes ==
  ASSUME PoolInv
  PROVE  /\ index \in Seq(Indices) /\ Len(index) \in Nat /\ DOMAIN index = 1..Len(index)
         /\ table \in [Indices -> (1..Len(index)) \cup {NULL}]
         /\ pool.elements \in Seq((1..Len(index)) \cup {NULL})
         /\ Len(pool.elements) \in Nat /\ Slots = 1..Len(pool.elements)
         /\ pool = [elements |-> pool.elements, pointer |-> pool.pointer]
         /\ pool.pointer \in 1..(Len(pool.elements) + 1)
         /\ held \in [Callers -> (1..Len(index)) \cup {NULL}]
         /\ NULL \notin Nat /\ NULL \notin 1..Len(index)
<1>1. index \in Seq(Indices)
  BY DEF PoolInv, TypeOK, Indices
<1>2. Len(index) \in Nat /\ DOMAIN index = 1..Len(index)
  BY <1>1, LenProperties
<1>3. pool \in [elements : Seq(1..Len(index) \cup {NULL}), pointer : Nat \ {0}]
  BY <1>2 DEF PoolInv, TypeOK
<1>4. /\ pool.elements \in Seq((1..Len(index)) \cup {NULL}) /\ pool.pointer \in Nat \ {0}
      /\ pool = [elements |-> pool.elements, pointer |-> pool.pointer]
  BY <1>3
<1>5. Len(pool.elements) \in Nat /\ Slots = 1..Len(pool.elements)
  BY <1>4, LenProperties DEF Slots
<1>6. pool.pointer \in 1..(Len(pool.elements) + 1)
  BY <1>4, <1>5 DEF PoolInv, TypeOK
<1>7. NULL \notin Nat /\ NULL \notin 1..Len(index)
  BY <1>2, PoolAssumption
<1> QED
  BY <1>1, <1>2, <1>4, <1>5, <1>6, <1>7 DEF PoolInv, TypeOK, Indices

\* The processes in a call are finitely many.
LEMMA HoldersFinite ==
  /\ IsFiniteSet(Holders) /\ Cardinality(Holders) \in Nat
  /\ Cardinality(Callers) \in Nat
  /\ \A c \in Callers : held[c] = NULL => Cardinality(Holders) <= Cardinality(Callers) - 1
<1>1. IsFiniteSet(Callers) /\ Holders \in SUBSET Callers
  BY PoolAssumption DEF Holders
<1>2. IsFiniteSet(Holders) /\ Cardinality(Holders) \in Nat /\ Cardinality(Callers) \in Nat
  BY <1>1, FS_Subset, FS_CardinalityType
<1>3. ASSUME NEW c \in Callers, held[c] = NULL
      PROVE  Cardinality(Holders) <= Cardinality(Callers) - 1
  <2>1. Holders \in SUBSET (Callers \ {c})
    BY <1>3 DEF Holders
  <2>2. IsFiniteSet(Callers \ {c}) /\ Cardinality(Callers \ {c}) = Cardinality(Callers) - 1
    BY <1>1, FS_RemoveElement
  <2>3. Cardinality(Holders) <= Cardinality(Callers \ {c})
    BY <2>1, <2>2, FS_Subset
  <2> QED
    BY <2>2, <2>3
<1> QED
  BY <1>2, <1>3

\* The pool as it is.
LEMMA PresentGood ==
  ASSUME PoolInv, NEW s, s.pool = pool, s.registry = Registry
  PROVE  Good(s) /\ (RegisteredInv => Registered(s))
<1>1. s.registry.index = index /\ s.registry.table = table
  BY DEF Registry
<1>2. Good(s)
  BY <1>1, PoolTypes DEF Good, PoolInv, SemaphoresAreExclusive, CountInv, PoolIsBounded, Bounded
<1>3. RegisteredInv => Registered(s)
  BY <1>1, PoolTypes DEF RegisteredInv, Registered
<1> QED
  BY <1>2, <1>3

\* The pool of a new session: semaphores that nobody holds.
LEMMA NewPoolGood ==
  ASSUME PoolInv, NEW s, RoomForPool, isNull, s = EnsureInitialized
  PROVE  /\ Good(s) /\ (RegisteredInv => Registered(s))
         /\ s.pool.pointer = 1 /\ Len(s.pool.elements) = PoolSize
<1> DEFINE r == Release(Registry, pool.elements)
           e == Fresh(r, PoolSize)
           R == Populate(r, PoolSize)
           L == Len(index)
<1>a. PoolSize \in Nat /\ L \in Nat /\ MaxIndex \in Nat
  BY PoolTypes, PoolAssumption
<1>1. s.pool = [elements |-> e, pointer |-> 1] /\ s.registry = R
  BY DEF EnsureInitialized
<1>2. r.index = index /\ r.table \in [Indices -> (1..L) \cup {NULL}]
      /\ \A x \in Indices : (\A k \in DOMAIN pool.elements : pool.elements[k] # table[x]) => r.table[x] = table[x]
  <2>1. Registry.table = table /\ Registry.index = index
    BY DEF Registry
  <2>2. Registry.table \in [Indices -> (1..L) \cup {NULL}]
    BY <2>1, PoolTypes
  <2> QED
    BY <2>1, <2>2, ReleaseFacts
<1>3. Room(r.table, PoolSize)
  BY DEF RoomForPool
<1> HIDE DEF r
<1>4. /\ R.index \in Seq(Indices) /\ Len(R.index) = L + PoolSize
      /\ \A k \in 1..L : R.index[k] = index[k]
      /\ R.table \in [Indices -> (1..(L + PoolSize)) \cup {NULL}]
      /\ \A x \in Indices : r.table[x] # NULL => R.table[x] = r.table[x]
      /\ \A k \in (L + 1)..(L + PoolSize) : R.table[R.index[k]] = k
  <2>1. r.index \in Seq(Indices) /\ r.table \in [Indices -> (1..Len(r.index)) \cup {NULL}]
    BY <1>2, PoolTypes
  <2>2. /\ R.index \in Seq(Indices) /\ Len(R.index) = Len(r.index) + PoolSize
        /\ \A k \in 1..Len(r.index) : R.index[k] = r.index[k]
        /\ R.table \in [Indices -> (1..(Len(r.index) + PoolSize)) \cup {NULL}]
        /\ \A x \in Indices : r.table[x] # NULL => R.table[x] = r.table[x]
        /\ \A k \in (Len(r.index) + 1)..(Len(r.index) + PoolSize) : R.table[R.index[k]] = k
    BY <1>a, <1>3, <2>1, PopulateFacts
  <2> HIDE DEF R
  <2> QED
    BY <1>2, <2>2
<1>5. /\ e \in Seq((L + 1)..(L + PoolSize)) /\ Len(e) = PoolSize
      /\ \A k \in 1..PoolSize : e[k] = L + k
  BY <1>a, <1>2, FreshFacts
<1> HIDE DEF R, e
<1>6. e \in Seq((1..(L + PoolSize)) \cup {NULL})
  <2>1. (L + 1)..(L + PoolSize) \subseteq (1..(L + PoolSize)) \cup {NULL}
    BY <1>a
  <2> QED
    BY ONLY <1>5, <2>1, SeqMonotonic
<1>7. \A c \in Callers, k \in 1..PoolSize : held[c] # NULL => e[k] # held[c]
  <2>1. \A k \in 1..PoolSize : e[k] \notin 1..L /\ e[k] \in Nat
    BY <1>a, <1>5
  <2> QED
    BY <2>1, PoolTypes
<1>8. \A j, k \in 1..PoolSize : e[j] = e[k] => j = k
  BY <1>a, <1>5
<1>9. \A k \in 1..PoolSize : e[k] # NULL /\ ~(k < 1)
  BY <1>a, <1>5, PoolAssumption
<1>10. 1 \in 1..(PoolSize + 1) /\ 1 - 1 <= Cardinality(Holders) /\ L <= L + PoolSize
  BY <1>a, HoldersFinite
<1>11. Bounded(PoolSize)
  BY <1>a DEF Bounded
<1>12. s.pool.elements = e /\ s.pool.pointer = 1 /\ s.registry.index = R.index
       /\ s.registry.table = R.table /\ Len(s.pool.elements) = PoolSize
       /\ s.pool = [elements |-> s.pool.elements, pointer |-> s.pool.pointer]
  BY <1>1, <1>5
<1>13. Good(s)
  BY <1>4, <1>6, <1>7, <1>8, <1>9, <1>10, <1>11, <1>12 DEF Good
<1>14. ASSUME RegisteredInv PROVE Registered(s)
  <2> SUFFICES ASSUME NEW k \in 1..(L + PoolSize),
                      (\E c \in Callers : held[c] = k) \/ (\E j \in 1..PoolSize : e[j] = k)
               PROVE  R.table[R.index[k]] = k
    BY <1>4, <1>12 DEF Registered
  <2>1. CASE k \in (L + 1)..(L + PoolSize)
    BY <1>4, <2>1
  <2>2. CASE k \in 1..L
    <3>1. \A j \in 1..PoolSize : e[j] # k
      BY <1>a, <1>5, <2>2
    <3>2. PICK c \in Callers : held[c] = k
      BY <3>1
    <3>3. index[k] \in Indices /\ table[index[k]] = k /\ R.index[k] = index[k]
      BY <1>4, <1>14, <2>2, <3>2, PoolTypes DEF RegisteredInv
    <3>4. k # NULL
      BY <2>2, PoolTypes
    <3>5. \A j \in DOMAIN pool.elements : pool.elements[j] # k
      BY <3>2, <3>4 DEF PoolInv, SemaphoresAreExclusive, Slots
    <3>6. r.table[index[k]] = k
      BY <1>2, <3>3, <3>5
    <3> QED
      BY <1>4, <3>3, <3>4, <3>6
  <2>3. k \in 1..L \/ k \in (L + 1)..(L + PoolSize)
    BY <1>a
  <2> QED
    BY <2>1, <2>2, <2>3
<1> QED
  BY <1>12, <1>13, <1>14

\* The runner is initialized when it is not.
LEMMA EnsureGood ==
  ASSUME PoolInv, RoomForPool
  PROVE  /\ Good(EnsureInitialized) /\ (RegisteredInv => Registered(EnsureInitialized))
         /\ isNull => /\ EnsureInitialized.pool.pointer = 1
                      /\ Len(EnsureInitialized.pool.elements) = PoolSize
         /\ ~isNull => EnsureInitialized.pool = pool /\ EnsureInitialized.registry = Registry
<1>1. CASE isNull
  BY <1>1, NewPoolGood
<1>2. CASE ~isNull
  <2>1. EnsureInitialized.pool = pool /\ EnsureInitialized.registry = Registry
    BY <1>2 DEF EnsureInitialized
  <2> QED
    BY <1>2, <2>1, PresentGood
<1> QED
  BY <1>1, <1>2

\* takeOne grows a pool whose elements are all lent.
LEMMA GrownGood ==
  ASSUME PoolInv, RoomForPool, RoomToGrow, NEW c \in Callers, held[c] = NULL,
         NEW s, s = Grown(EnsureInitialized)
  PROVE  /\ Good(s) /\ (RegisteredInv => Registered(s))
         /\ s.pool.pointer \in 1..Len(s.pool.elements)
<1> DEFINE o == EnsureInitialized
           g == GrowRate
           L == Len(o.registry.index)
           E == Len(o.pool.elements)
           e == o.pool.elements \o Fresh(o.registry, g)
           R == Populate(o.registry, g)
<1>1. Good(o) /\ (RegisteredInv => Registered(o))
  BY EnsureGood
<1>2. isNull => ~(o.pool.pointer > E)
  <2>1. isNull => o.pool.pointer = 1 /\ E = PoolSize
    BY EnsureGood
  <2> QED
    BY <2>1, PoolAssumption
<1>3. ~isNull => o.pool = pool /\ o.registry = Registry
  BY EnsureGood
<1>4. g \in Nat /\ g >= 1 /\ g = PoolSize \div 2
  BY PoolAssumption DEF GrowRate
<1>5. o.pool.pointer > E => Room(o.registry.table, g)
  BY <1>2, <1>3 DEF RoomToGrow, Registry
<1>6. s = IF o.pool.pointer > E
            THEN [pool |-> [elements |-> e, pointer |-> o.pool.pointer], registry |-> R]
            ELSE o
  BY DEF Grown
<1> HIDE DEF o, g
<1>7. L \in Nat /\ E \in Nat /\ o.pool.pointer \in 1..(E + 1)
  BY <1>1, LenProperties DEF Good
<1>8. CASE ~(o.pool.pointer > E)
  <2>1. s = o /\ o.pool.pointer \in 1..E
    <3>1. s = o
      BY <1>6, <1>8
    <3>2. \A p \in 1..(E + 1) : ~(p > E) => p \in 1..E
      BY <1>7
    <3> QED
      BY <1>7, <1>8, <3>1, <3>2
  <2> QED
    BY <1>1, <2>1
<1>9. CASE o.pool.pointer > E
  <2>1. /\ R.index \in Seq(Indices) /\ Len(R.index) = L + g
        /\ \A k \in 1..L : R.index[k] = o.registry.index[k]
        /\ R.table \in [Indices -> (1..(L + g)) \cup {NULL}]
        /\ \A x \in Indices : o.registry.table[x] # NULL => R.table[x] = o.registry.table[x]
        /\ \A k \in (L + 1)..(L + g) : R.table[R.index[k]] = k
    <3>1. /\ o.registry.index \in Seq(Indices) /\ Room(o.registry.table, g)
          /\ o.registry.table \in [Indices -> (1..Len(o.registry.index)) \cup {NULL}]
      BY <1>1, <1>5, <1>9 DEF Good
    <3> QED
      BY <1>4, <3>1, PopulateFacts
  <2>2. /\ Fresh(o.registry, g) \in Seq((L + 1)..(L + g)) /\ Len(Fresh(o.registry, g)) = g
        /\ \A k \in 1..g : Fresh(o.registry, g)[k] = L + k
    BY <1>4, <1>7, FreshFacts
  <2>3. o.pool.pointer = E + 1
    BY <1>7, <1>9
  <2>4. s.pool.elements = e /\ s.pool.pointer = E + 1 /\ s.registry = R
        /\ s.pool = [elements |-> s.pool.elements, pointer |-> s.pool.pointer]
    <3> HIDE DEF e, R
    <3>1. s = [pool |-> [elements |-> e, pointer |-> o.pool.pointer], registry |-> R]
      BY <1>6, <1>9
    <3> QED
      BY <2>3, <3>1
  <2>5. /\ e \in Seq((1..(L + g)) \cup {NULL}) /\ Len(e) = E + g
        /\ \A k \in 1..(E + g) : e[k] = IF k <= E THEN o.pool.elements[k] ELSE L + (k - E)
    <3> DEFINE F == Fresh(o.registry, g)
               S == (1..(L + g)) \cup {NULL}
    <3>1. (L + 1)..(L + g) \subseteq S /\ (1..L) \cup {NULL} \subseteq S
      BY <1>4, <1>7
    <3>2. F \in Seq(S)
      <4>1. F \in Seq((L + 1)..(L + g)) /\ (L + 1)..(L + g) \subseteq S
        BY <2>2, <3>1
      <4> HIDE DEF F, S, L
      <4> QED
        BY <4>1, SeqMonotonic
    <3>3. o.pool.elements \in Seq(S)
      BY <1>1, <3>1, SeqMonotonic DEF Good
    <3> HIDE DEF F, S
    <3>4. /\ o.pool.elements \o F \in Seq(S) /\ Len(o.pool.elements \o F) = E + Len(F)
          /\ \A k \in 1..(E + Len(F)) :
               (o.pool.elements \o F)[k] = IF k <= E THEN o.pool.elements[k] ELSE F[k - E]
      BY <3>2, <3>3, ConcatProperties
    <3>5. Len(F) = g /\ \A k \in 1..g : F[k] = L + k
      BY <2>2 DEF F
    <3>6. \A k \in 1..(E + g) : ~(k <= E) => k - E \in 1..g
      BY <1>4, <1>7
    <3>7. \A k \in 1..(E + g) : e[k] = IF k <= E THEN o.pool.elements[k] ELSE L + (k - E)
      BY <3>4, <3>5, <3>6 DEF F
    <3> QED
      BY <3>4, <3>5, <3>7 DEF F, S
  <2> HIDE DEF e, R
  <2>6. \A k \in 1..(E + g) : /\ k <= E => k \in 1..E /\ e[k] = o.pool.elements[k] /\ e[k] = NULL /\ k < E + 1
                              /\ ~(k <= E) => e[k] \in (L + 1)..(L + g) /\ ~(k < E + 1)
    <3> TAKE k \in 1..(E + g)
    <3>1. CASE k <= E
      <4>1. k \in 1..E /\ k < E + 1
        BY <1>7, <3>1
      <4> QED
        BY <1>1, <2>3, <2>5, <3>1, <4>1 DEF Good
    <3>2. CASE ~(k <= E)
      <4>1. e[k] = L + (k - E)
        BY <2>5, <3>2
      <4>2. \A m \in 1..(E + g) : ~(m <= E) => L + (m - E) \in (L + 1)..(L + g) /\ ~(m < E + 1)
        <5>1. L \in Nat /\ E \in Nat /\ g \in Nat
          BY <1>4, <1>7
        <5> HIDE DEF L, E
        <5> QED
          BY ONLY <5>1
      <4> QED
        BY <3>2, <4>1, <4>2
    <3> QED
      BY <3>1, <3>2
  <2>7. \A k \in (L + 1)..(L + g) : k \in Nat /\ k # NULL /\ k \notin 1..L
    BY <1>7, PoolAssumption
  <2>8. \A k \in 1..(E + g) : e[k] = NULL <=> k < E + 1
    BY <2>6, <2>7
  <2>9. \A d \in Callers, k \in 1..(E + g) : held[d] # NULL => e[k] # held[d]
    <3>1. \A d \in Callers : held[d] # NULL => held[d] \in 1..L
      <4>1. Len(index) \in Nat /\ Len(index) <= L
        BY <1>1, PoolTypes DEF Good
      <4>2. 1..Len(index) \subseteq 1..L
        BY <1>7, <4>1
      <4> QED
        BY <4>2, PoolTypes
    <3> QED
      BY <2>6, <2>7, <3>1
  <2>10. \A j, k \in 1..(E + g) : e[k] # NULL /\ e[j] = e[k] => j = k
    <3> SUFFICES ASSUME NEW j \in 1..(E + g), NEW k \in 1..(E + g), e[k] # NULL, e[j] = e[k]
                 PROVE  j = k
      OBVIOUS
    <3>1. ~(k <= E) /\ ~(j <= E)
      BY <2>6
    <3>2. L + (k - E) = L + (j - E)
      BY <2>5, <3>1
    <3> QED
      BY <1>4, <1>7, <3>2
  <2>11. Bounded(E + g)
    <3>1. E <= Cardinality(Holders)
      BY <1>1, <1>7, <2>3, HoldersFinite DEF Good
    <3>2. Cardinality(Holders) <= Cardinality(Callers) - 1
      BY HoldersFinite
    <3>3. E + g <= Cardinality(Callers) - 1 + g
      BY <1>4, <1>7, <3>1, <3>2, HoldersFinite
    <3> QED
      BY <1>4, <3>3 DEF Bounded
  <2>12. E + 1 \in 1..(E + g) /\ E + 1 \in 1..((E + g) + 1) /\ L <= L + g
    BY <1>4, <1>7
  <2>13. Len(index) <= L + g /\ \A k \in 1..Len(index) : R.index[k] = index[k]
    <3>1. Len(index) \in Nat /\ Len(index) <= L /\ \A k \in 1..Len(index) : o.registry.index[k] = index[k]
      BY <1>1, PoolTypes DEF Good
    <3>2. \A k \in 1..Len(index) : k \in 1..L
      BY <1>7, <3>1
    <3> QED
      BY <1>4, <1>7, <2>1, <3>1, <3>2
  <2>14. (E + 1) - 1 <= Cardinality(Holders)
    BY <1>1, <2>3 DEF Good
  <2>15. Good(s)
    BY <2>1, <2>4, <2>5, <2>8, <2>9, <2>10, <2>11, <2>12, <2>13, <2>14 DEF Good
  <2>16. ASSUME RegisteredInv PROVE Registered(s)
    <3> SUFFICES ASSUME NEW k \in 1..(L + g),
                        (\E d \in Callers : held[d] = k) \/ (\E j \in 1..(E + g) : e[j] = k)
                 PROVE  R.table[R.index[k]] = k
      BY <2>1, <2>4, <2>5 DEF Registered
    <3>1. CASE k \in (L + 1)..(L + g)
      BY <2>1, <3>1
    <3>2. CASE k \in 1..L
      <4>0. k # NULL
        BY <3>2, PoolAssumption
      <4>1. \A j \in 1..(E + g) : e[j] # k
        BY <2>6, <2>7, <3>2, <4>0
      <4>2. PICK d \in Callers : held[d] = k
        BY <4>1
      <4>3. o.registry.table[o.registry.index[k]] = k
        BY <1>1, <2>16, <3>2, <4>2 DEF Registered
      <4>4. o.registry.index[k] \in Indices
        BY <1>1, <3>2 DEF Good
      <4> QED
        BY <2>1, <3>2, <4>0, <4>3, <4>4
    <3>3. k \in 1..L \/ k \in (L + 1)..(L + g)
      BY <1>4, <1>7
    <3> QED
      BY <3>1, <3>2, <3>3
  <2> QED
    BY <2>4, <2>5, <2>12, <2>15, <2>16
<1> QED
  BY <1>8, <1>9

------------------------------------------------------------------------------
(***************************************************************************)
(* takeOne and returnOne:                                                  *)
(***************************************************************************)
\* PoolInv, apart from the parts of TypeOK that these leave alone.
PoolPart ==
  /\ pool \in [elements : Seq(DOMAIN index \cup {NULL}), pointer : Nat \ {0}]
  /\ pool.pointer <= Len(pool.elements) + 1
  /\ index \in Seq(Indices)
  /\ excess \in [DOMAIN index -> Nat]
  /\ table \in [Indices -> DOMAIN index \cup {NULL}]
  /\ held \in [Callers -> DOMAIN index \cup {NULL}]
  /\ SemaphoresAreExclusive
  /\ CountInv
  /\ PoolIsBounded

\* A pool p with the registry R takes the place of the present one.
LEMMA SetRunnerPart ==
  ASSUME PoolInv, NEW p, NEW R, SetRunner(p, R),
         R.index \in Seq(Indices), Len(index) <= Len(R.index),
         R.table \in [Indices -> (1..Len(R.index)) \cup {NULL}],
         p.elements \in Seq((1..Len(R.index)) \cup {NULL}),
         p = [elements |-> p.elements, pointer |-> p.pointer],
         p.pointer \in 1..(Len(p.elements) + 1),
         held' \in [Callers -> (1..Len(R.index)) \cup {NULL}]
  PROVE  /\ index' = R.index /\ table' = R.table /\ pool' = p /\ isNull' = FALSE
         /\ DOMAIN index' = 1..Len(R.index) /\ Slots' = 1..Len(p.elements)
         /\ excess' \in [DOMAIN index' -> Nat]
         /\ \A k \in 1..Len(index) : k \in 1..Len(R.index) /\ excess'[k] = excess[k]
         /\ \A k \in 1..Len(R.index) : k \notin 1..Len(index) => excess'[k] = 0
         /\ pool' \in [elements : Seq(DOMAIN index' \cup {NULL}), pointer : Nat \ {0}]
         /\ pool'.pointer <= Len(pool'.elements) + 1
         /\ index' \in Seq(Indices)
         /\ table' \in [Indices -> DOMAIN index' \cup {NULL}]
         /\ held' \in [Callers -> DOMAIN index' \cup {NULL}]
<1>1. /\ index' = R.index /\ table' = R.table /\ pool' = p /\ isNull' = FALSE
      /\ excess' = [k \in DOMAIN R.index |-> IF k \in DOMAIN excess THEN excess[k] ELSE 0]
  BY DEF SetRunner
<1>2. DOMAIN R.index = 1..Len(R.index) /\ Len(R.index) \in Nat
      /\ DOMAIN p.elements = 1..Len(p.elements) /\ Len(p.elements) \in Nat
  BY LenProperties
<1>3. excess \in [1..Len(index) -> Nat] /\ Len(index) \in Nat
  BY PoolTypes DEF PoolInv, TypeOK
<1>4. 1..Len(index) \subseteq 1..Len(R.index)
  BY <1>2, <1>3
<1>5. /\ excess' \in [DOMAIN index' -> Nat]
      /\ \A k \in 1..Len(index) : k \in 1..Len(R.index) /\ excess'[k] = excess[k]
      /\ \A k \in 1..Len(R.index) : k \notin 1..Len(index) => excess'[k] = 0
  BY <1>1, <1>2, <1>3, <1>4
<1>6. p.pointer \in Nat \ {0} /\ p.pointer <= Len(p.elements) + 1
  BY <1>2
<1>7. p \in [elements : Seq((1..Len(R.index)) \cup {NULL}), pointer : Nat \ {0}]
  BY <1>6
<1> QED
  BY <1>1, <1>2, <1>5, <1>6, <1>7 DEF Slots

\* takeOne: one element of the pool, which nobody else has, is lent.
LEMMA TakeOneFacts ==
  ASSUME PoolInv, NEW c \in Callers, TakeOne(c)
  PROVE  /\ PoolPart'
         /\ held'[c] # NULL /\ \A d \in Callers : d # c => held'[d] = held[d]
         /\ \A d \in Callers : d # c => held'[c] # held[d]
         /\ Len(index) <= Len(index')
         /\ \A k \in 1..Len(index) : index'[k] = index[k] /\ excess'[k] = excess[k]
         /\ \A k \in DOMAIN index' : k \notin 1..Len(index) => excess'[k] = 0
         /\ RegisteredInv => RegisteredInv'
<1> DEFINE s == Grown(EnsureInitialized)
           e == s.pool.elements
           at == s.pool.pointer
           p == [elements |-> [e EXCEPT ![at] = NULL], pointer |-> at + 1]
           N == Len(s.registry.index)
<1>1. pc[c] = "idle" /\ held[c] = NULL /\ RoomForPool /\ RoomToGrow
  BY DEF TakeOne, PoolInv, HeldInv
<1>2. Good(s) /\ (RegisteredInv => Registered(s)) /\ at \in 1..Len(e)
  BY <1>1, GrownGood
<1>3. SetRunner(p, s.registry) /\ held' = [held EXCEPT ![c] = e[at]]
  BY DEF TakeOne
<1> HIDE DEF s
<1>4. N \in Nat /\ Len(index) \in Nat /\ Len(index) <= N /\ e \in Seq((1..N) \cup {NULL}) /\ Len(e) \in Nat
  BY <1>2, PoolTypes, LenProperties DEF Good
<1>5. e[at] \in 1..N /\ e[at] # NULL
  <2>1. e[at] # NULL
    <3>1. ~(at < at)
      BY <1>2, <1>4
    <3> QED
      BY <1>2, <3>1 DEF Good
  <2> QED
    BY <1>2, <1>4, <2>1
<1>6. /\ p.elements \in Seq((1..N) \cup {NULL}) /\ Len(p.elements) = Len(e)
      /\ \A j \in 1..Len(e) : p.elements[j] = IF j = at THEN NULL ELSE e[j]
      /\ p.pointer = at + 1 /\ p = [elements |-> p.elements, pointer |-> p.pointer]
  BY <1>2, <1>4, ExceptSeq
<1>7. p.pointer \in 1..(Len(p.elements) + 1)
  BY <1>2, <1>4, <1>6
<1>8. held' \in [Callers -> (1..N) \cup {NULL}] /\ held'[c] = e[at]
      /\ \A d \in Callers : d # c => held'[d] = held[d]
  <2>1. 1..Len(index) \subseteq 1..N
    BY <1>4
  <2>2. held \in [Callers -> (1..N) \cup {NULL}]
    BY <2>1, PoolTypes
  <2> QED
    BY <1>3, <1>5, <2>2
<1> HIDE DEF p
<1>9. /\ index' = s.registry.index /\ table' = s.registry.table /\ pool' = p
      /\ DOMAIN index' = 1..N /\ Slots' = 1..Len(p.elements)
      /\ excess' \in [DOMAIN index' -> Nat]
      /\ \A k \in 1..Len(index) : k \in 1..N /\ excess'[k] = excess[k]
      /\ \A k \in 1..N : k \notin 1..Len(index) => excess'[k] = 0
      /\ pool' \in [elements : Seq(DOMAIN index' \cup {NULL}), pointer : Nat \ {0}]
      /\ pool'.pointer <= Len(pool'.elements) + 1
      /\ index' \in Seq(Indices)
      /\ table' \in [Indices -> DOMAIN index' \cup {NULL}]
      /\ held' \in [Callers -> DOMAIN index' \cup {NULL}]
  <2> DEFINE R == s.registry
  <2>1. /\ R.index \in Seq(Indices) /\ Len(index) <= Len(R.index)
        /\ R.table \in [Indices -> (1..Len(R.index)) \cup {NULL}]
    BY <1>2 DEF Good
  <2>2. /\ SetRunner(p, R) /\ p.elements \in Seq((1..Len(R.index)) \cup {NULL})
        /\ held' \in [Callers -> (1..Len(R.index)) \cup {NULL}]
    BY <1>3, <1>6, <1>8
  <2>3. p = [elements |-> p.elements, pointer |-> p.pointer]
    BY <1>6
  <2> HIDE DEF R
  <2>4. /\ index' = R.index /\ table' = R.table /\ pool' = p
        /\ DOMAIN index' = 1..Len(R.index) /\ Slots' = 1..Len(p.elements)
        /\ excess' \in [DOMAIN index' -> Nat]
        /\ \A k \in 1..Len(index) : k \in 1..Len(R.index) /\ excess'[k] = excess[k]
        /\ \A k \in 1..Len(R.index) : k \notin 1..Len(index) => excess'[k] = 0
        /\ pool' \in [elements : Seq(DOMAIN index' \cup {NULL}), pointer : Nat \ {0}]
        /\ pool'.pointer <= Len(pool'.elements) + 1
        /\ index' \in Seq(Indices)
        /\ table' \in [Indices -> DOMAIN index' \cup {NULL}]
        /\ held' \in [Callers -> DOMAIN index' \cup {NULL}]
    BY <1>7, <2>1, <2>2, <2>3, SetRunnerPart
  <2> QED
    BY <2>4 DEF R
<1>10. \A d \in Callers : d # c => held[d] # e[at]
  BY <1>2, <1>5 DEF Good
<1>11. \A d, f \in Callers : held'[d] # NULL /\ held'[d] = held'[f] => d = f
  BY <1>8, <1>10 DEF PoolInv, SemaphoresAreExclusive
<1>12. \A d \in Callers, k \in Slots' : held'[d] # NULL => pool'.elements[k] # held'[d]
  <2> SUFFICES ASSUME NEW d \in Callers, NEW k \in 1..Len(e), held'[d] # NULL
               PROVE  p.elements[k] # held'[d]
    BY <1>6, <1>9
  <2>1. CASE k = at
    BY <1>6, <2>1
  <2>2. CASE k # at /\ d = c
    BY <1>2, <1>5, <1>6, <1>8, <2>2 DEF Good
  <2>3. CASE k # at /\ d # c
    <3>1. p.elements[k] = e[k] /\ held'[d] = held[d]
      BY <1>6, <1>8, <2>3
    <3>2. held[d] # NULL => e[k] # held[d]
      BY <1>2 DEF Good
    <3> QED
      BY <3>1, <3>2
  <2> QED
    BY <2>1, <2>2, <2>3
<1>13. \A j, k \in Slots' : pool'.elements[k] # NULL /\ pool'.elements[j] = pool'.elements[k] => j = k
  BY <1>2, <1>6, <1>9 DEF Good
<1>14. \A k \in Slots' : pool'.elements[k] = NULL <=> k < pool'.pointer
  <2> SUFFICES ASSUME NEW k \in 1..Len(e) PROVE p.elements[k] = NULL <=> k < at + 1
    BY <1>6, <1>9
  <2>1. e[k] = NULL <=> k < at
    BY <1>2 DEF Good
  <2>2. k < at + 1 <=> k < at \/ k = at
    BY <1>2, <1>4
  <2> QED
    BY <1>6, <2>1, <2>2
<1>15. Holders' = Holders \cup {c} /\ c \notin Holders
  BY <1>1, <1>5, <1>8 DEF Holders
<1>16. CountInv'
  <2>1. Cardinality(Holders') = Cardinality(Holders) + 1
    BY <1>15, HoldersFinite, FS_AddElement
  <2>2. at - 1 <= Cardinality(Holders) /\ pool'.pointer = at + 1
    BY <1>2, <1>6, <1>9 DEF Good
  <2> QED
    BY <1>2, <1>4, <2>1, <2>2, HoldersFinite DEF CountInv
<1>17. PoolIsBounded'
  BY <1>2, <1>6, <1>9 DEF PoolIsBounded, Bounded, Good
<1>18. PoolPart'
  BY <1>9, <1>11, <1>12, <1>13, <1>14, <1>16, <1>17 DEF PoolPart, SemaphoresAreExclusive
<1>19. ASSUME RegisteredInv PROVE RegisteredInv'
  <2> SUFFICES ASSUME NEW k \in 1..N,
                      (\E d \in Callers : held'[d] = k) \/ (\E j \in 1..Len(e) : p.elements[j] = k)
               PROVE  s.registry.table[s.registry.index[k]] = k
    BY <1>6, <1>9 DEF RegisteredInv
  <2>1. k # NULL
    BY <1>4, PoolAssumption
  <2>2. (\E d \in Callers : held[d] = k) \/ (\E j \in 1..Len(e) : e[j] = k)
    BY <1>2, <1>6, <1>8, <2>1
  <2> QED
    BY <1>2, <1>19, <2>2 DEF Registered
<1>20. \A k \in 1..Len(index) : index'[k] = index[k]
  BY <1>2, <1>9 DEF Good
<1> QED
  BY <1>4, <1>5, <1>8, <1>9, <1>10, <1>18, <1>19, <1>20

\* returnOne: puts the element into the last free slot, or releases it.
LEMMA ReturnOneFacts ==
  ASSUME PoolInv, NEW c \in Callers, ReturnOne(c)
  PROVE  /\ PoolPart'
         /\ held'[c] = NULL /\ \A d \in Callers : d # c => held'[d] = held[d]
         /\ Len(index) <= Len(index')
         /\ \A k \in 1..Len(index) : index'[k] = index[k] /\ excess'[k] = excess[k]
         /\ \A k \in DOMAIN index' : k \notin 1..Len(index) => excess'[k] = 0
         /\ RegisteredInv => RegisteredInv'
<1> DEFINE s == EnsureInitialized
           e == s.pool.elements
           at == s.pool.pointer - 1
           N == Len(s.registry.index)
           h == held[c]
<1>1. RoomForPool /\ held' = [held EXCEPT ![c] = NULL] /\ pc[c] = "returning"
  BY DEF ReturnOne
<1>2. Good(s) /\ (RegisteredInv => Registered(s))
  BY <1>1, EnsureGood
<1>3. IF at > 0
        THEN SetRunner([elements |-> [e EXCEPT ![at] = h], pointer |-> at], s.registry)
        ELSE SetRunner(s.pool, Release(s.registry, <<h>>))
  BY DEF ReturnOne
<1> HIDE DEF s
<1>4. N \in Nat /\ Len(index) \in Nat /\ Len(index) <= N /\ e \in Seq((1..N) \cup {NULL}) /\ Len(e) \in Nat
  BY <1>2, PoolTypes, LenProperties DEF Good
<1>5. h \in 1..N /\ h # NULL
  <2>1. h # NULL
    BY <1>1 DEF PoolInv, HeldInv
  <2>2. h \in 1..Len(index)
    BY <2>1, PoolTypes
  <2> QED
    BY <1>4, <2>1, <2>2
<1>6. held' \in [Callers -> (1..N) \cup {NULL}] /\ held'[c] = NULL
      /\ \A d \in Callers : d # c => held'[d] = held[d]
  <2>1. 1..Len(index) \subseteq 1..N
    BY <1>4
  <2>2. held \in [Callers -> (1..N) \cup {NULL}]
    BY <2>1, PoolTypes
  <2> QED
    BY <1>1, <2>2
<1>7. Holders' = Holders \ {c} /\ c \in Holders
  BY <1>5, <1>6 DEF Holders
<1>8. Cardinality(Holders') = Cardinality(Holders) - 1 /\ Cardinality(Holders') \in Nat
  <2>1. IsFiniteSet(Holders \ {c}) /\ Cardinality(Holders \ {c}) = Cardinality(Holders) - 1
    BY <1>7, HoldersFinite, FS_RemoveElement
  <2> QED
    BY <1>7, <2>1, FS_CardinalityType
<1>9. \A d, f \in Callers : held'[d] # NULL /\ held'[d] = held'[f] => d = f
  BY <1>6 DEF PoolInv, SemaphoresAreExclusive
<1>10. \A d \in Callers : d # c => held[d] # h
  BY <1>5 DEF PoolInv, SemaphoresAreExclusive
<1>11. \A k \in 1..Len(e) : e[k] # h
  BY <1>2, <1>5 DEF Good
<1>12. at \in Nat /\ at <= Len(e) /\ s.pool.pointer = at + 1
  BY <1>2, <1>4 DEF Good
<1>13. CASE at > 0
  <2> DEFINE p == [elements |-> [e EXCEPT ![at] = h], pointer |-> at]
             R == s.registry
  <2>1. SetRunner(p, R)
    BY <1>3, <1>13
  <2>2. at \in 1..Len(e)
    BY <1>4, <1>12, <1>13
  <2>3. /\ p.elements \in Seq((1..N) \cup {NULL}) /\ Len(p.elements) = Len(e)
        /\ \A j \in 1..Len(e) : p.elements[j] = IF j = at THEN h ELSE e[j]
        /\ p.pointer = at /\ p = [elements |-> p.elements, pointer |-> p.pointer]
    BY <1>4, <1>5, <2>2, ExceptSeq
  <2>4. /\ R.index \in Seq(Indices) /\ Len(index) <= Len(R.index)
        /\ R.table \in [Indices -> (1..Len(R.index)) \cup {NULL}]
        /\ \A k \in 1..Len(index) : R.index[k] = index[k]
    BY <1>2 DEF Good
  <2>5. /\ p.elements \in Seq((1..Len(R.index)) \cup {NULL})
        /\ held' \in [Callers -> (1..Len(R.index)) \cup {NULL}]
    BY <1>6, <2>3
  <2>6. p.pointer \in 1..(Len(p.elements) + 1)
    BY <1>4, <2>2, <2>3
  <2>7. p = [elements |-> p.elements, pointer |-> p.pointer]
    BY <2>3
  <2> HIDE DEF p, R
  <2>8. /\ index' = R.index /\ table' = R.table /\ pool' = p
        /\ DOMAIN index' = 1..Len(R.index) /\ Slots' = 1..Len(p.elements)
        /\ excess' \in [DOMAIN index' -> Nat]
        /\ \A k \in 1..Len(index) : k \in 1..Len(R.index) /\ excess'[k] = excess[k]
        /\ \A k \in 1..Len(R.index) : k \notin 1..Len(index) => excess'[k] = 0
        /\ pool' \in [elements : Seq(DOMAIN index' \cup {NULL}), pointer : Nat \ {0}]
        /\ pool'.pointer <= Len(pool'.elements) + 1
        /\ index' \in Seq(Indices)
        /\ table' \in [Indices -> DOMAIN index' \cup {NULL}]
        /\ held' \in [Callers -> DOMAIN index' \cup {NULL}]
    BY <2>1, <2>4, <2>5, <2>6, <2>7, SetRunnerPart
  <2>9. \A d \in Callers, k \in Slots' : held'[d] # NULL => pool'.elements[k] # held'[d]
    <3> SUFFICES ASSUME NEW d \in Callers, NEW k \in 1..Len(e), held'[d] # NULL
                 PROVE  p.elements[k] # held'[d]
      BY <2>3, <2>8
    <3>1. d # c /\ held'[d] = held[d]
      BY <1>6
    <3>2. CASE k = at
      BY <1>10, <2>3, <3>1, <3>2
    <3>3. CASE k # at
      BY <1>2, <2>3, <3>1, <3>3 DEF Good
    <3> QED
      BY <3>2, <3>3
  <2>10. \A j, k \in Slots' : pool'.elements[k] # NULL /\ pool'.elements[j] = pool'.elements[k] => j = k
    BY <1>2, <1>11, <2>3, <2>8 DEF Good
  <2>11. \A k \in Slots' : pool'.elements[k] = NULL <=> k < pool'.pointer
    <3> SUFFICES ASSUME NEW k \in 1..Len(e) PROVE p.elements[k] = NULL <=> k < at
      BY <2>3, <2>8
    <3>1. e[k] = NULL <=> k < at + 1
      BY <1>2, <1>12 DEF Good
    <3>2. k < at + 1 <=> k < at \/ k = at
      BY <1>12
    <3>3. ~(at < at)
      BY <1>12
    <3> QED
      BY <1>5, <2>3, <3>1, <3>2, <3>3
  <2>12. CountInv'
    <3>1. at <= Cardinality(Holders) /\ pool'.pointer = at
      BY <1>2, <2>3, <2>8 DEF Good
    <3> QED
      BY <1>8, <1>12, <3>1, HoldersFinite DEF CountInv
  <2>13. PoolIsBounded'
    BY <1>2, <2>3, <2>8 DEF PoolIsBounded, Bounded, Good
  <2>14. PoolPart'
    BY <1>9, <2>8, <2>9, <2>10, <2>11, <2>12, <2>13 DEF PoolPart, SemaphoresAreExclusive
  <2>15. ASSUME RegisteredInv PROVE RegisteredInv'
    <3> SUFFICES ASSUME NEW k \in 1..Len(R.index),
                        (\E d \in Callers : held'[d] = k) \/ (\E j \in 1..Len(e) : p.elements[j] = k)
                 PROVE  R.table[R.index[k]] = k
      BY <2>3, <2>8 DEF RegisteredInv
    <3>1. Len(R.index) \in Nat
      BY <2>4
    <3>2. k # NULL
      BY <3>1, PoolAssumption
    <3>3. (\E d \in Callers : held[d] = k) \/ (\E j \in 1..Len(e) : e[j] = k)
      BY <1>6, <2>3, <3>2
    <3> QED
      BY <1>2, <2>15, <3>3 DEF Registered, R
  <2> QED
    BY <1>6, <2>4, <2>8, <2>14, <2>15
<1>14. CASE ~(at > 0)
  <2> DEFINE p == s.pool
             R == Release(s.registry, <<h>>)
  <2>1. SetRunner(p, R)
    BY <1>3, <1>14
  <2>2. /\ R.index = s.registry.index /\ R.table \in [Indices -> (1..N) \cup {NULL}]
        /\ \A x \in Indices : h # s.registry.table[x] => R.table[x] = s.registry.table[x]
    <3>1. s.registry.table \in [Indices -> (1..N) \cup {NULL}]
      BY <1>2 DEF Good
    <3>2. \A k \in DOMAIN <<h>> : <<h>>[k] = h
      OBVIOUS
    <3> DEFINE g == <<h>>
    <3> HIDE DEF g
    <3>3. /\ Release(s.registry, g).index = s.registry.index
          /\ Release(s.registry, g).table \in [Indices -> (1..N) \cup {NULL}]
          /\ \A x \in Indices : (\A k \in DOMAIN g : g[k] # s.registry.table[x])
               => Release(s.registry, g).table[x] = s.registry.table[x]
      BY <3>1, ReleaseFacts
    <3>4. \A x \in Indices : h # s.registry.table[x] => \A k \in DOMAIN g : g[k] # s.registry.table[x]
      BY <3>2 DEF g
    <3> QED
      BY <3>3, <3>4 DEF g
  <2> HIDE DEF R
  <2>3. /\ R.index \in Seq(Indices) /\ Len(index) <= Len(R.index)
        /\ R.table \in [Indices -> (1..Len(R.index)) \cup {NULL}]
        /\ \A k \in 1..Len(index) : R.index[k] = index[k]
    BY <1>2, <2>2 DEF Good
  <2>4. /\ p.elements \in Seq((1..Len(R.index)) \cup {NULL})
        /\ held' \in [Callers -> (1..Len(R.index)) \cup {NULL}]
    BY <1>4, <1>6, <2>2
  <2>5. p.pointer \in 1..(Len(p.elements) + 1) /\ p = [elements |-> p.elements, pointer |-> p.pointer]
    BY <1>2 DEF Good
  <2> HIDE DEF p
  <2>6. /\ index' = R.index /\ table' = R.table /\ pool' = p
        /\ DOMAIN index' = 1..Len(R.index) /\ Slots' = 1..Len(p.elements)
        /\ excess' \in [DOMAIN index' -> Nat]
        /\ \A k \in 1..Len(index) : k \in 1..Len(R.index) /\ excess'[k] = excess[k]
        /\ \A k \in 1..Len(R.index) : k \notin 1..Len(index) => excess'[k] = 0
        /\ pool' \in [elements : Seq(DOMAIN index' \cup {NULL}), pointer : Nat \ {0}]
        /\ pool'.pointer <= Len(pool'.elements) + 1
        /\ index' \in Seq(Indices)
        /\ table' \in [Indices -> DOMAIN index' \cup {NULL}]
        /\ held' \in [Callers -> DOMAIN index' \cup {NULL}]
    BY <2>1, <2>3, <2>4, <2>5, SetRunnerPart
  <2>7. pool' = s.pool
    BY <2>6 DEF p
  <2>8. Slots' = 1..Len(e)
    BY <2>6 DEF p
  <2>9. \A d \in Callers, k \in Slots' : held'[d] # NULL => pool'.elements[k] # held'[d]
    BY <1>2, <1>6, <2>7, <2>8 DEF Good
  <2>10. \A j, k \in Slots' : pool'.elements[k] # NULL /\ pool'.elements[j] = pool'.elements[k] => j = k
    BY <1>2, <2>7, <2>8 DEF Good
  <2>11. \A k \in Slots' : pool'.elements[k] = NULL <=> k < pool'.pointer
    BY <1>2, <2>7, <2>8 DEF Good
  <2>12. CountInv'
    <3>1. pool'.pointer - 1 = 0
      BY <1>12, <1>14, <2>7
    <3> QED
      BY <1>8, <3>1 DEF CountInv
  <2>13. PoolIsBounded'
    BY <1>2, <2>7 DEF PoolIsBounded, Bounded, Good
  <2>14. PoolPart'
    BY <1>9, <2>6, <2>9, <2>10, <2>11, <2>12, <2>13 DEF PoolPart, SemaphoresAreExclusive
  <2>15. ASSUME RegisteredInv PROVE RegisteredInv'
    <3> SUFFICES ASSUME NEW k \in 1..N,
                        (\E d \in Callers : held'[d] = k) \/ (\E j \in 1..Len(e) : e[j] = k)
                 PROVE  R.table[R.index[k]] = k
      BY <2>2, <2>6, <2>7, <2>8 DEF RegisteredInv
    <3>1. k # NULL
      BY <1>4, PoolAssumption
    <3>2. k # h /\ ((\E d \in Callers : held[d] = k) \/ (\E j \in 1..Len(e) : e[j] = k))
      BY <1>6, <1>10, <1>11, <3>1
    <3>3. s.registry.table[s.registry.index[k]] = k /\ s.registry.index[k] \in Indices
      BY <1>2, <2>15, <3>2 DEF Registered, Good
    <3> QED
      BY <2>2, <3>2, <3>3
  <2> QED
    BY <1>6, <2>3, <2>6, <2>14, <2>15
<1> QED
  BY <1>13, <1>14

------------------------------------------------------------------------------
(***************************************************************************)
(* The invariant                                                           *)
(***************************************************************************)
\* The types of everything else.
LEMMA OtherTypes ==
  ASSUME PoolInv
  PROVE  /\ excess \in [1..Len(index) -> Nat] /\ DOMAIN excess = 1..Len(index)
         /\ tasks \in Seq([call : Callers \X Nat, index : Indices]) /\ Len(tasks) \in Nat
         /\ finished \subseteq Callers \X Nat
         /\ started \in [Callers -> 0..MaxCalls]
         /\ pc \in [Callers -> {"idle", "taken", "called", "waiting", "reading", "resetting",
                                "returning"}]
         /\ \A c \in Callers : Call(c) \in Callers \X Nat
         /\ \A c \in Callers : pc[c] # "idle" => held[c] \in 1..Len(index) /\ index[held[c]] \in Indices
<1>1. /\ excess \in [1..Len(index) -> Nat]
      /\ tasks \in Seq([call : Callers \X Nat, index : Indices])
      /\ finished \subseteq Callers \X Nat /\ started \in [Callers -> 0..MaxCalls]
      /\ pc \in [Callers -> {"idle", "taken", "called", "waiting", "reading", "resetting",
                             "returning"}]
  BY PoolTypes DEF PoolInv, TypeOK, Indices
<1>2. \A c \in Callers : Call(c) \in Callers \X Nat
  <2>1. \A c \in Callers : started[c] \in Nat
    BY <1>1, PoolAssumption
  <2> QED
    BY <2>1 DEF Call
<1>3. \A c \in Callers : pc[c] # "idle" => held[c] \in 1..Len(index)
  BY PoolTypes DEF PoolInv, HeldInv
<1>4. \A s \in 1..Len(index) : index[s] \in Indices
  BY PoolTypes
<1> QED
  BY <1>1, <1>2, <1>3, <1>4

\* The task of a call.
Tasks == [call : Callers \X Nat, index : Indices]

\* Steps that leave the pool and the registry alone.
LEMMA QuietPart ==
  ASSUME PoolInv, UNCHANGED <<poolVars, held>>, excess' \in [DOMAIN index -> Nat]
  PROVE  PoolPart'
<1>1. pool' = pool /\ index' = index /\ table' = table /\ held' = held
  BY DEF poolVars
<1>2. Slots' = Slots /\ Holders' = Holders
  BY <1>1 DEF Slots, Holders
<1> QED
  BY <1>1, <1>2
     DEF PoolInv, TypeOK, PoolPart, SemaphoresAreExclusive, CountInv, PoolIsBounded, Indices

\* Every step keeps the invariant, terminated calls and restarts included.
LEMMA PoolStep == PoolInv /\ [Next]_vars => PoolInv'
<1> SUFFICES ASSUME PoolInv, [Next]_vars PROVE PoolInv'
  OBVIOUS
<1>1. ASSUME NEW c \in Callers, TakeOne(c) PROVE PoolInv'
  <2>1. PoolPart'
    BY <1>1, TakeOneFacts
  <2>2. pc' = [pc EXCEPT ![c] = "taken"]
    BY <1>1 DEF TakeOne
  <2>3. pc' \in [Callers -> {"idle", "taken", "called", "waiting", "reading", "resetting",
                              "returning"}]
    BY <2>2, OtherTypes
  <2>4. HeldInv'
    BY <1>1, <2>2, OtherTypes, TakeOneFacts DEF PoolInv, HeldInv
  <2>5. started' \in [Callers -> 0..MaxCalls]
    BY <1>1, OtherTypes, PoolAssumption DEF TakeOne
  <2>6. isNull' \in BOOLEAN
    BY <1>1 DEF TakeOne, SetRunner
  <2>7. UNCHANGED <<tasks, finished, restarts>>
    BY <1>1 DEF TakeOne
  <2> QED
    BY <2>1, <2>3, <2>4, <2>5, <2>6, <2>7 DEF PoolInv, PoolPart, TypeOK, Indices
<1>2. ASSUME NEW c \in Callers, PrepareFails(c) PROVE PoolInv'
  <2>1. PoolPart'
    BY <1>2, QuietPart DEF PrepareFails, PoolInv, TypeOK
  <2>2. pc' \in [Callers -> {"idle", "taken", "called", "waiting", "reading", "resetting",
                              "returning"}]
    BY <1>2 DEF PrepareFails, PoolInv, TypeOK
  <2>3. HeldInv'
    BY <1>2 DEF PrepareFails, PoolInv, TypeOK, HeldInv
  <2> QED
    BY <1>2, <2>1, <2>2, <2>3 DEF PrepareFails, poolVars, PoolInv, PoolPart, TypeOK, Indices
<1>3. ASSUME NEW c \in Callers, Execute(c) PROVE PoolInv'
  <2>1. PoolPart'
    BY <1>3, QuietPart DEF Execute, PoolInv, TypeOK
  <2>2. pc' \in [Callers -> {"idle", "taken", "called", "waiting", "reading", "resetting",
                              "returning"}]
    BY <1>3 DEF Execute, PoolInv, TypeOK
  <2>3. HeldInv'
    BY <1>3 DEF Execute, PoolInv, TypeOK, HeldInv
  <2>4. tasks' \in Seq(Tasks)
    <3>1. [call |-> Call(c), index |-> index[held[c]]] \in Tasks
      BY <1>3, OtherTypes DEF Execute, Tasks
    <3>2. tasks \in Seq(Tasks)
      BY OtherTypes DEF Tasks
    <3> QED
      BY <1>3, <3>1, <3>2 DEF Execute
  <2> QED
    BY <1>3, <2>1, <2>2, <2>3, <2>4 DEF Execute, poolVars, PoolInv, PoolPart, TypeOK, Indices, Tasks
<1>4. ASSUME NEW c \in Callers, CheckSignaled(c) PROVE PoolInv'
  <2>1. PoolPart'
    BY <1>4, QuietPart DEF CheckSignaled, PoolInv, TypeOK
  <2>2. pc' \in [Callers -> {"idle", "taken", "called", "waiting", "reading", "resetting",
                              "returning"}]
    BY <1>4 DEF CheckSignaled, PoolInv, TypeOK
  <2>3. HeldInv'
    BY <1>4 DEF CheckSignaled, PoolInv, TypeOK, HeldInv
  <2> QED
    BY <1>4, <2>1, <2>2, <2>3 DEF CheckSignaled, poolVars, PoolInv, PoolPart, TypeOK, Indices
<1>5. ASSUME NEW c \in Callers, Wait(c) PROVE PoolInv'
  <2>0. excess' \in [DOMAIN index -> Nat]
    BY <1>5, OtherTypes, PoolTypes DEF Wait
  <2>1. PoolPart'
    BY <1>5, <2>0, QuietPart DEF Wait
  <2>2. pc' \in [Callers -> {"idle", "taken", "called", "waiting", "reading", "resetting",
                              "returning"}]
    BY <1>5 DEF Wait, PoolInv, TypeOK
  <2>3. HeldInv'
    BY <1>5 DEF Wait, PoolInv, TypeOK, HeldInv
  <2> QED
    BY <1>5, <2>1, <2>2, <2>3 DEF Wait, poolVars, PoolInv, PoolPart, TypeOK, Indices
<1>6. ASSUME NEW c \in Callers, ReadReturnValue(c) PROVE PoolInv'
  <2>1. PoolPart'
    BY <1>6, QuietPart DEF ReadReturnValue, PoolInv, TypeOK
  <2>2. pc' \in [Callers -> {"idle", "taken", "called", "waiting", "reading", "resetting",
                              "returning"}]
    BY <1>6 DEF ReadReturnValue, PoolInv, TypeOK
  <2>3. HeldInv'
    BY <1>6 DEF ReadReturnValue, PoolInv, TypeOK, HeldInv
  <2> QED
    BY <1>6, <2>1, <2>2, <2>3 DEF ReadReturnValue, poolVars, PoolInv, PoolPart, TypeOK, Indices
<1>7. ASSUME NEW c \in Callers, Terminate(c) PROVE PoolInv'
  <2>1. PoolPart'
    BY <1>7, QuietPart DEF Terminate, PoolInv, TypeOK
  <2>2. pc' \in [Callers -> {"idle", "taken", "called", "waiting", "reading", "resetting",
                              "returning"}]
    BY <1>7 DEF Terminate, PoolInv, TypeOK
  <2>3. HeldInv'
    BY <1>7 DEF Terminate, PoolInv, TypeOK, HeldInv
  <2> QED
    BY <1>7, <2>1, <2>2, <2>3 DEF Terminate, poolVars, PoolInv, PoolPart, TypeOK, Indices
<1>8. ASSUME NEW c \in Callers, Reset(c) PROVE PoolInv'
  <2>0. excess' \in [DOMAIN index -> Nat]
    BY <1>8, OtherTypes, PoolTypes DEF Reset
  <2>1. PoolPart'
    BY <1>8, <2>0, QuietPart DEF Reset
  <2>2. pc' \in [Callers -> {"idle", "taken", "called", "waiting", "reading", "resetting",
                              "returning"}]
    BY <1>8 DEF Reset, PoolInv, TypeOK
  <2>3. HeldInv'
    BY <1>8 DEF Reset, PoolInv, TypeOK, HeldInv
  <2> QED
    BY <1>8, <2>1, <2>2, <2>3 DEF Reset, poolVars, PoolInv, PoolPart, TypeOK, Indices
<1>9. ASSUME NEW c \in Callers, ReturnOne(c) PROVE PoolInv'
  <2>1. PoolPart'
    BY <1>9, ReturnOneFacts
  <2>2. pc' = [pc EXCEPT ![c] = "idle"]
    BY <1>9 DEF ReturnOne
  <2>3. pc' \in [Callers -> {"idle", "taken", "called", "waiting", "reading", "resetting",
                              "returning"}]
    BY <2>2, OtherTypes
  <2>4. HeldInv'
    BY <1>9, <2>2, OtherTypes, ReturnOneFacts DEF PoolInv, HeldInv
  <2>5. started' \in [Callers -> 0..MaxCalls]
    BY <1>9, OtherTypes, PoolAssumption DEF ReturnOne
  <2>6. isNull' \in BOOLEAN
    BY <1>9 DEF ReturnOne, SetRunner
  <2>7. UNCHANGED <<tasks, finished, restarts>>
    BY <1>9 DEF ReturnOne
  <2> QED
    BY <2>1, <2>3, <2>4, <2>5, <2>6, <2>7 DEF PoolInv, PoolPart, TypeOK, Indices
<1>10. CASE RunTask
  <2>1. Head(tasks) \in Tasks /\ Tail(tasks) \in Seq(Tasks)
    BY <1>10, OtherTypes, HeadTailProperties DEF RunTask, Tasks
  <2>2. Head(tasks).call \in Callers \X Nat /\ Head(tasks).index \in Indices
    BY <2>1 DEF Tasks
  <2>3. excess' \in [DOMAIN index -> Nat]
    <3>1. table[Head(tasks).index] \in (1..Len(index)) \cup {NULL}
      BY <2>2, PoolTypes
    <3> DEFINE s == table[Head(tasks).index]
    <3>2. excess' = IF s = NULL THEN excess ELSE [excess EXCEPT ![s] = excess[s] + 1]
      BY <1>10 DEF RunTask
    <3>3. excess \in [1..Len(index) -> Nat] /\ DOMAIN index = 1..Len(index)
      BY OtherTypes, PoolTypes
    <3> HIDE DEF s
    <3>4. s \in 1..Len(index) => excess[s] + 1 \in Nat
      BY <3>3
    <3> QED
      BY <3>1, <3>2, <3>3, <3>4 DEF s
  <2>4. PoolPart'
    BY <1>10, <2>3, QuietPart DEF RunTask
  <2>5. HeldInv'
    BY <1>10 DEF RunTask, PoolInv, HeldInv
  <2> QED
    BY <1>10, <2>1, <2>2, <2>4, <2>5 DEF RunTask, poolVars, PoolInv, PoolPart, TypeOK, Indices, Tasks
<1>11. CASE Restart
  <2>1. pool' = pool /\ index' = index /\ held' = held /\ excess' = excess
    BY <1>11 DEF Restart
  <2>2. Slots' = Slots /\ Holders' = Holders
    BY <2>1 DEF Slots, Holders
  <2>3. SemaphoresAreExclusive' /\ CountInv' /\ PoolIsBounded' /\ HeldInv'
    BY <1>11, <2>1, <2>2
       DEF Restart, PoolInv, SemaphoresAreExclusive, CountInv, PoolIsBounded, HeldInv
  <2>4. restarts' \in 0..MaxRestarts
    BY <1>11, PoolAssumption DEF Restart, PoolInv, TypeOK
  <2>5. TypeOK'
    BY <1>11, <2>4 DEF Restart, PoolInv, TypeOK
  <2> QED
    BY <2>3, <2>5 DEF PoolInv
<1>12. CASE Rest \/ UNCHANGED vars
  <2>1. UNCHANGED vars
    BY <1>12 DEF Rest
  <2>2. TypeOK'
    BY <2>1 DEF vars, PoolInv, TypeOK
  <2>3. Slots' = Slots /\ Holders' = Holders
    BY <2>1 DEF vars, Slots, Holders
  <2>4. SemaphoresAreExclusive' /\ CountInv' /\ PoolIsBounded' /\ HeldInv'
    BY <2>1, <2>3
       DEF vars, PoolInv, SemaphoresAreExclusive, CountInv, PoolIsBounded, HeldInv
  <2> QED
    BY <2>2, <2>4 DEF PoolInv
<1> QED
  BY <1>1, <1>2, <1>3, <1>4, <1>5, <1>6, <1>7, <1>8, <1>9, <1>10, <1>11, <1>12 DEF Next, Step

\* The pool is empty and nobody calls at the beginning.
LEMMA PoolInit == Init => PoolInv
<1> SUFFICES ASSUME Init PROVE PoolInv
  OBVIOUS
<1>1. /\ pool = [elements |-> <<>>, pointer |-> 1] /\ index = <<>> /\ excess = <<>>
      /\ \A c \in Callers : held[c] = NULL /\ pc[c] = "idle"
  BY DEF Init
<1>2. /\ pool.elements = <<>> /\ pool.pointer = 1 /\ Len(pool.elements) = 0
      /\ DOMAIN index = {} /\ Slots = {}
  BY <1>1 DEF Slots
<1>3. TypeOK
  <2>1. pool \in [elements : Seq(DOMAIN index \cup {NULL}), pointer : Nat \ {0}]
    BY <1>1, EmptySeq
  <2>2. excess \in [DOMAIN index -> Nat]
    BY <1>1, <1>2
  <2>3. 0 \in 0..MaxCalls /\ 0 \in 0..MaxRestarts
    BY PoolAssumption
  <2> QED
    BY <1>1, <1>2, <2>1, <2>2, <2>3 DEF Init, TypeOK
<1>4. SemaphoresAreExclusive /\ HeldInv
  BY <1>1, <1>2 DEF SemaphoresAreExclusive, HeldInv
<1>5. CountInv
  BY <1>2, HoldersFinite DEF CountInv
<1>6. PoolIsBounded
  BY <1>2, PoolAssumption DEF PoolIsBounded
<1> QED
  BY <1>3, <1>4, <1>5, <1>6 DEF PoolInv

\* PoolInv holds always.
THEOREM PoolInvariance == Spec => []PoolInv
  BY PoolInit, PoolStep, PTL DEF Spec

\* The pool, the registry and the calls keep their types: takeOne and returnOne: never
\* read or write beyond the elements, with any number of calls and restarts.
THEOREM PoolTypeCorrect == Spec => []TypeOK
<1>1. PoolInv => TypeOK
  BY DEF PoolInv
<1> QED
  BY <1>1, PoolInvariance, PTL

\* No two calls ever hold the same semaphore and none is lent while it is in the pool,
\* for any callers and pool size, also when calls are terminated at any point and when
\* the image is restarted during them.
THEOREM Exclusive == Spec => []SemaphoresAreExclusive
<1>1. PoolInv => SemaphoresAreExclusive
  BY DEF PoolInv
<1> QED
  BY <1>1, PoolInvariance, PTL

\* The pool never has more elements than its initial size, or than the simultaneous
\* calls and one growth: no semaphore gets lost on any path.
THEOREM PoolBounded == Spec => []PoolIsBounded
<1>1. PoolInv => PoolIsBounded
  BY DEF PoolInv
<1> QED
  BY <1>1, PoolInvariance, PTL

------------------------------------------------------------------------------
(***************************************************************************)
(* Results                                                                 *)
(***************************************************************************)
\* No call is terminated and the image is not restarted.
NoLateSignals == Terminable = {} /\ MaxRestarts = 0

SignalsHyp == PoolInv /\ SignalsInv /\ NoLateSignals

\* A call is known by its process.
LEMMA CallFacts ==
  /\ \A c, d \in Callers : Call(c) = Call(d) => c = d
  /\ \A c \in Callers : Call(c)[1] = c /\ Call(c)[2] = started[c]
  BY DEF Call

\* A process that leaves the pool and the registry alone keeps RegisteredInv.
LEMMA QuietRegistered ==
  ASSUME RegisteredInv, UNCHANGED <<poolVars, held>>
  PROVE  RegisteredInv'
  BY DEF RegisteredInv, poolVars, Slots

\* A signal goes only to the semaphore of the call that finished.
LEMMA SignalsStep == SignalsHyp /\ [Next]_vars => SignalsInv'
<1> SUFFICES ASSUME SignalsHyp, [Next]_vars PROVE SignalsInv'
  OBVIOUS
<1>a. /\ excess \in [1..Len(index) -> Nat] /\ DOMAIN index = 1..Len(index) /\ Len(index) \in Nat
      /\ Len(tasks) \in Nat /\ finished \subseteq Callers \X Nat
      /\ started \in [Callers -> 0..MaxCalls]
      /\ pc \in [Callers -> {"idle", "taken", "called", "waiting", "reading", "resetting",
                              "returning"}]
      /\ \A d \in Callers : pc[d] # "idle" => held[d] \in 1..Len(index)
  BY OtherTypes, PoolTypes DEF SignalsHyp
<1>b. PoolInv /\ TaskInv /\ SignalInv /\ FinishedInv /\ RegisteredInv /\ ResultIsReady
  BY DEF SignalsHyp, SignalsInv
<1>c. \A d, f \in Callers : held[d] # NULL /\ held[d] = held[f] => d = f
  BY <1>b DEF PoolInv, SemaphoresAreExclusive
<1>d. \A d \in Callers : held[d] # NULL <=> pc[d] # "idle"
  BY <1>b DEF PoolInv, HeldInv
<1>1. ASSUME NEW c \in Callers, TakeOne(c) PROVE SignalsInv'
  <2>1. /\ tasks' = tasks /\ finished' = finished /\ pc[c] = "idle"
        /\ pc' = [pc EXCEPT ![c] = "taken"]
    BY <1>1 DEF TakeOne
  <2>2. /\ \A d \in Callers : d # c => held'[d] = held[d]
        /\ \A k \in 1..Len(index) : index'[k] = index[k] /\ excess'[k] = excess[k]
        /\ \A k \in DOMAIN index' : k \notin 1..Len(index) => excess'[k] = 0
        /\ RegisteredInv'
    BY <1>1, <1>b, TakeOneFacts
  <2>3. /\ \A d \in Callers : d # c => pc'[d] = pc[d] /\ Call(d)' = Call(d)
        /\ pc'[c] = "taken"
    BY <1>1, <1>a, <2>1 DEF Call, TakeOne
  <2>4. TaskInv'
    <3>1. \A k \in 1..Len(tasks) : \E d \in Callers :
             /\ tasks[k].call = Call(d)' /\ tasks[k].index = index'[held'[d]]
             /\ pc'[d] \in {"called", "waiting"} /\ Call(d)' \notin finished
      <4> TAKE k \in 1..Len(tasks)
      <4>1. PICK d \in Callers : /\ tasks[k].call = Call(d) /\ tasks[k].index = index[held[d]]
                                 /\ pc[d] \in {"called", "waiting"} /\ Call(d) \notin finished
        BY <1>b DEF TaskInv
      <4>2. d # c /\ held[d] \in 1..Len(index)
        BY <1>a, <2>1, <4>1
      <4> QED
        BY <2>2, <2>3, <4>1, <4>2
    <3> QED
      BY <1>b, <2>1, <3>1 DEF TaskInv
  <2>5. SignalInv'
    <3> SUFFICES ASSUME NEW s \in DOMAIN index', excess'[s] > 0
                 PROVE  \E d \in Callers : /\ held'[d] = s /\ Call(d)' \in finished'
                                           /\ pc'[d] \in {"called", "waiting", "reading", "resetting"}
      BY DEF SignalInv
    <3>1. s \in 1..Len(index) /\ excess[s] > 0
      <4>1. excess'[s] # 0
        OBVIOUS
      <4> QED
        BY <2>2, <4>1
    <3>2. PICK d \in Callers : /\ held[d] = s /\ Call(d) \in finished
                               /\ pc[d] \in {"called", "waiting", "reading", "resetting"}
      BY <1>a, <1>b, <3>1 DEF SignalInv
    <3>3. d # c
      BY <2>1, <3>2
    <3> QED
      BY <2>1, <2>2, <2>3, <3>2, <3>3
  <2>6. ResultIsReady'
    BY <1>b, <2>1, <2>3 DEF ResultIsReady
  <2>7. FinishedInv'
    <3>1. started' = [started EXCEPT ![c] = started[c] + 1]
      BY <1>1 DEF TakeOne
    <3>2. \A d \in Callers : started[d] \in Nat /\ started'[d] = IF d = c THEN started[c] + 1 ELSE started[d]
      BY <1>a, <3>1
    <3>3. \A call \in finished : call[1] \in Callers /\ call[2] \in Nat /\ call[2] <= started[call[1]]
      BY <1>a, <1>b DEF FinishedInv
    <3>4. \A call \in finished : call[2] <= started'[call[1]]
      <4> TAKE call \in finished
      <4>1. call[1] \in Callers /\ call[2] \in Nat /\ call[2] <= started[call[1]] /\ started[call[1]] \in Nat
        BY <3>2, <3>3
      <4>2. started'[call[1]] = started[call[1]] \/ started'[call[1]] = started[call[1]] + 1
        BY <3>2, <4>1
      <4> QED
        BY <4>1, <4>2
    <3>5. <<c, started[c] + 1>> \notin finished
      <4>1. <<c, started[c] + 1>> \in finished => started[c] + 1 <= started[c]
        BY <3>3
      <4> QED
        BY <3>2, <4>1
    <3>6. Call(c)' = <<c, started[c] + 1>>
      BY <3>2 DEF Call
    <3> QED
      BY <1>b, <2>1, <2>3, <3>4, <3>5, <3>6 DEF FinishedInv
  <2> QED
    BY <2>2, <2>4, <2>5, <2>6, <2>7 DEF SignalsInv
<1>2. ASSUME NEW c \in Callers, PrepareFails(c) PROVE SignalsInv'
  <2>1. /\ UNCHANGED <<poolVars, excess, tasks, finished, started, held>>
        /\ pc' = [pc EXCEPT ![c] = "resetting"] /\ pc[c] \in {"taken", "reading"}
    BY <1>2 DEF PrepareFails
  <2>2. index' = index /\ \A d \in Callers : Call(d)' = Call(d)
    BY <2>1 DEF Call, poolVars
  <2>3. RegisteredInv'
    BY <1>b, <2>1, QuietRegistered
  <2>4. /\ \A d \in Callers : d # c => pc'[d] = pc[d]
        /\ pc'[c] = "resetting"
    BY <1>a, <2>1
  <2>5. TaskInv'
    BY <1>b, <2>1, <2>2, <2>4 DEF TaskInv
  <2>6. SignalInv'
    BY <1>a, <1>b, <2>1, <2>2 DEF SignalInv
  <2>7. FinishedInv' /\ ResultIsReady'
    BY <1>a, <1>b, <2>1, <2>2 DEF FinishedInv, ResultIsReady
  <2> QED
    BY <2>3, <2>5, <2>6, <2>7 DEF SignalsInv
<1>3. ASSUME NEW c \in Callers, Execute(c) PROVE SignalsInv'
  <2>1. /\ UNCHANGED <<poolVars, excess, finished, started, held>> /\ pc[c] = "taken"
    BY <1>3 DEF Execute
  <2>2. index' = index /\ \A d \in Callers : Call(d)' = Call(d)
    BY <2>1 DEF Call, poolVars
  <2>3. RegisteredInv'
    BY <1>b, <2>1, QuietRegistered
  <2>4. pc' \in {[pc EXCEPT ![c] = "resetting"], [pc EXCEPT ![c] = "called"]}
    BY <1>3 DEF Execute
  <2>5. SignalInv'
    <3>1. /\ \A d \in Callers : d # c => pc'[d] = pc[d]
          /\ pc'[c] \in {"resetting", "called"}
      BY <1>a, <2>4
    <3>2. \A d \in Callers : pc[d] \in {"called", "waiting", "reading", "resetting"} =>
                              pc'[d] \in {"called", "waiting", "reading", "resetting"}
      BY <3>1
    <3> QED
      BY <1>b, <2>1, <2>2, <3>2 DEF SignalInv
  <2>6. FinishedInv' /\ ResultIsReady'
    BY <1>a, <1>b, <2>1, <2>2, <2>4 DEF FinishedInv, ResultIsReady
  <2>7. CASE isNull
    <3>1. tasks' = tasks /\ pc' = [pc EXCEPT ![c] = "resetting"]
      BY <1>3, <2>7 DEF Execute
    <3>2. \A d \in Callers : pc[d] \in {"called", "waiting"} => pc'[d] = pc[d]
      BY <1>a, <2>1, <3>1
    <3>3. TaskInv'
      BY <1>b, <2>1, <2>2, <3>1, <3>2 DEF TaskInv
    <3> QED
      BY <2>3, <2>5, <2>6, <3>3 DEF SignalsInv
  <2>8. CASE ~isNull
    <3> DEFINE x == [call |-> Call(c), index |-> index[held[c]]]
    <3>1. tasks' = Append(tasks, x) /\ pc' = [pc EXCEPT ![c] = "called"]
      BY <1>3, <2>8 DEF Execute
    <3>2. x \in Tasks /\ x.call = Call(c) /\ x.index = index[held[c]]
      BY <1>b, <2>1, OtherTypes DEF Tasks
    <3> HIDE DEF x
    <3>3. /\ Len(tasks') = Len(tasks) + 1 /\ tasks'[Len(tasks) + 1] = x
          /\ \A k \in 1..Len(tasks) : tasks'[k] = tasks[k]
      <4>1. tasks \in Seq(Tasks)
        BY <1>b, OtherTypes DEF Tasks
      <4> QED
        BY <3>1, <3>2, <4>1, AppendProperties
    <3>4. \A k \in 1..Len(tasks') : k \in 1..Len(tasks) \/ k = Len(tasks) + 1
      BY <1>a, <3>3
    <3>5. \A k \in 1..Len(tasks') : \E d \in Callers :
             /\ tasks'[k].call = Call(d) /\ tasks'[k].index = index[held[d]]
             /\ pc'[d] \in {"called", "waiting"} /\ Call(d) \notin finished
      <4> TAKE k \in 1..Len(tasks')
      <4>1. CASE k \in 1..Len(tasks)
        BY <1>a, <1>b, <3>1, <3>3, <4>1 DEF TaskInv
      <4>2. CASE k = Len(tasks) + 1
        <5>1. Call(c) \notin finished
          BY <1>b, <2>1 DEF FinishedInv
        <5> QED
          BY <1>a, <3>1, <3>2, <3>3, <4>2, <5>1
      <4> QED
        BY <3>4, <4>1, <4>2
    <3>6. \A k \in 1..Len(tasks) : tasks[k].call # Call(c)
      BY <1>b, <2>1, CallFacts DEF TaskInv
    <3>7. \A j, k \in 1..Len(tasks') : tasks'[j].call = tasks'[k].call => j = k
      BY <1>b, <3>2, <3>3, <3>4, <3>6 DEF TaskInv
    <3>8. TaskInv'
      BY <2>1, <2>2, <3>5, <3>7 DEF TaskInv
    <3> QED
      BY <2>3, <2>5, <2>6, <3>8 DEF SignalsInv
  <2> QED
    BY <2>7, <2>8
<1>4. ASSUME NEW c \in Callers, CheckSignaled(c) PROVE SignalsInv'
  <2>1. /\ UNCHANGED <<poolVars, excess, tasks, finished, started, held>>
        /\ pc[c] = "called"
        /\ pc' = [pc EXCEPT ![c] = IF excess[held[c]] > 0 THEN "reading" ELSE "waiting"]
    BY <1>4 DEF CheckSignaled
  <2>2. index' = index /\ \A d \in Callers : Call(d)' = Call(d)
    BY <2>1 DEF Call, poolVars
  <2>3. RegisteredInv'
    BY <1>b, <2>1, QuietRegistered
  <2>4. excess[held[c]] > 0 => Call(c) \in finished
    <3> SUFFICES ASSUME excess[held[c]] > 0 PROVE Call(c) \in finished
      OBVIOUS
    <3>1. held[c] \in DOMAIN index /\ held[c] # NULL
      BY <1>a, <1>c, <1>d, <2>1
    <3>2. PICK d \in Callers : held[d] = held[c] /\ Call(d) \in finished
      BY <1>b, <3>1 DEF SignalInv
    <3>3. d = c
      BY <1>c, <1>d, <3>1, <3>2
    <3> QED
      BY <3>2, <3>3
  <2>5. /\ \A d \in Callers : d # c => pc'[d] = pc[d]
        /\ pc'[c] = "waiting" \/ (pc'[c] = "reading" /\ Call(c) \in finished)
    BY <1>a, <2>1, <2>4
  <2>6. TaskInv'
    BY <1>b, <2>1, <2>2, <2>5 DEF TaskInv
  <2>7. SignalInv'
    BY <1>b, <2>1, <2>2, <2>5 DEF SignalInv
  <2>8. FinishedInv' /\ ResultIsReady'
    BY <1>b, <2>1, <2>2, <2>5 DEF FinishedInv, ResultIsReady
  <2> QED
    BY <2>3, <2>6, <2>7, <2>8 DEF SignalsInv
<1>5. ASSUME NEW c \in Callers, Wait(c) PROVE SignalsInv'
  <2>1. /\ UNCHANGED <<poolVars, tasks, finished, started, held>>
        /\ pc[c] = "waiting" /\ excess[held[c]] > 0 /\ pc' = [pc EXCEPT ![c] = "reading"]
        /\ excess' = [excess EXCEPT ![held[c]] = excess[held[c]] - 1]
    BY <1>5 DEF Wait
  <2>2. index' = index /\ \A d \in Callers : Call(d)' = Call(d)
    BY <2>1 DEF Call, poolVars
  <2>3. RegisteredInv'
    BY <1>b, <2>1, QuietRegistered
  <2>4. Call(c) \in finished
    <3>1. held[c] \in DOMAIN index /\ held[c] # NULL
      BY <1>a, <1>c, <1>d, <2>1
    <3>2. PICK d \in Callers : held[d] = held[c] /\ Call(d) \in finished
      BY <1>b, <2>1, <3>1 DEF SignalInv
    <3>3. d = c
      BY <1>c, <1>d, <3>1, <3>2
    <3> QED
      BY <3>2, <3>3
  <2>5. /\ \A d \in Callers : d # c => pc'[d] = pc[d]
        /\ pc'[c] = "reading"
    BY <1>a, <2>1, <2>4
  <2>6. TaskInv'
    BY <1>b, <2>1, <2>2, <2>4, <2>5 DEF TaskInv
  <2>7. SignalInv'
    <3>1. \A s \in 1..Len(index) : excess'[s] > 0 => excess[s] > 0
      <4>1. \A s \in 1..Len(index) : s # held[c] => excess'[s] = excess[s]
        BY <1>a, <2>1
      <4> QED
        BY <2>1, <4>1
    <3> QED
      BY <1>a, <1>b, <2>1, <2>2, <2>5, <3>1 DEF SignalInv
  <2>8. FinishedInv' /\ ResultIsReady'
    BY <1>b, <2>1, <2>2, <2>4, <2>5 DEF FinishedInv, ResultIsReady
  <2> QED
    BY <2>3, <2>6, <2>7, <2>8 DEF SignalsInv
<1>6. ASSUME NEW c \in Callers, ReadReturnValue(c) PROVE SignalsInv'
  <2>1. /\ UNCHANGED <<poolVars, excess, tasks, finished, started, held>>
        /\ pc' = [pc EXCEPT ![c] = "resetting"] /\ pc[c] \in {"taken", "reading"}
    BY <1>6 DEF ReadReturnValue
  <2>2. index' = index /\ \A d \in Callers : Call(d)' = Call(d)
    BY <2>1 DEF Call, poolVars
  <2>3. RegisteredInv'
    BY <1>b, <2>1, QuietRegistered
  <2>4. /\ \A d \in Callers : d # c => pc'[d] = pc[d]
        /\ pc'[c] = "resetting"
    BY <1>a, <2>1
  <2>5. TaskInv'
    BY <1>b, <2>1, <2>2, <2>4 DEF TaskInv
  <2>6. SignalInv'
    BY <1>a, <1>b, <2>1, <2>2 DEF SignalInv
  <2>7. FinishedInv' /\ ResultIsReady'
    BY <1>a, <1>b, <2>1, <2>2 DEF FinishedInv, ResultIsReady
  <2> QED
    BY <2>3, <2>5, <2>6, <2>7 DEF SignalsInv
<1>7. ASSUME NEW c \in Callers, Terminate(c) PROVE SignalsInv'
  BY <1>7 DEF Terminate, SignalsHyp, NoLateSignals
<1>8. ASSUME NEW c \in Callers, Reset(c) PROVE SignalsInv'
  <2>1. /\ UNCHANGED <<poolVars, tasks, finished, started, held>>
        /\ pc[c] = "resetting" /\ pc' = [pc EXCEPT ![c] = "returning"]
        /\ excess' = [excess EXCEPT ![held[c]] = 0]
    BY <1>8 DEF Reset
  <2>2. index' = index /\ \A d \in Callers : Call(d)' = Call(d)
    BY <2>1 DEF Call, poolVars
  <2>3. RegisteredInv'
    BY <1>b, <2>1, QuietRegistered
  <2>5. /\ \A d \in Callers : d # c => pc'[d] = pc[d]
        /\ pc'[c] = "returning"
    BY <1>a, <2>1
  <2>6. TaskInv'
    BY <1>b, <2>1, <2>2, <2>5 DEF TaskInv
  <2>7. SignalInv'
    <3>1. \A s \in 1..Len(index) : excess'[s] > 0 => excess[s] > 0 /\ s # held[c]
      <4>1. \A s \in 1..Len(index) : excess'[s] = IF s = held[c] THEN 0 ELSE excess[s]
        BY <1>a, <2>1
      <4> QED
        BY <4>1
    <3> QED
      BY <1>a, <1>b, <2>1, <2>2, <2>5, <3>1 DEF SignalInv
  <2>8. FinishedInv' /\ ResultIsReady'
    BY <1>b, <2>1, <2>2, <2>5 DEF FinishedInv, ResultIsReady
  <2> QED
    BY <2>3, <2>6, <2>7, <2>8 DEF SignalsInv
<1>9. ASSUME NEW c \in Callers, ReturnOne(c) PROVE SignalsInv'
  <2>1. /\ tasks' = tasks /\ finished' = finished /\ pc[c] = "returning"
        /\ pc' = [pc EXCEPT ![c] = "idle"]
    BY <1>9 DEF ReturnOne
  <2>2. /\ \A d \in Callers : d # c => held'[d] = held[d]
        /\ \A k \in 1..Len(index) : index'[k] = index[k] /\ excess'[k] = excess[k]
        /\ \A k \in DOMAIN index' : k \notin 1..Len(index) => excess'[k] = 0
        /\ RegisteredInv'
    BY <1>9, <1>b, ReturnOneFacts
  <2>3. /\ \A d \in Callers : d # c => pc'[d] = pc[d] /\ Call(d)' = Call(d)
        /\ pc'[c] = "idle"
    BY <1>9, <1>a, <2>1 DEF Call, ReturnOne
  <2>4. TaskInv'
    <3>1. \A k \in 1..Len(tasks) : \E d \in Callers :
             /\ tasks[k].call = Call(d)' /\ tasks[k].index = index'[held'[d]]
             /\ pc'[d] \in {"called", "waiting"} /\ Call(d)' \notin finished
      <4> TAKE k \in 1..Len(tasks)
      <4>1. PICK d \in Callers : /\ tasks[k].call = Call(d) /\ tasks[k].index = index[held[d]]
                                 /\ pc[d] \in {"called", "waiting"} /\ Call(d) \notin finished
        BY <1>b DEF TaskInv
      <4>2. d # c /\ held[d] \in 1..Len(index)
        BY <1>a, <2>1, <4>1
      <4> QED
        BY <2>2, <2>3, <4>1, <4>2
    <3> QED
      BY <1>b, <2>1, <3>1 DEF TaskInv
  <2>5. SignalInv'
    <3> SUFFICES ASSUME NEW s \in DOMAIN index', excess'[s] > 0
                 PROVE  \E d \in Callers : /\ held'[d] = s /\ Call(d)' \in finished'
                                           /\ pc'[d] \in {"called", "waiting", "reading", "resetting"}
      BY DEF SignalInv
    <3>1. s \in 1..Len(index) /\ excess[s] > 0
      <4>1. excess'[s] # 0
        OBVIOUS
      <4> QED
        BY <2>2, <4>1
    <3>2. PICK d \in Callers : /\ held[d] = s /\ Call(d) \in finished
                               /\ pc[d] \in {"called", "waiting", "reading", "resetting"}
      BY <1>a, <1>b, <3>1 DEF SignalInv
    <3>3. d # c
      BY <2>1, <3>2
    <3> QED
      BY <2>1, <2>2, <2>3, <3>2, <3>3
  <2>6. ResultIsReady'
    BY <1>b, <2>1, <2>3 DEF ResultIsReady
  <2>7. FinishedInv'
    <3>1. started' = started
      BY <1>9 DEF ReturnOne
    <3> QED
      BY <1>b, <2>1, <2>3, <3>1 DEF FinishedInv
  <2> QED
    BY <2>2, <2>4, <2>5, <2>6, <2>7 DEF SignalsInv
<1>10. CASE RunTask
  <2> DEFINE t == Head(tasks)
  <2>1. /\ UNCHANGED <<poolVars, started, held, pc>> /\ tasks # <<>>
        /\ finished' = finished \cup {t.call} /\ tasks' = Tail(tasks)
        /\ excess' = IF table[t.index] = NULL THEN excess
                     ELSE [excess EXCEPT ![table[t.index]] = excess[table[t.index]] + 1]
    BY <1>10 DEF RunTask
  <2>2. index' = index /\ table' = table /\ \A d \in Callers : Call(d)' = Call(d)
    BY <2>1 DEF Call, poolVars
  <2>3. RegisteredInv'
    BY <1>b, <2>1, QuietRegistered
  <2>4. /\ t = tasks[1] /\ Len(tasks') = Len(tasks) - 1 /\ 1 \in 1..Len(tasks)
        /\ \A k \in 1..Len(tasks') : tasks'[k] = tasks[k + 1]
    <3>1. tasks \in Seq(Tasks)
      BY <1>b, OtherTypes DEF Tasks
    <3> QED
      BY <2>1, <3>1, HeadTailProperties, EmptySeq
  <2> HIDE DEF t
  <2>5. PICK c \in Callers : /\ t.call = Call(c) /\ t.index = index[held[c]]
                             /\ pc[c] \in {"called", "waiting"} /\ Call(c) \notin finished
    BY <1>b, <2>4 DEF TaskInv
  <2>6. held[c] \in 1..Len(index) /\ table[t.index] = held[c] /\ held[c] # NULL
    BY <1>a, <1>b, <1>d, <2>5 DEF RegisteredInv
  <2>7. \A s \in 1..Len(index) : s # held[c] => excess'[s] = excess[s]
    BY <1>a, <2>1, <2>6
  <2>8. SignalInv'
    <3> SUFFICES ASSUME NEW s \in 1..Len(index), excess'[s] > 0
                 PROVE  \E d \in Callers : /\ held[d] = s /\ Call(d) \in finished'
                                           /\ pc[d] \in {"called", "waiting", "reading", "resetting"}
      BY <1>a, <2>1, <2>2 DEF SignalInv
    <3>1. CASE s = held[c]
      BY <2>1, <2>5, <3>1
    <3>2. CASE s # held[c]
      BY <1>a, <1>b, <2>1, <2>7, <3>2 DEF SignalInv
    <3> QED
      BY <3>1, <3>2
  <2>9. TaskInv'
    <3>1. \A k \in 1..Len(tasks') : k + 1 \in 1..Len(tasks) /\ k + 1 # 1
      BY <1>a, <2>4
    <3>2. \A k \in 1..Len(tasks') : \E d \in Callers :
             /\ tasks'[k].call = Call(d) /\ tasks'[k].index = index[held[d]]
             /\ pc[d] \in {"called", "waiting"} /\ Call(d) \notin finished'
      <4> TAKE k \in 1..Len(tasks')
      <4>1. PICK d \in Callers :
               /\ tasks[k + 1].call = Call(d) /\ tasks[k + 1].index = index[held[d]]
               /\ pc[d] \in {"called", "waiting"} /\ Call(d) \notin finished
        BY <1>b, <3>1 DEF TaskInv
      <4>2. tasks[k + 1].call # t.call
        BY <1>b, <2>4, <3>1 DEF TaskInv
      <4> QED
        BY <2>1, <2>4, <4>1, <4>2
    <3>3. \A j, k \in 1..Len(tasks') : tasks'[j].call = tasks'[k].call => j = k
      <4> SUFFICES ASSUME NEW j \in 1..Len(tasks'), NEW k \in 1..Len(tasks'),
                          tasks'[j].call = tasks'[k].call
                   PROVE  j = k
        OBVIOUS
      <4>1. j + 1 = k + 1
        BY <1>b, <2>4, <3>1 DEF TaskInv
      <4> QED
        BY <4>1
    <3> QED
      BY <2>1, <2>2, <3>2, <3>3 DEF TaskInv
  <2>10. FinishedInv'
    <3>1. Call(c)[1] = c /\ Call(c)[2] = started[c] /\ started[c] \in Nat
      BY <1>a, CallFacts
    <3>2. \A call \in finished' : call[2] <= started[call[1]]
      BY <1>b, <2>1, <2>5, <3>1 DEF FinishedInv
    <3>3. \A d \in Callers : pc[d] = "taken" => Call(d) \notin finished'
      <4>1. \A d \in Callers : pc[d] = "taken" => d # c /\ Call(d) # Call(c)
        BY <2>5, CallFacts
      <4> QED
        BY <1>b, <2>1, <2>5, <4>1 DEF FinishedInv
    <3> QED
      BY <2>1, <2>2, <3>2, <3>3 DEF FinishedInv
  <2>11. ResultIsReady'
    BY <1>b, <2>1, <2>2 DEF ResultIsReady
  <2> QED
    BY <2>3, <2>8, <2>9, <2>10, <2>11 DEF SignalsInv
<1>11. CASE Restart
  <2>1. restarts \in 0..0 /\ restarts < 0
    BY <1>11, <1>b DEF Restart, SignalsHyp, NoLateSignals, PoolInv, TypeOK
  <2> QED
    BY <2>1
<1>12. CASE Rest \/ UNCHANGED vars
  <2>1. UNCHANGED vars
    BY <1>12 DEF Rest
  <2> QED
    BY <1>b, <2>1
       DEF vars, SignalsInv, TaskInv, SignalInv, FinishedInv, RegisteredInv, ResultIsReady, Call, Slots
<1> QED
  BY <1>1, <1>2, <1>3, <1>4, <1>5, <1>6, <1>7, <1>8, <1>9, <1>10, <1>11, <1>12 DEF Next, Step

\* "When the semaphore is signaled, the result is available": as long as no call is
\* terminated and the image is not restarted, a process reads the return value of its
\* call only after its function came back, although the semaphores are reused and a
\* signal that is found before the wait is not consumed.
THEOREM ResultsAreReady == ASSUME NoLateSignals PROVE Spec => []ResultIsReady
<1>1. Init => SignalsInv
  BY DEF Init, SignalsInv, TaskInv, SignalInv, FinishedInv, RegisteredInv, ResultIsReady
<1>2. PoolInv /\ SignalsInv /\ [Next]_vars => SignalsInv'
  BY SignalsStep DEF SignalsHyp
<1>3. SignalsInv => ResultIsReady
  BY DEF SignalsInv
<1> QED
  BY <1>1, <1>2, <1>3, PoolInvariance, PTL DEF Spec
==============================================================================
