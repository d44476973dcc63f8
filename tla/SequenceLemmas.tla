---------------------------- MODULE SequenceLemmas ----------------------------
(***************************************************************************)
(* Facts about sequences that the proofs of several components rest on:    *)
(* a sequence with one more element in front, and how many elements of a   *)
(* set a sequence holds when an element is added to it or taken from it.   *)
(***************************************************************************)
EXTENDS Integers, Sequences, FiniteSets, SequenceTheorems, FiniteSetTheorems, TLAPS

\* The positions of s that hold an element of T, and how many they are.
Positions(s, T) == {k \in 1..Len(s) : s[k] \in T}
Count(s, T) == Cardinality(Positions(s, T))

\* A sequence with one more element in front.
LEMMA PushProperties ==
  ASSUME NEW S, NEW s \in Seq(S), NEW x \in S
  PROVE  /\ <<x>> \o s \in Seq(S)
         /\ <<x>> \o s # <<>>
         /\ Len(<<x>> \o s) = Len(s) + 1
         /\ (<<x>> \o s)[1] = x
         /\ \A n \in 1..Len(s) : (<<x>> \o s)[n + 1] = s[n]
         /\ \A n \in 2..(Len(s) + 1) : (<<x>> \o s)[n] = s[n - 1]
         /\ Head(<<x>> \o s) = x
<1>1. <<x>> \in Seq(S) /\ Len(<<x>>) = 1 /\ <<x>>[1] = x
  OBVIOUS
<1>2. /\ <<x>> \o s \in Seq(S)
      /\ Len(<<x>> \o s) = Len(s) + 1
      /\ \A n \in 1..(Len(s) + 1) :
           (<<x>> \o s)[n] = IF n <= 1 THEN <<x>>[n] ELSE s[n - 1]
  BY <1>1, ConcatProperties
<1>3. Len(s) \in Nat
  OBVIOUS
<1> QED
  BY <1>1, <1>2, <1>3

\* A sequence has finitely many positions.
LEMMA CountType ==
  ASSUME NEW S, NEW s \in Seq(S), NEW T
  PROVE  /\ IsFiniteSet(Positions(s, T))
         /\ Count(s, T) \in Nat
         /\ Count(s, T) = 0 <=> \A k \in 1..Len(s) : s[k] \notin T
<1>1. Len(s) \in Nat /\ IsFiniteSet(1..Len(s))
  BY FS_Interval
<1>2. Positions(s, T) \in SUBSET (1..Len(s))
  BY DEF Positions
<1>3. IsFiniteSet(Positions(s, T))
  BY <1>1, <1>2, FS_Subset
<1>4. Count(s, T) \in Nat
  BY <1>3, FS_CardinalityType DEF Count
<1>5. Count(s, T) = 0 <=> Positions(s, T) = {}
  BY <1>3, FS_EmptySet DEF Count
<1> QED
  BY <1>3, <1>4, <1>5 DEF Positions

\* The empty sequence holds nothing.
LEMMA CountEmpty ==
  ASSUME NEW T
  PROVE  Count(<<>>, T) = 0
<1>1. Positions(<<>>, T) = {}
  BY DEF Positions
<1> QED
  BY <1>1, FS_EmptySet DEF Count

\* An element that is appended counts if it is in the set.
LEMMA CountAppend ==
  ASSUME NEW S, NEW s \in Seq(S), NEW x \in S, NEW T
  PROVE  Count(Append(s, x), T) = IF x \in T THEN Count(s, T) + 1 ELSE Count(s, T)
<1>1. Len(s) \in Nat /\ Len(Append(s, x)) = Len(s) + 1
  OBVIOUS
<1>2. \A k \in 1..Len(s) : Append(s, x)[k] = s[k]
  OBVIOUS
<1>3. Append(s, x)[Len(s) + 1] = x
  OBVIOUS
<1>4. CASE x \in T
  <2>1. Positions(Append(s, x), T) = Positions(s, T) \cup {Len(s) + 1}
    BY <1>1, <1>2, <1>3, <1>4 DEF Positions
  <2>2. Len(s) + 1 \notin Positions(s, T)
    BY <1>1 DEF Positions
  <2>3. IsFiniteSet(Positions(s, T))
    BY CountType
  <2> QED
    BY <1>4, <2>1, <2>2, <2>3, FS_AddElement DEF Count
<1>5. CASE x \notin T
  <2>1. Positions(Append(s, x), T) = Positions(s, T)
    BY <1>1, <1>2, <1>3, <1>5 DEF Positions
  <2> QED
    BY <1>5, <2>1 DEF Count
<1> QED
  BY <1>4, <1>5

\* So does the element that is taken from the front.
LEMMA CountTail ==
  ASSUME NEW S, NEW s \in Seq(S), s # <<>>, NEW T
  PROVE  Count(s, T) = IF Head(s) \in T THEN Count(Tail(s), T) + 1 ELSE Count(Tail(s), T)
<1>1. /\ Tail(s) \in Seq(S) /\ Len(Tail(s)) = Len(s) - 1
      /\ \A k \in 1..Len(Tail(s)) : Tail(s)[k] = s[k + 1]
  BY HeadTailProperties
<1>2. Len(s) \in Nat \ {0} /\ Head(s) = s[1]
  BY EmptySeq
<1> DEFINE rest == Positions(s, T) \ {1}
           shift == [k \in Positions(Tail(s), T) |-> k + 1]
<1>3. IsFiniteSet(Positions(s, T)) /\ IsFiniteSet(Positions(Tail(s), T))
  BY <1>1, CountType
<1>4. shift \in Bijection(Positions(Tail(s), T), rest)
  <2>1. \A k \in Positions(Tail(s), T) : shift[k] = k + 1 /\ k \in 1..Len(Tail(s))
    BY DEF Positions
  <2>2. shift \in [Positions(Tail(s), T) -> rest]
    <3>1. \A k \in Positions(Tail(s), T) : k + 1 \in rest
      BY <1>1, <1>2 DEF Positions
    <3> QED
      BY <3>1
  <2>3. \A j, k \in Positions(Tail(s), T) : shift[j] = shift[k] => j = k
    BY <1>1, <1>2, <2>1
  <2>4. \A n \in rest : \E k \in Positions(Tail(s), T) : shift[k] = n
    <3> TAKE n \in rest
    <3>1. n \in 2..Len(s) /\ s[n] \in T
      BY <1>2 DEF Positions
    <3>2. n - 1 \in 1..Len(Tail(s)) /\ Tail(s)[n - 1] = s[n]
      BY <1>1, <1>2, <3>1
    <3>3. n - 1 \in Positions(Tail(s), T)
      BY <3>1, <3>2 DEF Positions
    <3>4. shift[n - 1] = n
      BY <3>1, <3>3
    <3> QED
      BY <3>3, <3>4
  <2> HIDE DEF shift, rest
  <2> QED
    BY <2>2, <2>3, <2>4 DEF Bijection, Injection, Surjection, IsInjective
<1>5. Cardinality(rest) = Count(Tail(s), T)
  <2>1. ExistsBijection(Positions(Tail(s), T), rest)
    BY <1>4 DEF ExistsBijection
  <2> QED
    BY <1>3, <2>1, FS_Bijection DEF Count
<1>6. 1 \in Positions(s, T) <=> Head(s) \in T
  BY <1>2 DEF Positions
<1>7. Cardinality(rest) = IF Head(s) \in T THEN Count(s, T) - 1 ELSE Count(s, T)
  BY <1>3, <1>6, FS_RemoveElement DEF Count
<1>8. Count(s, T) \in Nat
  BY CountType
<1> QED
  BY <1>5, <1>7, <1>8

\* And the element that is pushed in front.
LEMMA CountPush ==
  ASSUME NEW S, NEW s \in Seq(S), NEW x \in S, NEW T
  PROVE  Count(<<x>> \o s, T) = IF x \in T THEN Count(s, T) + 1 ELSE Count(s, T)
<1> DEFINE p == <<x>> \o s
<1>1. /\ p \in Seq(S) /\ p # <<>> /\ Len(p) = Len(s) + 1 /\ Head(p) = x
      /\ \A n \in 1..Len(s) : p[n + 1] = s[n]
  BY PushProperties
<1>2. /\ Tail(p) \in Seq(S) /\ Len(Tail(p)) = Len(p) - 1
      /\ \A n \in 1..Len(Tail(p)) : Tail(p)[n] = p[n + 1]
  BY <1>1, HeadTailProperties
<1> HIDE DEF p
<1>3. Len(s) \in Nat
  OBVIOUS
<1>4. Len(Tail(p)) = Len(s) /\ \A n \in 1..Len(s) : Tail(p)[n] = s[n]
  BY <1>1, <1>2, <1>3
<1>5. Tail(p) = s
  BY <1>2, <1>4, SeqEqual
<1>6. Count(p, T) = IF x \in T THEN Count(s, T) + 1 ELSE Count(s, T)
  BY <1>1, <1>5, CountTail
<1> QED
  BY <1>6 DEF p

\* A sequence without its last element, when an element is pushed in front.
LEMMA FrontPush ==
  ASSUME NEW S, NEW s \in Seq(S), s # <<>>, NEW x \in S
  PROVE  SubSeq(<<x>> \o s, 1, Len(<<x>> \o s) - 1) = <<x>> \o SubSeq(s, 1, Len(s) - 1)
<1> DEFINE p == <<x>> \o s
           f == SubSeq(s, 1, Len(s) - 1)
           g == SubSeq(p, 1, Len(p) - 1)
<1>1. /\ p \in Seq(S) /\ Len(p) = Len(s) + 1 /\ p[1] = x
      /\ \A n \in 2..(Len(s) + 1) : p[n] = s[n - 1]
  BY PushProperties
<1>2. Len(s) \in Nat \ {0}
  BY EmptySeq
<1>3. f \in Seq(S) /\ Len(f) = Len(s) - 1 /\ \A n \in 1..(Len(s) - 1) : f[n] = s[n]
  <2>1. Len(s) \in Nat /\ Len(s) - 1 \in Nat /\ \A n \in 1..(Len(s) - 1) : s[n] \in S
    BY <1>2
  <2>2. /\ f \in Seq(S) /\ Len(f) = IF 1 <= Len(s) - 1 THEN (Len(s) - 1) - 1 + 1 ELSE 0
        /\ \A n \in 1..((Len(s) - 1) - 1 + 1) : f[n] = s[1 + n - 1]
    BY <2>1, SubSeqProperties
  <2> HIDE DEF f
  <2>3. Len(f) = Len(s) - 1
    <3>1. Len(f) = IF 1 <= Len(s) - 1 THEN (Len(s) - 1) - 1 + 1 ELSE 0
      BY <2>2
    <3>2. \A n \in Nat : n = IF 1 <= n THEN n - 1 + 1 ELSE 0
      OBVIOUS
    <3> QED
      BY ONLY <2>1, <3>1, <3>2
  <2>4. \A n \in 1..(Len(s) - 1) : n \in 1..((Len(s) - 1) - 1 + 1) /\ 1 + n - 1 = n
    BY <2>1
  <2> QED
    BY <2>2, <2>3, <2>4
<1>4. /\ <<x>> \o f \in Seq(S) /\ Len(<<x>> \o f) = Len(f) + 1 /\ (<<x>> \o f)[1] = x
      /\ \A n \in 2..(Len(f) + 1) : (<<x>> \o f)[n] = f[n - 1]
  BY <1>3, PushProperties
<1> HIDE DEF p, f
<1>5. g \in Seq(S) /\ Len(g) = Len(s) /\ \A n \in 1..Len(s) : g[n] = p[n]
  BY <1>1, <1>2, SubSeqProperties
<1> HIDE DEF g
<1>6. \A n \in 1..Len(g) : g[n] = (<<x>> \o f)[n]
  <2> TAKE n \in 1..Len(g)
  <2>1. CASE n = 1
    BY <1>1, <1>2, <1>4, <1>5, <2>1
  <2>2. CASE n # 1
    BY <1>1, <1>2, <1>3, <1>4, <1>5, <2>2
  <2> QED
    BY <2>1, <2>2
<1>7. Len(g) = Len(<<x>> \o f)
  BY <1>2, <1>3, <1>4, <1>5
<1>8. g = <<x>> \o f
  BY <1>4, <1>5, <1>6, <1>7, SeqEqual
<1> QED
  BY <1>8 DEF g, p, f

\* A sequence without its last element, when the first one is taken.
LEMMA FrontTail ==
  ASSUME NEW S, NEW s \in Seq(S), Len(s) > 1
  PROVE  /\ SubSeq(s, 1, Len(s) - 1) # <<>>
         /\ SubSeq(s, 1, Len(s) - 1) \in Seq(S)
         /\ Head(SubSeq(s, 1, Len(s) - 1)) = s[1]
         /\ SubSeq(Tail(s), 1, Len(Tail(s)) - 1) = Tail(SubSeq(s, 1, Len(s) - 1))
<1> DEFINE f == SubSeq(s, 1, Len(s) - 1)
           t == Tail(s)
           g == SubSeq(t, 1, Len(t) - 1)
<1>1. Len(s) \in Nat /\ s # <<>>
  BY EmptySeq
<1>2. t \in Seq(S) /\ Len(t) = Len(s) - 1 /\ \A n \in 1..Len(t) : t[n] = s[n + 1]
  BY <1>1, HeadTailProperties
<1>3. f \in Seq(S) /\ Len(f) = Len(s) - 1 /\ \A n \in 1..(Len(s) - 1) : f[n] = s[n]
  BY <1>1, SubSeqProperties
<1> HIDE DEF f, t
<1>4. g \in Seq(S) /\ Len(g) = Len(t) - 1 /\ \A n \in 1..(Len(t) - 1) : g[n] = t[n]
  <2>1. \A n \in 1..(Len(t) - 1) : t[n] \in S
    BY <1>1, <1>2
  <2>2. Len(t) \in Nat /\ Len(t) - 1 \in Nat
    BY <1>1, <1>2
  <2>3. /\ g \in Seq(S) /\ Len(g) = IF 1 <= Len(t) - 1 THEN (Len(t) - 1) - 1 + 1 ELSE 0
        /\ \A n \in 1..((Len(t) - 1) - 1 + 1) : g[n] = t[1 + n - 1]
    BY <2>1, <2>2, SubSeqProperties
  <2> HIDE DEF g
  <2>4. Len(g) = Len(t) - 1
    <3>1. Len(g) = IF 1 <= Len(t) - 1 THEN (Len(t) - 1) - 1 + 1 ELSE 0
      BY <2>3
    <3>2. \A n \in Nat : n = IF 1 <= n THEN n - 1 + 1 ELSE 0
      OBVIOUS
    <3> QED
      BY ONLY <2>2, <3>1, <3>2
  <2>5. \A n \in 1..(Len(t) - 1) : n \in 1..((Len(t) - 1) - 1 + 1) /\ 1 + n - 1 = n
    BY <2>2
  <2> QED
    BY <2>3, <2>4, <2>5
<1> HIDE DEF g
<1>5. f # <<>> /\ Head(f) = f[1] /\ f[1] = s[1]
  BY <1>1, <1>3
<1>6. /\ Tail(f) \in Seq(S) /\ Len(Tail(f)) = Len(f) - 1
      /\ \A n \in 1..Len(Tail(f)) : Tail(f)[n] = f[n + 1]
  BY <1>3, <1>5, HeadTailProperties
<1>7. Len(g) = Len(Tail(f))
  BY <1>1, <1>2, <1>3, <1>4, <1>6
<1>8. \A n \in 1..Len(g) : g[n] = Tail(f)[n]
  BY <1>1, <1>2, <1>3, <1>4, <1>6
<1>9. g = Tail(f)
  BY <1>4, <1>6, <1>7, <1>8, SeqEqual
<1> QED
  BY <1>3, <1>5, <1>9 DEF f, g, t
==============================================================================
