--------------------------- MODULE IspBeBufProofs ---------------------------
(***************************************************************************)
(* Theorems about the BE configuration buffers, for any number of nodes,   *)
(* any number of references VI keeps and every kind of environment unless  *)
(* a theorem says otherwise.                                               *)
(***************************************************************************)
EXTENDS IspBeBuf, SequenceTheorems, FiniteSetTheorems, TLAPS

-----------------------------------------------------------------------------
(* What the operations on node lists do to the nodes in them and to their  *)
(* being linked once.                                                      *)

\* A list nothing is linked into.
LEMMA EmptyLists ==
  /\ \A S : <<>> \in Seq(S)
  /\ Elems(<<>>) = {}
  /\ Distinct(<<>>)
BY DEF Elems, Distinct

\* Appending a node (osal_list_add_tail).
LEMMA AppendList ==
  ASSUME NEW S, NEW s \in Seq(S), NEW e \in S
  PROVE  /\ Append(s, e) \in Seq(S)
         /\ Elems(Append(s, e)) = Elems(s) \cup {e}
         /\ Distinct(s) /\ e \notin Elems(s) => Distinct(Append(s, e))
<1> DEFINE t == Append(s, e)
<1>1. /\ t \in Seq(S)
      /\ Len(t) = Len(s) + 1
      /\ Len(s) \in Nat
      /\ \A i \in 1..Len(s) : t[i] = s[i]
      /\ t[Len(s) + 1] = e
  BY AppendProperties, LenProperties
<1> HIDE DEF t
<1>2. \A i \in 1..Len(t) : i \in 1..Len(s) \/ i = Len(s) + 1
  BY <1>1
<1>3. Elems(t) = Elems(s) \cup {e}
  BY <1>1, <1>2 DEF Elems
<1>4. ASSUME Distinct(s), e \notin Elems(s) PROVE Distinct(t)
  BY <1>1, <1>2, <1>4 DEF Elems, Distinct
<1>5. QED
  BY <1>1, <1>3, <1>4 DEF t

\* Splicing a list onto the tail of another.
LEMMA ConcatList ==
  ASSUME NEW S, NEW s \in Seq(S), NEW u \in Seq(S)
  PROVE  /\ s \o u \in Seq(S)
         /\ Elems(s \o u) = Elems(s) \cup Elems(u)
         /\ Distinct(s) /\ Distinct(u) /\ Elems(s) \cap Elems(u) = {}
               => Distinct(s \o u)
<1> DEFINE t == s \o u
<1>1. /\ t \in Seq(S)
      /\ Len(t) = Len(s) + Len(u)
      /\ Len(s) \in Nat /\ Len(u) \in Nat
      /\ \A i \in 1..Len(s) + Len(u) :
           t[i] = IF i <= Len(s) THEN s[i] ELSE u[i - Len(s)]
  BY ConcatProperties, LenProperties
<1> HIDE DEF t
<1>2. \A i \in 1..Len(s) : i \in 1..Len(t) /\ t[i] = s[i]
  BY <1>1
<1>3. \A i \in 1..Len(u) : i + Len(s) \in 1..Len(t) /\ t[i + Len(s)] = u[i]
  BY <1>1
<1>4. \A i \in 1..Len(t) :
        \/ i \in 1..Len(s) /\ t[i] = s[i]
        \/ i - Len(s) \in 1..Len(u) /\ t[i] = u[i - Len(s)]
  BY <1>1
<1>5. Elems(t) = Elems(s) \cup Elems(u)
  <2>1. ASSUME NEW x \in Elems(t) PROVE x \in Elems(s) \cup Elems(u)
    BY <1>4 DEF Elems
  <2>2. ASSUME NEW x \in Elems(s) PROVE x \in Elems(t)
    BY <1>2 DEF Elems
  <2>3. ASSUME NEW x \in Elems(u) PROVE x \in Elems(t)
    BY <1>3 DEF Elems
  <2>4. QED
    BY <2>1, <2>2, <2>3
<1>6. ASSUME Distinct(s), Distinct(u), Elems(s) \cap Elems(u) = {}
      PROVE  Distinct(t)
  <2>1. SUFFICES ASSUME NEW i \in 1..Len(t), NEW j \in 1..Len(t), t[i] = t[j]
                 PROVE  i = j
    BY DEF Distinct
  <2>2. CASE i \in 1..Len(s) /\ j \in 1..Len(s)
    BY <1>2, <1>6, <2>1, <2>2 DEF Distinct
  <2>3. CASE i \notin 1..Len(s) /\ j \notin 1..Len(s)
    <3>1. i - Len(s) \in 1..Len(u) /\ j - Len(s) \in 1..Len(u)
          /\ u[i - Len(s)] = u[j - Len(s)]
      BY <1>4, <2>1, <2>3
    <3>2. i - Len(s) = j - Len(s)
      BY <1>6, <3>1 DEF Distinct
    <3>3. QED
      BY <1>1, <3>2
  <2>4. CASE i \in 1..Len(s) /\ j \notin 1..Len(s)
    <3>1. t[i] \in Elems(s) /\ t[j] \in Elems(u)
      BY <1>2, <1>4, <2>4 DEF Elems
    <3>2. QED
      BY <1>6, <2>1, <3>1
  <2>5. CASE i \notin 1..Len(s) /\ j \in 1..Len(s)
    <3>1. t[j] \in Elems(s) /\ t[i] \in Elems(u)
      BY <1>2, <1>4, <2>5 DEF Elems
    <3>2. QED
      BY <1>6, <2>1, <3>1
  <2>6. QED
    BY <2>2, <2>3, <2>4, <2>5
<1>7. QED
  BY <1>1, <1>5, <1>6 DEF t

\* Taking the head of a list (isp_queue_get_free_buf).
LEMMA TakeHead ==
  ASSUME NEW S, NEW s \in Seq(S), s # <<>>
  PROVE  /\ Head(s) \in S
         /\ Tail(s) \in Seq(S)
         /\ Head(s) \in Elems(s)
         /\ Elems(s) = Elems(Tail(s)) \cup {Head(s)}
         /\ Distinct(s) => Distinct(Tail(s)) /\ Head(s) \notin Elems(Tail(s))
<1> DEFINE t == Tail(s)
<1>1. /\ t \in Seq(S)
      /\ Head(s) = s[1]
      /\ Head(s) \in S
      /\ Len(s) \in Nat \ {0}
      /\ Len(t) = Len(s) - 1
      /\ \A i \in 1..Len(t) : t[i] = s[i + 1]
  BY HeadTailProperties, LenProperties, EmptySeq
<1> HIDE DEF t
<1>2. \A i \in 1..Len(s) : i = 1 \/ (i - 1 \in 1..Len(t) /\ s[i] = t[i - 1])
  BY <1>1
<1>3. \A i \in 1..Len(t) : i + 1 \in 1..Len(s)
  BY <1>1
<1>4. Head(s) \in Elems(s)
  BY <1>1 DEF Elems
<1>5. Elems(s) = Elems(t) \cup {Head(s)}
  <2>1. ASSUME NEW x \in Elems(s) PROVE x \in Elems(t) \cup {Head(s)}
    BY <1>1, <1>2 DEF Elems
  <2>2. ASSUME NEW x \in Elems(t) PROVE x \in Elems(s)
    BY <1>1, <1>3 DEF Elems
  <2>3. QED
    BY <1>4, <2>1, <2>2
<1>6. ASSUME Distinct(s) PROVE Distinct(t) /\ Head(s) \notin Elems(t)
  <2>1. ASSUME NEW i \in 1..Len(t), NEW j \in 1..Len(t), t[i] = t[j]
        PROVE  i = j
    <3>1. i + 1 \in 1..Len(s) /\ j + 1 \in 1..Len(s) /\ s[i + 1] = s[j + 1]
      BY <1>1, <1>3, <2>1
    <3>2. i + 1 = j + 1
      BY <1>6, <3>1 DEF Distinct
    <3>3. QED
      BY <3>2
  <2>2. ASSUME NEW i \in 1..Len(t) PROVE t[i] # s[1]
    <3>1. i + 1 \in 1..Len(s) /\ 1 \in 1..Len(s) /\ i + 1 # 1
      BY <1>1, <1>3
    <3>2. s[i + 1] # s[1]
      BY <1>6, <3>1 DEF Distinct
    <3>3. QED
      BY <1>1, <3>2
  <2>3. QED
    BY <1>1, <2>1, <2>2 DEF Distinct, Elems
<1>7. QED
  BY <1>1, <1>4, <1>5, <1>6 DEF t

\* Taking the tail of a list (isp_queue_get_free_buf_tail).
LEMMA TakeLast ==
  ASSUME NEW S, NEW s \in Seq(S), s # <<>>
  PROVE  LET t == SubSeq(s, 1, Len(s) - 1)
             e == s[Len(s)]
         IN /\ e \in S
            /\ t \in Seq(S)
            /\ Elems(s) = Elems(t) \cup {e}
            /\ Distinct(s) => Distinct(t) /\ e \notin Elems(t)
<1> DEFINE t == SubSeq(s, 1, Len(s) - 1)
           e == s[Len(s)]
<1>1. Len(s) \in Nat \ {0} /\ \A i \in 1..Len(s) : s[i] \in S
  BY EmptySeq, ElementOfSeq
<1>2. /\ t \in Seq(S)
      /\ Len(t) = Len(s) - 1
      /\ \A i \in 1..Len(t) : t[i] = s[i]
  <2> DEFINE m == Len(s) - 1
  <2>1. m \in 0..Len(s) /\ m = Len(s) - 1 /\ t = SubSeq(s, 1, m)
    BY <1>1
  <2> HIDE DEF m, t
  <2>2. t = Restrict(s, 1..m)
    BY <2>1, SubSeqRestrict
  <2>3. t = [i \in 1..m |-> s[i]]
    BY <2>2 DEF Restrict
  <2>4. m \in Nat /\ \A i \in 1..m : s[i] \in S
    BY <1>1, <2>1
  <2>5. QED
    BY <2>1, <2>3, <2>4
<1> HIDE DEF t
<1>3. e \in S
  BY <1>1
<1>4. Elems(s) = Elems(t) \cup {e}
  <2>1. \A i \in 1..Len(s) : i \in 1..Len(t) \/ i = Len(s)
    BY <1>1, <1>2
  <2>2. \A i \in 1..Len(t) : i \in 1..Len(s)
    BY <1>1, <1>2
  <2>3. Len(s) \in 1..Len(s)
    BY <1>1
  <2>4. QED
    BY <1>2, <2>1, <2>2, <2>3 DEF Elems
<1>5. ASSUME Distinct(s) PROVE Distinct(t) /\ e \notin Elems(t)
  <2>1. \A i \in 1..Len(t) : i \in 1..Len(s) /\ i # Len(s)
    BY <1>1, <1>2
  <2>2. Len(s) \in 1..Len(s)
    BY <1>1
  <2>3. QED
    BY <1>2, <1>5, <2>1, <2>2 DEF Distinct, Elems
<1>6. QED
  BY <1>2, <1>3, <1>4, <1>5 DEF t

\* The nodes of a list are among those it was built from.
LEMMA ElemsType ==
  ASSUME NEW S, NEW s \in Seq(S)
  PROVE  Elems(s) \subseteq S
BY ElementOfSeq DEF Elems

\* Moving some nodes of a list, or deleting one, keeps them linked once.
LEMMA SubListIsList ==
  ASSUME NEW S, IsFiniteSet(S), NEW s \in Seq(S), NEW T \in SUBSET S,
         NEW r \in SubList(s, T)
  PROVE  /\ r \in Seq(S)
         /\ Elems(r) = T
         /\ Distinct(s) => Distinct(r)
<1> DEFINE n == Cardinality(T)
<1>1. n \in Nat
  BY FS_Subset, FS_CardinalityType
<1> HIDE DEF n
<1>2. /\ r \in [1..n -> T]
      /\ T = Elems(r)
      /\ \A i, j \in 1..n : i < j =>
           \E a, b \in 1..Len(s) : a < b /\ s[a] = r[i] /\ s[b] = r[j]
  BY DEF SubList, n
<1>3. r \in Seq(T) /\ Len(r) = n
  BY <1>1, <1>2
<1>4. r \in Seq(S)
  BY <1>3, SeqMonotonic
<1>5. ASSUME Distinct(s) PROVE Distinct(r)
  <2>1. Len(s) \in Nat
    BY LenProperties
  <2>2. \A i, j \in 1..n : i < j => r[i] # r[j]
    <3>1. SUFFICES ASSUME NEW i \in 1..n, NEW j \in 1..n, i < j PROVE r[i] # r[j]
      OBVIOUS
    <3>2. PICK a \in 1..Len(s), b \in 1..Len(s) :
            a < b /\ s[a] = r[i] /\ s[b] = r[j]
      BY <1>2, <3>1
    <3>3. a # b
      BY <2>1, <3>2
    <3>4. QED
      BY <1>5, <3>2, <3>3 DEF Distinct
  <2>3. \A i, j \in 1..n : i # j => i < j \/ j < i
    BY <1>1
  <2>4. QED
    BY <1>3, <2>2, <2>3 DEF Distinct
<1>6. QED
  BY <1>2, <1>4, <1>5

\* Dropping one entry.
LEMMA WithoutIsList ==
  ASSUME NEW S, NEW s \in Seq(S), NEW i \in 1..Len(s)
  PROVE  /\ Without(s, i) \in Seq(S)
         /\ Len(Without(s, i)) = Len(s) - 1
<1>1. Len(s) \in Nat /\ Len(s) - 1 \in Nat
  BY LenProperties
<1>2. \A j \in 1..(Len(s) - 1) : j \in 1..Len(s) /\ j + 1 \in 1..Len(s)
  BY <1>1
<1>3. \A j \in 1..(Len(s) - 1) : (IF j < i THEN s[j] ELSE s[j + 1]) \in S
  BY <1>2, ElementOfSeq
<1>4. Without(s, i) \in [1..(Len(s) - 1) -> S]
  BY <1>3 DEF Without
<1>5. QED
  BY <1>1, <1>4
-----------------------------------------------------------------------------
(* How often a node is in a list.                                          *)

LEMMA Occurs ==
  ASSUME NEW S, NEW s \in Seq(S), NEW n
  PROVE  /\ IsFiniteSet({i \in 1..Len(s) : s[i] = n})
         /\ Occurrences(s, n) \in Nat
         /\ Occurrences(s, n) > 0 <=> n \in Elems(s)
<1> DEFINE P == {i \in 1..Len(s) : s[i] = n}
<1>1. Len(s) \in Nat
  BY LenProperties
<1>2. IsFiniteSet(1..Len(s)) /\ P \in SUBSET (1..Len(s))
  BY <1>1, FS_Interval
<1>3. IsFiniteSet(P) /\ Cardinality(P) \in Nat
  BY <1>2, FS_Subset, FS_CardinalityType
<1>4. Cardinality(P) = 0 <=> P = {}
  BY <1>3, FS_EmptySet
<1>5. P # {} <=> n \in Elems(s)
  BY DEF Elems
<1> HIDE DEF P
<1>6. Occurrences(s, n) = Cardinality(P)
  BY DEF Occurrences, P
<1>7. QED
  BY <1>3, <1>4, <1>5, <1>6 DEF P

\* A list nothing is linked into.
LEMMA OccursEmpty ==
  ASSUME NEW n
  PROVE  Occurrences(<<>>, n) = 0
<1>1. {i \in 1..Len(<<>>) : <<>>[i] = n} = {}
  OBVIOUS
<1>2. QED
  BY <1>1, FS_EmptySet DEF Occurrences

\* One more of the node that is appended.
LEMMA OccursAppend ==
  ASSUME NEW S, NEW s \in Seq(S), NEW e \in S, NEW n
  PROVE  Occurrences(Append(s, e), n)
           = Occurrences(s, n) + (IF n = e THEN 1 ELSE 0)
<1> DEFINE t == Append(s, e)
           P == {i \in 1..Len(s) : s[i] = n}
           Q == {i \in 1..Len(t) : t[i] = n}
           m == Len(s) + 1
<1>1. /\ Len(t) = m
      /\ Len(s) \in Nat
      /\ \A i \in 1..Len(s) : t[i] = s[i]
      /\ t[m] = e
  BY AppendProperties, LenProperties
<1>2. IsFiniteSet(P) /\ Cardinality(P) \in Nat
  BY Occurs, FS_CardinalityType
<1> HIDE DEF t
<1>3. m \notin P
  BY <1>1
<1>4. Q = IF n = e THEN P \cup {m} ELSE P
  BY <1>1
<1> HIDE DEF P, Q, m
<1>5. Cardinality(P \cup {m}) = Cardinality(P) + 1
  BY <1>2, <1>3, FS_AddElement
<1>6. Occurrences(s, n) = Cardinality(P) /\ Occurrences(t, n) = Cardinality(Q)
  BY DEF Occurrences, P, Q
<1>7. QED
  BY <1>2, <1>4, <1>5, <1>6 DEF t

\* One less of the node that is dropped.
LEMMA OccursWithout ==
  ASSUME NEW S, NEW s \in Seq(S), NEW i \in 1..Len(s), NEW n
  PROVE  Occurrences(Without(s, i), n)
           = Occurrences(s, n) - (IF n = s[i] THEN 1 ELSE 0)
<1> DEFINE t == Without(s, i)
           P == {j \in 1..Len(s) : s[j] = n}
           Q == {j \in 1..Len(t) : t[j] = n}
           f == [j \in Q |-> IF j < i THEN j ELSE j + 1]
<1>1. Len(s) \in Nat /\ Len(t) = Len(s) - 1
  BY LenProperties, WithoutIsList
<1>2. \A j \in 1..Len(t) : t[j] = IF j < i THEN s[j] ELSE s[j + 1]
  BY <1>1 DEF Without
<1>3. IsFiniteSet(P) /\ Cardinality(P) \in Nat
  BY Occurs, FS_CardinalityType
<1>4. IsFiniteSet(P \ {i})
      /\ Cardinality(P \ {i}) = IF i \in P THEN Cardinality(P) - 1 ELSE Cardinality(P)
  BY <1>3, FS_RemoveElement
<1>5. i \in P <=> n = s[i]
  OBVIOUS
<1> HIDE DEF t
<1>6. f \in Bijection(Q, P \ {i})
  <2>1. \A j \in Q : f[j] \in P \ {i}
    BY <1>1, <1>2
  <2>2. \A j, k \in Q : f[j] = f[k] => j = k
    BY <1>1
  <2>3. \A k \in P \ {i} : \E j \in Q : f[j] = k
    <3>1. SUFFICES ASSUME NEW k \in P \ {i} PROVE \E j \in Q : f[j] = k
      OBVIOUS
    <3>2. CASE k < i
      <4>1. k \in Q /\ f[k] = k
        BY <1>1, <1>2, <3>2
      <4>2. QED
        BY <4>1
    <3>3. CASE ~(k < i)
      <4>1. k - 1 \in Q /\ f[k - 1] = k
        BY <1>1, <1>2, <3>3
      <4>2. QED
        BY <4>1
    <3>4. QED
      BY <3>2, <3>3
  <2>4. f \in [Q -> P \ {i}]
    BY <2>1
  <2> HIDE DEF f, P, Q
  <2>5. f \in Injection(Q, P \ {i})
    BY <2>2, <2>4 DEF Injection, IsInjective
  <2>6. f \in Surjection(Q, P \ {i})
    BY <2>3, <2>4 DEF Surjection
  <2>7. QED
    BY <2>5, <2>6 DEF Bijection
<1> HIDE DEF f, P, Q
<1>7. IsFiniteSet(Q) /\ Cardinality(Q) = Cardinality(P \ {i})
  <2>1. f \in Injection(Q, P \ {i}) /\ f \in Surjection(Q, P \ {i})
    BY <1>6 DEF Bijection
  <2>2. QED
    BY <1>4, <2>1, FS_Injection
<1>8. Occurrences(s, n) = Cardinality(P) /\ Occurrences(t, n) = Cardinality(Q)
  BY DEF Occurrences, P, Q
<1>9. QED
  BY <1>3, <1>4, <1>5, <1>7, <1>8 DEF t

-----------------------------------------------------------------------------
(* The order of the nodes in a list.                                       *)

\* Moving some nodes of a list, or deleting one, keeps their order.
LEMMA SubListOrder ==
  ASSUME NEW S, IsFiniteSet(S), NEW s \in Seq(S), NEW T \in SUBSET S,
         NEW r \in SubList(s, T), Distinct(s)
  PROVE  \A i, j \in 1..Len(r), a, b \in 1..Len(s) :
           s[a] = r[i] /\ s[b] = r[j] => (i < j <=> a < b)
<1> SUFFICES ASSUME NEW i \in 1..Len(r), NEW j \in 1..Len(r),
                    NEW a \in 1..Len(s), NEW b \in 1..Len(s),
                    s[a] = r[i], s[b] = r[j]
             PROVE  i < j <=> a < b
  OBVIOUS
<1> DEFINE n == Cardinality(T)
<1>1. n \in Nat
  BY FS_Subset, FS_CardinalityType
<1> HIDE DEF n
<1>2. /\ r \in [1..n -> T]
      /\ \A k, l \in 1..n : k < l =>
           \E c, d \in 1..Len(s) : c < d /\ s[c] = r[k] /\ s[d] = r[l]
  BY DEF SubList, n
<1>3. Len(r) = n
  BY <1>1, <1>2
<1>4. \A k, l \in 1..n, c, d \in 1..Len(s) :
        k < l /\ s[c] = r[k] /\ s[d] = r[l] => c < d
  <2>1. SUFFICES ASSUME NEW k \in 1..n, NEW l \in 1..n,
                        NEW c \in 1..Len(s), NEW d \in 1..Len(s),
                        k < l, s[c] = r[k], s[d] = r[l]
                 PROVE  c < d
    OBVIOUS
  <2>2. PICK x \in 1..Len(s), y \in 1..Len(s) : x < y /\ s[x] = r[k] /\ s[y] = r[l]
    BY <1>2, <2>1
  <2>3. x = c /\ y = d
    BY <2>1, <2>2 DEF Distinct
  <2>4. QED
    BY <2>2, <2>3
<1>5. Len(s) \in Nat
  BY LenProperties
<1>6. i < j \/ j < i \/ i = j
  BY <1>1, <1>3
<1>7. i = j => a = b
  BY DEF Distinct
<1>8. QED
  BY <1>1, <1>3, <1>4, <1>5, <1>6, <1>7

\* A node that is not moved stays the last.
LEMMA SubListLast ==
  ASSUME NEW S, IsFiniteSet(S), NEW s \in Seq(S), NEW T \in SUBSET S,
         NEW r \in SubList(s, T), Distinct(s),
         s # <<>>, s[Len(s)] \in T
  PROVE  r # <<>> /\ r[Len(r)] = s[Len(s)]
<1>1. r \in Seq(S) /\ Elems(r) = T
  BY SubListIsList
<1>2. Len(s) \in Nat \ {0} /\ Len(r) \in Nat
  BY <1>1, LenProperties, EmptySeq
<1>3. PICK k \in 1..Len(r) : r[k] = s[Len(s)]
  BY <1>1 DEF Elems
<1>4. Len(r) \in 1..Len(r) /\ Len(s) \in 1..Len(s)
  BY <1>2, <1>3
<1>5. CASE k < Len(r)
  <2>1. r[Len(r)] \in Elems(r)
    BY <1>4 DEF Elems
  <2>2. PICK b \in 1..Len(s) : s[b] = r[Len(r)]
    <3>1. /\ r \in [1..Cardinality(T) -> T]
          /\ \A i, j \in 1..Cardinality(T) : i < j =>
               \E a, b \in 1..Len(s) : a < b /\ s[a] = r[i] /\ s[b] = r[j]
      BY DEF SubList
    <3>2. Cardinality(T) \in Nat
      BY FS_Subset, FS_CardinalityType
    <3>3. Len(r) = Cardinality(T)
      BY <3>1, <3>2
    <3>4. QED
      BY <1>4, <1>5, <3>1, <3>3
  <2>3. Len(s) < b
    BY <1>3, <1>4, <1>5, <2>2, SubListOrder
  <2>4. QED
    BY <1>2, <2>3
<1>6. CASE k = Len(r)
  BY <1>2, <1>3, <1>6, EmptySeq
<1>7. QED
  BY <1>2, <1>3, <1>5, <1>6

\* The nodes moved come from the list, and but for the last one from before
\* its end.
LEMMA SubListInside ==
  ASSUME NEW S, IsFiniteSet(S), NEW s \in Seq(S), NEW T \in SUBSET Elems(s),
         NEW r \in SubList(s, T), Distinct(s)
  PROVE  \A i \in 1..Len(r) : \E a \in 1..Len(s) :
           s[a] = r[i] /\ (i < Len(r) => a < Len(s))
<1>1. T \in SUBSET S
  BY ElemsType
<1>2. r \in Seq(S) /\ Elems(r) = T
  BY <1>1, SubListIsList
<1>3. Len(s) \in Nat /\ Len(r) \in Nat
  BY <1>2, LenProperties
<1>4. \A i \in 1..Len(r) : \E a \in 1..Len(s) : s[a] = r[i]
  <2>1. \A i \in 1..Len(r) : r[i] \in Elems(s)
    BY <1>2 DEF Elems
  <2>2. QED
    BY <2>1 DEF Elems
<1>5. SUFFICES ASSUME NEW i \in 1..Len(r)
               PROVE  \E a \in 1..Len(s) :
                        s[a] = r[i] /\ (i < Len(r) => a < Len(s))
  OBVIOUS
<1>6. PICK a \in 1..Len(s) : s[a] = r[i]
  BY <1>4
<1>7. Len(r) \in 1..Len(r)
  BY <1>3
<1>8. PICK b \in 1..Len(s) : s[b] = r[Len(r)]
  BY <1>4, <1>7
<1>9. i < Len(r) => a < b
  BY <1>1, <1>6, <1>7, <1>8, SubListOrder
<1>10. QED
  BY <1>3, <1>6, <1>9

-----------------------------------------------------------------------------
(* The component's nodes and steps.                                        *)

LEMMA NodeFacts ==
  /\ IsFiniteSet(Node)
  /\ None \notin Node
  /\ MaxNode \in Nat \ {0}
BY ConstAssumption, FS_Interval DEF Node, None

\* A step is one of the actions.
LEMMA NextCases ==
  ASSUME Next
  PROVE  \/ BeBufInit \/ GetBeBufFirst \/ AllBeBufInit \/ ConfigFails
         \/ SetRunState \/ StartRun \/ GetBeFreeBuf \/ NoStatistics
         \/ BeBufCtl \/ OptRunOnceInfo \/ RunOnceProcess \/ GetBeLastBuf
         \/ BeBufExit \/ BeBufExitDone \/ BeBufExitTimeout
         \/ IsrCheck \/ IsrTake \/ GetReadyBeBuf
         \/ \E i \in 1..Len(refs) : PutFreeBeBuf(i)
         \/ \E i \in 1..Len(refs) : HoldBusyBeBuf(i)
BY DEF Next, Step, FwStep, IsrStep, ViStep

\* Only ISP_DRV_BeBufInit can overtake a handler.
LEMMA OvertakenKept ==
  ASSUME [Next]_vars, ~BeBufInit
  PROVE  overtaken' = overtaken
<1> USE DEF initVars
<1>1. CASE \/ GetBeBufFirst \/ AllBeBufInit \/ ConfigFails \/ SetRunState
           \/ StartRun \/ GetBeFreeBuf \/ NoStatistics
  BY <1>1 DEF GetBeBufFirst, AllBeBufInit, ConfigFails, SetRunState, StartRun,
     GetBeFreeBuf, NoStatistics
<1>2. CASE \/ BeBufCtl \/ OptRunOnceInfo \/ RunOnceProcess \/ GetBeLastBuf
  BY <1>2 DEF BeBufCtl, OptRunOnceInfo, RunOnceProcess, GetBeLastBuf
<1>3. CASE \/ BeBufExit \/ BeBufExitDone \/ BeBufExitTimeout \/ IsrCheck
           \/ IsrTake \/ GetReadyBeBuf
  BY <1>3 DEF BeBufExit, BeBufExitDone, BeBufExitTimeout, IsrCheck, IsrTake,
     GetReadyBeBuf
<1>4. CASE \E i \in 1..Len(refs) : PutFreeBeBuf(i) \/ HoldBusyBeBuf(i)
  BY <1>4 DEF PutFreeBeBuf, HoldBusyBeBuf
<1>5. CASE UNCHANGED vars
  BY <1>5 DEF vars
<1>6. QED
  BY <1>1, <1>2, <1>3, <1>4, <1>5, NextCases

\* Publishing pstUseNode: whatever is freed and whatever stays published,
\* the nodes keep their type and each stays linked once.
LEMMA PutBusyStep ==
  ASSUME TypeOK, BeBufQueuePutBusy
  PROVE  /\ free' \in Seq(Node)
         /\ busy' \in Seq(Node)
         /\ useNode' \in Node \cup {None}
         /\ newest' \in Node \cup {None}
         /\ bInit /\ NodesDisjoint
               => /\ Distinct(free')
                  /\ Distinct(busy')
                  /\ Elems(free') \cap Elems(busy') = {}
                  /\ useNode' \notin Elems(free') \cup Elems(busy')
<1>1. CASE useNode = None
  BY <1>1 DEF BeBufQueuePutBusy, TypeOK, NodesDisjoint
<1>2. CASE useNode # None
  <2> DEFINE idle == {n \in Elems(busy) : hold[n] = 0}
  <2>1. useNode \in Node /\ free \in Seq(Node) /\ busy \in Seq(Node)
    BY <1>2 DEF TypeOK
  <2>2. PICK kept \in SubList(busy, Elems(busy) \ idle),
             moved \in SubList(busy, idle) :
               busy' = Append(kept, useNode) /\ free' = free \o moved
    BY <1>2 DEF BeBufQueuePutBusy
  <2>3. newest' = useNode /\ useNode' = None
    BY <1>2 DEF BeBufQueuePutBusy
  <2>4. Elems(busy) \subseteq Node /\ Elems(free) \subseteq Node
    BY <2>1, ElemsType
  <2>5. idle \in SUBSET Node /\ Elems(busy) \ idle \in SUBSET Node
    BY <2>4
  <2> HIDE DEF idle
  <2>6. /\ kept \in Seq(Node)
        /\ Elems(kept) = Elems(busy) \ idle
        /\ Distinct(busy) => Distinct(kept)
    BY <2>1, <2>2, <2>5, SubListIsList, NodeFacts
  <2>7. /\ moved \in Seq(Node)
        /\ Elems(moved) = idle
        /\ Distinct(busy) => Distinct(moved)
    BY <2>1, <2>2, <2>5, SubListIsList, NodeFacts
  <2>8. /\ busy' \in Seq(Node)
        /\ Elems(busy') = Elems(kept) \cup {useNode}
        /\ Distinct(kept) /\ useNode \notin Elems(kept) => Distinct(busy')
    BY <2>1, <2>2, <2>6, AppendList
  <2>9. /\ free' \in Seq(Node)
        /\ Elems(free') = Elems(free) \cup Elems(moved)
        /\ Distinct(free) /\ Distinct(moved) /\ Elems(free) \cap Elems(moved) = {}
              => Distinct(free')
    BY <2>1, <2>2, <2>7, ConcatList
  <2>10. idle \subseteq Elems(busy)
    BY DEF idle
  <2>11. ASSUME bInit, NodesDisjoint
         PROVE  /\ Distinct(free')
                /\ Distinct(busy')
                /\ Elems(free') \cap Elems(busy') = {}
                /\ useNode' \notin Elems(free') \cup Elems(busy')
    <3>1. /\ Distinct(free) /\ Distinct(busy)
          /\ Elems(free) \cap Elems(busy) = {}
          /\ useNode \notin Elems(free) \cup Elems(busy)
      BY <2>11 DEF NodesDisjoint
    <3>2. Distinct(busy') /\ Distinct(free')
      BY <2>6, <2>7, <2>8, <2>9, <2>10, <3>1
    <3>3. Elems(free') \cap Elems(busy') = {}
      BY <2>6, <2>7, <2>8, <2>9, <2>10, <3>1
    <3>4. None \notin Elems(free') \cup Elems(busy')
      BY <2>1, <2>4, <2>6, <2>7, <2>8, <2>9, <2>10, NodeFacts
    <3>5. QED
      BY <2>3, <3>2, <3>3, <3>4
  <2>12. QED
    BY <2>1, <2>3, <2>8, <2>9, <2>11
<1>3. QED
  BY <1>1, <1>2

\* VI gives a node back.
LEMMA PutBusyToFreeStep ==
  ASSUME TypeOK, NEW n \in Node, PutBusyToFree(n)
  PROVE  /\ free' \in Seq(Node)
         /\ busy' \in Seq(Node)
         /\ hold' \in [Node -> Nat]
         /\ bInit /\ NodesDisjoint
               => /\ Distinct(free')
                  /\ Distinct(busy')
                  /\ Elems(free') \cap Elems(busy') = {}
                  /\ useNode \notin Elems(free') \cup Elems(busy')
<1>1. CASE n \notin Elems(busy)
  BY <1>1 DEF PutBusyToFree, TypeOK, NodesDisjoint, queueVars
<1>2. CASE n \in Elems(busy)
  <2> DEFINE left == IF hold[n] > 0 THEN hold[n] - 1 ELSE 0
  <2>1. free \in Seq(Node) /\ busy \in Seq(Node) /\ hold \in [Node -> Nat]
    BY DEF TypeOK
  <2>2. left \in Nat
    BY <2>1
  <2>3. hold' = [hold EXCEPT ![n] = left]
    BY <1>2 DEF PutBusyToFree
  <2>4. hold' \in [Node -> Nat]
    BY <2>1, <2>2, <2>3
  <2>5. CASE left = 0 /\ Len(busy) > 1
    <3>1. busy' \in SubList(busy, Elems(busy) \ {n}) /\ free' = Append(free, n)
      BY <1>2, <2>5 DEF PutBusyToFree
    <3> HIDE DEF left
    <3>2. Elems(busy) \ {n} \in SUBSET Node
      BY <2>1, ElemsType
    <3>3. /\ busy' \in Seq(Node)
          /\ Elems(busy') = Elems(busy) \ {n}
          /\ Distinct(busy) => Distinct(busy')
      BY <2>1, <3>1, <3>2, SubListIsList, NodeFacts
    <3>4. /\ free' \in Seq(Node)
          /\ Elems(free') = Elems(free) \cup {n}
          /\ Distinct(free) /\ n \notin Elems(free) => Distinct(free')
      BY <2>1, <3>1, AppendList
    <3>5. QED
      BY <1>2, <2>4, <3>3, <3>4 DEF NodesDisjoint
  <2>6. CASE ~(left = 0 /\ Len(busy) > 1)
    <3>1. busy' = busy /\ free' = free
      BY <1>2, <2>6 DEF PutBusyToFree
    <3>2. QED
      BY <2>1, <2>4, <3>1 DEF NodesDisjoint
  <2>7. QED
    BY <2>5, <2>6
<1>3. QED
  BY <1>1, <1>2

\* A mode switch reclaims the published nodes and takes the last one.
LEMMA GetBeLastBufStep ==
  ASSUME TypeOK, GetBeLastBuf
  PROVE  /\ free' \in Seq(Node)
         /\ busy' \in Seq(Node)
         /\ hold' \in [Node -> Nat]
         /\ useNode' \in Node \cup {None}
         /\ fwBuf' \in Node \cup {None}
         /\ NodesDisjoint
               => /\ Distinct(free')
                  /\ Distinct(busy')
                  /\ Elems(free') \cap Elems(busy') = {}
                  /\ useNode' \notin Elems(free') \cup Elems(busy')
<1> DEFINE all  == free \o busy
           last == Len(all)
           Goal == /\ free' \in Seq(Node)
                   /\ useNode' \in Node \cup {None}
                   /\ fwBuf' \in Node \cup {None}
                   /\ NodesDisjoint
                        => /\ Distinct(free')
                           /\ useNode' \notin Elems(free')
<1>1. /\ free \in Seq(Node) /\ busy \in Seq(Node) /\ hold \in [Node -> Nat]
      /\ useNode \in Node \cup {None} /\ fwBuf \in Node \cup {None}
  BY DEF TypeOK
<1>2. /\ all \in Seq(Node)
      /\ Elems(all) = Elems(free) \cup Elems(busy)
      /\ Distinct(free) /\ Distinct(busy) /\ Elems(free) \cap Elems(busy) = {}
            => Distinct(all)
  BY <1>1, ConcatList
<1>3. busy' = <<>> /\ bInit
  BY DEF GetBeLastBuf
<1>4. hold' \in [Node -> Nat]
  <2>1. hold' = [n \in Node |-> IF n \in Elems(busy) THEN 0 ELSE hold[n]]
    BY DEF GetBeLastBuf
  <2>2. QED
    BY <1>1, <2>1
<1>5. CASE useNode # None
  <2>1. free' = all /\ fwBuf' = useNode /\ useNode' = useNode
    BY <1>5 DEF GetBeLastBuf
  <2> HIDE DEF all
  <2>2. Goal
    BY <1>1, <1>2, <1>3, <2>1 DEF NodesDisjoint
  <2>3. QED
    BY <1>3, <1>4, <2>2, EmptyLists
<1>6. CASE useNode = None /\ all = <<>>
  <2>1. free' = all /\ fwBuf' = fwBuf /\ useNode' = useNode
    BY <1>6 DEF GetBeLastBuf
  <2> HIDE DEF all
  <2>2. Goal
    BY <1>1, <1>2, <1>3, <2>1 DEF NodesDisjoint
  <2>3. QED
    BY <1>3, <1>4, <2>2, EmptyLists
<1>7. CASE useNode = None /\ all # <<>>
  <2>1. free' = SubSeq(all, 1, last - 1) /\ useNode' = all[last] /\ fwBuf' = all[last]
    BY <1>7 DEF GetBeLastBuf
  <2> HIDE DEF all
  <2>2. /\ all[last] \in Node
        /\ SubSeq(all, 1, last - 1) \in Seq(Node)
        /\ Distinct(all) => /\ Distinct(SubSeq(all, 1, last - 1))
                            /\ all[last] \notin Elems(SubSeq(all, 1, last - 1))
    BY <1>2, <1>7, TakeLast
  <2>3. Goal
    BY <1>2, <1>3, <2>1, <2>2 DEF NodesDisjoint
  <2>4. QED
    BY <1>3, <1>4, <2>3, EmptyLists
<1>8. QED
  BY <1>5, <1>6, <1>7

-----------------------------------------------------------------------------
(* Type correctness.                                                       *)

LEMMA TypeInit == Init => TypeOK
<1>1. <<>> \in Seq(Node)
  BY EmptySeq
<1>2. SUFFICES ASSUME Init PROVE TypeOK
  OBVIOUS
<1>3. hold \in [Node -> Nat] /\ useCnt \in Nat
  BY <1>2 DEF Init
<1>4. free \in Seq(Node) /\ busy \in Seq(Node) /\ refs \in Seq(Node)
  BY <1>1, <1>2 DEF Init
<1>5. QED
  BY <1>2, <1>3, <1>4, Zenon DEF Init, TypeOK, FwState

LEMMA TypeStep == TypeOK /\ [Next]_vars => TypeOK'
<1> SUFFICES ASSUME TypeOK, [Next]_vars PROVE TypeOK'
  OBVIOUS
<1> USE DEF initVars, queueVars, flagVars, FwState
<1>1. CASE BeBufInit
  <2>1. [i \in 1..MaxNode |-> i] \in Seq(Node)
    BY NodeFacts DEF Node
  <2>2. QED
    BY <1>1, <2>1, EmptyLists DEF BeBufInit, TypeOK
<1>2. CASE GetBeBufFirst
  <2>1. Head(free) \in Node /\ Tail(free) \in Seq(Node)
    BY <1>2, TakeHead DEF GetBeBufFirst, TypeOK
  <2>2. QED
    BY <1>2, <2>1 DEF GetBeBufFirst, TypeOK
<1>3. CASE AllBeBufInit
  <2>1. CASE useNode = None
    BY <1>3, <2>1 DEF AllBeBufInit, TypeOK
  <2>2. CASE useNode # None
    <3>1. Append(busy, useNode) \in Seq(Node)
      BY <2>2, AppendList DEF TypeOK
    <3>2. QED
      BY <1>3, <2>2, <3>1 DEF AllBeBufInit, TypeOK
  <2>3. QED
    BY <2>1, <2>2
<1>4. CASE ConfigFails
  BY <1>4 DEF ConfigFails, TypeOK
<1>5. CASE SetRunState
  BY <1>5 DEF SetRunState, TypeOK
<1>6. CASE StartRun
  BY <1>6 DEF StartRun, TypeOK
<1>7. CASE GetBeFreeBuf
  BY <1>7 DEF GetBeFreeBuf, TypeOK
<1>8. CASE NoStatistics
  BY <1>8 DEF NoStatistics, TypeOK
<1>9. CASE BeBufCtl
  <2>1. CASE bRunOnceFlag
    BY <1>9, <2>1 DEF BeBufCtl, TypeOK
  <2>2. CASE ~bRunOnceFlag
    <3>1. BeBufQueuePutBusy
      BY <1>9, <2>2 DEF BeBufCtl
    <3>2. QED
      BY <1>9, <3>1, PutBusyStep DEF BeBufCtl, TypeOK
  <2>3. QED
    BY <2>1, <2>2
<1>10. CASE OptRunOnceInfo
  <2>1. CASE useNode # None \/ free = <<>>
    BY <1>10, <2>1 DEF OptRunOnceInfo, TypeOK
  <2>2. CASE ~(useNode # None \/ free = <<>>)
    <3>1. Head(free) \in Node /\ Tail(free) \in Seq(Node)
      BY <2>2, TakeHead DEF TypeOK
    <3>2. QED
      BY <1>10, <2>2, <3>1 DEF OptRunOnceInfo, TypeOK
  <2>3. QED
    BY <2>1, <2>2
<1>11. CASE RunOnceProcess
  <2>1. CASE ~bRunOnceFlag
    BY <1>11, <2>1 DEF RunOnceProcess, TypeOK
  <2>2. CASE bRunOnceFlag
    <3>1. BeBufQueuePutBusy
      BY <1>11, <2>2 DEF RunOnceProcess
    <3>2. QED
      BY <1>11, <3>1, PutBusyStep DEF RunOnceProcess, TypeOK
  <2>3. QED
    BY <2>1, <2>2
<1>12. CASE GetBeLastBuf
  <2>1. /\ fw' \in FwState
        /\ intEn' \in BOOLEAN
        /\ UNCHANGED <<initVars, useCnt, bRunOnceFlag, bIspRunFlag, isr, refs,
                      newest>>
    BY <1>12 DEF GetBeLastBuf, TypeOK
  <2>2. QED
    BY <1>12, <2>1, GetBeLastBufStep DEF TypeOK
<1>13. CASE BeBufExit
  BY <1>13 DEF BeBufExit, TypeOK
<1>14. CASE BeBufExitDone
  BY <1>14, EmptyLists DEF BeBufExitDone, TypeOK
<1>15. CASE BeBufExitTimeout
  BY <1>15 DEF BeBufExitTimeout, TypeOK
<1>16. CASE IsrCheck
  BY <1>16 DEF IsrCheck, TypeOK
<1>17. CASE IsrTake
  <2>1. CASE free = <<>>
    BY <1>17, <2>1 DEF IsrTake, TypeOK
  <2>2. CASE free # <<>>
    <3>1. Head(free) \in Node /\ Tail(free) \in Seq(Node)
      BY <2>2, TakeHead DEF TypeOK
    <3>2. QED
      BY <1>17, <2>2, <3>1 DEF IsrTake, TypeOK
  <2>3. QED
    BY <2>1, <2>2
<1>18. CASE GetReadyBeBuf
  <2>1. Len(busy) \in 1..Len(busy)
    BY <1>18, EmptySeq DEF GetReadyBeBuf, TypeOK
  <2>2. busy[Len(busy)] \in Node
    BY <2>1, ElementOfSeq DEF TypeOK
  <2>3. Append(refs, busy[Len(busy)]) \in Seq(Node)
    BY <2>2, AppendList DEF TypeOK
  <2>4. QED
    BY <1>18, <2>2, <2>3 DEF GetReadyBeBuf, TypeOK
<1>19. ASSUME NEW i \in 1..Len(refs), PutFreeBeBuf(i) PROVE TypeOK'
  <2>1. refs' \in Seq(Node) /\ refs[i] \in Node
    BY <1>19, WithoutIsList, ElementOfSeq DEF PutFreeBeBuf, TypeOK
  <2>2. CASE exitState = "EXIT"
    BY <1>19, <2>1, <2>2 DEF PutFreeBeBuf, TypeOK
  <2>3. CASE exitState # "EXIT"
    <3>1. PutBusyToFree(refs[i]) /\ useCnt' \in Nat
      BY <1>19, <2>3 DEF PutFreeBeBuf, TypeOK
    <3>2. QED
      BY <1>19, <2>1, <3>1, PutBusyToFreeStep DEF PutFreeBeBuf, TypeOK
  <2>4. QED
    BY <2>2, <2>3
<1>20. ASSUME NEW i \in 1..Len(refs), HoldBusyBeBuf(i) PROVE TypeOK'
  <2>1. refs[i] \in Node
    BY ElementOfSeq DEF TypeOK
  <2>2. refs' \in Seq(Node)
    BY <1>20, <2>1, AppendList DEF HoldBusyBeBuf, TypeOK
  <2>3. hold' \in [Node -> Nat] /\ useCnt' \in Nat
    <3>1. CASE refs[i] \in Elems(busy)
      <4>1. hold' = [hold EXCEPT ![refs[i]] = @ + 1] /\ useCnt' = useCnt + 1
        BY <1>20, <3>1 DEF HoldBusyBeBuf
      <4>2. QED
        BY <2>1, <4>1 DEF TypeOK
    <3>2. CASE refs[i] \notin Elems(busy)
      BY <1>20, <3>2 DEF HoldBusyBeBuf, TypeOK
    <3>3. QED
      BY <3>1, <3>2
  <2>4. UNCHANGED <<initVars, free, busy, useNode, flagVars, isr, fw, fwBuf,
                    newest>>
    BY <1>20 DEF HoldBusyBeBuf
  <2>5. QED
    BY <2>2, <2>3, <2>4 DEF TypeOK
<1>21. CASE UNCHANGED vars
  BY <1>21 DEF vars, TypeOK
<1>22. QED
  BY <1>1, <1>2, <1>3, <1>4, <1>5, <1>6, <1>7, <1>8, <1>9, <1>10, <1>11,
     <1>12, <1>13, <1>14, <1>15, <1>16, <1>17, <1>18, <1>19, <1>20, <1>21,
     NextCases

\* Every variable keeps its type: the counters never go below zero and no
\* list ever holds anything but a node.
THEOREM TypeCorrect == Spec => []TypeOK
BY TypeInit, TypeStep, PTL DEF Spec

-----------------------------------------------------------------------------
(* No node is linked twice.                                                *)

LEMMA LinkedInit == Init => NodesDisjoint
BY DEF Init, NodesDisjoint

LEMMA LinkedStep == TypeOK /\ NodesDisjoint /\ [Next]_vars => NodesDisjoint'
<1> SUFFICES ASSUME TypeOK, NodesDisjoint, [Next]_vars PROVE NodesDisjoint'
  OBVIOUS
<1> USE DEF initVars, queueVars, flagVars
<1> DEFINE Same == UNCHANGED <<bInit, free, busy, useNode>>
<1>0. Same => NodesDisjoint'
  BY DEF NodesDisjoint
<1>1. CASE BeBufInit
  <2> DEFINE f == [i \in 1..MaxNode |-> i]
  <2>1. free' = f /\ busy' = <<>> /\ useNode' = None
    BY <1>1 DEF BeBufInit
  <2>2. f \in Seq(Node) /\ Len(f) = MaxNode /\ \A i \in 1..MaxNode : f[i] = i
    BY NodeFacts DEF Node
  <2>3. Distinct(f)
    BY <2>2 DEF Distinct
  <2>4. None \notin Elems(f)
    BY <2>2, ElemsType, NodeFacts
  <2> HIDE DEF f
  <2>5. QED
    BY <2>1, <2>3, <2>4, EmptyLists DEF NodesDisjoint
<1>2. CASE GetBeBufFirst
  <2>1. /\ bInit /\ free # <<>>
        /\ useNode' = Head(free) /\ free' = Tail(free) /\ busy' = busy
    BY <1>2 DEF GetBeBufFirst
  <2>2. QED
    BY <2>1, TakeHead DEF NodesDisjoint, TypeOK
<1>3. CASE AllBeBufInit
  <2>1. CASE useNode = None
    BY <1>0, <1>3, <2>1 DEF AllBeBufInit
  <2>2. CASE useNode # None
    <3>1. /\ bInit /\ free' = free
          /\ busy' = Append(busy, useNode) /\ useNode' = None
      BY <1>3, <2>2 DEF AllBeBufInit
    <3>2. useNode \in Node /\ Elems(free) \subseteq Node /\ Elems(busy) \subseteq Node
      BY <2>2, ElemsType DEF TypeOK
    <3>3. /\ Elems(busy') = Elems(busy) \cup {useNode}
          /\ Distinct(busy) /\ useNode \notin Elems(busy) => Distinct(busy')
      BY <3>1, <3>2, AppendList DEF TypeOK
    <3>4. QED
      BY <3>1, <3>2, <3>3, NodeFacts DEF NodesDisjoint
  <2>3. QED
    BY <2>1, <2>2
<1>4. CASE BeBufCtl
  <2>1. CASE bRunOnceFlag
    BY <1>0, <1>4, <2>1 DEF BeBufCtl
  <2>2. CASE ~bRunOnceFlag
    <3>1. BeBufQueuePutBusy /\ bInit
      BY <1>4, <2>2 DEF BeBufCtl
    <3>2. QED
      BY <3>1, PutBusyStep DEF NodesDisjoint
  <2>3. QED
    BY <2>1, <2>2
<1>5. CASE OptRunOnceInfo
  <2>1. CASE useNode # None \/ free = <<>>
    BY <1>0, <1>5, <2>1 DEF OptRunOnceInfo
  <2>2. CASE ~(useNode # None \/ free = <<>>)
    <3>1. /\ bInit' = bInit /\ free # <<>>
          /\ useNode' = Head(free) /\ free' = Tail(free) /\ busy' = busy
      BY <1>5, <2>2 DEF OptRunOnceInfo
    <3>2. QED
      BY <3>1, TakeHead DEF NodesDisjoint, TypeOK
  <2>3. QED
    BY <2>1, <2>2
<1>6. CASE RunOnceProcess
  <2>1. CASE ~bRunOnceFlag
    BY <1>0, <1>6, <2>1 DEF RunOnceProcess
  <2>2. CASE bRunOnceFlag
    <3>1. BeBufQueuePutBusy /\ bInit' = bInit
      BY <1>6, <2>2 DEF RunOnceProcess
    <3>2. QED
      BY <3>1, PutBusyStep DEF NodesDisjoint
  <2>3. QED
    BY <2>1, <2>2
<1>7. CASE GetBeLastBuf
  BY <1>7, GetBeLastBufStep DEF NodesDisjoint
<1>8. CASE BeBufExitDone
  BY <1>8 DEF BeBufExitDone, NodesDisjoint
<1>9. CASE IsrTake
  <2>1. CASE free = <<>>
    <3>1. /\ bInit' = bInit /\ free' = free /\ busy' = busy /\ useNode' = None
      BY <1>9, <2>1 DEF IsrTake
    <3>2. Elems(free) \subseteq Node /\ Elems(busy) \subseteq Node
      BY ElemsType DEF TypeOK
    <3>3. QED
      BY <3>1, <3>2, NodeFacts DEF NodesDisjoint
  <2>2. CASE free # <<>>
    <3>1. /\ bInit' = bInit /\ useNode' = Head(free) /\ free' = Tail(free)
          /\ busy' = busy
      BY <1>9, <2>2 DEF IsrTake
    <3>2. QED
      BY <2>2, <3>1, TakeHead DEF NodesDisjoint, TypeOK
  <2>3. QED
    BY <2>1, <2>2
<1>10. ASSUME NEW i \in 1..Len(refs), PutFreeBeBuf(i) PROVE NodesDisjoint'
  <2>1. CASE exitState = "EXIT"
    BY <1>0, <1>10, <2>1 DEF PutFreeBeBuf
  <2>2. CASE exitState # "EXIT"
    <3>1. /\ PutBusyToFree(refs[i]) /\ refs[i] \in Node
          /\ bInit' = bInit /\ useNode' = useNode
      BY <1>10, <2>2, ElementOfSeq DEF PutFreeBeBuf, TypeOK
    <3>2. QED
      BY <3>1, PutBusyToFreeStep DEF NodesDisjoint
  <2>3. QED
    BY <2>1, <2>2
<1>11. ASSUME NEW i \in 1..Len(refs), HoldBusyBeBuf(i) PROVE NodesDisjoint'
  BY <1>0, <1>11 DEF HoldBusyBeBuf
<1>12. CASE \/ ConfigFails \/ SetRunState \/ StartRun \/ GetBeFreeBuf
           \/ NoStatistics \/ BeBufExit \/ BeBufExitTimeout \/ IsrCheck
           \/ GetReadyBeBuf
  BY <1>0, <1>12 DEF ConfigFails, SetRunState, StartRun, GetBeFreeBuf,
     NoStatistics, BeBufExit, BeBufExitTimeout, IsrCheck, GetReadyBeBuf
<1>13. CASE UNCHANGED vars
  BY <1>0, <1>13 DEF vars
<1>14. QED
  BY <1>1, <1>2, <1>3, <1>4, <1>5, <1>6, <1>7, <1>8, <1>9, <1>10, <1>11,
     <1>12, <1>13, NextCases

\* No node is ever in two lists, twice in one, or both listed and pstUseNode,
\* with any number of nodes, with mode switches and with the interrupt
\* handler on another processor.
THEOREM LinkedOnce == Spec => []NodesDisjoint
<1>1. Init => TypeOK /\ NodesDisjoint
  BY TypeInit, LinkedInit
<1>2. TypeOK /\ NodesDisjoint /\ [Next]_vars => TypeOK' /\ NodesDisjoint'
  BY TypeStep, LinkedStep
<1>3. QED
  BY <1>1, <1>2, PTL DEF Spec

-----------------------------------------------------------------------------
(* The memory is not freed under VI.                                       *)

\* NoRefAfterFree and UseCntExact are not inductive: that the exit waits for
\* the right number also depends on VI being refused once the buffers are
\* gone, hence the link between bInit and enIspExitState.
ExitInv ==
  /\ TypeOK
  /\ exitState = "EXIT" <=> ~bInit
  /\ useCnt = Len(refs)
  /\ ~bInit => refs = <<>>

LEMMA ExitInit == Init => ExitInv
BY TypeInit DEF Init, ExitInv

LEMMA ExitStep ==
  ASSUME ~ViHold, ExitInv, [Next]_vars
  PROVE  ExitInv'
<1>0. TypeOK'
  BY TypeStep DEF ExitInv
<1>1. refs \in Seq(Node) /\ Len(refs) \in Nat
  BY LenProperties DEF ExitInv, TypeOK
<1> DEFINE Same == UNCHANGED <<bInit, exitState, useCnt, refs>>
<1> USE DEF initVars, queueVars, flagVars
<1>2. Same => ExitInv'
  BY <1>0 DEF ExitInv
<1>3. CASE BeBufInit
  BY <1>0, <1>3 DEF BeBufInit, ExitInv
<1>4. CASE BeBufExit
  BY <1>0, <1>4 DEF BeBufExit, ExitInv
<1>5. CASE BeBufExitDone
  <2>1. Len(refs) = 0
    BY <1>5 DEF BeBufExitDone, ExitInv
  <2>2. refs = <<>>
    BY <1>1, <2>1, EmptySeq
  <2>3. QED
    BY <1>0, <1>5, <2>1, <2>2 DEF BeBufExitDone, ExitInv
<1>6. CASE GetReadyBeBuf
  <2>1. Len(busy) \in 1..Len(busy)
    BY <1>6, EmptySeq DEF GetReadyBeBuf, ExitInv, TypeOK
  <2>2. busy[Len(busy)] \in Node
    BY <2>1, ElementOfSeq DEF ExitInv, TypeOK
  <2>3. refs' = Append(refs, busy[Len(busy)]) /\ useCnt' = useCnt + 1
        /\ bInit' = bInit /\ exitState' = exitState /\ exitState = "READY"
    BY <1>6 DEF GetReadyBeBuf
  <2>4. Len(refs') = Len(refs) + 1
    BY <1>1, <2>2, <2>3, AppendProperties
  <2>5. QED
    BY <1>0, <2>3, <2>4 DEF ExitInv
<1>7. ASSUME NEW i \in 1..Len(refs), PutFreeBeBuf(i) PROVE ExitInv'
  <2>1. Len(refs) > 0 /\ refs # <<>>
    BY <1>1, EmptySeq
  <2>2. bInit /\ exitState # "EXIT"
    BY <2>1 DEF ExitInv
  <2>3. refs' = Without(refs, i) /\ bInit' = bInit /\ exitState' = exitState
        /\ useCnt' = (IF useCnt > 0 THEN useCnt - 1 ELSE 0)
    BY <1>7, <2>2 DEF PutFreeBeBuf
  <2>4. Len(refs') = Len(refs) - 1
    BY <1>1, <2>3, WithoutIsList
  <2>5. QED
    BY <1>0, <2>1, <2>2, <2>3, <2>4 DEF ExitInv
<1>8. ASSUME NEW i \in 1..Len(refs), HoldBusyBeBuf(i) PROVE ExitInv'
  BY <1>8 DEF HoldBusyBeBuf
<1>9. CASE \/ GetBeBufFirst \/ AllBeBufInit \/ ConfigFails \/ SetRunState
          \/ StartRun \/ GetBeFreeBuf \/ NoStatistics \/ BeBufCtl
          \/ OptRunOnceInfo \/ RunOnceProcess \/ GetBeLastBuf
          \/ BeBufExitTimeout \/ IsrCheck \/ IsrTake
  BY <1>2, <1>9 DEF GetBeBufFirst, AllBeBufInit, ConfigFails, SetRunState,
     StartRun, GetBeFreeBuf, NoStatistics, BeBufCtl, OptRunOnceInfo,
     RunOnceProcess, GetBeLastBuf, BeBufExitTimeout, IsrCheck, IsrTake
<1>10. CASE UNCHANGED vars
  BY <1>2, <1>10 DEF vars
<1>11. QED
  BY <1>3, <1>4, <1>5, <1>6, <1>7, <1>8, <1>9, <1>10, NextCases

\* The count ISP_DRV_BeBufExit waits for is exact and the memory is never
\* freed while VI has a reference into it, whatever order VI gives its
\* buffers back in, with mode switches that drop the holds of the nodes and
\* with exits that time out, as long as VI takes no holds of its own.
LEMMA ExitWaitsForVi == Spec => [](~ViHold => ExitSafe)
<1>1. Init => (~ViHold => ExitInv)
  BY ExitInit
<1>2. (~ViHold => ExitInv) /\ [Next]_vars => (~ViHold => ExitInv)'
  <2>1. [Next]_vars => UNCHANGED env
    BY DEF Next, vars
  <2>2. [Next]_vars => (ViHold' <=> ViHold)
    BY <2>1 DEF ViHold
  <2>3. QED
    BY <2>2, ExitStep
<1>3. (~ViHold => ExitInv) => (~ViHold => ExitSafe)
  BY DEF ExitInv, ExitSafe, UseCntExact, NoRefAfterFree
<1>4. QED
  BY <1>1, <1>2, <1>3, PTL DEF Spec
-----------------------------------------------------------------------------
(* Where the firmware and the handler are.                                 *)

\* What the program counters say of the interrupt and of the queue, in every
\* environment: the handler starts only between HI_MPI_ISP_Run and the end of
\* its loop, what is left of one is over at the next ISP_DRV_BeBufInit unless
\* that overtakes it, and everything after ISP_DRV_BeBufInit finds the buffers.
Control ==
  /\ env \in Environment
  /\ fw # "down" => bInit
  /\ exitState = "EXIT" <=> ~bInit
  /\ fw \in {"down", "init", "ready", "once", "onceWrite", "broken",
             "exitWait"} => ~intEn
  /\ ~overtaken /\ ~intEn /\ fw \notin {"broken", "exitWait", "down"} => isr = "idle"
  /\ fw \in {"down", "init", "exitWait"} => ~bIspRunFlag

LEMMA ControlInit == Init => Control
BY DEF Init, Control

LEMMA ControlStep == TypeOK /\ Control /\ [Next]_vars => Control'
<1> SUFFICES ASSUME TypeOK, Control, [Next]_vars PROVE Control'
  OBVIOUS
<1> USE DEF initVars, queueVars, flagVars, Control
<1>1. env' = env
  BY DEF Next, vars
<1>2. CASE BeBufInit
  BY <1>1, <1>2 DEF BeBufInit
<1>3. CASE GetBeBufFirst
  BY <1>1, <1>3 DEF GetBeBufFirst
<1>4. CASE AllBeBufInit
  BY <1>1, <1>4 DEF AllBeBufInit, TypeOK
<1>5. CASE ConfigFails
  BY <1>1, <1>5 DEF ConfigFails
<1>6. CASE SetRunState
  BY <1>1, <1>6 DEF SetRunState
<1>7. CASE StartRun
  BY <1>1, <1>7 DEF StartRun
<1>8. CASE GetBeFreeBuf
  BY <1>1, <1>8 DEF GetBeFreeBuf
<1>9. CASE NoStatistics
  BY <1>1, <1>9 DEF NoStatistics
<1>10. CASE BeBufCtl
  BY <1>1, <1>10 DEF BeBufCtl
<1>11. CASE OptRunOnceInfo
  BY <1>1, <1>11 DEF OptRunOnceInfo
<1>12. CASE RunOnceProcess
  BY <1>1, <1>12 DEF RunOnceProcess
<1>13. CASE GetBeLastBuf
  <2>1. /\ fw = "run" /\ bInit /\ UNCHANGED <<initVars, bIspRunFlag, isr>>
        /\ \/ fw' = "config" /\ intEn' = intEn
           \/ fw' = "broken" /\ intEn' = FALSE
    BY <1>13 DEF GetBeLastBuf
  <2>2. QED
    BY <1>1, <2>1
<1>14. CASE BeBufExit
  BY <1>1, <1>14 DEF BeBufExit
<1>15. CASE BeBufExitDone
  BY <1>1, <1>15 DEF BeBufExitDone
<1>16. CASE BeBufExitTimeout
  BY <1>1, <1>16 DEF BeBufExitTimeout
<1>17. CASE IsrCheck
  BY <1>1, <1>17 DEF IsrCheck
<1>18. CASE IsrTake
  BY <1>1, <1>18 DEF IsrTake
<1>19. CASE GetReadyBeBuf
  BY <1>1, <1>19 DEF GetReadyBeBuf
<1>20. ASSUME NEW i \in 1..Len(refs), PutFreeBeBuf(i) PROVE Control'
  BY <1>1, <1>20 DEF PutFreeBeBuf
<1>21. ASSUME NEW i \in 1..Len(refs), HoldBusyBeBuf(i) PROVE Control'
  BY <1>1, <1>21 DEF HoldBusyBeBuf
<1>22. CASE UNCHANGED vars
  BY <1>1, <1>22 DEF vars
<1>23. QED
  BY <1>2, <1>3, <1>4, <1>5, <1>6, <1>7, <1>8, <1>9, <1>10, <1>11, <1>12,
     <1>13, <1>14, <1>15, <1>16, <1>17, <1>18, <1>19, <1>20, <1>21, <1>22,
     NextCases

\* The invariant every later proof starts from.
Basic == TypeOK /\ NodesDisjoint /\ Control

LEMMA BasicHolds == Spec => []Basic
<1>1. Init => Basic
  BY TypeInit, LinkedInit, ControlInit DEF Basic
<1>2. Basic /\ [Next]_vars => Basic'
  BY TypeStep, LinkedStep, ControlStep DEF Basic
<1>3. QED
  BY <1>1, <1>2, PTL DEF Spec

-----------------------------------------------------------------------------
(* What publishing and giving back do to the lists.                        *)

Idle == {n \in Elems(busy) : hold[n] = 0}

LEMMA PutBusyLists ==
  ASSUME TypeOK, BeBufQueuePutBusy, useNode # None
  PROVE  /\ newest' = useNode /\ useNode' = None
         /\ Elems(free') = Elems(free) \cup Idle
         /\ Elems(busy') = (Elems(busy) \ Idle) \cup {useNode}
         /\ busy' \in Seq(Node)
         /\ busy' # <<>> /\ busy'[Len(busy')] = useNode
         /\ \A i \in 1..Len(busy') - 1 : busy'[i] \in Elems(busy) \ Idle
         /\ Distinct(busy) =>
              \A i, j \in 1..Len(busy') - 1, a, b \in 1..Len(busy) :
                 busy'[i] = busy[a] /\ busy'[j] = busy[b] => (i < j <=> a < b)
<1> DEFINE Rest == Elems(busy) \ Idle
<1>1. useNode \in Node /\ free \in Seq(Node) /\ busy \in Seq(Node)
  BY DEF TypeOK
<1>2. PICK kept \in SubList(busy, Rest),
           moved \in SubList(busy, Idle) :
             busy' = Append(kept, useNode) /\ free' = free \o moved
  BY DEF BeBufQueuePutBusy, Idle
<1>3. newest' = useNode /\ useNode' = None
  BY DEF BeBufQueuePutBusy
<1>4. Idle \in SUBSET Node /\ Rest \in SUBSET Node
  BY <1>1, ElemsType DEF Idle
<1> HIDE DEF Rest
<1>5. kept \in Seq(Node) /\ Elems(kept) = Rest
  BY <1>1, <1>2, <1>4, SubListIsList, NodeFacts
<1>6. moved \in Seq(Node) /\ Elems(moved) = Idle
  BY <1>1, <1>2, <1>4, SubListIsList, NodeFacts
<1>7. /\ busy' \in Seq(Node)
      /\ Elems(busy') = Elems(kept) \cup {useNode}
  BY <1>1, <1>2, <1>5, AppendList
<1>8. Elems(free') = Elems(free) \cup Elems(moved)
  BY <1>1, <1>2, <1>6, ConcatList
<1>9. /\ Len(kept) \in Nat /\ Len(busy') = Len(kept) + 1
      /\ busy'[Len(busy')] = useNode
      /\ \A i \in 1..Len(kept) : busy'[i] = kept[i]
  BY <1>1, <1>2, <1>5, AppendProperties, LenProperties
<1>10. ASSUME Distinct(busy)
       PROVE  \A k, l \in 1..Len(kept), c, d \in 1..Len(busy) :
                busy[c] = kept[k] /\ busy[d] = kept[l] => (k < l <=> c < d)
  <2>1. IsFiniteSet(Node) /\ kept \in SubList(busy, Rest) /\ Rest \in SUBSET Node
    BY <1>2, <1>4, NodeFacts
  <2>2. QED
    BY <1>1, <1>10, <2>1, SubListOrder
<1>11. \A i \in 1..Len(kept) : kept[i] \in Elems(kept)
  BY DEF Elems
<1>12. ASSUME Distinct(busy),
              NEW i \in 1..Len(busy') - 1, NEW j \in 1..Len(busy') - 1,
              NEW a \in 1..Len(busy), NEW b \in 1..Len(busy),
              busy'[i] = busy[a], busy'[j] = busy[b]
       PROVE  i < j <=> a < b
  <2>1. /\ i \in 1..Len(kept) /\ j \in 1..Len(kept)
        /\ busy[a] = kept[i] /\ busy[b] = kept[j]
    BY <1>9, <1>12
  <2>2. QED
    BY <1>10, <1>12, <2>1
<1>13. \A i \in 1..Len(busy') - 1 : busy'[i] \in Rest
  BY <1>5, <1>9, <1>11
<1>14. QED
  <2>1. busy' # <<>>
    BY <1>7, <1>9, EmptySeq
  <2>2. QED
    BY <1>3, <1>5, <1>6, <1>7, <1>8, <1>9, <1>12, <1>13, <2>1 DEF Rest

\* A published node given back either stays or goes to the free list.
LEMMA PutBusyToFreeLists ==
  ASSUME TypeOK, NEW n \in Elems(busy), PutBusyToFree(n)
  PROVE  LET left == IF hold[n] > 0 THEN hold[n] - 1 ELSE 0
         IN /\ hold' = [hold EXCEPT ![n] = left]
            /\ \/ /\ left > 0 \/ Len(busy) <= 1
                  /\ busy' = busy /\ free' = free
               \/ /\ left = 0 /\ Len(busy) > 1
                  /\ busy' \in SubList(busy, Elems(busy) \ {n})
                  /\ busy' \in Seq(Node)
                  /\ Elems(busy') = Elems(busy) \ {n}
                  /\ Elems(free') = Elems(free) \cup {n}
<1> DEFINE left == IF hold[n] > 0 THEN hold[n] - 1 ELSE 0
<1>1. free \in Seq(Node) /\ busy \in Seq(Node) /\ hold \in [Node -> Nat]
  BY DEF TypeOK
<1>2. n \in Node /\ Len(busy) \in Nat
  BY <1>1, ElemsType, LenProperties
<1>3. left \in Nat
  BY <1>1, <1>2
<1>4. /\ hold' = [hold EXCEPT ![n] = left]
      /\ IF left = 0 /\ Len(busy) > 1
           THEN /\ busy' \in SubList(busy, Elems(busy) \ {n})
                /\ free' = Append(free, n)
           ELSE UNCHANGED <<busy, free>>
  BY DEF PutBusyToFree
<1> HIDE DEF left
<1>5. CASE left = 0 /\ Len(busy) > 1
  <2>1. Elems(busy) \ {n} \in SUBSET Node
    BY <1>1, ElemsType
  <2>2. busy' \in SubList(busy, Elems(busy) \ {n}) /\ free' = Append(free, n)
    BY <1>4, <1>5
  <2>3. busy' \in Seq(Node) /\ Elems(busy') = Elems(busy) \ {n}
    BY <1>1, <2>1, <2>2, SubListIsList, NodeFacts
  <2>4. Elems(free') = Elems(free) \cup {n}
    BY <1>1, <1>2, <2>2, AppendList
  <2>5. QED
    BY <1>4, <1>5, <2>2, <2>3, <2>4 DEF left
<1>6. CASE ~(left = 0 /\ Len(busy) > 1)
  <2>1. busy' = busy /\ free' = free
    BY <1>4, <1>6
  <2>2. left > 0 \/ Len(busy) <= 1
    BY <1>2, <1>3, <1>6
  <2>3. QED
    BY <1>4, <2>1, <2>2 DEF left
<1>7. QED
  BY <1>5, <1>6

-----------------------------------------------------------------------------
(* pstUseNode is neither lost nor exchanged.                               *)

\* UseNodeKept is not inductive: nothing is lost only because pstUseNode is
\* still none when the handler takes the lock, and the firmware's buffer stays
\* pstUseNode because it is not none while the firmware has it.
UseInv ==
  /\ isr = "take" => useNode = None
  /\ fw = "init" => useNode = None
  /\ fw \in {"config", "write", "onceWrite"}
       => useNode # None /\ fwBuf = useNode
  /\ bInit => Elems(free) \cup Elems(busy) \cup ({useNode} \ {None}) = Node

LEMMA UseInit == Init => UseInv
BY DEF Init, UseInv

LEMMA UseStarts ==
  ASSUME BeBufInit, ~overtaken'
  PROVE  UseInv'
<1> DEFINE f == [i \in 1..MaxNode |-> i]
<1>1. free' = f /\ busy' = <<>> /\ useNode' = None /\ fw' = "init"
      /\ isr' = "idle"
  BY DEF BeBufInit, flagVars
<1>2. Elems(f) = Node
  <2>1. f \in Seq(Node) /\ Len(f) = MaxNode /\ \A i \in 1..MaxNode : f[i] = i
    BY NodeFacts DEF Node
  <2> HIDE DEF f
  <2>2. QED
    BY <2>1 DEF Elems, Node
<1> HIDE DEF f
<1>3. QED
  BY <1>1, <1>2, EmptyLists DEF UseInv

LEMMA UseStep ==
  ASSUME ~(Smp /\ ModeSwitch), ~overtaken, Basic, UseInv, [Next]_vars,
         ~BeBufInit
  PROVE  UseInv'
<1> USE DEF initVars, queueVars, flagVars
<1>0. TypeOK /\ NodesDisjoint /\ Control
  BY DEF Basic
<1>1. Elems(free) \subseteq Node /\ Elems(busy) \subseteq Node
  BY <1>0, ElemsType DEF TypeOK
<1>3. CASE GetBeBufFirst
  <2>1. /\ bInit /\ free # <<>> /\ isr' = isr /\ bInit' = bInit
        /\ useNode' = Head(free) /\ free' = Tail(free) /\ busy' = busy
        /\ fwBuf' = Head(free) /\ fw = "init" /\ fw' = "config"
    BY <1>3 DEF GetBeBufFirst
  <2>2. useNode = None /\ isr = "idle"
    BY <1>0, <2>1 DEF UseInv, Control
  <2>3. Head(free) \in Node /\ Elems(free) = Elems(Tail(free)) \cup {Head(free)}
    BY <1>0, <2>1, TakeHead DEF TypeOK
  <2>4. QED
    BY <2>1, <2>2, <2>3, NodeFacts DEF UseInv
<1>4. CASE AllBeBufInit
  <2>1. useNode # None /\ useNode \in Node
    BY <1>0, <1>4 DEF AllBeBufInit, UseInv, TypeOK
  <2>2. /\ busy' = Append(busy, useNode) /\ useNode' = None /\ free' = free
        /\ fw' \in {"run", "ready"} /\ isr' = isr /\ bInit' = bInit
    BY <1>4, <2>1 DEF AllBeBufInit
  <2>3. Elems(busy') = Elems(busy) \cup {useNode}
    BY <1>0, <2>1, <2>2, AppendList DEF TypeOK
  <2>4. QED
    BY <2>1, <2>2, <2>3, NodeFacts DEF UseInv
<1>5. CASE GetBeFreeBuf
  BY <1>5 DEF GetBeFreeBuf, UseInv
<1>6. ASSUME BeBufQueuePutBusy, UNCHANGED <<bInit, isr, fwBuf>>, fw' \in {"run", "ready"}
      PROVE  UseInv'
  <2>1. CASE useNode = None
    <3>1. UNCHANGED <<free, busy, useNode>>
      BY <1>6, <2>1 DEF BeBufQueuePutBusy
    <3>2. QED
      BY <1>6, <2>1, <3>1 DEF UseInv
  <2>2. CASE useNode # None
    <3>1. /\ useNode' = None /\ useNode \in Node
          /\ Elems(free') = Elems(free) \cup Idle
          /\ Elems(busy') = (Elems(busy) \ Idle) \cup {useNode}
          /\ Idle \subseteq Elems(busy)
      BY <1>0, <1>6, <2>2, PutBusyLists DEF TypeOK, Idle
    <3>2. QED
      BY <1>6, <2>2, <3>1, NodeFacts DEF UseInv
  <2>3. QED
    BY <2>1, <2>2
<1>7. CASE BeBufCtl
  <2>1. UNCHANGED <<bInit, isr, fwBuf>> /\ fw' = "run"
    BY <1>7 DEF BeBufCtl
  <2>2. CASE bRunOnceFlag
    BY <1>7, <2>1, <2>2 DEF BeBufCtl, UseInv
  <2>3. CASE ~bRunOnceFlag
    BY <1>6, <1>7, <2>1, <2>3 DEF BeBufCtl
  <2>4. QED
    BY <2>2, <2>3
<1>8. CASE RunOnceProcess
  <2>1. UNCHANGED <<bInit, isr, fwBuf>> /\ fw' = "ready"
    BY <1>8 DEF RunOnceProcess
  <2>2. CASE bRunOnceFlag
    BY <1>6, <1>8, <2>1, <2>2 DEF RunOnceProcess
  <2>3. CASE ~bRunOnceFlag
    BY <1>8, <2>1, <2>3 DEF RunOnceProcess, UseInv
  <2>4. QED
    BY <2>2, <2>3
<1>9. ASSUME free # <<>>, useNode = None, isr' = "idle",
             useNode' = Head(free), free' = Tail(free),
             UNCHANGED <<bInit, busy, fwBuf>>,
             fw' \notin {"init", "config", "write", "onceWrite"}
      PROVE  UseInv'
  <2>1. Head(free) \in Node /\ Elems(free) = Elems(Tail(free)) \cup {Head(free)}
    BY <1>0, <1>9, TakeHead DEF TypeOK
  <2>2. QED
    BY <1>9, <2>1, NodeFacts DEF UseInv
<1>10. CASE OptRunOnceInfo
  <2>1. fw = "ready" /\ isr = "idle" /\ UNCHANGED <<isr, bInit, busy, fwBuf>>
    BY <1>0, <1>10 DEF OptRunOnceInfo, Control
  <2>2. CASE useNode # None \/ free = <<>>
    BY <1>10, <2>1, <2>2 DEF OptRunOnceInfo, UseInv
  <2>3. CASE useNode = None /\ free # <<>>
    BY <1>9, <1>10, <2>1, <2>3 DEF OptRunOnceInfo
  <2>4. QED
    BY <2>2, <2>3
<1>11. CASE GetBeLastBuf
  <2>1. isr = "idle" /\ isr' = isr /\ bInit /\ bInit' = bInit /\ busy' = <<>>
    BY <1>0, <1>11 DEF GetBeLastBuf, NotInterrupted
  <2> DEFINE all  == free \o busy
             last == Len(all)
  <2>2. all \in Seq(Node) /\ Elems(all) = Elems(free) \cup Elems(busy)
    BY <1>0, ConcatList DEF TypeOK
  <2>3. CASE useNode # None
    <3>1. free' = all /\ fwBuf' = useNode /\ useNode' = useNode /\ fw' = "config"
      BY <1>11, <2>3 DEF GetBeLastBuf
    <3> HIDE DEF all
    <3>2. QED
      BY <2>1, <2>2, <2>3, <3>1, EmptyLists DEF UseInv
  <2>4. CASE useNode = None /\ all = <<>>
    <3>1. free' = all /\ useNode' = useNode /\ fw' = "broken"
      BY <1>11, <2>4 DEF GetBeLastBuf
    <3> HIDE DEF all
    <3>2. QED
      BY <2>1, <2>2, <2>4, <3>1, EmptyLists DEF UseInv
  <2>5. CASE useNode = None /\ all # <<>>
    <3>1. /\ free' = SubSeq(all, 1, last - 1) /\ useNode' = all[last]
          /\ fwBuf' = all[last] /\ fw' = "config"
      BY <1>11, <2>5 DEF GetBeLastBuf
    <3> HIDE DEF all
    <3>2. /\ all[last] \in Node
          /\ Elems(all) = Elems(SubSeq(all, 1, last - 1)) \cup {all[last]}
      BY <2>2, <2>5, TakeLast
    <3>3. QED
      BY <2>1, <2>2, <2>5, <3>1, <3>2, EmptyLists, NodeFacts DEF UseInv
  <2>6. QED
    BY <2>3, <2>4, <2>5
<1>12. CASE BeBufExitDone
  BY <1>0, <1>12 DEF BeBufExitDone, UseInv, Control
<1>13. CASE IsrTake
  <2>1. isr = "take" /\ useNode = None /\ isr' = "idle"
        /\ UNCHANGED <<bInit, busy, fwBuf, fw>>
    BY <1>13 DEF IsrTake, UseInv
  <2>2. fw \notin {"init", "config", "write", "onceWrite"}
    BY <1>0, <2>1 DEF UseInv, Control
  <2>3. CASE free = <<>>
    BY <1>13, <2>1, <2>2, <2>3 DEF IsrTake, UseInv
  <2>4. CASE free # <<>>
    BY <1>9, <1>13, <2>1, <2>2, <2>4 DEF IsrTake
  <2>5. QED
    BY <2>3, <2>4
<1>14. ASSUME NEW i \in 1..Len(refs), PutFreeBeBuf(i) PROVE UseInv'
  <2>1. UNCHANGED <<bInit, useNode, isr, fw, fwBuf>>
    BY <1>14 DEF PutFreeBeBuf
  <2>2. CASE exitState = "EXIT" \/ refs[i] \notin Elems(busy)
    BY <1>14, <2>1, <2>2 DEF PutFreeBeBuf, PutBusyToFree, UseInv
  <2>3. CASE exitState # "EXIT" /\ refs[i] \in Elems(busy)
    <3>1. Elems(free') \cup Elems(busy') = Elems(free) \cup Elems(busy)
      <4>1. PutBusyToFree(refs[i])
        BY <1>14, <2>3 DEF PutFreeBeBuf
      <4>2. \/ busy' = busy /\ free' = free
            \/ /\ Elems(busy') = Elems(busy) \ {refs[i]}
               /\ Elems(free') = Elems(free) \cup {refs[i]}
        BY <1>0, <2>3, <4>1, PutBusyToFreeLists
      <4>3. QED
        BY <2>3, <4>2
    <3>2. QED
      BY <2>1, <3>1 DEF UseInv
  <2>4. QED
    BY <2>2, <2>3
<1>15. ASSUME NEW i \in 1..Len(refs), HoldBusyBeBuf(i) PROVE UseInv'
  BY <1>15 DEF HoldBusyBeBuf, UseInv
<1>16. CASE \/ ConfigFails \/ SetRunState \/ StartRun \/ NoStatistics
           \/ BeBufExit \/ BeBufExitTimeout \/ IsrCheck \/ GetReadyBeBuf
  BY <1>16 DEF ConfigFails, SetRunState, StartRun, NoStatistics, BeBufExit,
     BeBufExitTimeout, IsrCheck, GetReadyBeBuf, UseInv
<1>17. CASE UNCHANGED vars
  BY <1>17 DEF vars, UseInv
<1>18. QED
  BY <1>3, <1>4, <1>5, <1>7, <1>8, <1>10, <1>11, <1>12, <1>13, <1>14,
     <1>15, <1>16, <1>17, NextCases

LEMMA UseHolds == Spec => [](~(Smp /\ ModeSwitch) /\ ~overtaken => UseInv)
<1> DEFINE Calm == ~(Smp /\ ModeSwitch)
<1>1. Init => (Calm /\ ~overtaken => UseInv)
  BY UseInit
<1>2. Basic /\ (Calm /\ ~overtaken => UseInv) /\ [Next]_vars
        => (Calm /\ ~overtaken => UseInv)'
  <2>1. [Next]_vars => (Calm' <=> Calm)
    BY DEF Next, vars, Smp, ModeSwitch
  <2>2. BeBufInit /\ ~overtaken' => UseInv'
    BY UseStarts
  <2>3. [Next]_vars /\ ~BeBufInit => overtaken' = overtaken
    BY OvertakenKept
  <2> HIDE DEF Calm
  <2>4. Calm /\ ~overtaken /\ Basic /\ UseInv /\ [Next]_vars /\ ~BeBufInit => UseInv'
    BY UseStep DEF Calm
  <2>5. QED
    BY <2>1, <2>2, <2>3, <2>4
<1>3. QED
  BY <1>1, <1>2, BasicHolds, PTL DEF Spec

\* No node gets lost and the firmware always writes to pstUseNode, although
\* the handler tests pstUseNode outside the lock it assigns it under: with any
\* number of nodes, whatever VI does, with mode switches on one processor or
\* without them on several, and as long as no handler that tested pstUseNode
\* before an exit takes the lock after the next init.  (With mode switches on
\* several processors, and with such a handler, the code does lose nodes.)
THEOREM UseNodeAlwaysKept == Spec => []UseNodeKept
<1>1. (~(Smp /\ ModeSwitch) /\ ~overtaken => UseInv) => UseNodeKept
  BY DEF UseInv, UseNodeKept, NoNodeLost, FwWritesUseNode
<1>2. QED
  BY <1>1, UseHolds, PTL
-----------------------------------------------------------------------------
(* What is published, in every environment.                                *)

\* When there are published configurations, that all but the newest are there
\* because VI holds them, and that only those have holds, never more than VI
\* has references.
PublishedInv ==
  /\ ~bInit => busy = <<>>
  /\ fw \in {"init", "config"} => busy = <<>>
  /\ fw \in {"ready", "run", "write", "once", "onceWrite"} => busy # <<>>
  /\ \A a \in 1..Len(busy) - 1 : hold[busy[a]] > 0
  /\ \A n \in Node : bInit /\ hold[n] > 0
                       => n \in Elems(busy) /\ hold[n] <= RefsTo(n)

LEMMA PublishedInit == Init => PublishedInv
BY DEF Init, PublishedInv

\* RefsTo after a reference is taken and given back.
LEMMA RefsTake ==
  ASSUME TypeOK, NEW e \in Node, refs' = Append(refs, e), NEW n
  PROVE  RefsTo(n)' = RefsTo(n) + (IF n = e THEN 1 ELSE 0)
BY OccursAppend DEF RefsTo, TypeOK

LEMMA RefsGive ==
  ASSUME TypeOK, NEW i \in 1..Len(refs), refs' = Without(refs, i), NEW n
  PROVE  RefsTo(n)' = RefsTo(n) - (IF n = refs[i] THEN 1 ELSE 0)
BY OccursWithout DEF RefsTo, TypeOK

LEMMA RefsType ==
  ASSUME TypeOK
  PROVE  /\ \A n : RefsTo(n) \in Nat /\ (RefsTo(n) > 0 <=> n \in Elems(refs))
         /\ \A i \in 1..Len(refs) : refs[i] \in Node /\ RefsTo(refs[i]) > 0
         /\ Len(refs) \in Nat
<1>1. refs \in Seq(Node)
  BY DEF TypeOK
<1>2. \A n : RefsTo(n) \in Nat /\ (RefsTo(n) > 0 <=> n \in Elems(refs))
  BY <1>1, Occurs DEF RefsTo
<1>3. \A i \in 1..Len(refs) : refs[i] \in Node /\ refs[i] \in Elems(refs)
  BY <1>1, ElementOfSeq DEF Elems
<1>4. Len(refs) \in Nat
  BY <1>1, LenProperties
<1>5. QED
  BY <1>2, <1>3, <1>4

\* The newest published configuration.
LEMMA LastBusy ==
  ASSUME TypeOK, busy # <<>>
  PROVE  /\ Len(busy) \in 1..Len(busy)
         /\ busy[Len(busy)] \in Node
         /\ busy[Len(busy)] \in Elems(busy)
<1>1. busy \in Seq(Node) /\ Len(busy) \in Nat \ {0}
  BY EmptySeq, LenProperties DEF TypeOK
<1>2. QED
  BY <1>1, ElementOfSeq DEF Elems

LEMMA PublishedStep == Basic /\ PublishedInv /\ [Next]_vars => PublishedInv'
<1> SUFFICES ASSUME Basic, PublishedInv, [Next]_vars PROVE PublishedInv'
  OBVIOUS
<1> USE DEF initVars, queueVars, flagVars
<1>0. TypeOK /\ NodesDisjoint /\ Control
  BY DEF Basic
<1>1. busy \in Seq(Node) /\ Len(busy) \in Nat /\ hold \in [Node -> Nat]
      /\ \A a \in 1..Len(busy) : busy[a] \in Node /\ busy[a] \in Elems(busy)
  BY <1>0, LenProperties, ElementOfSeq DEF TypeOK, Elems
<1>2. ASSUME UNCHANGED <<bInit, busy, hold, refs>>,
             fw' \in {"ready", "run", "write", "once", "onceWrite"}
               => fw \in {"ready", "run", "write", "once", "onceWrite"},
             fw' \in {"init", "config"} => fw \in {"init", "config"}
      PROVE  PublishedInv'
  BY <1>2 DEF PublishedInv, RefsTo
<1>3. ASSUME busy' = <<>>, fw' \in {"init", "config", "broken", "down"},
             \A n \in Node : bInit' => hold'[n] = 0
      PROVE  PublishedInv'
  BY <1>3 DEF PublishedInv
<1>4. CASE BeBufInit
  BY <1>3, <1>4 DEF BeBufInit
<1>5. CASE AllBeBufInit
  <2>1. UNCHANGED <<bInit, hold, refs>> /\ bInit /\ busy = <<>>
    BY <1>5 DEF AllBeBufInit, PublishedInv
  <2>2. CASE useNode = None
    <3>1. busy' = busy /\ fw' = "broken"
      BY <1>5, <2>2 DEF AllBeBufInit
    <3>2. QED
      BY <1>2, <2>1, <3>1
  <2>3. CASE useNode # None
    <3>1. busy' = Append(busy, useNode) /\ fw' \in {"run", "ready"} /\ useNode \in Node
      BY <1>0, <1>5, <2>3 DEF AllBeBufInit, TypeOK
    <3>2. Len(busy') = 1 /\ busy' # <<>> /\ Elems(busy') = Elems(busy) \cup {useNode}
      <4>1. busy' \in Seq(Node) /\ Len(busy') = Len(busy) + 1
            /\ Elems(busy') = Elems(busy) \cup {useNode}
        BY <1>1, <3>1, AppendProperties, AppendList
      <4>2. QED
        BY <2>1, <4>1, EmptySeq
    <3>3. QED
      BY <2>1, <3>1, <3>2 DEF PublishedInv, RefsTo
  <2>4. QED
    BY <2>2, <2>3
<1>6. ASSUME BeBufQueuePutBusy, UNCHANGED <<bInit, hold, refs>>, bInit,
             fw' \in {"run", "ready"}, fw \in {"write", "once", "onceWrite"}
      PROVE  PublishedInv'
  <2>1. CASE useNode = None
    BY <1>2, <1>6, <2>1 DEF BeBufQueuePutBusy
  <2>2. CASE useNode # None
    <3>1. /\ Elems(busy') = (Elems(busy) \ Idle) \cup {useNode}
          /\ busy' # <<>>
          /\ \A i \in 1..Len(busy') - 1 : busy'[i] \in Elems(busy) \ Idle
      BY <1>0, <1>6, <2>2, PutBusyLists
    <3>2. \A n \in Elems(busy) \ Idle : hold[n] > 0
      BY <1>1, ElemsType DEF Idle
    <3>3. \A n \in Node : hold[n] > 0 => n \notin Idle
      BY <1>1 DEF Idle
    <3>4. QED
      BY <1>6, <3>1, <3>2, <3>3 DEF PublishedInv, RefsTo
  <2>3. QED
    BY <2>1, <2>2
<1>7. CASE BeBufCtl
  <2>1. UNCHANGED <<bInit, hold, refs>> /\ bInit /\ fw' = "run" /\ fw = "write"
    BY <1>7 DEF BeBufCtl
  <2>2. CASE bRunOnceFlag
    BY <1>2, <1>7, <2>1, <2>2 DEF BeBufCtl
  <2>3. CASE ~bRunOnceFlag
    BY <1>6, <1>7, <2>1, <2>3 DEF BeBufCtl
  <2>4. QED
    BY <2>2, <2>3
<1>8. CASE RunOnceProcess
  <2>1. UNCHANGED <<bInit, hold, refs>> /\ bInit /\ fw' = "ready"
        /\ fw \in {"once", "onceWrite"}
    BY <1>0, <1>8 DEF RunOnceProcess, Control
  <2>2. CASE bRunOnceFlag
    BY <1>6, <1>8, <2>1, <2>2 DEF RunOnceProcess
  <2>3. CASE ~bRunOnceFlag
    BY <1>2, <1>8, <2>1, <2>3 DEF RunOnceProcess
  <2>4. QED
    BY <2>2, <2>3
<1>9. CASE GetBeLastBuf
  <2>1. busy' = <<>> /\ fw' \in {"config", "broken"} /\ bInit
    BY <1>9 DEF GetBeLastBuf
  <2>2. hold' = [n \in Node |-> IF n \in Elems(busy) THEN 0 ELSE hold[n]]
    BY <1>9 DEF GetBeLastBuf
  <2>3. \A n \in Node : hold'[n] = 0
    BY <1>1, <2>1, <2>2 DEF PublishedInv
  <2>4. QED
    BY <1>3, <2>1, <2>3
<1>10. CASE BeBufExitDone
  BY <1>3, <1>10 DEF BeBufExitDone
<1>11. ASSUME NEW n \in Elems(busy), bInit, UNCHANGED <<bInit, busy, fw>>,
              hold' = [hold EXCEPT ![n] = @ + 1], refs' = Append(refs, n)
       PROVE  PublishedInv'
  <2>1. n \in Node
    BY <1>1, ElemsType
  <2>2. \A m : RefsTo(m)' = RefsTo(m) + (IF m = n THEN 1 ELSE 0)
    BY <1>0, <1>11, <2>1, RefsTake
  <2>3. \A m \in Node : /\ hold'[m] = hold[m] + (IF m = n THEN 1 ELSE 0)
                        /\ RefsTo(m) \in Nat
    BY <1>0, <1>1, <1>11, RefsType
  <2>4. \A m \in Node : bInit /\ hold'[m] > 0
                          => m \in Elems(busy) /\ hold'[m] <= RefsTo(m)'
    BY <1>1, <1>11, <2>1, <2>2, <2>3 DEF PublishedInv
  <2>5. \A a \in 1..Len(busy) - 1 : hold'[busy[a]] > 0
    <3>1. SUFFICES ASSUME NEW a \in 1..Len(busy) - 1 PROVE hold'[busy[a]] > 0
      OBVIOUS
    <3>2. busy[a] \in Node /\ hold[busy[a]] \in Nat /\ hold[busy[a]] > 0
      BY <1>1 DEF PublishedInv
    <3>3. QED
      BY <2>3, <3>2
  <2>6. QED
    BY <1>11, <2>4, <2>5 DEF PublishedInv
<1>12. CASE GetReadyBeBuf
  <2>1. bInit /\ busy # <<>>
    BY <1>0, <1>12 DEF GetReadyBeBuf, Control
  <2>2. busy[Len(busy)] \in Elems(busy)
    BY <1>0, <2>1, LastBusy
  <2>3. QED
    BY <1>11, <1>12, <2>1, <2>2 DEF GetReadyBeBuf
<1>13. ASSUME NEW i \in 1..Len(refs), HoldBusyBeBuf(i) PROVE PublishedInv'
  <2>1. bInit /\ UNCHANGED <<bInit, busy, fw>> /\ refs' = Append(refs, refs[i])
    BY <1>0, <1>13 DEF HoldBusyBeBuf, Control
  <2>2. CASE refs[i] \in Elems(busy)
    BY <1>11, <1>13, <2>1, <2>2 DEF HoldBusyBeBuf
  <2>3. CASE refs[i] \notin Elems(busy)
    <3>1. hold' = hold
      BY <1>13, <2>3 DEF HoldBusyBeBuf
    <3>2. \A m : RefsTo(m)' >= RefsTo(m)
      BY <1>0, <2>1, RefsTake, RefsType
    <3>3. \A m \in Node : RefsTo(m)' \in Nat
      BY <1>0, <2>1, RefsTake, RefsType
    <3>4. QED
      BY <1>0, <1>1, <2>1, <3>1, <3>2, <3>3, RefsType DEF PublishedInv
  <2>4. QED
    BY <2>2, <2>3
<1>14. ASSUME NEW i \in 1..Len(refs), PutFreeBeBuf(i) PROVE PublishedInv'
  <2>0. PICK n \in Node : n = refs[i]
    BY <1>0, RefsType
  <2>1. n \in Node /\ RefsTo(n) > 0 /\ \A m \in Node : RefsTo(m) \in Nat
    BY <1>0, <2>0, RefsType
  <2>2. UNCHANGED <<bInit, fw>> /\ refs' = Without(refs, i)
    BY <1>14 DEF PutFreeBeBuf
  <2>3. \A m : RefsTo(m)' = RefsTo(m) - (IF m = n THEN 1 ELSE 0)
    BY <1>0, <2>0, <2>2, RefsGive
  <2>4. CASE exitState = "EXIT"
    <3>1. ~bInit /\ UNCHANGED <<busy, hold>>
      BY <1>0, <1>14, <2>4 DEF PutFreeBeBuf, Control
    <3>2. QED
      BY <2>2, <3>1 DEF PublishedInv
  <2>5. CASE exitState # "EXIT" /\ n \notin Elems(busy)
    <3>1. bInit /\ UNCHANGED <<busy, hold>>
      BY <1>0, <1>14, <2>0, <2>5 DEF PutFreeBeBuf, PutBusyToFree, Control
    <3>2. ~(hold[n] > 0)
      BY <2>1, <2>5, <3>1 DEF PublishedInv
    <3>3. \A m \in Node : hold[m] > 0 => RefsTo(m)' = RefsTo(m)
      BY <2>1, <2>3, <3>2
    <3>4. QED
      BY <2>2, <3>1, <3>3 DEF PublishedInv
  <2>6. CASE exitState # "EXIT" /\ n \in Elems(busy)
    <3> DEFINE left == IF hold[n] > 0 THEN hold[n] - 1 ELSE 0
    <3>1. PutBusyToFree(n) /\ bInit
      BY <1>0, <1>14, <2>0, <2>6 DEF PutFreeBeBuf, Control
    <3>2. /\ hold' = [hold EXCEPT ![n] = left]
          /\ \/ /\ left > 0 \/ Len(busy) <= 1
                /\ busy' = busy
             \/ /\ left = 0 /\ Len(busy) > 1
                /\ busy' \in SubList(busy, Elems(busy) \ {n})
                /\ busy' \in Seq(Node)
                /\ Elems(busy') = Elems(busy) \ {n}
      BY <1>0, <2>6, <3>1, PutBusyToFreeLists
    <3>3. left \in Nat /\ left <= RefsTo(n)'
      <4>1. hold[n] \in Nat /\ RefsTo(n) \in Nat /\ RefsTo(n)' = RefsTo(n) - 1
        BY <1>1, <2>1, <2>3
      <4>2. hold[n] > 0 => hold[n] <= RefsTo(n)
        BY <2>1, <3>1 DEF PublishedInv
      <4>3. QED
        BY <2>1, <4>1, <4>2
    <3>4. \A m \in Node : hold'[m] = IF m = n THEN left ELSE hold[m]
      BY <1>1, <2>1, <3>2, <3>3
    <3> HIDE DEF left
    <3>5. \A m \in Node : hold'[m] > 0 => m \in Elems(busy) /\ hold'[m] <= RefsTo(m)'
      <4>1. \A m \in Node : m # n => hold'[m] = hold[m] /\ RefsTo(m)' = RefsTo(m)
        BY <2>1, <2>3, <3>4
      <4>2. hold'[n] = left
        BY <2>1, <3>4
      <4>3. QED
        BY <2>6, <3>1, <3>3, <4>1, <4>2 DEF PublishedInv
    <3>6. CASE (left > 0 \/ Len(busy) <= 1) /\ busy' = busy
      <4>1. \A a \in 1..Len(busy) - 1 : hold'[busy[a]] > 0
        BY <1>1, <3>3, <3>4, <3>6 DEF PublishedInv
      <4>2. QED
        BY <2>2, <3>5, <3>6, <4>1 DEF PublishedInv
    <3>7. CASE /\ left = 0 /\ Len(busy) > 1
               /\ busy' \in SubList(busy, Elems(busy) \ {n})
               /\ busy' \in Seq(Node)
               /\ Elems(busy') = Elems(busy) \ {n}
      <4>1. Distinct(busy)
        BY <1>0, <3>1 DEF NodesDisjoint
      <4>2. \A m \in Node : hold'[m] > 0 => m # n
        BY <2>1, <3>4, <3>7
      <4>3. busy' # <<>>
        <5>1. busy[1] # busy[2] /\ busy[1] \in Elems(busy) /\ busy[2] \in Elems(busy)
          BY <1>1, <3>7, <4>1 DEF Distinct
        <5>2. Elems(busy') # {}
          BY <3>7, <5>1
        <5>3. QED
          BY <5>2, EmptyLists
      <4>4. \A a \in 1..Len(busy') - 1 : hold'[busy'[a]] > 0
        <5>1. Len(busy') \in Nat /\ \A a \in 1..Len(busy') : busy'[a] \in Elems(busy')
          BY <3>7, LenProperties DEF Elems
        <5>2. SUFFICES ASSUME NEW a \in 1..Len(busy') - 1
                       PROVE  hold'[busy'[a]] > 0
          OBVIOUS
        <5>3. \A c \in 1..Len(busy') : \E d \in 1..Len(busy) :
                busy[d] = busy'[c] /\ (c < Len(busy') => d < Len(busy))
          BY <1>1, <3>7, <4>1, SubListInside, NodeFacts
        <5>4. PICK d \in 1..Len(busy) : busy[d] = busy'[a] /\ d < Len(busy)
          <6>1. a \in 1..Len(busy') /\ a < Len(busy')
            BY <5>1
          <6>2. QED
            BY <5>3, <6>1
        <5>5. busy[d] \in Node /\ hold[busy[d]] > 0
          BY <1>1, <5>4 DEF PublishedInv
        <5>6. busy[d] # n
          BY <3>7, <5>1, <5>4
        <5>7. QED
          BY <3>4, <5>4, <5>5, <5>6
      <4>5. fw \notin {"init", "config"}
        BY <3>7, EmptySeq DEF PublishedInv
      <4>6. QED
        BY <2>2, <3>1, <3>5, <3>7, <4>2, <4>3, <4>4, <4>5 DEF PublishedInv
    <3>8. QED
      BY <3>2, <3>6, <3>7
  <2>7. QED
    BY <2>4, <2>5, <2>6
<1>15. CASE OptRunOnceInfo
  BY <1>2, <1>15 DEF OptRunOnceInfo
<1>16. CASE \/ GetBeBufFirst \/ ConfigFails \/ SetRunState \/ StartRun
           \/ GetBeFreeBuf \/ NoStatistics \/ BeBufExit \/ BeBufExitTimeout
           \/ IsrCheck \/ IsrTake
  BY <1>2, <1>16 DEF GetBeBufFirst, ConfigFails, SetRunState, StartRun,
     GetBeFreeBuf, NoStatistics, BeBufExit, BeBufExitTimeout, IsrCheck, IsrTake
<1>17. CASE UNCHANGED vars
  BY <1>2, <1>17 DEF vars
<1>18. QED
  BY <1>4, <1>5, <1>7, <1>8, <1>9, <1>10, <1>12, <1>13, <1>14, <1>15, <1>16,
     <1>17, NextCases
-----------------------------------------------------------------------------
(* What VI references stays published.                                     *)

\* HeldStaysPublished is not inductive: the memory goes with the references
\* only because s32UseCnt counts them.
HeldInv ==
  /\ useCnt = Len(refs)
  /\ ~bInit => refs = <<>>
  /\ \A n \in Node : RefsTo(n) > 0 => n \in Elems(busy)
  /\ \A n \in Node : bInit => hold[n] = RefsTo(n)

LEMMA HeldInit == Init => HeldInv
BY OccursEmpty DEF Init, HeldInv, RefsTo

LEMMA HeldStep ==
  ASSUME ~ModeSwitch, Basic, HeldInv, [Next]_vars
  PROVE  HeldInv'
<1> USE DEF initVars, queueVars, flagVars
<1>0. TypeOK /\ NodesDisjoint /\ Control
  BY DEF Basic
<1>1. refs \in Seq(Node) /\ hold \in [Node -> Nat]
  BY <1>0 DEF TypeOK
<1>2. \A i \in 1..Len(refs) : refs[i] \in Node /\ refs[i] \in Elems(busy)
  BY <1>0, RefsType DEF HeldInv
<1>3. \A n \in Node : RefsTo(n) \in Nat /\ (RefsTo(n) > 0 => bInit /\ hold[n] > 0)
  <2>1. ~bInit => \A n \in Node : RefsTo(n) = 0
    BY OccursEmpty DEF HeldInv, RefsTo
  <2>2. QED
    BY <1>0, <2>1, RefsType DEF HeldInv
<1>4. ASSUME UNCHANGED <<bInit, hold, useCnt, refs>>, Elems(busy) \subseteq Elems(busy')
      PROVE  HeldInv'
  BY <1>4 DEF HeldInv, RefsTo
<1>5. CASE BeBufInit
  <2>1. /\ ~bInit /\ bInit' /\ hold' = [n \in Node |-> 0]
        /\ UNCHANGED <<useCnt, refs>>
    BY <1>5 DEF BeBufInit
  <2>2. refs = <<>>
    BY <2>1 DEF HeldInv
  <2>3. \A n : RefsTo(n)' = 0
    BY <2>1, <2>2, OccursEmpty DEF RefsTo
  <2>4. QED
    BY <2>1, <2>3 DEF HeldInv
<1>6. CASE AllBeBufInit
  <2>1. UNCHANGED <<bInit, hold, useCnt, refs>>
    BY <1>6 DEF AllBeBufInit
  <2>2. CASE useNode = None
    BY <1>4, <1>6, <2>1, <2>2 DEF AllBeBufInit
  <2>3. CASE useNode # None
    <3>1. busy' = Append(busy, useNode) /\ useNode \in Node
      BY <1>0, <1>6, <2>3 DEF AllBeBufInit, TypeOK
    <3>2. Elems(busy') = Elems(busy) \cup {useNode}
      BY <1>0, <3>1, AppendList DEF TypeOK
    <3>3. QED
      BY <1>4, <2>1, <3>2
  <2>4. QED
    BY <2>2, <2>3
<1>7. ASSUME BeBufQueuePutBusy, UNCHANGED <<bInit, hold, useCnt, refs>>
      PROVE  HeldInv'
  <2>1. CASE useNode = None
    BY <1>4, <1>7, <2>1 DEF BeBufQueuePutBusy
  <2>2. CASE useNode # None
    <3>1. Elems(busy') = (Elems(busy) \ Idle) \cup {useNode}
      BY <1>0, <1>7, <2>2, PutBusyLists
    <3>2. \A n \in Node : RefsTo(n) > 0 => n \notin Idle
      BY <1>1, <1>3 DEF Idle
    <3>3. QED
      BY <1>7, <3>1, <3>2 DEF HeldInv, RefsTo
  <2>3. QED
    BY <2>1, <2>2
<1>8. CASE BeBufCtl
  <2>1. UNCHANGED <<bInit, hold, useCnt, refs>>
    BY <1>8 DEF BeBufCtl
  <2>2. QED
    BY <1>4, <1>7, <1>8, <2>1 DEF BeBufCtl
<1>9. CASE RunOnceProcess
  <2>1. UNCHANGED <<bInit, hold, useCnt, refs>>
    BY <1>9 DEF RunOnceProcess
  <2>2. QED
    BY <1>4, <1>7, <1>9, <2>1 DEF RunOnceProcess
<1>10. CASE GetBeLastBuf
  BY <1>10 DEF GetBeLastBuf
<1>11. CASE BeBufExitDone
  <2>1. Len(refs) = 0 /\ ~bInit' /\ UNCHANGED <<useCnt, refs>>
    BY <1>11 DEF BeBufExitDone, HeldInv
  <2>2. refs = <<>>
    BY <1>1, <2>1, EmptySeq
  <2>3. \A n : RefsTo(n)' = 0
    BY <2>1, <2>2, OccursEmpty DEF RefsTo
  <2>4. QED
    BY <2>1, <2>2, <2>3 DEF HeldInv
<1>12. ASSUME NEW n \in Elems(busy), bInit, UNCHANGED <<bInit, busy>>,
              hold' = [hold EXCEPT ![n] = @ + 1], refs' = Append(refs, n),
              useCnt' = useCnt + 1
       PROVE  HeldInv'
  <2>1. n \in Node
    BY <1>0, ElemsType DEF TypeOK
  <2>2. \A m : RefsTo(m)' = RefsTo(m) + (IF m = n THEN 1 ELSE 0)
    BY <1>0, <1>12, <2>1, RefsTake
  <2>3. \A m \in Node : hold'[m] = hold[m] + (IF m = n THEN 1 ELSE 0)
    BY <1>1, <1>12
  <2>4. Len(refs') = Len(refs) + 1
    BY <1>1, <1>12, <2>1, AppendProperties
  <2>5. \A m \in Node : hold'[m] = RefsTo(m)'
    BY <1>12, <2>2, <2>3 DEF HeldInv
  <2>6. \A m \in Node : RefsTo(m)' > 0 => m \in Elems(busy)
    BY <1>3, <1>12, <2>2 DEF HeldInv
  <2>7. QED
    BY <1>12, <2>4, <2>5, <2>6 DEF HeldInv
<1>13. CASE GetReadyBeBuf
  <2>1. bInit /\ busy # <<>>
    BY <1>0, <1>13 DEF GetReadyBeBuf, Control
  <2>2. busy[Len(busy)] \in Elems(busy)
    BY <1>0, <2>1, LastBusy
  <2>3. QED
    BY <1>12, <1>13, <2>1, <2>2 DEF GetReadyBeBuf
<1>14. ASSUME NEW i \in 1..Len(refs), HoldBusyBeBuf(i) PROVE HeldInv'
  <2>1. bInit
    BY <1>0, <1>14 DEF HoldBusyBeBuf, Control
  <2>2. QED
    BY <1>2, <1>12, <1>14, <2>1 DEF HoldBusyBeBuf
<1>15. ASSUME NEW i \in 1..Len(refs), PutFreeBeBuf(i) PROVE HeldInv'
  <2>0. PICK n \in Node : n = refs[i]
    BY <1>2
  <2>1. n \in Elems(busy) /\ RefsTo(n) \in Nat /\ RefsTo(n) > 0 /\ Len(refs) \in Nat
    BY <1>0, <1>2, <2>0, RefsType
  <2>2. bInit /\ exitState # "EXIT" /\ hold[n] = RefsTo(n)
    BY <1>0, <1>3, <2>1 DEF HeldInv, Control
  <2>3. /\ UNCHANGED bInit /\ refs' = Without(refs, i) /\ PutBusyToFree(n)
        /\ useCnt' = IF useCnt > 0 THEN useCnt - 1 ELSE 0
    BY <1>15, <2>0, <2>2 DEF PutFreeBeBuf
  <2>4. \A m : RefsTo(m)' = RefsTo(m) - (IF m = n THEN 1 ELSE 0)
    BY <1>0, <2>0, <2>3, RefsGive
  <2>5. Len(refs') = Len(refs) - 1 /\ Len(refs) > 0
    BY <1>1, <2>1, <2>3, WithoutIsList
  <2> DEFINE left == IF hold[n] > 0 THEN hold[n] - 1 ELSE 0
  <2>6. /\ hold' = [hold EXCEPT ![n] = left]
        /\ \/ busy' = busy
           \/ left = 0 /\ Elems(busy') = Elems(busy) \ {n}
    BY <1>0, <2>1, <2>3, PutBusyToFreeLists
  <2>7. left = RefsTo(n) - 1
    BY <2>1, <2>2
  <2> HIDE DEF left
  <2>8. \A m \in Node : hold'[m] = IF m = n THEN left ELSE hold[m]
    BY <1>1, <2>6
  <2>9. \A m \in Node : hold'[m] = RefsTo(m)'
    <3>1. SUFFICES ASSUME NEW m \in Node PROVE hold'[m] = RefsTo(m)'
      OBVIOUS
    <3>2. RefsTo(m) \in Nat /\ hold[m] = RefsTo(m)
      BY <1>3, <2>2 DEF HeldInv
    <3>3. QED
      BY <2>4, <2>7, <2>8, <3>2
  <2>10. \A m \in Node : RefsTo(m)' > 0 => m \in Elems(busy')
    <3>1. SUFFICES ASSUME NEW m \in Node, RefsTo(m)' > 0 PROVE m \in Elems(busy')
      OBVIOUS
    <3>2. m \in Elems(busy)
      BY <1>3, <2>4, <3>1 DEF HeldInv
    <3>3. m = n => left > 0
      BY <2>4, <2>7, <3>1
    <3>4. QED
      BY <2>6, <3>2, <3>3
  <2>11. QED
    BY <2>2, <2>3, <2>5, <2>9, <2>10 DEF HeldInv
<1>16. CASE OptRunOnceInfo
  BY <1>4, <1>16 DEF OptRunOnceInfo
<1>17. CASE \/ GetBeBufFirst \/ ConfigFails \/ SetRunState \/ StartRun
           \/ GetBeFreeBuf \/ NoStatistics \/ BeBufExit \/ BeBufExitTimeout
           \/ IsrCheck \/ IsrTake
  BY <1>4, <1>17 DEF GetBeBufFirst, ConfigFails, SetRunState, StartRun,
     GetBeFreeBuf, NoStatistics, BeBufExit, BeBufExitTimeout, IsrCheck, IsrTake
<1>18. CASE UNCHANGED vars
  BY <1>4, <1>18 DEF vars
<1>19. QED
  BY <1>5, <1>6, <1>8, <1>9, <1>10, <1>11, <1>13, <1>14, <1>15, <1>16, <1>17,
     <1>18, NextCases

LEMMA HeldHolds == Spec => [](~ModeSwitch => HeldInv)
<1>1. Init => (~ModeSwitch => HeldInv)
  BY HeldInit
<1>2. Basic /\ (~ModeSwitch => HeldInv) /\ [Next]_vars => (~ModeSwitch => HeldInv)'
  <2>1. [Next]_vars => (ModeSwitch' <=> ModeSwitch)
    BY DEF Next, vars, ModeSwitch
  <2>2. QED
    BY <2>1, HeldStep
<1>3. QED
  BY <1>1, <1>2, BasicHolds, PTL DEF Spec

\* Without mode switches, a configuration VI has a reference to is never
\* freed or handed to the firmware, and its hold count is the number of
\* references, for any number of nodes and references, with extra holds of VI
\* and whatever order VI gives its buffers back in.
THEOREM HeldAlwaysPublished == Spec => []HeldStaysPublished
<1>1. (~ModeSwitch => HeldInv) => HeldStaysPublished
  BY DEF HeldInv, HeldStaysPublished
<1>2. QED
  BY <1>1, HeldHolds, PTL

\* What ISP_DRV_BeBufExit waits for is right in every environment the code
\* promises it in: with mode switches or with extra holds of VI.
THEOREM ExitAlwaysSafe == Spec => []ExitSafe
<1>1. (~ModeSwitch => HeldInv) => (~ModeSwitch => ExitSafe)
  BY DEF HeldInv, ExitSafe, UseCntExact, NoRefAfterFree
<1>2. (~ModeSwitch => ExitSafe) /\ (~ViHold => ExitSafe) => ExitSafe
  BY DEF ExitSafe, UseCntExact, NoRefAfterFree
<1>3. QED
  BY <1>1, <1>2, HeldHolds, ExitWaitsForVi, PTL
-----------------------------------------------------------------------------
(* VI is served the newest configuration.                                  *)

\* VI gives its references back in the order it got them, or has one only.
Ordered == MaxRef <= 1 \/ (ViInOrder /\ ~ViHold /\ ~ModeSwitch)

\* That the last published node is the newest is kept by the order in which
\* the nodes are given back: all but the last are held (PublishedInv), and the
\* references to them are older than those to the last.
OrderInv ==
  /\ MaxRef <= 1 => Len(refs) <= 1
  /\ busy # <<>> => busy[Len(busy)] = newest
  /\ \A i, j \in 1..Len(refs), a, b \in 1..Len(busy) :
       i < j /\ busy[a] = refs[i] /\ busy[b] = refs[j] => a <= b
  /\ ~ModeSwitch /\ busy = <<>> => newest = None

LEMMA OrderInit == Init => OrderInv
BY DEF Init, OrderInv

\* Publishing keeps the order of the references.
LEMMA OrderPutBusy ==
  ASSUME Ordered, Basic, OrderInv, ~ModeSwitch => HeldInv, bInit,
         BeBufQueuePutBusy, UNCHANGED <<env, refs>>
  PROVE  OrderInv'
<1>0. TypeOK /\ NodesDisjoint
  BY DEF Basic
<1>1. CASE useNode = None
  BY <1>1 DEF BeBufQueuePutBusy, OrderInv, MaxRef, ModeSwitch
<1>2. CASE useNode # None
  <2>1. /\ newest' = useNode
        /\ busy' \in Seq(Node) /\ busy' # <<>> /\ busy'[Len(busy')] = useNode
        /\ \A i \in 1..Len(busy') - 1 : busy'[i] \in Elems(busy) \ Idle
    BY <1>0, <1>2, PutBusyLists
  <2>2. Len(refs) \in Nat /\ Len(busy') \in Nat \ {0} /\ Len(busy) \in Nat
    BY <1>0, <2>1, RefsType, LenProperties, EmptySeq DEF TypeOK
  <2>3. ASSUME NEW i \in 1..Len(refs), NEW j \in 1..Len(refs),
               NEW a \in 1..Len(busy'), NEW b \in 1..Len(busy'),
               i < j, busy'[a] = refs[i], busy'[b] = refs[j]
        PROVE  a <= b
    <3>1. ~ModeSwitch
      <4>1. Len(refs) > 1
        BY <2>2, <2>3
      <4>2. ~(MaxRef <= 1)
        BY <2>2, <4>1 DEF OrderInv
      <4>3. QED
        BY <4>2 DEF Ordered
    <3>2. refs[i] \in Elems(busy) /\ refs[j] \in Elems(busy)
      BY <1>0, <3>1, RefsType DEF HeldInv
    <3>3. useNode \notin Elems(busy)
      BY <1>0 DEF NodesDisjoint
    <3>4. a \in 1..Len(busy') - 1 /\ b \in 1..Len(busy') - 1
      BY <2>1, <2>2, <2>3, <3>2, <3>3
    <3>5. PICK c \in 1..Len(busy), d \in 1..Len(busy) :
            busy[c] = refs[i] /\ busy[d] = refs[j]
      BY <3>2 DEF Elems
    <3>6. c <= d
      BY <2>3, <3>5 DEF OrderInv
    <3>7. b < a <=> d < c
      <4>1. Distinct(busy)
        BY <1>0 DEF NodesDisjoint
      <4>2. \A k, l \in 1..Len(busy') - 1, x, y \in 1..Len(busy) :
              busy'[k] = busy[x] /\ busy'[l] = busy[y] => (k < l <=> x < y)
        BY <1>0, <1>2, <4>1, PutBusyLists
      <4>3. busy'[b] = busy[d] /\ busy'[a] = busy[c]
        BY <2>3, <3>5
      <4>4. QED
        BY <3>4, <4>2, <4>3
    <3>8. QED
      BY <2>2, <3>6, <3>7
  <2>4. QED
    BY <2>1, <2>3 DEF OrderInv, MaxRef, ModeSwitch
<1>3. QED
  BY <1>1, <1>2

\* Serving VI the newest configuration does, too.
LEMMA OrderGet ==
  ASSUME Ordered, Basic, OrderInv, GetReadyBeBuf, UNCHANGED env
  PROVE  OrderInv'
<1>0. TypeOK /\ NodesDisjoint /\ Control
  BY DEF Basic
<1>1. bInit /\ busy # <<>> /\ UNCHANGED <<busy, newest>> /\ Len(refs) < MaxRef
      /\ refs' = Append(refs, busy[Len(busy)])
  BY <1>0 DEF GetReadyBeBuf, Control, initVars, flagVars
<1>2. Len(busy) \in 1..Len(busy) /\ busy[Len(busy)] \in Node
  BY <1>0, <1>1, LastBusy
<1>3. /\ Len(refs) \in Nat /\ Len(refs') = Len(refs) + 1
      /\ \A i \in 1..Len(refs) : refs'[i] = refs[i]
      /\ refs'[Len(refs) + 1] = busy[Len(busy)]
  BY <1>0, <1>1, <1>2, RefsType, AppendProperties DEF TypeOK
<1>4. Len(busy) \in Nat /\ Distinct(busy)
  BY <1>0, <1>1, LenProperties DEF NodesDisjoint, TypeOK
<1>5. MaxRef \in Nat
  BY <1>0, ConstAssumption DEF Control, MaxRef
<1>6. MaxRef <= 1 => Len(refs') <= 1
  BY <1>1, <1>3, <1>5
<1>7. ASSUME NEW i \in 1..Len(refs'), NEW j \in 1..Len(refs'),
             NEW a \in 1..Len(busy), NEW b \in 1..Len(busy),
             i < j, busy[a] = refs'[i], busy[b] = refs'[j]
      PROVE  a <= b
  <2>1. i \in 1..Len(refs) /\ busy[a] = refs[i]
    BY <1>3, <1>7
  <2>2. CASE j \in 1..Len(refs)
    BY <1>3, <1>7, <2>1, <2>2 DEF OrderInv
  <2>3. CASE j = Len(refs) + 1
    <3>1. b = Len(busy)
      BY <1>2, <1>3, <1>4, <1>7, <2>3 DEF Distinct
    <3>2. QED
      BY <1>4, <3>1
  <2>4. QED
    BY <1>3, <2>2, <2>3
<1>8. \A i, j \in 1..Len(refs'), a, b \in 1..Len(busy') :
        i < j /\ busy'[a] = refs'[i] /\ busy'[b] = refs'[j] => a <= b
  <2>1. busy' = busy
    BY <1>1
  <2>2. QED
    BY <1>7, <2>1
<1>9. busy' # <<>> /\ busy'[Len(busy')] = newest'
  BY <1>1 DEF OrderInv
<1>10. QED
  BY <1>6, <1>8, <1>9 DEF OrderInv, MaxRef, ModeSwitch

\* When VI gives its oldest reference back the newest node stays the last.
LEMMA OrderPut ==
  ASSUME Ordered, Basic, PublishedInv, OrderInv, UNCHANGED env,
         NEW i \in 1..Len(refs), PutFreeBeBuf(i)
  PROVE  OrderInv'
<1>0. TypeOK /\ NodesDisjoint /\ Control
  BY DEF Basic
<1>1. Len(refs) \in Nat /\ refs \in Seq(Node) /\ Len(busy) \in Nat /\ busy \in Seq(Node)
  BY <1>0, LenProperties DEF TypeOK
<1>2. i = 1
  BY <1>1 DEF Ordered, OrderInv, PutFreeBeBuf
<1>3. /\ refs' = Without(refs, 1) /\ newest' = newest /\ bInit' = bInit
      /\ Len(refs') = Len(refs) - 1 /\ Len(refs) > 0
      /\ \A k \in 1..Len(refs') : k + 1 \in 1..Len(refs) /\ refs'[k] = refs[k + 1]
  <2>1. refs' = Without(refs, 1) /\ newest' = newest /\ bInit' = bInit
    BY <1>2 DEF PutFreeBeBuf, initVars
  <2>2. Len(refs') = Len(refs) - 1 /\ Len(refs) > 0
    BY <1>1, <1>2, <2>1, WithoutIsList
  <2>3. \A k \in 1..(Len(refs) - 1) : refs'[k] = refs[k + 1]
    BY <1>1, <2>1 DEF Without
  <2>4. QED
    BY <1>1, <2>1, <2>2, <2>3
<1>4. CASE busy' = busy
  <2>1. \A k, l \in 1..Len(refs'), a, b \in 1..Len(busy) :
          k < l /\ busy[a] = refs'[k] /\ busy[b] = refs'[l] => a <= b
    <3>1. SUFFICES ASSUME NEW k \in 1..Len(refs'), NEW l \in 1..Len(refs'),
                          NEW a \in 1..Len(busy), NEW b \in 1..Len(busy),
                          k < l, busy[a] = refs'[k], busy[b] = refs'[l]
                   PROVE  a <= b
      OBVIOUS
    <3>2. /\ k + 1 \in 1..Len(refs) /\ l + 1 \in 1..Len(refs) /\ k + 1 < l + 1
          /\ busy[a] = refs[k + 1] /\ busy[b] = refs[l + 1]
      BY <1>3, <3>1
    <3>3. QED
      BY <3>2 DEF OrderInv
  <2>2. QED
    BY <1>1, <1>3, <1>4, <2>1 DEF OrderInv, MaxRef, ModeSwitch
<1>5. CASE busy' # busy
  <2>0. PICK n \in Node : n = refs[1]
    BY <1>1, <1>2, ElementOfSeq
  <2>1. exitState # "EXIT" /\ PutBusyToFree(n) /\ n \in Elems(busy)
    BY <1>2, <1>5, <2>0 DEF PutFreeBeBuf, PutBusyToFree, queueVars
  <2>2. bInit /\ Distinct(busy)
    BY <1>0, <2>1 DEF Control, NodesDisjoint
  <2>3. /\ Len(busy) > 1
        /\ busy' \in SubList(busy, Elems(busy) \ {n})
        /\ busy' \in Seq(Node)
    BY <1>0, <1>5, <2>1, PutBusyToFreeLists
  <2>4. busy # <<>> /\ Len(busy) \in 1..Len(busy) /\ busy[Len(busy)] \in Elems(busy)
    <3>1. busy # <<>>
      BY <1>1, <2>3, EmptySeq
    <3>2. QED
      BY <1>0, <3>1, LastBusy
  <2>5. busy[Len(busy)] # n
    <3>1. SUFFICES ASSUME busy[Len(busy)] = n PROVE FALSE
      OBVIOUS
    <3>2. PICK m \in Node : m = busy[1]
      BY <1>1, <2>3, ElementOfSeq
    <3>3. m # n
      BY <1>1, <2>2, <2>3, <2>4, <3>1, <3>2 DEF Distinct
    <3>4. hold[m] > 0
      BY <1>1, <2>3, <3>2 DEF PublishedInv
    <3>5. hold[m] \in Nat /\ RefsTo(m) \in Nat /\ hold[m] <= RefsTo(m)
      BY <1>0, <2>2, <3>4, RefsType DEF PublishedInv, TypeOK
    <3>6. m \in Elems(refs)
      BY <1>0, <3>4, <3>5, RefsType
    <3>7. PICK j \in 1..Len(refs) : refs[j] = m
      BY <3>6 DEF Elems
    <3>8. 1 < j /\ 1 \in 1..Len(refs) /\ 1 \in 1..Len(busy)
      BY <1>1, <2>0, <2>3, <3>3, <3>7
    <3>9. Len(busy) <= 1
      BY <2>0, <2>4, <3>1, <3>2, <3>7, <3>8 DEF OrderInv
    <3>10. QED
      BY <1>1, <2>3, <3>9
  <2>6. Elems(busy) \ {n} \in SUBSET Node /\ Elems(busy) \ {n} \in SUBSET Elems(busy)
    BY <1>1, ElemsType
  <2>7. busy' # <<>> /\ busy'[Len(busy')] = busy[Len(busy)]
    BY <1>1, <2>2, <2>3, <2>4, <2>5, <2>6, SubListLast, NodeFacts
  <2>8. Len(busy') \in Nat
    BY <2>3, LenProperties
  <2>9. ASSUME NEW k \in 1..Len(refs'), NEW l \in 1..Len(refs'),
               NEW a \in 1..Len(busy'), NEW b \in 1..Len(busy'),
               k < l, busy'[a] = refs'[k], busy'[b] = refs'[l]
        PROVE  a <= b
    <3>1. \A x \in 1..Len(busy') : \E y \in 1..Len(busy) : busy[y] = busy'[x]
      BY <1>1, <2>2, <2>3, <2>6, SubListInside, NodeFacts
    <3>2. PICK c \in 1..Len(busy), d \in 1..Len(busy) :
            busy[c] = busy'[a] /\ busy[d] = busy'[b]
      BY <3>1
    <3>3. /\ k + 1 \in 1..Len(refs) /\ l + 1 \in 1..Len(refs) /\ k + 1 < l + 1
          /\ busy[c] = refs[k + 1] /\ busy[d] = refs[l + 1]
      BY <1>3, <2>9, <3>2
    <3>4. c <= d
      BY <3>3 DEF OrderInv
    <3>5. b < a <=> d < c
      <4>1. \A x, y \in 1..Len(busy'), u, v \in 1..Len(busy) :
              busy[u] = busy'[x] /\ busy[v] = busy'[y] => (x < y <=> u < v)
        BY <1>1, <2>2, <2>3, <2>6, SubListOrder, NodeFacts
      <4>2. QED
        BY <3>2, <4>1
    <3>6. QED
      BY <1>1, <2>8, <3>4, <3>5
  <2>10. QED
    BY <1>1, <1>3, <2>4, <2>7, <2>9 DEF OrderInv, MaxRef, ModeSwitch
<1>6. QED
  BY <1>4, <1>5

LEMMA OrderStep ==
  ASSUME Ordered, Basic, PublishedInv, ~ModeSwitch => HeldInv, OrderInv,
         [Next]_vars
  PROVE  OrderInv'
<1> USE DEF initVars, queueVars, flagVars
<1>0. TypeOK /\ NodesDisjoint /\ Control /\ env' = env
  BY DEF Basic, Next, vars
<1>1. ASSUME UNCHANGED <<busy, refs, newest>> PROVE OrderInv'
  BY <1>0, <1>1 DEF OrderInv, MaxRef, ModeSwitch
<1>2. ASSUME busy' = <<>>, refs' = refs,
             newest' = None \/ (newest' = newest /\ (ModeSwitch \/ busy = <<>>))
      PROVE  OrderInv'
  BY <1>0, <1>2, EmptySeq DEF OrderInv, MaxRef, ModeSwitch
<1>3. CASE BeBufInit
  <2>1. ~bInit /\ busy' = <<>> /\ refs' = refs /\ newest' = newest
    BY <1>3 DEF BeBufInit
  <2>2. busy = <<>>
    BY <2>1 DEF PublishedInv
  <2>3. QED
    BY <1>2, <2>1, <2>2
<1>4. CASE AllBeBufInit
  <2>1. busy = <<>> /\ refs' = refs
    BY <1>4 DEF AllBeBufInit, PublishedInv
  <2>2. CASE useNode = None
    BY <1>1, <1>4, <2>1, <2>2 DEF AllBeBufInit
  <2>3. CASE useNode # None
    <3>1. busy' = Append(busy, useNode) /\ newest' = useNode /\ useNode \in Node
      BY <1>0, <1>4, <2>3 DEF AllBeBufInit, TypeOK
    <3>2. busy' = <<useNode>>
      BY <2>1, <3>1
    <3>3. Len(busy') = 1 /\ busy'[1] = useNode /\ busy' # <<>>
      BY <3>2
    <3>4. \A a, b \in 1..Len(busy') : a <= b
      BY <3>3
    <3>5. QED
      BY <1>0, <2>1, <3>1, <3>3, <3>4 DEF OrderInv, MaxRef, ModeSwitch
  <2>4. QED
    BY <2>2, <2>3
<1>5. CASE BeBufCtl
  <2>1. bInit /\ refs' = refs
    BY <1>5 DEF BeBufCtl
  <2>2. CASE bRunOnceFlag
    BY <1>1, <1>5, <2>1, <2>2 DEF BeBufCtl
  <2>3. CASE ~bRunOnceFlag
    BY <1>0, <1>5, <2>1, <2>3, OrderPutBusy DEF BeBufCtl
  <2>4. QED
    BY <2>2, <2>3
<1>6. CASE RunOnceProcess
  <2>1. bInit /\ refs' = refs
    BY <1>0, <1>6 DEF RunOnceProcess, Control
  <2>2. CASE bRunOnceFlag
    BY <1>0, <1>6, <2>1, <2>2, OrderPutBusy DEF RunOnceProcess
  <2>3. CASE ~bRunOnceFlag
    BY <1>1, <1>6, <2>1, <2>3 DEF RunOnceProcess
  <2>4. QED
    BY <2>2, <2>3
<1>7. CASE GetBeLastBuf
  <2>1. ModeSwitch /\ busy' = <<>> /\ refs' = refs /\ newest' = newest
    BY <1>7 DEF GetBeLastBuf
  <2>2. QED
    BY <1>2, <2>1
<1>8. CASE BeBufExitDone
  BY <1>2, <1>8 DEF BeBufExitDone
<1>9. CASE GetReadyBeBuf
  BY <1>0, <1>9, OrderGet
<1>10. ASSUME NEW i \in 1..Len(refs), PutFreeBeBuf(i) PROVE OrderInv'
  BY <1>0, <1>10, OrderPut
<1>11. ASSUME NEW i \in 1..Len(refs), HoldBusyBeBuf(i) PROVE OrderInv'
  <2>1. ViHold /\ Len(refs) < MaxRef
    BY <1>11 DEF HoldBusyBeBuf
  <2>2. MaxRef <= 1
    BY <2>1 DEF Ordered
  <2>3. MaxRef \in Nat /\ Len(refs) \in Nat
    BY <1>0, ConstAssumption, RefsType DEF Control, MaxRef
  <2>4. QED
    BY <2>1, <2>2, <2>3
<1>12. CASE OptRunOnceInfo
  BY <1>1, <1>12 DEF OptRunOnceInfo
<1>13. CASE \/ GetBeBufFirst \/ ConfigFails \/ SetRunState \/ StartRun
           \/ GetBeFreeBuf \/ NoStatistics \/ BeBufExit \/ BeBufExitTimeout
           \/ IsrCheck \/ IsrTake
  BY <1>1, <1>13 DEF GetBeBufFirst, ConfigFails, SetRunState, StartRun,
     GetBeFreeBuf, NoStatistics, BeBufExit, BeBufExitTimeout, IsrCheck, IsrTake
<1>14. CASE UNCHANGED vars
  BY <1>1, <1>14 DEF vars
<1>15. QED
  BY <1>3, <1>4, <1>5, <1>6, <1>7, <1>8, <1>9, <1>10, <1>11, <1>12, <1>13,
     <1>14, NextCases

\* Everything about what is published.
Whole ==
  /\ Basic
  /\ PublishedInv
  /\ ~ModeSwitch => HeldInv
  /\ Ordered => OrderInv

LEMMA WholeHolds == Spec => []Whole
<1>1. Init => PublishedInv /\ (Ordered => OrderInv)
  BY PublishedInit, OrderInit
<1>2. Basic /\ PublishedInv /\ (~ModeSwitch => HeldInv)
        /\ (Ordered => OrderInv) /\ [Next]_vars
        => PublishedInv' /\ (Ordered' => OrderInv')
  <2> SUFFICES ASSUME Basic, PublishedInv, ~ModeSwitch => HeldInv,
                      Ordered => OrderInv, [Next]_vars
               PROVE  PublishedInv' /\ (Ordered' => OrderInv')
    OBVIOUS
  <2>1. PublishedInv'
    BY PublishedStep
  <2>2. ASSUME Ordered' PROVE OrderInv'
    <3>1. Ordered
      BY <2>2 DEF Next, vars, Ordered, MaxRef, ViInOrder, ViHold, ModeSwitch
    <3>2. QED
      BY <3>1, OrderStep
  <2>3. QED
    BY <2>1, <2>2
<1>3. Basic /\ PublishedInv /\ (~ModeSwitch => HeldInv) /\ (Ordered => OrderInv)
        => Whole
  BY DEF Whole
<1>4. QED
  BY <1>1, <1>2, <1>3, BasicHolds, HeldHolds, PTL DEF Spec

\* From the end of ISP_Init on VI always finds a configuration, outside the
\* gap of a mode switch, in every environment; and when it gives its buffers
\* back in order it is the one published last, for any number of nodes and of
\* references.
THEOREM NewestAlwaysServed == Spec => []ServedNewest
<1>1. Whole => ServedNewest
  <2>1. SUFFICES ASSUME Whole PROVE ServedNewest
    OBVIOUS
  <2>2. TypeOK /\ Control /\ PublishedInv /\ (Ordered => OrderInv)
    BY <2>1 DEF Whole, Basic
  <2>3. ConfigAvailable
    BY <2>2 DEF ConfigAvailable, TypeOK, FwState, Control, PublishedInv
  <2>4. NewestServed
    BY <2>2 DEF NewestServed, Ordered, OrderInv
  <2>5. QED
    BY <2>3, <2>4 DEF ServedNewest
<1>2. QED
  BY <1>1, WholeHolds, PTL

\* A mode switch that finds no pstUseNode but published configurations
\* restarts from the one published last, when VI keeps one reference at a time,
\* whatever that reference is to.  (With more references it may restart from
\* an older one, and with a pstUseNode it takes that.)
THEOREM LastBufAlwaysNewest == Spec => LastBufIsNewest
<1>1. Whole /\ [Next]_vars
        => (GetBeLastBuf /\ MaxRef = 1 /\ useNode = None /\ busy # <<>>
              => fwBuf' = newest)
  <2>1. SUFFICES ASSUME Whole, GetBeLastBuf, MaxRef = 1, useNode = None, busy # <<>>
                 PROVE  fwBuf' = newest
    OBVIOUS
  <2>2. Ordered /\ TypeOK
    BY <2>1 DEF Ordered, Whole, Basic
  <2>3. busy[Len(busy)] = newest
    BY <2>1, <2>2 DEF Whole, OrderInv
  <2> DEFINE all == free \o busy
  <2>4. free \in Seq(Node) /\ busy \in Seq(Node)
    BY <2>2 DEF TypeOK
  <2>5. Len(free) \in Nat /\ Len(busy) \in Nat \ {0}
    BY <2>1, <2>4, LenProperties, EmptySeq
  <2>6. /\ all \in Seq(Node) /\ Len(all) = Len(free) + Len(busy)
        /\ \A i \in 1..Len(free) + Len(busy) :
             all[i] = IF i <= Len(free) THEN free[i] ELSE busy[i - Len(free)]
    BY <2>4, ConcatProperties
  <2>7. all # <<>> => fwBuf' = all[Len(all)]
    BY <2>1 DEF GetBeLastBuf
  <2> HIDE DEF all
  <2>8. all # <<>> /\ all[Len(all)] = busy[Len(busy)]
    BY <2>5, <2>6, EmptySeq
  <2>9. QED
    BY <2>3, <2>7, <2>8
<1>2. QED
  BY <1>1, WholeHolds, PTL DEF Spec, LastBufIsNewest
-----------------------------------------------------------------------------
(* The queue implements the pool of configurations.                        *)

\* The environments in which the pool is shown.
PoolEnv == ViInOrder /\ ~ViHold /\ ~ModeSwitch

\* A step that changes nothing the pool shows.
LEMMA PoolStutters ==
  ASSUME UNCHANGED <<env, overtaken, bInit, useNode, newest, refs>>
  PROVE  UNCHANGED Pool!vars
BY DEF Pool!vars, PoolView, ViInOrder, ViHold, ModeSwitch, RefsTo

\* The node the handler or the firmware takes from the free list is not the
\* newest configuration, and VI has no reference to it.
LEMMA PoolClaims ==
  ASSUME PoolView, Basic, HeldInv, OrderInv, bInit, useNode = None,
         free # <<>>, useNode' = Head(free),
         UNCHANGED <<env, overtaken, bInit, newest, refs>>
  PROVE  Pool!Next
<1> DEFINE b == Head(free)
<1>0. TypeOK /\ NodesDisjoint /\ PoolView'
  BY DEF Basic, PoolView, ViInOrder, ViHold, ModeSwitch
<1>1. b \in Node /\ b \in Elems(free)
  BY <1>0, TakeHead DEF TypeOK
<1>2. b \notin Elems(busy)
  BY <1>0, <1>1 DEF NodesDisjoint
<1>3. b # newest
  <2>1. CASE busy = <<>>
    BY <1>1, <2>1, NodeFacts DEF OrderInv, PoolView
  <2>2. CASE busy # <<>>
    BY <1>0, <1>2, <2>2, LastBusy DEF OrderInv
  <2>3. QED
    BY <2>1, <2>2
<1>4. RefsTo(b) = 0
  BY <1>0, <1>1, <1>2, RefsType DEF HeldInv
<1> HIDE DEF b
<1>5. Pool!Claim(b)
  BY <1>0, <1>1, <1>3, <1>4 DEF Pool!Claim, RefsTo, b
<1>6. QED
  BY <1>1, <1>5 DEF Pool!Next

LEMMA PoolPublishes ==
  ASSUME PoolView, bInit, useNode # None, useNode' = None, newest' = useNode,
         UNCHANGED <<env, overtaken, bInit, refs>>
  PROVE  Pool!Next
<1>1. PoolView'
  BY DEF PoolView, ViInOrder, ViHold, ModeSwitch
<1>2. Pool!Publish
  BY <1>1 DEF Pool!Publish, RefsTo
<1>3. QED
  BY <1>2 DEF Pool!Next

\* The step of ISP_DRV_BeBufQueuePutBusy in the pool.
LEMMA PoolPutBusy ==
  ASSUME PoolView, bInit, BeBufQueuePutBusy, UNCHANGED <<env, overtaken, bInit, refs>>
  PROVE  [Pool!Next]_(Pool!vars)
<1>1. CASE useNode = None
  BY <1>1, PoolStutters DEF BeBufQueuePutBusy
<1>2. CASE useNode # None
  BY <1>2, PoolPublishes DEF BeBufQueuePutBusy
<1>3. QED
  BY <1>1, <1>2

\* VI is served the newest configuration.
LEMMA PoolPins ==
  ASSUME PoolView, Basic, OrderInv, GetReadyBeBuf, UNCHANGED <<env, overtaken>>
  PROVE  Pool!Next
<1>0. TypeOK /\ PoolView'
  BY DEF Basic, PoolView, ViInOrder, ViHold, ModeSwitch
<1>1. /\ busy # <<>> /\ refs' = Append(refs, busy[Len(busy)])
      /\ UNCHANGED <<bInit, useNode, newest>>
  BY DEF GetReadyBeBuf, initVars
<1>2. newest = busy[Len(busy)] /\ newest \in Node /\ newest # None
  BY <1>0, <1>1, LastBusy, NodeFacts DEF OrderInv
<1>3. \A n \in Node : RefsTo(n)' = RefsTo(n) + (IF n = newest THEN 1 ELSE 0)
  BY <1>0, <1>1, <1>2, RefsTake
<1>4. \A n \in Node : RefsTo(n) \in Nat
  BY <1>0, RefsType
<1>5. Pool!Pin
  BY <1>0, <1>1, <1>2, <1>3, <1>4 DEF Pool!Pin
<1>6. QED
  BY <1>5 DEF Pool!Next

LEMMA PoolUnpins ==
  ASSUME PoolView, Basic, UNCHANGED <<env, overtaken>>, NEW i \in 1..Len(refs), PutFreeBeBuf(i)
  PROVE  Pool!Next
<1>0. TypeOK /\ PoolView'
  BY DEF Basic, PoolView, ViInOrder, ViHold, ModeSwitch
<1>1. refs' = Without(refs, i) /\ UNCHANGED <<bInit, useNode, newest>>
  BY DEF PutFreeBeBuf, initVars
<1>2. PICK b \in Node : b = refs[i]
  BY <1>0, RefsType
<1>3. \A n \in Node : RefsTo(n)' = RefsTo(n) - (IF n = b THEN 1 ELSE 0)
  BY <1>0, <1>1, <1>2, RefsGive
<1>4. (\A n \in Node : RefsTo(n) \in Nat) /\ RefsTo(b) > 0
  BY <1>0, <1>2, RefsType
<1>5. Pool!Unpin(b)
  BY <1>0, <1>1, <1>2, <1>3, <1>4 DEF Pool!Unpin
<1>6. QED
  BY <1>2, <1>5 DEF Pool!Next

\* The buffers are allocated and freed only when VI has no reference.  If the
\* allocation overtakes a handler the pool stays closed.
LEMMA PoolOpens ==
  ASSUME PoolEnv, Basic, PublishedInv, HeldInv, OrderInv, BeBufInit,
         UNCHANGED env
  PROVE  [Pool!Next]_(Pool!vars)
<1>0. /\ PoolView <=> ~overtaken
      /\ PoolView' <=> ~overtaken'
      /\ ~ModeSwitch
  BY DEF PoolEnv, PoolView, ViInOrder, ViHold, ModeSwitch
<1>1. /\ ~bInit /\ bInit' = TRUE /\ useNode' = None
      /\ UNCHANGED <<newest, refs>>
  BY DEF BeBufInit
<1>2. \A n : RefsTo(n) = 0
  BY <1>1, OccursEmpty DEF HeldInv, RefsTo
<1>3. \A n : RefsTo(n)' = RefsTo(n)
  BY <1>1 DEF RefsTo
<1>4. newest = None
  BY <1>0, <1>1 DEF PublishedInv, OrderInv
<1>5. CASE overtaken'
  BY <1>0, <1>1, <1>2, <1>3, <1>4, <1>5 DEF Pool!vars
<1>6. CASE ~overtaken'
  <2>1. Pool!Open
    BY <1>0, <1>1, <1>2, <1>3, <1>4, <1>6 DEF Pool!Open, Pool!NobodyReads
  <2>2. QED
    BY <2>1 DEF Pool!Next
<1>7. QED
  BY <1>5, <1>6

LEMMA PoolCloses ==
  ASSUME PoolView, Basic, HeldInv, BeBufExitDone, UNCHANGED <<env, overtaken>>
  PROVE  Pool!Next
<1>0. TypeOK /\ Control /\ PoolView'
  BY DEF Basic, PoolView, ViInOrder, ViHold, ModeSwitch
<1>1. /\ bInit /\ bInit' = FALSE /\ newest' = None /\ useCnt = 0
      /\ refs' = refs
  BY <1>0 DEF BeBufExitDone, Control
<1>2. refs = <<>>
  BY <1>0, <1>1, EmptySeq DEF HeldInv, TypeOK
<1>3. \A n : RefsTo(n) = 0
  BY <1>2, OccursEmpty DEF RefsTo
<1>4. \A n : RefsTo(n)' = RefsTo(n)
  BY <1>1 DEF RefsTo
<1>5. Pool!Close
  BY <1>0, <1>1, <1>3, <1>4 DEF Pool!Close, Pool!NobodyReads
<1>6. QED
  BY <1>5 DEF Pool!Next

LEMMA PoolStep ==
  ASSUME PoolView, Basic, PublishedInv, HeldInv, OrderInv, UseInv, [Next]_vars,
         ~BeBufInit
  PROVE  [Pool!Next]_(Pool!vars)
<1> USE DEF initVars, queueVars, flagVars
<1>0. /\ TypeOK /\ Control /\ env' = env /\ ~ViHold /\ ~ModeSwitch
      /\ overtaken' = overtaken
  BY OvertakenKept DEF Basic, Next, vars, PoolView
<1>2. CASE GetBeBufFirst
  BY <1>0, <1>2, PoolClaims DEF GetBeBufFirst, UseInv
<1>3. CASE AllBeBufInit
  <2>1. CASE useNode = None
    BY <1>0, <1>3, <2>1, PoolStutters DEF AllBeBufInit
  <2>2. CASE useNode # None
    BY <1>0, <1>3, <2>2, PoolPublishes DEF AllBeBufInit
  <2>3. QED
    BY <2>1, <2>2
<1>4. CASE BeBufCtl
  <2>1. CASE bRunOnceFlag
    BY <1>0, <1>4, <2>1, PoolStutters DEF BeBufCtl
  <2>2. CASE ~bRunOnceFlag
    BY <1>0, <1>4, <2>2, PoolPutBusy DEF BeBufCtl
  <2>3. QED
    BY <2>1, <2>2
<1>5. CASE OptRunOnceInfo
  <2>1. CASE useNode # None \/ free = <<>>
    BY <1>0, <1>5, <2>1, PoolStutters DEF OptRunOnceInfo
  <2>2. CASE useNode = None /\ free # <<>>
    <3>1. bInit
      BY <1>0, <1>5 DEF OptRunOnceInfo, Control
    <3>2. QED
      BY <1>0, <1>5, <2>2, <3>1, PoolClaims DEF OptRunOnceInfo
  <2>3. QED
    BY <2>1, <2>2
<1>6. CASE RunOnceProcess
  <2>1. bInit
    BY <1>0, <1>6 DEF RunOnceProcess, Control
  <2>2. CASE bRunOnceFlag
    BY <1>0, <1>6, <2>1, <2>2, PoolPutBusy DEF RunOnceProcess
  <2>3. CASE ~bRunOnceFlag
    BY <1>0, <1>6, <2>3, PoolStutters DEF RunOnceProcess
  <2>4. QED
    BY <2>2, <2>3
<1>7. CASE BeBufExitDone
  BY <1>0, <1>7, PoolCloses
<1>8. CASE IsrTake
  <2>1. useNode = None /\ UNCHANGED <<env, overtaken, bInit, newest, refs>>
    BY <1>0, <1>8 DEF IsrTake, UseInv
  <2>2. CASE ~bInit
    <3>1. PoolView' <=> PoolView
      BY <2>1 DEF PoolView, ViInOrder, ViHold, ModeSwitch
    <3>2. \A n : RefsTo(n)' = RefsTo(n)
      BY <2>1 DEF RefsTo
    <3>3. QED
      BY <2>1, <2>2, <3>1, <3>2 DEF Pool!vars
  <2>3. CASE free = <<>>
    BY <1>8, <2>1, <2>3, PoolStutters DEF IsrTake
  <2>4. CASE bInit /\ free # <<>>
    BY <1>8, <2>1, <2>4, PoolClaims DEF IsrTake
  <2>5. QED
    BY <2>2, <2>3, <2>4
<1>9. CASE GetReadyBeBuf
  BY <1>0, <1>9, PoolPins
<1>10. ASSUME NEW i \in 1..Len(refs), PutFreeBeBuf(i)
       PROVE  [Pool!Next]_(Pool!vars)
  BY <1>0, <1>10, PoolUnpins
<1>11. CASE \/ ConfigFails \/ SetRunState \/ StartRun \/ GetBeFreeBuf
            \/ NoStatistics \/ BeBufExit \/ BeBufExitTimeout \/ IsrCheck
  <2>1. UNCHANGED <<env, overtaken, bInit, useNode, newest, refs>>
    BY <1>0, <1>11 DEF ConfigFails, SetRunState, StartRun, GetBeFreeBuf,
       NoStatistics, BeBufExit, BeBufExitTimeout, IsrCheck
  <2>2. QED
    BY <2>1, PoolStutters
<1>12. CASE UNCHANGED vars
  <2>1. UNCHANGED <<env, overtaken, bInit, useNode, newest, refs>>
    BY <1>12 DEF vars
  <2>2. QED
    BY <2>1, PoolStutters
<1>13. ~GetBeLastBuf /\ \A i \in 1..Len(refs) : ~HoldBusyBeBuf(i)
  BY <1>0 DEF GetBeLastBuf, HoldBusyBeBuf
<1>14. QED
  BY <1>2, <1>3, <1>4, <1>5, <1>6, <1>7, <1>8, <1>9, <1>10, <1>11, <1>12,
     <1>13, NextCases

\* Seen from outside, the queue with its interrupt handler, its hold counts
\* and its timeout is a pool of configurations: for any number of nodes and of
\* references.  VI never reads a buffer the firmware writes to, always gets
\* the configuration published last, and the memory is freed after the last
\* reader only.  This says something only where PoolView holds: VI gives its
\* buffers back in order, takes no extra holds and switches no mode, and no
\* handler outlasted an exit and the next init.
THEOREM PoolRefined == Spec => PoolSpec
<1>1. Init => Pool!Init
  BY OccursEmpty DEF Init, Pool!Init, RefsTo
<1>2. ASSUME ~PoolEnv, [Next]_vars PROVE UNCHANGED Pool!vars
  BY <1>2 DEF Next, vars, Pool!vars, PoolView, PoolEnv, ViInOrder, ViHold, ModeSwitch
<1>3. ASSUME overtaken, [Next]_vars, ~BeBufInit PROVE UNCHANGED Pool!vars
  <2>1. overtaken'
    BY <1>3, OvertakenKept
  <2>2. QED
    BY <1>3, <2>1 DEF Pool!vars, PoolView
<1>4. Whole /\ (~(Smp /\ ModeSwitch) /\ ~overtaken => UseInv) /\ [Next]_vars
        => [Pool!Next]_(Pool!vars)
  <2> SUFFICES ASSUME Whole, ~(Smp /\ ModeSwitch) /\ ~overtaken => UseInv,
                      [Next]_vars
               PROVE  [Pool!Next]_(Pool!vars)
    OBVIOUS
  <2>1. CASE ~PoolEnv
    BY <1>2, <2>1
  <2>2. CASE PoolEnv /\ BeBufInit
    <3>1. ~ModeSwitch /\ Ordered /\ env' = env
      BY <2>2 DEF PoolEnv, Ordered, Next, vars
    <3>2. Basic /\ PublishedInv /\ HeldInv /\ OrderInv
      BY <3>1 DEF Whole
    <3>3. QED
      BY <2>2, <3>1, <3>2, PoolOpens
  <2>3. CASE overtaken /\ ~BeBufInit
    BY <1>3, <2>3
  <2>4. CASE PoolEnv /\ ~overtaken /\ ~BeBufInit
    <3>1. ~ModeSwitch /\ Ordered /\ PoolView
      BY <2>4 DEF PoolEnv, PoolView, Ordered
    <3>2. Basic /\ PublishedInv /\ HeldInv /\ OrderInv /\ UseInv
      BY <2>4, <3>1 DEF Whole
    <3>3. QED
      BY <2>4, <3>1, <3>2, PoolStep
  <2>5. QED
    BY <2>1, <2>2, <2>3, <2>4
<1>5. QED
  BY <1>1, <1>4, WholeHolds, UseHolds, PTL DEF Spec, PoolSpec, Pool!Spec
=============================================================================
