--------------------------- MODULE NodeCycleProofs --------------------------
(***************************************************************************)
(* Theorems about nodes that go round through lists, filled on one side    *)
(* and used on the other.  The statistics buffers (IspStatBuf), for any    *)
(* number of nodes, frames and sessions, with and without runs that end    *)
(* early.  And the frames of the UVC sample (UvcFrames), for any cache,    *)
(* any number of the driver's buffers and any number of streams.           *)
(***************************************************************************)
EXTENDS IspStatBuf, UvcFrames, SequenceTheorems, FiniteSetTheorems, TLAPS

-----------------------------------------------------------------------------
(* What the operations on node lists do to the nodes in them and to their  *)
(* being linked once.                                                      *)

\* A list nothing is linked into.
LEMMA EmptyLists ==
  /\ \A S : <<>> \in Seq(S)
  /\ Elems(<<>>) = {}
  /\ Distinct(<<>>)
BY DEF Elems, Distinct

\* Appending a node (osal_list_add_tail).
LEMMA AppendList ==
  ASSUME NEW S, NEW s \in Seq(S), NEW e \in S
  PROVE  /\ Append(s, e) \in Seq(S)
         /\ Elems(Append(s, e)) = Elems(s) \cup {e}
         /\ Distinct(s) /\ e \notin Elems(s) => Distinct(Append(s, e))
<1> DEFINE t == Append(s, e)
<1>1. /\ t \in Seq(S)
      /\ Len(t) = Len(s) + 1
      /\ Len(s) \in Nat
      /\ \A i \in 1..Len(s) : t[i] = s[i]
      /\ t[Len(s) + 1] = e
  BY AppendProperties, LenProperties
<1> HIDE DEF t
<1>2. \A i \in 1..Len(t) : i \in 1..Len(s) \/ i = Len(s) + 1
  BY <1>1
<1>3. Elems(t) = Elems(s) \cup {e}
  BY <1>1, <1>2 DEF Elems
<1>4. ASSUME Distinct(s), e \notin Elems(s) PROVE Distinct(t)
  BY <1>1, <1>2, <1>4 DEF Elems, Distinct
<1>5. QED
  BY <1>1, <1>3, <1>4 DEF t

\* Splicing a list onto the tail of another.
LEMMA ConcatList ==
  ASSUME NEW S, NEW s \in Seq(S), NEW u \in Seq(S)
  PROVE  /\ s \o u \in Seq(S)
         /\ Elems(s \o u) = Elems(s) \cup Elems(u)
         /\ Distinct(s) /\ Distinct(u) /\ Elems(s) \cap Elems(u) = {}
               => Distinct(s \o u)
<1> DEFINE t == s \o u
<1>1. /\ t \in Seq(S)
      /\ Len(t) = Len(s) + Len(u)
      /\ Len(s) \in Nat /\ Len(u) \in Nat
      /\ \A i \in 1..Len(s) + Len(u) :
           t[i] = IF i <= Len(s) THEN s[i] ELSE u[i - Len(s)]
  BY ConcatProperties, LenProperties
<1> HIDE DEF t
<1>2. \A i \in 1..Len(s) : i \in 1..Len(t) /\ t[i] = s[i]
  BY <1>1
<1>3. \A i \in 1..Len(u) : i + Len(s) \in 1..Len(t) /\ t[i + Len(s)] = u[i]
  BY <1>1
<1>4. \A i \in 1..Len(t) :
        \/ i \in 1..Len(s) /\ t[i] = s[i]
        \/ i - Len(s) \in 1..Len(u) /\ t[i] = u[i - Len(s)]
  BY <1>1
<1>5. Elems(t) = Elems(s) \cup Elems(u)
  <2>1. ASSUME NEW x \in Elems(t) PROVE x \in Elems(s) \cup Elems(u)
    BY <1>4 DEF Elems
  <2>2. ASSUME NEW x \in Elems(s) PROVE x \in Elems(t)
    BY <1>2 DEF Elems
  <2>3. ASSUME NEW x \in Elems(u) PROVE x \in Elems(t)
    BY <1>3 DEF Elems
  <2>4. QED
    BY <2>1, <2>2, <2>3
<1>6. ASSUME Distinct(s), Distinct(u), Elems(s) \cap Elems(u) = {}
      PROVE  Distinct(t)
  <2>1. SUFFICES ASSUME NEW i \in 1..Len(t), NEW j \in 1..Len(t), t[i] = t[j]
                 PROVE  i = j
    BY DEF Distinct
  <2>2. CASE i \in 1..Len(s) /\ j \in 1..Len(s)
    BY <1>2, <1>6, <2>1, <2>2 DEF Distinct
  <2>3. CASE i \notin 1..Len(s) /\ j \notin 1..Len(s)
    <3>1. i - Len(s) \in 1..Len(u) /\ j - Len(s) \in 1..Len(u)
          /\ u[i - Len(s)] = u[j - Len(s)]
      BY <1>4, <2>1, <2>3
    <3>2. i - Len(s) = j - Len(s)
      BY <1>6, <3>1 DEF Distinct
    <3>3. QED
      BY <1>1, <3>2
  <2>4. CASE i \in 1..Len(s) /\ j \notin 1..Len(s)
    <3>1. t[i] \in Elems(s) /\ t[j] \in Elems(u)
      BY <1>2, <1>4, <2>4 DEF Elems
    <3>2. QED
      BY <1>6, <2>1, <3>1
  <2>5. CASE i \notin 1..Len(s) /\ j \in 1..Len(s)
    <3>1. t[j] \in Elems(s) /\ t[i] \in Elems(u)
      BY <1>2, <1>4, <2>5 DEF Elems
    <3>2. QED
      BY <1>6, <2>1, <3>1
  <2>6. QED
    BY <2>2, <2>3, <2>4, <2>5
<1>7. QED
  BY <1>1, <1>5, <1>6 DEF t

\* Taking the head of a list (isp_queue_get_free_buf).
LEMMA TakeHead ==
  ASSUME NEW S, NEW s \in Seq(S), s # <<>>
  PROVE  /\ Head(s) \in S
         /\ Tail(s) \in Seq(S)
         /\ Head(s) \in Elems(s)
         /\ Elems(s) = Elems(Tail(s)) \cup {Head(s)}
         /\ Distinct(s) => Distinct(Tail(s)) /\ Head(s) \notin Elems(Tail(s))
<1> DEFINE t == Tail(s)
<1>1. /\ t \in Seq(S)
      /\ Head(s) = s[1]
      /\ Head(s) \in S
      /\ Len(s) \in Nat \ {0}
      /\ Len(t) = Len(s) - 1
      /\ \A i \in 1..Len(t) : t[i] = s[i + 1]
  BY HeadTailProperties, LenProperties, EmptySeq
<1> HIDE DEF t
<1>2. \A i \in 1..Len(s) : i = 1 \/ (i - 1 \in 1..Len(t) /\ s[i] = t[i - 1])
  BY <1>1
<1>3. \A i \in 1..Len(t) : i + 1 \in 1..Len(s)
  BY <1>1
<1>4. Head(s) \in Elems(s)
  BY <1>1 DEF Elems
<1>5. Elems(s) = Elems(t) \cup {Head(s)}
  <2>1. ASSUME NEW x \in Elems(s) PROVE x \in Elems(t) \cup {Head(s)}
    BY <1>1, <1>2 DEF Elems
  <2>2. ASSUME NEW x \in Elems(t) PROVE x \in Elems(s)
    BY <1>1, <1>3 DEF Elems
  <2>3. QED
    BY <1>4, <2>1, <2>2
<1>6. ASSUME Distinct(s) PROVE Distinct(t) /\ Head(s) \notin Elems(t)
  <2>1. ASSUME NEW i \in 1..Len(t), NEW j \in 1..Len(t), t[i] = t[j]
        PROVE  i = j
    <3>1. i + 1 \in 1..Len(s) /\ j + 1 \in 1..Len(s) /\ s[i + 1] = s[j + 1]
      BY <1>1, <1>3, <2>1
    <3>2. i + 1 = j + 1
      BY <1>6, <3>1 DEF Distinct
    <3>3. QED
      BY <3>2
  <2>2. ASSUME NEW i \in 1..Len(t) PROVE t[i] # s[1]
    <3>1. i + 1 \in 1..Len(s) /\ 1 \in 1..Len(s) /\ i + 1 # 1
      BY <1>1, <1>3
    <3>2. s[i + 1] # s[1]
      BY <1>6, <3>1 DEF Distinct
    <3>3. QED
      BY <1>1, <3>2
  <2>3. QED
    BY <1>1, <2>1, <2>2 DEF Distinct, Elems
<1>7. QED
  BY <1>1, <1>4, <1>5, <1>6 DEF t

\* The nodes of a list are among those it was built from.
LEMMA ElemsType ==
  ASSUME NEW S, NEW s \in Seq(S)
  PROVE  Elems(s) \subseteq S
BY ElementOfSeq DEF Elems

\* Moving some nodes of a list, or deleting one, keeps them linked once.
LEMMA SubListIsList ==
  ASSUME NEW S, IsFiniteSet(S), NEW s \in Seq(S), NEW T \in SUBSET S,
         NEW r \in SubList(s, T)
  PROVE  /\ r \in Seq(S)
         /\ Elems(r) = T
         /\ Distinct(s) => Distinct(r)
<1> DEFINE n == Cardinality(T)
<1>1. n \in Nat
  BY FS_Subset, FS_CardinalityType
<1> HIDE DEF n
<1>2. /\ r \in [1..n -> T]
      /\ T = Elems(r)
      /\ \A i, j \in 1..n : i < j =>
           \E a, b \in 1..Len(s) : a < b /\ s[a] = r[i] /\ s[b] = r[j]
  BY DEF SubList, n
<1>3. r \in Seq(T) /\ Len(r) = n
  BY <1>1, <1>2
<1>4. r \in Seq(S)
  BY <1>3, SeqMonotonic
<1>5. ASSUME Distinct(s) PROVE Distinct(r)
  <2>1. Len(s) \in Nat
    BY LenProperties
  <2>2. \A i, j \in 1..n : i < j => r[i] # r[j]
    <3>1. SUFFICES ASSUME NEW i \in 1..n, NEW j \in 1..n, i < j PROVE r[i] # r[j]
      OBVIOUS
    <3>2. PICK a \in 1..Len(s), b \in 1..Len(s) :
            a < b /\ s[a] = r[i] /\ s[b] = r[j]
      BY <1>2, <3>1
    <3>3. a # b
      BY <2>1, <3>2
    <3>4. QED
      BY <1>5, <3>2, <3>3 DEF Distinct
  <2>3. \A i, j \in 1..n : i # j => i < j \/ j < i
    BY <1>1
  <2>4. QED
    BY <1>3, <2>2, <2>3 DEF Distinct
<1>6. QED
  BY <1>2, <1>4, <1>5

-----------------------------------------------------------------------------
(* The component's nodes and steps.                                        *)

LEMMA NodeFacts ==
  /\ IsFiniteSet(Node)
  /\ None \notin Node
  /\ MaxStat \in Nat \ {0}
BY ConstAssumption, FS_Interval DEF Node, None

\* The list a session starts with: every node, once.
LEMMA FullList ==
  ASSUME NEW f, f = [i \in 1..MaxStat |-> i]
  PROVE  f \in Seq(Node) /\ Distinct(f) /\ Elems(f) = Node
<1>1. f \in Seq(Node) /\ Len(f) = MaxStat /\ \A i \in 1..MaxStat : f[i] = i
  BY NodeFacts DEF Node
<1>2. QED
  BY <1>1 DEF Distinct, Elems, Node

\* A list of one node.
LEMMA OneNode ==
  ASSUME NEW S, NEW e \in S
  PROVE  <<e>> \in Seq(S) /\ Elems(<<e>>) = {e} /\ Distinct(<<e>>)
         /\ Len(<<e>>) = 1 /\ <<e>>[1] = e /\ <<e>> # <<>>
         /\ Head(<<e>>) = e /\ Tail(<<e>>) = <<>>
BY DEF Elems, Distinct

-----------------------------------------------------------------------------
(* What the two steps that move nodes do.                                  *)

\* The handler fills a node.
LEMMA BusyPutStep ==
  ASSUME TypeOK, BusyPut, freeList \o busyList # <<>>
  PROVE  \E n \in Node :
           /\ n \in Elems(freeList) \cup Elems(busyList)
           /\ freeList' \in Seq(Node)
           /\ busyList' = <<n>> /\ userList' = userList
           /\ frame' = frame + 1
           /\ frameOf' = [frameOf EXCEPT ![n] = frame + 1]
           /\ pstActStat' = n
           /\ Elems(freeList) \cup Elems(busyList) = Elems(freeList') \cup {n}
           /\ Distinct(freeList \o busyList)
                => Distinct(freeList') /\ n \notin Elems(freeList')
<1> DEFINE all == freeList \o busyList
<1>1. all \in Seq(Node) /\ Elems(all) = Elems(freeList) \cup Elems(busyList)
  BY ConcatList DEF TypeOK
<1>2. /\ freeList' = Tail(all) /\ busyList' = <<Head(all)>>
      /\ frame' = frame + 1
      /\ frameOf' = [frameOf EXCEPT ![Head(all)] = frame + 1]
      /\ pstActStat' = Head(all) /\ userList' = userList
  BY DEF BusyPut
<1> HIDE DEF all
<1>3. all # <<>>
  BY DEF all
<1>4. /\ Head(all) \in Node /\ Tail(all) \in Seq(Node)
      /\ Head(all) \in Elems(all)
      /\ Elems(all) = Elems(Tail(all)) \cup {Head(all)}
      /\ Distinct(all) => Distinct(Tail(all)) /\ Head(all) \notin Elems(Tail(all))
  BY <1>1, <1>3, TakeHead
<1>5. QED
  BY <1>1, <1>2, <1>4 DEF all

\* The firmware gives its node back.
LEMMA PutBufStep ==
  ASSUME TypeOK, StatisticsPutBuf, userNode \in Elems(userList)
  PROVE  /\ userNode \in Node
         /\ userList' \in Seq(Node) /\ freeList' \in Seq(Node)
         /\ Elems(userList') = Elems(userList) \ {userNode}
         /\ Elems(freeList') = Elems(freeList) \cup {userNode}
         /\ Distinct(userList) => Distinct(userList')
         /\ Distinct(freeList) /\ userNode \notin Elems(freeList)
              => Distinct(freeList')
<1>1. /\ userList \in Seq(Node) /\ freeList \in Seq(Node)
      /\ Elems(userList) \subseteq Node
  BY ElemsType DEF TypeOK
<1>2. /\ userList' \in SubList(userList, Elems(userList) \ {userNode})
      /\ freeList' = Append(freeList, userNode)
  BY DEF StatisticsPutBuf
<1>3. userNode \in Node /\ Elems(userList) \ {userNode} \in SUBSET Node
  BY <1>1
<1>4. /\ userList' \in Seq(Node)
      /\ Elems(userList') = Elems(userList) \ {userNode}
      /\ Distinct(userList) => Distinct(userList')
  BY <1>1, <1>2, <1>3, SubListIsList, NodeFacts
<1>5. /\ freeList' \in Seq(Node)
      /\ Elems(freeList') = Elems(freeList) \cup {userNode}
      /\ Distinct(freeList) /\ userNode \notin Elems(freeList)
           => Distinct(freeList')
  BY <1>1, <1>2, <1>3, AppendList
<1>6. QED
  BY <1>3, <1>4, <1>5

-----------------------------------------------------------------------------
(* Types.                                                                  *)

\* TypeOK is not inductive: the number of the frame a run has used is read from
\* the node the firmware remembers, which must be one.
StatType == TypeOK /\ (mapped => userNode \in Node)

LEMMA StatTypeInit == Init => StatType
<1> SUFFICES ASSUME Init PROVE TypeOK /\ ~mapped
  BY DEF StatType
<1>1. /\ freeList \in Seq(Node) /\ busyList \in Seq(Node)
      /\ userList \in Seq(Node)
  BY EmptyLists DEF Init
<1>2. frameOf \in [Node -> Nat]
  BY DEF Init
<1>3. QED
  BY <1>1, <1>2 DEF Init, TypeOK

LEMMA StatTypeStep == StatType /\ [Next]_vars => StatType'
<1> SUFFICES ASSUME TypeOK, mapped => userNode \in Node, [Next]_vars
             PROVE  TypeOK' /\ (mapped' => userNode' \in Node)
  BY DEF StatType
<1> USE DEF listVars, userVars
<1>1. CASE StatisticsInit
  <2>1. freeList' \in Seq(Node) /\ busyList' \in Seq(Node) /\ userList' \in Seq(Node)
    BY <1>1, FullList, EmptyLists DEF StatisticsInit
  <2>2. QED
    BY <1>1, <2>1 DEF StatisticsInit, TypeOK
<1>2. CASE StatisticsGetBuf
  <2>1. CASE bRead
    <3>1. UNCHANGED <<busyList, userList>> /\ UNCHANGED userVars
      BY <1>2, <2>1 DEF StatisticsGetBuf
    <3>2. QED
      BY <1>2, <3>1 DEF StatisticsGetBuf, TypeOK
  <2>2. CASE ~bRead
    <3>1. /\ busyList # <<>> /\ busyList' = Tail(busyList)
          /\ userList' = Append(userList, Head(busyList))
          /\ bRead' = TRUE /\ userNode' = Head(busyList) /\ mapped' = TRUE
      BY <1>2, <2>2 DEF StatisticsGetBuf
    <3>2. Head(busyList) \in Node /\ busyList' \in Seq(Node)
      BY <3>1, TakeHead DEF TypeOK
    <3>3. userList' \in Seq(Node)
      BY <3>1, <3>2, AppendList DEF TypeOK
    <3>4. QED
      BY <1>2, <3>1, <3>2, <3>3 DEF StatisticsGetBuf, TypeOK
  <2>3. QED
    BY <2>1, <2>2
<1>3. CASE StatisticsPutBuf
  <2>1. userList' \in Seq(Node) /\ freeList' \in Seq(Node)
    <3>1. CASE userNode \in Elems(userList)
      BY <1>3, <3>1, PutBufStep
    <3>2. CASE userNode \notin Elems(userList)
      BY <1>3, <3>2 DEF StatisticsPutBuf, TypeOK
    <3>3. QED
      BY <3>1, <3>2
  <2>2. lastUsed' \in Nat
    <3>1. CASE mapped
      BY <1>3, <3>1 DEF StatisticsPutBuf, TypeOK
    <3>2. CASE ~mapped
      BY <1>3, <3>2 DEF StatisticsPutBuf, TypeOK
    <3>3. QED
      BY <3>1, <3>2
  <2>3. QED
    BY <1>3, <2>1, <2>2 DEF StatisticsPutBuf, TypeOK
<1>4. CASE BusyPut
  <2>1. CASE freeList \o busyList = <<>>
    BY <1>4, <2>1 DEF BusyPut, TypeOK
  <2>2. CASE freeList \o busyList # <<>>
    <3>1. PICK n \in Node :
            /\ freeList' \in Seq(Node) /\ busyList' = <<n>>
            /\ frame' = frame + 1 /\ pstActStat' = n
            /\ frameOf' = [frameOf EXCEPT ![n] = frame + 1]
      BY <1>4, <2>2, BusyPutStep
    <3>2. busyList' \in Seq(Node)
      BY <3>1, OneNode
    <3>3. frame' \in Nat /\ frameOf' \in [Node -> Nat]
      BY <3>1 DEF TypeOK
    <3>4. QED
      BY <1>4, <3>1, <3>2, <3>3 DEF BusyPut, TypeOK
  <2>3. QED
    BY <2>1, <2>2
<1>5. CASE RunReturnsEarly
  BY <1>5 DEF RunReturnsEarly, TypeOK
<1>6. CASE StatisticsExit
  BY <1>6, EmptyLists DEF StatisticsExit, TypeOK
<1>7. CASE BusyPutCheck
  BY <1>7 DEF BusyPutCheck, TypeOK
<1>8. CASE UNCHANGED vars
  BY <1>8 DEF vars, TypeOK
<1>9. QED
  BY <1>1, <1>2, <1>3, <1>4, <1>5, <1>6, <1>7, <1>8 DEF Next

\* Type correctness of the statistics buffers (isp.c, isp_statistics.c).
THEOREM StatTypeCorrect == Spec => []TypeOK
<1>1. StatType => TypeOK
  BY DEF StatType
<1>2. QED
  BY <1>1, StatTypeInit, StatTypeStep, PTL DEF Spec

-----------------------------------------------------------------------------
(* No node is lost or linked twice.                                        *)

LEMMA StatKeptInit == Init => StatNodesKept
BY DEF Init, StatNodesKept

LEMMA StatKeptStep == StatType /\ StatNodesKept /\ [Next]_vars => StatNodesKept'
<1> SUFFICES ASSUME TypeOK, StatNodesKept, [Next]_vars PROVE StatNodesKept'
  BY DEF StatType
<1> USE DEF listVars, userVars
<1> DEFINE Same == UNCHANGED <<bInit, freeList, busyList, userList>>
<1>0. Same => StatNodesKept'
  BY DEF StatNodesKept
<1>1. CASE StatisticsInit
  <2>1. Distinct(freeList') /\ Elems(freeList') = Node
    BY <1>1, FullList DEF StatisticsInit
  <2>2. busyList' = <<>> /\ userList' = <<>>
    BY <1>1 DEF StatisticsInit
  <2>3. QED
    BY <2>1, <2>2, EmptyLists DEF StatNodesKept
<1>2. CASE StatisticsGetBuf
  <2>1. CASE bRead
    BY <1>0, <1>2, <2>1 DEF StatisticsGetBuf
  <2>2. CASE ~bRead
    <3>1. /\ busyList # <<>> /\ busyList' = Tail(busyList)
          /\ userList' = Append(userList, Head(busyList))
          /\ freeList' = freeList /\ bInit' = bInit
      BY <1>2, <2>2 DEF StatisticsGetBuf
    <3>2. /\ Head(busyList) \in Node
          /\ Head(busyList) \in Elems(busyList)
          /\ Elems(busyList) = Elems(busyList') \cup {Head(busyList)}
          /\ Distinct(busyList)
               => Distinct(busyList') /\ Head(busyList) \notin Elems(busyList')
      BY <3>1, TakeHead DEF TypeOK
    <3>3. /\ Elems(userList') = Elems(userList) \cup {Head(busyList)}
          /\ Distinct(userList) /\ Head(busyList) \notin Elems(userList)
               => Distinct(userList')
      BY <3>1, <3>2, AppendList DEF TypeOK
    <3>4. QED
      BY <3>1, <3>2, <3>3 DEF StatNodesKept
  <2>3. QED
    BY <2>1, <2>2
<1>3. CASE StatisticsPutBuf
  <2>1. CASE userNode \in Elems(userList)
    <3>1. bInit' = bInit /\ busyList' = busyList
      BY <1>3 DEF StatisticsPutBuf
    <3>2. QED
      BY <1>3, <2>1, <3>1, PutBufStep DEF StatNodesKept
  <2>2. CASE userNode \notin Elems(userList)
    BY <1>0, <1>3, <2>2 DEF StatisticsPutBuf
  <2>3. QED
    BY <2>1, <2>2
<1>4. CASE BusyPut
  <2>1. CASE freeList \o busyList = <<>>
    BY <1>0, <1>4, <2>1 DEF BusyPut
  <2>2. CASE freeList \o busyList # <<>>
    <3>1. PICK n \in Node :
            /\ n \in Elems(freeList) \cup Elems(busyList)
            /\ busyList' = <<n>> /\ userList' = userList
            /\ Elems(freeList) \cup Elems(busyList) = Elems(freeList') \cup {n}
            /\ Distinct(freeList \o busyList)
                 => Distinct(freeList') /\ n \notin Elems(freeList')
      BY <1>4, <2>2, BusyPutStep
    <3>2. bInit' = bInit
      BY <1>4 DEF BusyPut
    <3>3. Distinct(freeList) /\ Distinct(busyList)
            /\ Elems(freeList) \cap Elems(busyList) = {}
              => Distinct(freeList \o busyList)
      BY ConcatList DEF TypeOK
    <3>4. Elems(busyList') = {n} /\ Distinct(busyList')
      BY <3>1, OneNode
    <3>5. QED
      BY <3>1, <3>2, <3>3, <3>4 DEF StatNodesKept
  <2>3. QED
    BY <2>1, <2>2
<1>5. CASE StatisticsExit
  BY <1>5 DEF StatisticsExit, StatNodesKept
<1>6. CASE RunReturnsEarly \/ BusyPutCheck
  BY <1>0, <1>6 DEF RunReturnsEarly, BusyPutCheck
<1>7. CASE UNCHANGED vars
  BY <1>0, <1>7 DEF vars
<1>8. QED
  BY <1>1, <1>2, <1>3, <1>4, <1>5, <1>6, <1>7 DEF Next

\* Every node is in exactly one of the three lists, once, whatever the handler
\* and the firmware do (ISP_DRV_StatBufBusyPut, UserGet, UserPut).
THEOREM StatNodesAlwaysKept == Spec => []StatNodesKept
<1>1. QED
  BY StatTypeInit, StatTypeStep, StatKeptInit, StatKeptStep, PTL DEF Spec

-----------------------------------------------------------------------------
(* The firmware and the kernel agree on who has which frame.               *)

\* The firmware works only in a session, its memory is mapped only then, and
\* the kernel's user list is what bRead says unless the node is of an earlier
\* session.
FwLink ==
  /\ fw = "down" <=> ~bInit
  /\ ~bInit => ~mapped
  /\ bInit => userList = IF bRead /\ mapped THEN <<userNode>> ELSE <<>>
  /\ fw = "algs" => bRead

\* What is offered is newer than what the firmware has, which is newer than
\* what the algorithms ran on last.
Ages ==
  /\ lastUsed <= frame
  /\ busyList # <<>> => lastUsed < frame
  /\ bRead /\ mapped =>
       /\ lastUsed < frameOf[userNode]
       /\ frameOf[userNode] <= frame
       /\ busyList # <<>> => frameOf[userNode] < frame

StatInv == StatType /\ StatNodesKept /\ FwLink /\ NewestOffered /\ Ages

LEMMA StatInit == Init => StatInv
<1> SUFFICES ASSUME Init PROVE StatInv
  OBVIOUS
<1>1. StatType /\ StatNodesKept
  BY StatTypeInit, StatKeptInit
<1>2. FwLink /\ NewestOffered
  BY DEF Init, FwLink, NewestOffered
<1>3. Ages
  BY DEF Init, Ages
<1>4. QED
  BY <1>1, <1>2, <1>3 DEF StatInv

\* The firmware's node is none of those the handler may fill.
LEMMA HeldApart ==
  ASSUME StatInv, mapped, bRead
  PROVE  /\ bInit /\ userNode \in Node
         /\ userList = <<userNode>>
         /\ Elems(userList) = {userNode}
         /\ userNode \notin Elems(freeList) \cup Elems(busyList)
<1>1. bInit /\ userNode \in Node /\ userList = <<userNode>>
  BY DEF StatInv, StatType, FwLink
<1>2. Elems(userList) = {userNode}
  BY <1>1, OneNode
<1>3. QED
  BY <1>1, <1>2 DEF StatInv, StatNodesKept

LEMMA GetBufKeeps == StatInv /\ StatisticsGetBuf => FwLink' /\ NewestOffered' /\ Ages'
<1> SUFFICES ASSUME StatInv, StatisticsGetBuf
             PROVE  FwLink' /\ NewestOffered' /\ Ages'
  OBVIOUS
<1> USE DEF listVars, userVars
<1>0. /\ bInit' = bInit /\ fw = "idle" /\ fw' = "algs" /\ frame' = frame
      /\ frameOf' = frameOf /\ lastUsed' = lastUsed
  BY DEF StatisticsGetBuf
<1>1. CASE bRead
  <2>1. UNCHANGED <<busyList, userList, bRead, userNode, mapped>>
    BY <1>1 DEF StatisticsGetBuf
  <2>2. QED
    BY <1>0, <1>1, <2>1 DEF StatInv, FwLink, NewestOffered, Ages
<1>2. CASE ~bRead
  <2>1. /\ busyList # <<>> /\ busyList' = Tail(busyList)
        /\ userList' = Append(userList, Head(busyList))
        /\ bRead' = TRUE /\ userNode' = Head(busyList) /\ mapped' = TRUE
    BY <1>2 DEF StatisticsGetBuf
  <2>2. bInit /\ userList = <<>>
    BY <1>0, <1>2 DEF StatInv, FwLink
  <2>3. userList' = <<userNode'>>
    BY <2>1, <2>2
  <2>4. FwLink'
    BY <1>0, <2>1, <2>2, <2>3 DEF FwLink
  <2>5. /\ busyList \in Seq(Node) /\ Len(busyList) = 1
        /\ frameOf[busyList[1]] = frame /\ frame \in Nat /\ lastUsed \in Nat
    BY <2>1 DEF StatInv, StatType, TypeOK, NewestOffered
  <2>6. busyList' = <<>> /\ userNode' = busyList[1]
    BY <2>1, <2>5
  <2>7. lastUsed < frame
    BY <2>1 DEF StatInv, Ages
  <2>8. NewestOffered' /\ Ages'
    BY <1>0, <2>5, <2>6, <2>7 DEF NewestOffered, Ages
  <2>9. QED
    BY <2>4, <2>8
<1>3. QED
  BY <1>1, <1>2

(* A list of nodes none of which is linked is the empty list.              *)
LEMMA NoElems ==
  ASSUME NEW s \in Seq(Node), Elems(s) = {}
  PROVE  s = <<>>
<1>1. Len(s) \in Nat
  BY LenProperties
<1>2. ASSUME NEW i \in 1..Len(s) PROVE FALSE
  <2>1. s[i] \in Elems(s)
    BY <1>2 DEF Elems
  <2>2. QED
    BY <2>1
<1>3. 1 \notin 1..Len(s)
  BY <1>2
<1>4. Len(s) = 0
  BY <1>1, <1>3
<1>5. QED
  BY <1>4, EmptySeq

LEMMA PutBufKeeps == StatInv /\ StatisticsPutBuf => FwLink' /\ NewestOffered' /\ Ages'
<1> SUFFICES ASSUME StatInv, StatisticsPutBuf
             PROVE  FwLink' /\ NewestOffered' /\ Ages'
  OBVIOUS
<1>0. /\ fw = "algs" /\ fw' = "idle" /\ bRead' = FALSE /\ mapped' = mapped
      /\ UNCHANGED <<bInit, busyList, frame, frameOf, userNode>>
      /\ lastUsed' = IF mapped THEN frameOf[userNode] ELSE lastUsed
  BY DEF StatisticsPutBuf
<1>1. bInit /\ bRead
  BY <1>0 DEF StatInv, FwLink
<1>2. userList' = <<>>
  <2>1. CASE mapped
    <3>1. userList = <<userNode>> /\ Elems(userList) = {userNode}
      BY <1>1, <2>1, HeldApart
    <3>2. userList' \in Seq(Node) /\ Elems(userList') = {}
      BY <3>1, PutBufStep DEF StatInv, StatType
    <3>3. QED
      BY <3>2, NoElems
  <2>2. CASE ~mapped
    <3>1. userList = <<>>
      BY <1>1, <2>2 DEF StatInv, FwLink
    <3>2. QED
      BY <3>1, EmptyLists DEF StatisticsPutBuf
  <2>3. QED
    BY <2>1, <2>2
<1>3. FwLink'
  BY <1>0, <1>1, <1>2 DEF FwLink
<1>4. NewestOffered'
  BY <1>0 DEF StatInv, NewestOffered
<1>5. Ages'
  <2>1. CASE mapped
    BY <1>0, <1>1, <2>1 DEF StatInv, Ages
  <2>2. CASE ~mapped
    BY <1>0, <2>2 DEF StatInv, Ages
  <2>3. QED
    BY <2>1, <2>2
<1>6. QED
  BY <1>3, <1>4, <1>5

LEMMA BusyPutKeeps == StatInv /\ BusyPut => FwLink' /\ NewestOffered' /\ Ages'
<1> SUFFICES ASSUME StatInv, BusyPut
             PROVE  FwLink' /\ NewestOffered' /\ Ages'
  OBVIOUS
<1>0. UNCHANGED <<bInit, userList, fw, bRead, userNode, mapped, lastUsed>>
  BY DEF BusyPut, userVars
<1>1. FwLink'
  BY <1>0 DEF StatInv, FwLink
<1>2. CASE freeList \o busyList = <<>>
  <2>1. UNCHANGED <<busyList, frame, frameOf>>
    BY <1>2 DEF BusyPut
  <2>2. QED
    BY <1>0, <1>1, <2>1 DEF StatInv, NewestOffered, Ages
<1>3. CASE freeList \o busyList # <<>>
  <2>1. PICK n \in Node :
          /\ n \in Elems(freeList) \cup Elems(busyList)
          /\ busyList' = <<n>> /\ frame' = frame + 1
          /\ frameOf' = [frameOf EXCEPT ![n] = frame + 1]
    BY <1>3, BusyPutStep DEF StatInv, StatType
  <2>2. frame \in Nat /\ lastUsed \in Nat /\ frameOf \in [Node -> Nat]
    BY DEF StatInv, StatType, TypeOK
  <2>3. NewestOffered'
    BY <2>1, <2>2, OneNode DEF NewestOffered
  <2>4. lastUsed <= frame
    BY DEF StatInv, Ages
  <2>5. ASSUME bRead, mapped
        PROVE  /\ frameOf'[userNode] = frameOf[userNode]
               /\ frameOf[userNode] \in Nat
               /\ lastUsed < frameOf[userNode] /\ frameOf[userNode] <= frame
    <3>1. userNode \in Node /\ userNode # n
      BY <2>1, <2>5, HeldApart
    <3>2. QED
      BY <2>1, <2>2, <2>5, <3>1 DEF StatInv, Ages
  <2>6. Ages'
    BY <1>0, <2>1, <2>2, <2>4, <2>5 DEF Ages
  <2>7. QED
    BY <1>1, <2>3, <2>6
<1>4. QED
  BY <1>2, <1>3

LEMMA StatStep == StatInv /\ [Next]_vars => StatInv'
<1> SUFFICES ASSUME StatInv, [Next]_vars PROVE StatInv'
  OBVIOUS
<1>0. StatType' /\ StatNodesKept'
  BY StatTypeStep, StatKeptStep DEF StatInv
<1> USE DEF listVars, userVars
<1> DEFINE Goal == FwLink' /\ NewestOffered' /\ Ages'
<1>1. CASE StatisticsInit
  <2>1. ~bInit /\ ~mapped
    BY <1>1 DEF StatisticsInit, StatInv, FwLink
  <2>2. /\ bInit' = TRUE /\ fw' = "idle" /\ userList' = <<>> /\ busyList' = <<>>
        /\ UNCHANGED <<frame, lastUsed, bRead, mapped>>
    BY <1>1 DEF StatisticsInit
  <2>3. Goal
    BY <2>1, <2>2 DEF StatInv, FwLink, NewestOffered, Ages
  <2>4. QED
    BY <1>0, <2>3 DEF StatInv
<1>2. CASE StatisticsExit
  <2>1. /\ bInit' = FALSE /\ mapped' = FALSE /\ fw' = "down" /\ busyList' = <<>>
        /\ UNCHANGED <<frame, lastUsed>>
    BY <1>2 DEF StatisticsExit
  <2>2. Goal
    BY <2>1 DEF StatInv, FwLink, NewestOffered, Ages
  <2>3. QED
    BY <1>0, <2>2 DEF StatInv
<1>3. CASE StatisticsGetBuf
  BY <1>0, <1>3, GetBufKeeps DEF StatInv
<1>4. CASE StatisticsPutBuf
  BY <1>0, <1>4, PutBufKeeps DEF StatInv
<1>5. CASE BusyPut
  BY <1>0, <1>5, BusyPutKeeps DEF StatInv
<1>6. CASE RunReturnsEarly
  <2>1. Goal
    BY <1>6 DEF RunReturnsEarly, StatInv, FwLink, NewestOffered, Ages
  <2>2. QED
    BY <1>0, <2>1 DEF StatInv
<1>7. CASE BusyPutCheck \/ UNCHANGED vars
  <2>1. Goal
    BY <1>7 DEF BusyPutCheck, vars, StatInv, FwLink, NewestOffered, Ages
  <2>2. QED
    BY <1>0, <2>1 DEF StatInv
<1>8. QED
  BY <1>1, <1>2, <1>3, <1>4, <1>5, <1>6, <1>7 DEF Next

\* What is offered is one node with the statistics of the last frame, and the
\* firmware's bRead is the kernel's user list, unless an early return left bRead
\* set over an exit and an init (ISP_DRV_StatBufBusyPut, ISP_StatisticsGetBuf).
THEOREM NewestAndHeld == Spec => []OfferedAndHeld
<1>1. StatInv => OfferedAndHeld
  BY DEF StatInv, FwLink, UserHoldsOne, OfferedAndHeld
<1>2. QED
  BY <1>1, StatInit, StatStep, PTL DEF Spec

\* With two buffers or more the handler has one for every frame, because the
\* firmware never has more than one (MAX_ISP_STAT_BUF_NUM is 2).
THEOREM NeverShort == MaxStat >= 2 => (Spec => []BufferForFrame)
<1> SUFFICES ASSUME MaxStat >= 2 PROVE Spec => []BufferForFrame
  OBVIOUS
<1>1. StatInv => BufferForFrame
  <2> SUFFICES ASSUME StatInv, bInit, freeList \o busyList = <<>> PROVE FALSE
    BY DEF BufferForFrame
  <2>1. Elems(freeList) \cup Elems(busyList) = {}
    BY ConcatList, EmptyLists DEF StatInv, StatType, TypeOK
  <2>2. Elems(userList) = Node
    BY <2>1 DEF StatInv, StatNodesKept
  <2>3. 1 \in Node /\ 2 \in Node
    BY NodeFacts DEF Node
  <2>4. CASE bRead /\ mapped
    BY <2>2, <2>3, <2>4, HeldApart
  <2>5. CASE ~(bRead /\ mapped)
    BY <2>2, <2>3, <2>5, EmptyLists DEF StatInv, FwLink
  <2>6. QED
    BY <2>4, <2>5
<1>2. QED
  BY <1>1, StatInit, StatStep, PTL DEF Spec

\* The statistics the firmware has do not change under it.
THEOREM HeldStable == Spec => HeldStatStable
<1> DEFINE Stable ==
      bRead /\ bRead' /\ mapped /\ mapped' =>
        userNode' = userNode /\ frameOf'[userNode] = frameOf[userNode]
<1>1. StatInv /\ [Next]_vars => Stable
  <2> SUFFICES ASSUME StatInv, [Next]_vars, bRead, bRead', mapped, mapped'
               PROVE  userNode' = userNode /\ frameOf'[userNode] = frameOf[userNode]
    OBVIOUS
  <2> USE DEF listVars, userVars
  <2>1. CASE BusyPut
    <3>1. UNCHANGED userNode
      BY <2>1 DEF BusyPut
    <3>2. CASE freeList \o busyList = <<>>
      BY <2>1, <3>1, <3>2 DEF BusyPut
    <3>3. CASE freeList \o busyList # <<>>
      <4>1. PICK n \in Node :
              /\ n \in Elems(freeList) \cup Elems(busyList)
              /\ frameOf' = [frameOf EXCEPT ![n] = frame + 1]
        BY <2>1, <3>3, BusyPutStep DEF StatInv, StatType
      <4>2. n # userNode /\ userNode \in Node
        BY <4>1, HeldApart
      <4>3. QED
        BY <3>1, <4>1, <4>2 DEF StatInv, StatType, TypeOK
    <3>4. QED
      BY <3>2, <3>3
  <2>2. CASE StatisticsInit
    BY <2>2 DEF StatisticsInit, StatInv, FwLink
  <2>3. CASE StatisticsGetBuf
    BY <2>3 DEF StatisticsGetBuf
  <2>4. CASE StatisticsPutBuf
    BY <2>4 DEF StatisticsPutBuf
  <2>5. CASE StatisticsExit
    BY <2>5 DEF StatisticsExit
  <2>6. CASE RunReturnsEarly \/ BusyPutCheck
    BY <2>6 DEF RunReturnsEarly, BusyPutCheck
  <2>7. CASE UNCHANGED vars
    BY <2>7 DEF vars
  <2>8. QED
    BY <2>1, <2>2, <2>3, <2>4, <2>5, <2>6, <2>7 DEF Next
<1>2. QED
  BY <1>1, StatInit, StatStep, PTL DEF Spec, HeldStatStable

\* The algorithms never run twice on a frame, nor on an older one than before.
THEOREM RunsForward == Spec => RunsOnNewer
<1>1. StatInv /\ StatisticsPutBuf /\ mapped => lastUsed' > lastUsed
  <2> SUFFICES ASSUME StatInv, StatisticsPutBuf, mapped PROVE lastUsed' > lastUsed
    OBVIOUS
  <2>1. lastUsed' = frameOf[userNode] /\ fw = "algs"
    BY DEF StatisticsPutBuf
  <2>2. bRead /\ userNode \in Node
    BY <2>1 DEF StatInv, StatType, FwLink
  <2>3. frameOf[userNode] \in Nat /\ lastUsed \in Nat
    BY <2>2 DEF StatInv, StatType, TypeOK
  <2>4. QED
    BY <2>1, <2>2, <2>3 DEF StatInv, Ages
<1>2. QED
  BY <1>1, StatInit, StatStep, PTL DEF Spec, RunsOnNewer

\* What the firmware reads stands still and goes forward.
THEOREM StatsMoveOnAlways == Spec => StatsMoveOn
BY HeldStable, RunsForward, PTL DEF StatsMoveOn

-----------------------------------------------------------------------------
(* Where the frame nodes of the UVC sample are, counted.                   *)

QueueAt(q, f) == Cardinality({i \in 1..Len(q) : q[i] = f})

\* How often a node is in a queue.
LEMMA QueueAtType ==
  ASSUME NEW S, NEW q \in Seq(S), NEW f
  PROVE  /\ IsFiniteSet({i \in 1..Len(q) : q[i] = f})
         /\ QueueAt(q, f) \in Nat
         /\ QueueAt(q, f) = 0 <=> \A i \in 1..Len(q) : q[i] # f
<1> DEFINE P == {i \in 1..Len(q) : q[i] = f}
<1>1. Len(q) \in Nat
  BY LenProperties
<1>2. IsFiniteSet(1..Len(q)) /\ P \in SUBSET (1..Len(q))
  BY <1>1, FS_Interval
<1>3. IsFiniteSet(P) /\ Cardinality(P) \in Nat
  BY <1>2, FS_Subset, FS_CardinalityType
<1>4. Cardinality(P) = 0 <=> P = {}
  BY <1>3, FS_EmptySet
<1>5. P = {} <=> \A i \in 1..Len(q) : q[i] # f
  OBVIOUS
<1> HIDE DEF P
<1>6. QueueAt(q, f) = Cardinality(P)
  BY DEF QueueAt, P
<1>7. QED
  BY <1>3, <1>4, <1>5, <1>6 DEF P

\* put_node_to_queue
LEMMA QueueAtAppend ==
  ASSUME NEW S, NEW q \in Seq(S), NEW e \in S, NEW f
  PROVE  QueueAt(Append(q, e), f) = QueueAt(q, f) + (IF f = e THEN 1 ELSE 0)
<1> DEFINE t == Append(q, e)
           P == {i \in 1..Len(q) : q[i] = f}
           Q == {i \in 1..Len(t) : t[i] = f}
           m == Len(q) + 1
<1>1. /\ Len(t) = m
      /\ Len(q) \in Nat
      /\ \A i \in 1..Len(q) : t[i] = q[i]
      /\ t[m] = e
  BY AppendProperties, LenProperties
<1>2. IsFiniteSet(P) /\ Cardinality(P) \in Nat
  BY QueueAtType, FS_CardinalityType
<1> HIDE DEF t
<1>3. m \notin P
  BY <1>1
<1>4. Q = IF f = e THEN P \cup {m} ELSE P
  BY <1>1
<1> HIDE DEF P, Q, m
<1>5. Cardinality(P \cup {m}) = Cardinality(P) + 1
  BY <1>2, <1>3, FS_AddElement
<1>6. QueueAt(q, f) = Cardinality(P) /\ QueueAt(t, f) = Cardinality(Q)
  BY DEF QueueAt, P, Q
<1>7. QED
  BY <1>2, <1>4, <1>5, <1>6 DEF t

\* get_node_from_queue
LEMMA QueueAtTail ==
  ASSUME NEW S, NEW q \in Seq(S), q # <<>>, NEW f
  PROVE  QueueAt(Tail(q), f) = QueueAt(q, f) - (IF f = Head(q) THEN 1 ELSE 0)
<1> DEFINE t == Tail(q)
           P == {i \in 1..Len(q) : q[i] = f}
           Q == {i \in 1..Len(t) : t[i] = f}
           g == [i \in Q |-> i + 1]
<1>1. /\ Len(q) \in Nat \ {0}
      /\ Len(t) = Len(q) - 1
      /\ \A i \in 1..Len(t) : t[i] = q[i + 1]
      /\ Head(q) = q[1]
  BY HeadTailProperties, LenProperties, EmptySeq
<1>2. IsFiniteSet(P) /\ Cardinality(P) \in Nat
  BY QueueAtType, FS_CardinalityType
<1>3. /\ IsFiniteSet(P \ {1})
      /\ Cardinality(P \ {1}) = IF 1 \in P THEN Cardinality(P) - 1 ELSE Cardinality(P)
  BY <1>2, FS_RemoveElement
<1>4. 1 \in P <=> f = Head(q)
  BY <1>1
<1> HIDE DEF t
<1>5. g \in Injection(Q, P \ {1}) /\ g \in Surjection(Q, P \ {1})
  <2>1. \A i \in Q : g[i] \in P \ {1}
    BY <1>1
  <2>2. \A i, j \in Q : g[i] = g[j] => i = j
    BY <1>1
  <2>3. \A i \in P \ {1} : i - 1 \in Q /\ g[i - 1] = i
    BY <1>1
  <2>4. g \in [Q -> P \ {1}]
    BY <2>1
  <2> HIDE DEF g, P, Q
  <2>5. g \in Injection(Q, P \ {1})
    BY <2>2, <2>4 DEF Injection, IsInjective
  <2>6. g \in Surjection(Q, P \ {1})
    BY <2>3, <2>4 DEF Surjection
  <2>7. QED
    BY <2>5, <2>6
<1> HIDE DEF g, P, Q
<1>6. Cardinality(Q) = Cardinality(P \ {1})
  BY <1>3, <1>5, FS_Injection
<1>7. QueueAt(q, f) = Cardinality(P) /\ QueueAt(t, f) = Cardinality(Q)
  BY DEF QueueAt, P, Q
<1>8. QED
  BY <1>2, <1>3, <1>4, <1>6, <1>7 DEF t

\* A set that changes at one of its members only.
LEMMA CountChange ==
  ASSUME NEW S, IsFiniteSet(S), NEW P \in SUBSET S, NEW Q \in SUBSET S,
         NEW j, P \ {j} = Q \ {j}
  PROVE  /\ Cardinality(P) \in Nat /\ Cardinality(Q) \in Nat
         /\ Cardinality(Q) + (IF j \in P THEN 1 ELSE 0)
              = Cardinality(P) + (IF j \in Q THEN 1 ELSE 0)
<1>1. /\ IsFiniteSet(P) /\ Cardinality(P) \in Nat
      /\ IsFiniteSet(Q) /\ Cardinality(Q) \in Nat
  BY FS_Subset, FS_CardinalityType
<1> DEFINE p == Cardinality(P)
           q == Cardinality(Q)
           inP == j \in P
           inQ == j \in Q
<1>2. p \in Nat /\ q \in Nat
  BY <1>1
<1>3. Cardinality(P \ {j}) = IF inP THEN p - 1 ELSE p
  BY <1>1, FS_RemoveElement
<1>4. Cardinality(Q \ {j}) = IF inQ THEN q - 1 ELSE q
  BY <1>1, FS_RemoveElement
<1>5. Cardinality(P \ {j}) = Cardinality(Q \ {j})
  OBVIOUS
<1> HIDE DEF p, q, inP, inQ
<1>6. (IF inP THEN p - 1 ELSE p) = (IF inQ THEN q - 1 ELSE q)
  BY <1>3, <1>4, <1>5, Zenon
<1>7. q + (IF inP THEN 1 ELSE 0) = p + (IF inQ THEN 1 ELSE 0)
  BY <1>2, <1>6
<1>8. QED
  BY <1>2, <1>7 DEF p, q, inP, inQ

\* The two threads that fill buffers.
HandAt(f) == Cardinality({t \in Thread : InHand(t) = f})

\* A set of threads, counted.
LEMMA ThreadCount ==
  ASSUME NEW P \in SUBSET Thread
  PROVE  Cardinality(P) = (IF "sender" \in P THEN 1 ELSE 0)
                            + (IF "event" \in P THEN 1 ELSE 0)
<1> DEFINE c(t) == IF t \in P THEN {t} ELSE {}
<1>1. P = c("sender") \cup c("event") /\ c("sender") \cap c("event") = {}
  BY DEF Thread
<1>2. \A t \in Thread : IsFiniteSet(c(t)) /\ Cardinality(c(t)) = IF t \in P THEN 1 ELSE 0
  BY FS_Singleton, FS_EmptySet
<1>3. "sender" \in Thread /\ "event" \in Thread
  BY DEF Thread
<1> HIDE DEF c
<1>4. Cardinality(P) = Cardinality(c("sender")) + Cardinality(c("event"))
                         - Cardinality({})
  BY <1>1, <1>2, <1>3, FS_Union
<1>5. QED
  BY <1>2, <1>3, <1>4, FS_EmptySet

\* How often a node is in a hand.
LEMMA HandAtIs ==
  ASSUME NEW f
  PROVE  /\ HandAt(f) = (IF InHand("sender") = f THEN 1 ELSE 0)
                          + (IF InHand("event") = f THEN 1 ELSE 0)
         /\ HandAt(f)' = (IF InHand("sender")' = f THEN 1 ELSE 0)
                           + (IF InHand("event")' = f THEN 1 ELSE 0)
<1>1. "sender" \in Thread /\ "event" \in Thread
  BY DEF Thread
<1>2. HandAt(f) = (IF InHand("sender") = f THEN 1 ELSE 0)
                    + (IF InHand("event") = f THEN 1 ELSE 0)
  <2> DEFINE P == {t \in Thread : InHand(t) = f}
  <2>1. P \in SUBSET Thread /\ HandAt(f) = Cardinality(P)
    BY DEF HandAt
  <2>2. ("sender" \in P <=> InHand("sender") = f) /\ ("event" \in P <=> InHand("event") = f)
    BY <1>1
  <2> HIDE DEF P
  <2>3. QED
    BY <2>1, <2>2, ThreadCount
<1>3. HandAt(f)' = (IF InHand("sender")' = f THEN 1 ELSE 0)
                     + (IF InHand("event")' = f THEN 1 ELSE 0)
  <2> DEFINE P == {t \in Thread : InHand(t)' = f}
  <2>1. P \in SUBSET Thread /\ HandAt(f)' = Cardinality(P)
    BY DEF HandAt
  <2>2. ("sender" \in P <=> InHand("sender")' = f) /\ ("event" \in P <=> InHand("event")' = f)
    BY <1>1
  <2> HIDE DEF P
  <2>3. QED
    BY <2>1, <2>2, ThreadCount
<1>4. QED
  BY <1>2, <1>3

\* The slots that hold a node.
WaitAt(f) == Cardinality({i \in Slot : waited[i] = f /\ ~Zeroing(i)})

\* The slots, and the index one past the last.
LEMMA SlotFacts ==
  /\ Slots \in Nat \ {0} /\ NoFrame \notin Frame /\ IsFiniteSet(Frame)
  /\ IsFiniteSet(Slot) /\ Slot \subseteq Nat /\ Slots \notin Slot
  /\ \A i \in Slot : i + 1 \in 0..Slots /\ i \in 0..Slots /\ i < Slots
  /\ \A i \in 0..Slots : i < Slots => i \in Slot
BY UvcAssumption, FS_Interval DEF Slot

\* A step that changes one slot only.
LEMMA WaitChange ==
  ASSUME NEW f, NEW j \in Slot,
         \A i \in Slot : i # j =>
           ((waited'[i] = f /\ ~Zeroing(i)') <=> (waited[i] = f /\ ~Zeroing(i)))
  PROVE  /\ WaitAt(f) \in Nat /\ WaitAt(f)' \in Nat
         /\ WaitAt(f)' + (IF waited[j] = f /\ ~Zeroing(j) THEN 1 ELSE 0)
              = WaitAt(f) + (IF waited'[j] = f /\ ~Zeroing(j)' THEN 1 ELSE 0)
<1> DEFINE P == {i \in Slot : waited[i] = f /\ ~Zeroing(i)}
           Q == {i \in Slot : waited'[i] = f /\ ~Zeroing(i)'}
<1>1. P \in SUBSET Slot /\ Q \in SUBSET Slot /\ P \ {j} = Q \ {j}
  OBVIOUS
<1>2. (j \in P <=> waited[j] = f /\ ~Zeroing(j)) /\ (j \in Q <=> waited'[j] = f /\ ~Zeroing(j)')
  OBVIOUS
<1>3. WaitAt(f) = Cardinality(P) /\ WaitAt(f)' = Cardinality(Q)
  BY DEF WaitAt
<1>4. IsFiniteSet(Slot)
  BY SlotFacts
<1> HIDE DEF P, Q
<1>5. /\ Cardinality(P) \in Nat /\ Cardinality(Q) \in Nat
      /\ Cardinality(Q) + (IF j \in P THEN 1 ELSE 0)
           = Cardinality(P) + (IF j \in Q THEN 1 ELSE 0)
  BY <1>1, <1>4, CountChange
<1>6. QED
  BY <1>2, <1>3, <1>5

\* A step that changes no slot.
LEMMA WaitSame ==
  ASSUME NEW f,
         \A i \in Slot :
           (waited'[i] = f /\ ~Zeroing(i)') <=> (waited[i] = f /\ ~Zeroing(i))
  PROVE  WaitAt(f)' = WaitAt(f)
<1> DEFINE P == {i \in Slot : waited[i] = f /\ ~Zeroing(i)}
           Q == {i \in Slot : waited'[i] = f /\ ~Zeroing(i)'}
<1>1. P = Q
  OBVIOUS
<1>2. QED
  BY <1>1 DEF WaitAt

\* How often a node waits in a slot.
LEMMA WaitType ==
  ASSUME NEW f
  PROVE  /\ WaitAt(f) \in Nat
         /\ WaitAt(f) = 0 <=> \A i \in Slot : ~(waited[i] = f /\ ~Zeroing(i))
<1> DEFINE P == {i \in Slot : waited[i] = f /\ ~Zeroing(i)}
<1>1. P \in SUBSET Slot /\ WaitAt(f) = Cardinality(P)
      /\ (P = {} <=> \A i \in Slot : ~(waited[i] = f /\ ~Zeroing(i)))
  BY DEF WaitAt
<1> HIDE DEF P
<1>2. IsFiniteSet(P) /\ Cardinality(P) \in Nat
  BY <1>1, SlotFacts, FS_Subset, FS_CardinalityType
<1>3. Cardinality(P) = 0 <=> P = {}
  BY <1>2, FS_EmptySet
<1>4. QED
  BY <1>1, <1>2, <1>3

\* The places of a node are these.
LEMMA PlacesAre ==
  ASSUME NEW f
  PROVE  /\ Places(f) = QueueAt(freeQ, f) + QueueAt(okQ, f) + WaitAt(f) + HandAt(f)
                          + (IF enc = f THEN 1 ELSE 0)
         /\ Places(f)' = QueueAt(freeQ', f) + QueueAt(okQ', f) + WaitAt(f)' + HandAt(f)'
                           + (IF enc' = f THEN 1 ELSE 0)
BY DEF Places, QueueAt, WaitAt, HandAt

-----------------------------------------------------------------------------
(* What the event thread has to do.                                        *)

\* What it does to start a stream again; every job is a part of it, from
\* step k to step n.
Script == Disable \o Enable

Part(k, n) == [i \in 1..(n + 1 - k) |-> Script[k + i - 1]]

\* Two parts of a job, one after the other.
LEMMA Joined ==
  ASSUME NEW S, NEW s \in Seq(S), NEW u \in Seq(S)
  PROVE  /\ s \o u \in Seq(S) /\ Len(s \o u) = Len(s) + Len(u)
         /\ \A i \in 1..Len(s) : (s \o u)[i] = s[i]
         /\ \A i \in 1..Len(u) : (s \o u)[Len(s) + i] = u[i]
<1> DEFINE t == s \o u
           m == Len(s)
           n == Len(u)
<1>1. m \in Nat /\ n \in Nat
  BY LenProperties
<1>2. /\ t \in Seq(S) /\ Len(t) = m + n
      /\ \A i \in 1..(m + n) : t[i] = IF i <= m THEN s[i] ELSE u[i - m]
  BY ConcatProperties
<1> HIDE DEF t, m, n
<1>3. \A i \in 1..m : t[i] = s[i]
  BY <1>1, <1>2
<1>4. \A i \in 1..n : m + i \in 1..(m + n) /\ ~(m + i <= m) /\ (m + i) - m = i
  BY <1>1
<1>5. \A i \in 1..n : t[m + i] = u[i]
  BY <1>2, <1>4
<1>6. QED
  BY <1>2, <1>3, <1>5 DEF t, m, n

\* enable_uvc_video, step by step.
LEMMA EnableIs ==
  /\ Enable \in Seq(Phase) /\ Len(Enable) = 15
  /\ Enable[1] = "clearOk" /\ Enable[2] = "clear" /\ Enable[3] = "off"
  /\ Enable[4] = "stop" /\ Enable[5] = "join" /\ Enable[6] = "flagOff"
  /\ Enable[7] = "clear" /\ Enable[8] = "setProp" /\ Enable[9] = "stop"
  /\ Enable[10] = "join" /\ Enable[11] = "startup" /\ Enable[12] = "reqbufs"
  /\ Enable[13] = "fill" /\ Enable[14] = "on" /\ Enable[15] = "flagOn"
<1> DEFINE a == <<"clearOk", "clear">>
           b == <<"setProp", "stop", "join", "startup", "reqbufs", "fill", "on", "flagOn">>
<1>1. /\ a \in Seq(Phase) /\ Len(a) = 2 /\ a[1] = "clearOk" /\ a[2] = "clear"
  BY DEF Phase
<1>2. /\ b \in Seq(Phase) /\ Len(b) = 8
      /\ b[1] = "setProp" /\ b[2] = "stop" /\ b[3] = "join" /\ b[4] = "startup"
      /\ b[5] = "reqbufs" /\ b[6] = "fill" /\ b[7] = "on" /\ b[8] = "flagOn"
  BY DEF Phase
<1>3. /\ Disable \in Seq(Phase) /\ Len(Disable) = 5
      /\ Disable[1] = "off" /\ Disable[2] = "stop" /\ Disable[3] = "join"
      /\ Disable[4] = "flagOff" /\ Disable[5] = "clear"
  BY DEF Disable, Phase
<1>4. Enable = (a \o Disable) \o b
  BY DEF Enable
<1> HIDE DEF a, b
<1> DEFINE c == a \o Disable
<1>5. /\ c \in Seq(Phase) /\ Len(c) = 7
      /\ c[1] = "clearOk" /\ c[2] = "clear" /\ c[3] = "off" /\ c[4] = "stop"
      /\ c[5] = "join" /\ c[6] = "flagOff" /\ c[7] = "clear"
  <2>1. /\ c \in Seq(Phase) /\ Len(c) = Len(a) + Len(Disable)
        /\ \A i \in 1..Len(a) : c[i] = a[i]
        /\ \A i \in 1..Len(Disable) : c[Len(a) + i] = Disable[i]
    <3>1. a \in Seq(Phase) /\ Disable \in Seq(Phase)
      BY <1>1, <1>3
    <3>2. QED
      BY <3>1, Joined
  <2> HIDE DEF c
  <2>2. \A i \in 1..2 : c[i] = a[i]
    BY <1>1, <2>1
  <2>3. \A i \in 1..5 : c[2 + i] = Disable[i]
    BY <1>1, <1>3, <2>1
  <2>4. c[3] = Disable[1] /\ c[4] = Disable[2] /\ c[5] = Disable[3]
        /\ c[6] = Disable[4] /\ c[7] = Disable[5]
    <3>1. c[2 + 1] = Disable[1] /\ c[2 + 2] = Disable[2] /\ c[2 + 3] = Disable[3]
          /\ c[2 + 4] = Disable[4] /\ c[2 + 5] = Disable[5]
      BY <2>3
    <3>2. QED
      BY <3>1
  <2>5. QED
    BY <1>1, <1>3, <2>1, <2>2, <2>4
<1>6. /\ Enable \in Seq(Phase) /\ Len(Enable) = 15
      /\ \A i \in 1..7 : Enable[i] = c[i]
      /\ \A i \in 1..8 : Enable[7 + i] = b[i]
  <2>1. /\ Enable \in Seq(Phase) /\ Len(Enable) = Len(c) + Len(b)
        /\ \A i \in 1..Len(c) : Enable[i] = c[i]
        /\ \A i \in 1..Len(b) : Enable[Len(c) + i] = b[i]
    <3>1. c \in Seq(Phase) /\ b \in Seq(Phase) /\ Enable = c \o b
      BY <1>2, <1>4, <1>5
    <3> HIDE DEF c
    <3>2. QED
      BY <3>1, Joined
  <2> HIDE DEF c
  <2>2. QED
    BY <1>2, <1>5, <2>1
<1>7. /\ Enable[7 + 1] = b[1] /\ Enable[7 + 2] = b[2] /\ Enable[7 + 3] = b[3]
      /\ Enable[7 + 4] = b[4] /\ Enable[7 + 5] = b[5] /\ Enable[7 + 6] = b[6]
      /\ Enable[7 + 7] = b[7] /\ Enable[7 + 8] = b[8]
  BY <1>6
<1> HIDE DEF c
<1>8. QED
  BY <1>2, <1>5, <1>6, <1>7

\* disable_uvc_video and enable_uvc_video, step by step.
LEMMA ScriptIs ==
  /\ Script \in Seq(Phase) /\ Len(Script) = 20
  /\ Script[1] = "off" /\ Script[2] = "stop" /\ Script[3] = "join"
  /\ Script[4] = "flagOff" /\ Script[5] = "clear" /\ Script[6] = "clearOk"
  /\ Script[7] = "clear" /\ Script[8] = "off" /\ Script[9] = "stop"
  /\ Script[10] = "join" /\ Script[11] = "flagOff" /\ Script[12] = "clear"
  /\ Script[13] = "setProp" /\ Script[14] = "stop" /\ Script[15] = "join"
  /\ Script[16] = "startup" /\ Script[17] = "reqbufs" /\ Script[18] = "fill"
  /\ Script[19] = "on" /\ Script[20] = "flagOn"
<1>1. /\ Disable \in Seq(Phase) /\ Len(Disable) = 5
      /\ Disable[1] = "off" /\ Disable[2] = "stop" /\ Disable[3] = "join"
      /\ Disable[4] = "flagOff" /\ Disable[5] = "clear"
  BY DEF Disable, Phase
<1>2. /\ Script \in Seq(Phase) /\ Len(Script) = Len(Disable) + Len(Enable)
      /\ \A i \in 1..Len(Disable) : Script[i] = Disable[i]
      /\ \A i \in 1..Len(Enable) : Script[Len(Disable) + i] = Enable[i]
  <2>1. Disable \in Seq(Phase) /\ Enable \in Seq(Phase)
    BY <1>1, EnableIs
  <2>2. QED
    BY <2>1, Joined DEF Script
<1>3. /\ Script \in Seq(Phase) /\ Len(Script) = 20
      /\ \A i \in 1..5 : Script[i] = Disable[i]
      /\ \A i \in 1..15 : Script[5 + i] = Enable[i]
  BY <1>1, <1>2, EnableIs
<1>4. /\ Script[5 + 1] = Enable[1] /\ Script[5 + 2] = Enable[2]
      /\ Script[5 + 3] = Enable[3] /\ Script[5 + 4] = Enable[4]
      /\ Script[5 + 5] = Enable[5] /\ Script[5 + 6] = Enable[6]
      /\ Script[5 + 7] = Enable[7] /\ Script[5 + 8] = Enable[8]
      /\ Script[5 + 9] = Enable[9] /\ Script[5 + 10] = Enable[10]
      /\ Script[5 + 11] = Enable[11] /\ Script[5 + 12] = Enable[12]
      /\ Script[5 + 13] = Enable[13] /\ Script[5 + 14] = Enable[14]
      /\ Script[5 + 15] = Enable[15]
  BY <1>3
<1>5. QED
  BY <1>1, <1>3, <1>4, EnableIs

\* A job is done step by step.
LEMMA PartIs ==
  ASSUME NEW n \in {5, 20}, NEW k \in 1..(n + 1)
  PROVE  /\ Part(k, n) \in Seq(Phase)
         /\ Part(k, n) = <<>> <=> k = n + 1
         /\ k <= n => /\ Head(Part(k, n)) = Script[k]
                      /\ Tail(Part(k, n)) = Part(k + 1, n)
<1> DEFINE p == Part(k, n)
           m == n + 1 - k
<1>1. m \in Nat /\ \A i \in 1..m : k + i - 1 \in 1..20
  OBVIOUS
<1>2. \A i \in 1..m : Script[k + i - 1] \in Phase
  BY <1>1, ScriptIs, ElementOfSeq
<1>3. p \in Seq(Phase) /\ Len(p) = m /\ \A i \in 1..m : p[i] = Script[k + i - 1]
  BY <1>1, <1>2 DEF Part
<1>4. p = <<>> <=> m = 0
  BY <1>1, <1>3, EmptySeq
<1>5. ASSUME k <= n PROVE Head(p) = Script[k] /\ Tail(p) = Part(k + 1, n)
  <2> DEFINE q == Part(k + 1, n)
  <2>1. m >= 1 /\ p # <<>>
    BY <1>1, <1>4, <1>5
  <2>2. \A i \in 1..(m - 1) : (k + 1) + i - 1 = k + (i + 1) - 1 /\ i + 1 \in 1..m
    BY <1>1
  <2>3. q \in Seq(Phase) /\ Len(q) = m - 1
        /\ \A i \in 1..(m - 1) : q[i] = Script[(k + 1) + i - 1]
    <3>1. m - 1 \in Nat /\ n + 1 - (k + 1) = m - 1
      BY <2>1, <1>1
    <3>2. \A i \in 1..(m - 1) : Script[(k + 1) + i - 1] \in Phase
      BY <1>2, <2>2
    <3>3. q = [i \in 1..(m - 1) |-> Script[(k + 1) + i - 1]]
      BY <3>1 DEF Part
    <3> HIDE DEF q, m
    <3>4. QED
      BY <3>1, <3>2, <3>3
  <2>4. /\ Tail(p) \in Seq(Phase) /\ Len(Tail(p)) = m - 1
        /\ \A i \in 1..(m - 1) : Tail(p)[i] = p[i + 1]
    BY <1>3, <2>1, HeadTailProperties
  <2>5. \A i \in 1..(m - 1) : Tail(p)[i] = q[i]
    BY <1>3, <2>2, <2>3, <2>4
  <2> HIDE DEF p, q, m
  <2>6. Tail(p) = q
    BY <2>3, <2>4, <2>5, SeqEqual
  <2>7. Head(p) = Script[k]
    BY <1>3, <2>1 DEF m
  <2>8. QED
    BY <2>6, <2>7 DEF q
<1>6. QED
  BY <1>3, <1>4, <1>5

-----------------------------------------------------------------------------
(* The inductive invariant.                                                *)

Buffer == [queued : BOOLEAN, node : Frame \cup {NoFrame}, fresh : BOOLEAN]

FrameType ==
  /\ env \in Environment
  /\ freeQ \in Seq(Frame) /\ okQ \in Seq(Frame)
  /\ waited \in [Slot -> Frame \cup {NoFrame}]
  /\ buf \in [Slot -> Buffer]
  /\ vstream \in BOOLEAN /\ streaming \in BOOLEAN /\ late \in BOOLEAN
  /\ started \in BOOLEAN /\ host \in BOOLEAN /\ cut \in BOOLEAN
  /\ held \in Frame \cup {NoFrame}
  /\ fcc \in Format /\ prop \in Format
  /\ loop \in [kind : Format \cup {"none"}, run : BOOLEAN]
  /\ enc \in Frame \cup {NoFrame}
  /\ fmt \in [Frame -> Format]
  /\ at \in [Thread -> {"none", "select", "get", "release", "zero", "store", "qbuf"}]
  /\ idx \in [Thread -> 0..Slots]
  /\ node \in [Thread -> Frame \cup {NoFrame}]
  /\ tries \in [Thread -> 0..Retries]

\* A thread that fills a buffer.
Filling(t) == at[t] \in {"get", "release", "zero", "store", "qbuf"}

\* Where the event thread is, and what the steps before have left.  A stream
\* that is cut into is stopped only by the steps 8 to 10; a stop that was not
\* late has left no buffer with anyone.
JobAt(k, n) ==
  /\ n \in {5, 20} /\ k \in 1..(n + 1)
  /\ job = Part(k, n)
  /\ vstream => k \in {1, 20, 21} \/ (cut /\ n = 20 /\ k \in 6..8)
  /\ k \in {20, 21} => vstream
  /\ k \in 4..16 => ~started \/ (cut /\ n = 20 /\ k \in 6..10)
  /\ ~cut /\ k \in 7..16 => okQ = <<>>
  /\ k \notin {5, 7, 12, 18} => at["event"] = "none" /\ idx["event"] = 0
  /\ k \in {5, 7, 12} => at["event"] \in {"none", "zero"}
  /\ (k # 6 \/ n = 5) /\ (at["event"] \in {"none", "get"} \/ k # 18) =>
       node["event"] = NoFrame
  /\ ~late => /\ Filling("sender") => vstream
              /\ ~vstream /\ k \in 2..17 => \A i \in Slot : ~buf[i].queued
              /\ k = 18 => \A i \in Slot : i >= idx["event"] => ~buf[i].queued

\* The encoder has a thread, of the format that is set, only while it is
\* started.
EncoderInv ==
  /\ started => loop.kind \in {prop, "none"}
  /\ ~started => loop.kind = "none"
  /\ loop.kind = "none" => ~loop.run /\ enc = NoFrame

\* What a thread has in hand, and what is in its slot.
HandInv ==
  /\ at["sender"] \in {"none", "select", "get"} => node["sender"] = NoFrame
  /\ at["event"] # "select"
  /\ \A t \in Thread :
       /\ at[t] \notin {"none", "select"} => idx[t] \in Slot
       /\ ~Clash /\ at[t] = "zero" => waited[idx[t]] # NoFrame
       /\ ~Clash /\ at[t] = "store" => waited[idx[t]] = NoFrame

\* The stream began after a stop, and the stop was not late.
Orderly == ~late /\ ~cut

\* A buffer's node waits in the slot.
BufInv ==
  Orderly =>
    /\ \A t \in Thread :
         /\ at[t] = "qbuf" => waited[idx[t]] = node[t]
         /\ Filling(t) => ~buf[idx[t]].queued
    /\ \A i \in Slot :
         buf[i].queued /\ buf[i].fresh => waited[i] = buf[i].node /\ buf[i].node # NoFrame

\* What is in ok_queue and with the encoder has the format that is set, but
\* for what the stream before has left until it is cleared.
QueueFmt ==
  ~env.fails /\ ~cut =>
    /\ job # Enable => \A j \in 1..Len(okQ) : fmt[okQ[j]] = prop
    /\ enc # NoFrame => fmt[enc] = prop

\* And so has what is on its way to the driver.
SentFmt ==
  ~env.fails /\ Orderly =>
    /\ \A t \in Thread : Filling(t) /\ node[t] # NoFrame => fmt[node[t]] = prop
    /\ \A i \in Slot : buf[i].queued /\ buf[i].fresh => fmt[buf[i].node] = prop

FrameInv ==
  /\ FrameType /\ NodesKept /\ (\E k \in 1..21, n \in {5, 20} : JobAt(k, n))
  /\ EncoderInv /\ HandInv /\ BufInv /\ QueueFmt /\ SentFmt

\* The steps there are.
LEMMA StepCases ==
  ASSUME Step
  PROVE  \/ EncGet \/ EncPut \/ EncEnd
         \/ SenderSelect \/ SenderDqbuf \/ SenderTimeout \/ SenderQbuf
         \/ \E t \in Thread : FillGet(t) \/ FillRelease(t) \/ FillZero(t) \/ FillStore(t)
         \/ Off \/ Stop \/ Join \/ FlagOff \/ ClearOk \/ ClearPut \/ ClearZero
         \/ LoopEnd \/ SetProp \/ Startup \/ Reqbufs \/ FillBegin \/ EventQbuf
         \/ On \/ FlagOn \/ Commit \/ StreamOn \/ StreamOff \/ Disconnect
BY DEF Step, Encoder, Sender, Event, Host, Fill, Thread

\* A step of the job, and what is left after it.
LEMMA JobStep ==
  ASSUME NEW n \in {5, 20}, NEW k \in 1..(n + 1), job = Part(k, n),
         NEW phase, Does(phase)
  PROVE  /\ k <= n /\ k \in 1..20 /\ Script[k] = phase
         /\ k + 1 \in 1..(n + 1)
         /\ Head(job) = phase
         /\ Done => job' = Part(k + 1, n)
<1>1. job # <<>> /\ Head(job) = phase
  BY DEF Does
<1>2. k # n + 1
  BY <1>1, PartIs
<1>3. k <= n /\ k \in 1..20 /\ k + 1 \in 1..(n + 1)
  BY <1>2
<1>4. Head(Part(k, n)) = Script[k] /\ Tail(Part(k, n)) = Part(k + 1, n)
  BY <1>3, PartIs
<1>5. QED
  BY <1>1, <1>3, <1>4 DEF Done

\* Where in the script a step stands.
LEMMA PhaseAt ==
  ASSUME NEW k \in 1..20
  PROVE  /\ Script[k] = "off" => k \in {1, 8}
         /\ Script[k] = "stop" => k \in {2, 9, 14}
         /\ Script[k] = "join" => k \in {3, 10, 15}
         /\ Script[k] = "flagOff" => k \in {4, 11}
         /\ Script[k] = "clear" => k \in {5, 7, 12}
         /\ Script[k] = "clearOk" => k = 6
         /\ Script[k] = "setProp" => k = 13
         /\ Script[k] = "startup" => k = 16
         /\ Script[k] = "reqbufs" => k = 17
         /\ Script[k] = "fill" => k = 18
         /\ Script[k] = "on" => k = 19
         /\ Script[k] = "flagOn" => k = 20
<1>1. k \in {1, 2, 3, 4, 5, 6, 7, 8, 9, 10} \/ k \in {11, 12, 13, 14, 15, 16, 17, 18, 19, 20}
  OBVIOUS
<1>2. CASE k \in {1, 2, 3, 4, 5, 6, 7, 8, 9, 10}
  BY <1>2, ScriptIs
<1>3. CASE k \in {11, 12, 13, 14, 15, 16, 17, 18, 19, 20}
  BY <1>3, ScriptIs
<1>4. QED
  BY <1>1, <1>2, <1>3

-----------------------------------------------------------------------------
(* The types.                                                              *)

\* The records of the buffers and of the encoder.
LEMMA RecordTypes ==
  /\ [kind |-> "none", run |-> FALSE] \in [kind : Format \cup {"none"}, run : BOOLEAN]
  /\ Idle \in Buffer /\ Idle.queued = FALSE /\ Idle.fresh = FALSE
  /\ \A b \in Buffer :
       /\ [Idle EXCEPT !.fresh = b.fresh] \in Buffer
       /\ [Idle EXCEPT !.fresh = b.fresh].queued = FALSE
       /\ b.queued \in BOOLEAN /\ b.fresh \in BOOLEAN /\ b.node \in Frame \cup {NoFrame}
BY DEF Idle, Buffer

\* VIDIOC_QBUF
LEMMA QueueType ==
  ASSUME FrameType, NEW t \in Thread, idx[t] \in Slot,
         NEW mem \in Frame \cup {NoFrame}, Queue(t, mem)
  PROVE  /\ buf' \in [Slot -> Buffer]
         /\ \A i \in Slot : i # idx[t] => buf'[i] = buf[i]
         /\ ~buf[idx[t]].queued /\ mem # NoFrame =>
              buf'[idx[t]] =
                [queued |-> TRUE, node |-> mem, fresh |-> node[t] # NoFrame]
         /\ buf[idx[t]].queued \/ mem = NoFrame => buf' = buf
<1> DEFINE b == [queued |-> TRUE, node |-> mem, fresh |-> node[t] # NoFrame]
<1>1. b \in Buffer
  BY DEF Buffer
<1> HIDE DEF b
<1>2. buf' = IF Queued(t, mem) THEN [buf EXCEPT ![idx[t]] = b] ELSE buf
  BY DEF Queue, b
<1>3. buf \in [Slot -> Buffer]
  BY DEF FrameType
<1>4. Queued(t, mem) <=> ~buf[idx[t]].queued /\ mem # NoFrame
  BY DEF Queued
<1>5. ASSUME Queued(t, mem)
      PROVE  buf' \in [Slot -> Buffer] /\ buf'[idx[t]] = b
             /\ \A i \in Slot : i # idx[t] => buf'[i] = buf[i]
  BY <1>1, <1>2, <1>3, <1>5
<1>6. QED
  BY <1>2, <1>3, <1>4, <1>5 DEF b

\* What the send thread queues.
LEMMA SenderQueue ==
  ASSUME FrameType, HandInv, SenderQbuf
  PROVE  /\ buf' \in [Slot -> Buffer] /\ idx["sender"] \in Slot
         /\ \A i \in Slot : i # idx["sender"] => buf'[i] = buf[i]
         /\ \/ buf'[idx["sender"]] = buf[idx["sender"]]
            \/ /\ node["sender"] # NoFrame
               /\ buf'[idx["sender"]] =
                    [queued |-> TRUE, node |-> node["sender"], fresh |-> TRUE]
            \/ /\ node["sender"] = NoFrame
               /\ buf'[idx["sender"]] = [queued |-> TRUE, node |-> held, fresh |-> FALSE]
<1> DEFINE mem == IF node["sender"] # NoFrame THEN node["sender"] ELSE held
<1>1. "sender" \in Thread
  BY DEF Thread
<1>2. mem \in Frame \cup {NoFrame} /\ idx["sender"] \in Slot
  BY <1>1 DEF FrameType, HandInv, SenderQbuf
<1>3. Queue("sender", mem)
  BY DEF SenderQbuf
<1>4. mem = IF node["sender"] # NoFrame THEN node["sender"] ELSE held
  OBVIOUS
<1> HIDE DEF mem
<1>5. /\ buf' \in [Slot -> Buffer]
      /\ \A i \in Slot : i # idx["sender"] => buf'[i] = buf[i]
      /\ ~buf[idx["sender"]].queued /\ mem # NoFrame =>
           buf'[idx["sender"]] =
             [queued |-> TRUE, node |-> mem, fresh |-> node["sender"] # NoFrame]
      /\ buf[idx["sender"]].queued \/ mem = NoFrame => buf' = buf
  BY <1>1, <1>2, <1>3, QueueType
<1>6. QED
  BY <1>2, <1>4, <1>5

\* What the event thread queues.
LEMMA EventQueue ==
  ASSUME FrameType, HandInv, EventQbuf
  PROVE  /\ buf' \in [Slot -> Buffer] /\ idx["event"] \in Slot
         /\ \A i \in Slot : i # idx["event"] => buf'[i] = buf[i]
         /\ \/ buf'[idx["event"]] = buf[idx["event"]]
            \/ /\ node["event"] # NoFrame
               /\ buf'[idx["event"]] =
                    [queued |-> TRUE, node |-> node["event"], fresh |-> TRUE]
         /\ idx'["event"] \in {idx["event"] + 1, Slots}
<1>1. "event" \in Thread
  BY DEF Thread
<1>2. node["event"] \in Frame \cup {NoFrame} /\ idx["event"] \in Slot
  BY <1>1 DEF FrameType, HandInv, EventQbuf
<1>3. Queue("event", node["event"])
  BY DEF EventQbuf
<1>4. /\ buf' \in [Slot -> Buffer]
      /\ \A i \in Slot : i # idx["event"] => buf'[i] = buf[i]
      /\ ~buf[idx["event"]].queued /\ node["event"] # NoFrame =>
           buf'[idx["event"]] =
             [queued |-> TRUE, node |-> node["event"], fresh |-> node["event"] # NoFrame]
      /\ buf[idx["event"]].queued \/ node["event"] = NoFrame => buf' = buf
  BY <1>1, <1>2, <1>3, QueueType
<1>5. idx'["event"] \in {idx["event"] + 1, Slots}
  BY <1>1 DEF EventQbuf, FrameType
<1>6. QED
  BY <1>2, <1>4, <1>5

\* VIDIOC_DQBUF
LEMMA Dequeued ==
  ASSUME FrameType, SenderDqbuf
  PROVE  /\ at["sender"] = "select" /\ at' = [at EXCEPT !["sender"] = "get"]
         /\ vstream /\ UNCHANGED <<queueVars, waited, vstream, late, encVars, hostVars, job, node>>
         /\ held' \in Frame \cup {NoFrame}
         /\ \E i \in Slot :
              /\ idx' = [idx EXCEPT !["sender"] = i]
              /\ buf' \in [Slot -> Buffer]
              /\ ~buf'[i].queued
              /\ \A j \in Slot : j # i => buf'[j] = buf[j]
<1>1. PICK i \in Slot : /\ buf' = [buf EXCEPT ![i] = [Idle EXCEPT !.fresh = buf[i].fresh]]
                        /\ held' = buf[i].node
                        /\ idx' = [idx EXCEPT !["sender"] = i]
  BY DEF SenderDqbuf
<1>2. buf \in [Slot -> Buffer] /\ buf[i] \in Buffer
  BY DEF FrameType
<1>3. /\ [Idle EXCEPT !.fresh = buf[i].fresh] \in Buffer
      /\ [Idle EXCEPT !.fresh = buf[i].fresh].queued = FALSE
      /\ buf[i].node \in Frame \cup {NoFrame}
  BY <1>2, RecordTypes
<1>4. /\ buf' \in [Slot -> Buffer] /\ ~buf'[i].queued
      /\ \A j \in Slot : j # i => buf'[j] = buf[j]
  BY <1>1, <1>2, <1>3
<1>5. /\ at["sender"] = "select" /\ at' = [at EXCEPT !["sender"] = "get"]
      /\ vstream /\ UNCHANGED <<queueVars, waited, vstream, late, encVars, hostVars, job, node>>
  BY DEF SenderDqbuf
<1>6. QED
  BY <1>1, <1>3, <1>4, <1>5

\* FrameType is inductive beside HandInv and EncoderInv.
LEMMA FrameTypeStep ==
  ASSUME FrameType, HandInv, EncoderInv, Step, env' = env
  PROVE  FrameType'
<1> USE DEF FrameType, queueVars, devVars, encVars, hostVars, fillVars, Thread, Format
<1>1. env' = env /\ Idle \in Buffer
  BY RecordTypes
<1>2. CASE EncGet
  <2>1. Head(freeQ) \in Frame /\ Tail(freeQ) \in Seq(Frame)
    BY <1>2, HeadTailProperties DEF EncGet
  <2>2. fmt' \in [Frame -> Format]
    <3>1. loop.run /\ (\/ fmt' = [fmt EXCEPT ![Head(freeQ)] = loop.kind]
                       \/ fmt' = fmt)
      BY <1>2 DEF EncGet
    <3>2. loop.kind \in Format
      BY <3>1 DEF EncoderInv
    <3>3. QED
      BY <3>1, <3>2
  <2>3. QED
    BY <1>1, <1>2, <2>1, <2>2 DEF EncGet
<1>3. CASE EncPut
  BY <1>1, <1>3, AppendProperties DEF EncPut
<1>4. ASSUME NEW t \in Thread, FillGet(t) PROVE FrameType'
  BY <1>1, <1>4, HeadTailProperties DEF FillGet, First, Rest
<1>5. ASSUME NEW t \in Thread, FillRelease(t) PROVE FrameType'
  <2>1. freeQ' \in Seq(Frame)
    <3>1. idx[t] \in Slot
      BY <1>5 DEF FillRelease, HandInv
    <3>2. waited[idx[t]] # NoFrame => Append(freeQ, waited[idx[t]]) \in Seq(Frame)
      BY <3>1, AppendProperties
    <3>3. QED
      BY <1>5, <3>2 DEF FillRelease
  <2>2. at' \in [Thread -> {"none", "select", "get", "release", "zero", "store", "qbuf"}]
    BY <1>5 DEF FillRelease
  <2>3. QED
    BY <1>1, <1>5, <2>1, <2>2 DEF FillRelease
<1>6. ASSUME NEW t \in Thread, FillZero(t) PROVE FrameType'
  <2>1. waited' \in [Slot -> Frame \cup {NoFrame}]
    BY <1>6 DEF FillZero
  <2>2. at' \in [Thread -> {"none", "select", "get", "release", "zero", "store", "qbuf"}]
    BY <1>6 DEF FillZero
  <2>3. QED
    BY <1>1, <1>6, <2>1, <2>2 DEF FillZero
<1>7. ASSUME NEW t \in Thread, FillStore(t) PROVE FrameType'
  <2>1. waited' \in [Slot -> Frame \cup {NoFrame}]
    BY <1>7 DEF FillStore
  <2>2. tries' \in [Thread -> 0..Retries]
    <3>1. tries[t] \in 0..Retries /\ Retries \in Nat
      BY UvcAssumption
    <3>2. tries[t] < Retries => tries[t] + 1 \in 0..Retries
      BY <3>1
    <3>3. QED
      BY <1>7, <3>2 DEF FillStore
  <2>3. at' \in [Thread -> {"none", "select", "get", "release", "zero", "store", "qbuf"}]
    BY <1>7 DEF FillStore
  <2>4. QED
    BY <1>1, <1>7, <2>1, <2>2, <2>3 DEF FillStore
<1>8. CASE ClearOk
  <2>1. okQ' \in Seq(Frame)
        /\ node' \in [Thread -> Frame \cup {NoFrame}]
    <3>1. okQ # <<>> => Head(okQ) \in Frame /\ Tail(okQ) \in Seq(Frame)
      BY HeadTailProperties
    <3>2. okQ' \in Seq(Frame)
      BY <1>8, <3>1 DEF ClearOk
    <3>3. node' \in [Thread -> Frame \cup {NoFrame}]
      BY <1>8, <3>1 DEF ClearOk
    <3>4. QED
      BY <3>2, <3>3
  <2>2. freeQ' \in Seq(Frame)
    <3>1. node["event"] # NoFrame => Append(freeQ, node["event"]) \in Seq(Frame)
      BY AppendProperties
    <3>2. QED
      BY <1>8, <3>1 DEF ClearOk
  <2>3. QED
    BY <1>1, <1>8, <2>1, <2>2 DEF ClearOk
<1>9. CASE SenderSelect
  BY <1>1, <1>9, SlotFacts DEF SenderSelect
<1>10. CASE SenderDqbuf
  <2>1. PICK i \in Slot : idx' = [idx EXCEPT !["sender"] = i] /\ buf' \in [Slot -> Buffer]
    BY <1>10, Dequeued
  <2>2. idx' \in [Thread -> 0..Slots] /\ held' \in Frame \cup {NoFrame}
    BY <1>10, <2>1, SlotFacts, Dequeued
  <2>3. QED
    BY <1>1, <1>10, <2>1, <2>2 DEF SenderDqbuf
<1>11. CASE SenderTimeout
  BY <1>1, <1>11, SlotFacts DEF SenderTimeout
<1>12. CASE SenderQbuf
  <2>1. buf' \in [Slot -> Buffer]
    BY <1>12, SenderQueue
  <2>2. tries' \in [Thread -> 0..Retries] /\ idx' \in [Thread -> 0..Slots]
    BY <1>12, UvcAssumption DEF SenderQbuf
  <2>3. QED
    BY <1>1, <1>12, <2>1, <2>2 DEF SenderQbuf
<1>13. CASE Off
  BY <1>1, <1>13, SlotFacts DEF Off
<1>14. CASE Stop
  <2>1. loop' \in [kind : Format \cup {"none"}, run : BOOLEAN]
    BY <1>14 DEF Stop
  <2>2. QED
    BY <1>1, <1>14, <2>1 DEF Stop
<1>15. CASE Join
  <2>1. loop' \in [kind : Format \cup {"none"}, run : BOOLEAN]
    BY <1>15, RecordTypes DEF Join
  <2>2. QED
    BY <1>1, <1>15, <2>1 DEF Join
<1>16. CASE FlagOff
  BY <1>1, <1>16, SlotFacts DEF FlagOff
<1>17. CASE ClearPut
  <2>1. idx["event"] \in Slot
    BY <1>17, SlotFacts DEF ClearPut
  <2>2. freeQ' \in Seq(Frame)
    <3>1. waited[idx["event"]] # NoFrame => Append(freeQ, waited[idx["event"]]) \in Seq(Frame)
      BY <2>1, AppendProperties
    <3>2. QED
      BY <1>17, <3>1 DEF ClearPut
  <2>3. idx' \in [Thread -> 0..Slots]
    <3>1. idx["event"] + 1 \in 0..Slots
      BY <2>1, SlotFacts
    <3>2. QED
      BY <1>17, <3>1 DEF ClearPut
  <2>4. at' \in [Thread -> {"none", "select", "get", "release", "zero", "store", "qbuf"}]
    BY <1>17 DEF ClearPut
  <2>5. QED
    BY <1>1, <1>17, <2>2, <2>3, <2>4 DEF ClearPut
<1>18. CASE ClearZero
  <2>1. waited' \in [Slot -> Frame \cup {NoFrame}]
    BY <1>18 DEF ClearZero
  <2>2. idx' \in [Thread -> 0..Slots]
    <3>1. idx["event"] \in Slot
      BY <1>18 DEF ClearZero, HandInv
    <3>2. idx["event"] + 1 \in 0..Slots
      BY <3>1, SlotFacts
    <3>3. QED
      BY <1>18, <3>2 DEF ClearZero
  <2>3. at' \in [Thread -> {"none", "select", "get", "release", "zero", "store", "qbuf"}]
    BY <1>18 DEF ClearZero
  <2>4. QED
    BY <1>1, <1>18, <2>1, <2>2, <2>3 DEF ClearZero
<1>19. CASE LoopEnd
  BY <1>1, <1>19, SlotFacts DEF LoopEnd
<1>20. CASE SetProp
  BY <1>1, <1>20, SlotFacts DEF SetProp
<1>21. CASE Startup
  <2>1. loop' \in [kind : Format \cup {"none"}, run : BOOLEAN]
    <3>1. [kind |-> prop, run |-> TRUE] \in [kind : Format \cup {"none"}, run : BOOLEAN]
      OBVIOUS
    <3>2. QED
      BY <1>21, <3>1 DEF Startup
  <2>2. QED
    BY <1>1, <1>21, <2>1 DEF Startup
<1>22. CASE Reqbufs
  BY <1>1, <1>22, SlotFacts DEF Reqbufs
<1>23. CASE FillBegin
  BY <1>1, <1>23, SlotFacts DEF FillBegin
<1>24. CASE EventQbuf
  <2>1. buf' \in [Slot -> Buffer]
    BY <1>24, EventQueue
  <2>2. idx' \in [Thread -> 0..Slots]
    <3>1. idx["event"] \in Slot
      BY <1>24 DEF EventQbuf, HandInv
    <3>2. idx["event"] + 1 \in 0..Slots /\ Slots \in 0..Slots
      BY <3>1, SlotFacts
    <3>3. QED
      BY <1>24, <3>2 DEF EventQbuf
  <2>3. tries' \in [Thread -> 0..Retries]
    BY <1>24, UvcAssumption DEF EventQbuf
  <2>4. QED
    BY <1>1, <1>24, <2>1, <2>2, <2>3 DEF EventQbuf
<1>25. CASE On
  BY <1>1, <1>25, SlotFacts DEF On
<1>26. CASE FlagOn
  BY <1>1, <1>26, SlotFacts DEF FlagOn
<1>27. CASE Commit
  <2>1. env.formats \subseteq Format
    <3>1. env \in [bulk : BOOLEAN, formats : SUBSET Format, replug : BOOLEAN, fails : BOOLEAN]
      BY UvcAssumption
    <3>2. QED
      BY <3>1
  <2>2. fcc' \in Format /\ host' \in BOOLEAN
    BY <1>27, <2>1 DEF Commit
  <2>3. QED
    BY <1>1, <1>27, <2>2 DEF Commit
<1>28. CASE StreamOn
  BY <1>1, <1>28, SlotFacts DEF StreamOn
<1>29. CASE StreamOff
  BY <1>1, <1>29, SlotFacts DEF StreamOff
<1>30. CASE Disconnect
  BY <1>1, <1>30 DEF Disconnect
<1>31. CASE EncEnd
  BY <1>1, <1>31 DEF EncEnd
<1>32. QED
  BY <1>1, <1>2, <1>3, <1>4, <1>5, <1>6, <1>7, <1>8, <1>9, <1>10, <1>11, <1>12,
     <1>13, <1>14, <1>15, <1>16, <1>17, <1>18, <1>19, <1>20, <1>21, <1>22,
     <1>23, <1>24, <1>25, <1>26, <1>27, <1>28, <1>29, <1>30, <1>31, StepCases

-----------------------------------------------------------------------------
(* The encoder's thread.                                                   *)

\* EncoderInv is inductive: startup follows a stop and a join, and the format
\* changes only while the encoder is stopped.
LEMMA EncoderStep ==
  ASSUME FrameType, NEW k \in 1..21, NEW n \in {5, 20}, JobAt(k, n),
         EncoderInv, Step
  PROVE  EncoderInv'
<1> USE DEF encVars
<1>1. job = Part(k, n) /\ k \in 1..(n + 1) /\ prop \in Format /\ "none" \notin Format
  BY DEF JobAt, FrameType, Format
<1>2. CASE EncGet
  BY <1>2 DEF EncGet, EncoderInv
<1>3. CASE EncPut
  BY <1>3 DEF EncPut, EncoderInv
<1>4. CASE Stop \/ EncEnd
  <2>1. loop \in [kind : Format \cup {"none"}, run : BOOLEAN]
    BY DEF FrameType
  <2>2. loop'.kind = loop.kind /\ (~loop.run => ~loop'.run)
    BY <1>4, <2>1 DEF Stop, EncEnd
  <2>3. prop' = prop /\ started' = started /\ enc' = enc
    BY <1>4 DEF Stop, EncEnd
  <2>4. QED
    BY <2>2, <2>3 DEF EncoderInv
<1>5. CASE Join
  <2>1. ~started' /\ prop' = prop /\ enc' = enc
    BY <1>5 DEF Join
  <2>2. CASE started /\ loop.kind = prop
    <3>1. enc = NoFrame /\ loop' = [kind |-> "none", run |-> FALSE]
      BY <1>5, <2>2 DEF Join
    <3>2. QED
      BY <2>1, <3>1 DEF EncoderInv
  <2>3. CASE ~(started /\ loop.kind = prop)
    <3>1. loop' = loop
      BY <1>5, <2>3 DEF Join
    <3>2. loop.kind = "none"
      BY <2>3 DEF EncoderInv
    <3>3. QED
      BY <2>1, <3>1, <3>2 DEF EncoderInv
  <2>4. QED
    BY <2>2, <2>3
<1>6. CASE SetProp
  <2>1. k = 13
    BY <1>1, <1>6, JobStep, PhaseAt DEF SetProp
  <2>2. ~started
    BY <2>1 DEF JobAt
  <2>3. QED
    BY <1>6, <2>2 DEF SetProp, EncoderInv
<1>7. CASE Startup
  <2>1. k = 16
    BY <1>1, <1>7, JobStep, PhaseAt DEF Startup
  <2>2. ~started
    BY <2>1 DEF JobAt
  <2>3. loop.kind = "none"
    BY <2>2 DEF EncoderInv
  <2>4. /\ started' /\ prop' = prop /\ enc' = enc
        /\ loop' = [kind |-> prop, run |-> TRUE] \/ loop' = loop
    BY <1>7 DEF Startup
  <2>5. QED
    BY <1>1, <2>3, <2>4 DEF EncoderInv
<1>8. ASSUME UNCHANGED encVars PROVE EncoderInv'
  BY <1>8 DEF EncoderInv
<1>9. QED
  BY <1>2, <1>3, <1>4, <1>5, <1>6, <1>7, <1>8, StepCases
     DEF SenderSelect, SenderDqbuf, SenderTimeout, SenderQbuf, Off, FlagOff,
         ClearOk, ClearPut, ClearZero, LoopEnd, Reqbufs, FillBegin,
         EventQbuf, On, FlagOn, Commit, StreamOn, StreamOff, Disconnect,
         FillGet, FillRelease, FillZero, FillStore

-----------------------------------------------------------------------------
(* The job of the event thread.                                            *)

\* While it has something to do with the slots, the event thread is there.
LEMMA EventAt ==
  ASSUME NEW k \in 1..21, NEW n \in {5, 20}, JobAt(k, n)
  PROVE  /\ at["event"] \in {"get", "release", "store", "qbuf"} => k = 18
         /\ at["event"] = "zero" => k \in {5, 7, 12, 18} /\ job # <<>>
         /\ at["event"] = "zero" /\ Head(job) = "fill" => k = 18
         /\ Orderly /\ Filling("sender") => vstream /\ k \in {1, 20, 21} /\ ~Filling("event")
<1>1. at["event"] \in {"get", "release", "store", "qbuf"} => k = 18
  BY DEF JobAt
<1>2. ASSUME at["event"] = "zero" PROVE k \in {5, 7, 12, 18} /\ k # n + 1
  BY <1>2 DEF JobAt
<1>3. k \in 1..(n + 1) /\ job = Part(k, n)
  BY DEF JobAt
<1>4. ASSUME k # n + 1 PROVE job # <<>> /\ Head(job) = Script[k] /\ k \in 1..20
  <2>1. k <= n /\ k \in 1..20
    BY <1>3, <1>4
  <2>2. Part(k, n) # <<>> /\ Head(Part(k, n)) = Script[k]
    BY <1>3, <1>4, <2>1, PartIs
  <2>3. QED
    BY <1>3, <2>1, <2>2
<1>5. k \in 1..20 /\ Script[k] = "fill" => k = 18
  BY PhaseAt
<1>6. Orderly /\ Filling("sender") => vstream /\ k \in {1, 20, 21} /\ ~Filling("event")
  BY DEF JobAt, Filling, Orderly
<1>7. QED
  BY <1>1, <1>2, <1>4, <1>5, <1>6

\* What the job rests on.
jobVars == <<job, vstream, late, started, cut, okQ, buf, at, idx, node>>

\* A step of the send thread or the encoder leaves the event thread where it is.
LEMMA JobStays ==
  ASSUME NEW k \in 1..21, NEW n \in {5, 20}, JobAt(k, n)
  PROVE  /\ UNCHANGED jobVars => JobAt(k, n)'
         /\ UNCHANGED <<job, vstream, started, late, cut>>
              /\ (okQ = <<>> => okQ' = <<>>)
              /\ at'["event"] = at["event"] /\ idx'["event"] = idx["event"]
              /\ node'["event"] = node["event"] /\ (Filling("sender")' => vstream \/ late)
              /\ (vstream \/ late \/ UNCHANGED buf)
              => JobAt(k, n)'
<1>1. ASSUME UNCHANGED jobVars PROVE JobAt(k, n)'
  BY <1>1 DEF JobAt, Filling, jobVars
<1>2. ASSUME UNCHANGED <<job, vstream, started, late, cut>>,
             okQ = <<>> => okQ' = <<>>,
             at'["event"] = at["event"], idx'["event"] = idx["event"],
             node'["event"] = node["event"], Filling("sender")' => vstream \/ late,
             vstream \/ late \/ UNCHANGED buf
      PROVE  JobAt(k, n)'
  <2>1. /\ n \in {5, 20} /\ k \in 1..(n + 1)
        /\ job' = Part(k, n)
        /\ vstream' => k \in {1, 20, 21} \/ (cut' /\ n = 20 /\ k \in 6..8)
        /\ k \in {20, 21} => vstream'
        /\ k \in 4..16 => ~started' \/ (cut' /\ n = 20 /\ k \in 6..10)
        /\ ~cut' /\ k \in 7..16 => okQ' = <<>>
    BY <1>2 DEF JobAt
  <2>2. /\ k \notin {5, 7, 12, 18} => at'["event"] = "none" /\ idx'["event"] = 0
        /\ k \in {5, 7, 12} => at'["event"] \in {"none", "zero"}
        /\ (k # 6 \/ n = 5) /\ (at'["event"] \in {"none", "get"} \/ k # 18) =>
             node'["event"] = NoFrame
    BY <1>2 DEF JobAt
  <2>3. ASSUME ~late'
        PROVE  /\ Filling("sender")' => vstream'
               /\ ~vstream' /\ k \in 2..17 => \A i \in Slot : ~buf'[i].queued
               /\ k = 18 => \A i \in Slot : i >= idx'["event"] => ~buf'[i].queued
    <3>1. vstream => k # 18
      BY DEF JobAt
    <3>2. QED
      BY <1>2, <2>3, <3>1 DEF JobAt
  <2>4. QED
    BY <2>1, <2>2, <2>3 DEF JobAt
<1>3. QED
  BY <1>1, <1>2

\* The three jobs.
LEMMA WholeScript ==
  /\ Part(1, 20) = Disable \o Enable /\ Part(6, 20) = Enable /\ Part(1, 5) = Disable
  /\ Part(6, 5) = <<>>
<1>1. /\ Script \in Seq(Phase) /\ Len(Script) = 20
      /\ Disable \in Seq(Phase) /\ Len(Disable) = 5
      /\ Enable \in Seq(Phase) /\ Len(Enable) = 15
      /\ \A i \in 1..5 : Script[i] = Disable[i]
      /\ \A i \in 1..15 : Script[5 + i] = Enable[i]
  <2>1. Disable \in Seq(Phase) /\ Len(Disable) = 5
    BY DEF Disable, Phase
  <2>2. Enable \in Seq(Phase) /\ Len(Enable) = 15
    BY EnableIs
  <2>3. /\ Len(Script) = Len(Disable) + Len(Enable)
        /\ \A i \in 1..Len(Disable) : Script[i] = Disable[i]
        /\ \A i \in 1..Len(Enable) : Script[Len(Disable) + i] = Enable[i]
    <3>1. Disable \in Seq(Phase) /\ Enable \in Seq(Phase)
      BY <2>1, <2>2
    <3>2. QED
      BY <3>1, Joined DEF Script
  <2>4. QED
    BY <2>1, <2>2, <2>3, ScriptIs
<1>2. Part(1, 20) = Script
  <2>1. Part(1, 20) \in Seq(Phase) /\ Part(1, 20) = [i \in 1..20 |-> Script[1 + i - 1]]
    <3>1. Part(1, 20) \in Seq(Phase)
      BY PartIs
    <3>2. Part(1, 20) = [i \in 1..20 |-> Script[1 + i - 1]]
      BY DEF Part
    <3>3. QED
      BY <3>1, <3>2
  <2>2. Len(Part(1, 20)) = 20 /\ \A i \in 1..20 : Part(1, 20)[i] = Script[i]
    <3>1. \A i \in 1..20 : 1 + i - 1 = i
      OBVIOUS
    <3>2. Len(Part(1, 20)) = 20
      BY <2>1
    <3>3. \A i \in 1..20 : Part(1, 20)[i] = Script[1 + i - 1]
      BY <2>1
    <3>4. QED
      BY <3>1, <3>2, <3>3
  <2>3. /\ Len(Part(1, 20)) = Len(Script)
        /\ \A i \in 1..Len(Part(1, 20)) : Part(1, 20)[i] = Script[i]
    BY <1>1, <2>2
  <2>4. Script \in Seq(Phase) /\ Part(1, 20) \in Seq(Phase)
    BY <1>1, <2>1
  <2>5. QED
    BY <2>3, <2>4, SeqEqual
<1>3. Part(6, 20) = Enable
  <2>1. Part(6, 20) \in Seq(Phase) /\ Part(6, 20) = [i \in 1..15 |-> Script[6 + i - 1]]
    BY PartIs DEF Part
  <2>2. \A i \in 1..15 : 6 + i - 1 = 5 + i
    OBVIOUS
  <2>3. \A i \in 1..15 : Part(6, 20)[i] = Enable[i]
    BY <1>1, <2>1, <2>2
  <2>4. Len(Part(6, 20)) = 15
    BY <2>1
  <2>5. /\ Len(Part(6, 20)) = Len(Enable)
        /\ \A i \in 1..Len(Part(6, 20)) : Part(6, 20)[i] = Enable[i]
    BY <1>1, <2>3, <2>4
  <2>6. Enable \in Seq(Phase) /\ Part(6, 20) \in Seq(Phase)
    BY <1>1, <2>1
  <2>7. QED
    BY <2>5, <2>6, SeqEqual
<1>4. Part(1, 5) = Disable
  <2>1. Part(1, 5) \in Seq(Phase) /\ Part(1, 5) = [i \in 1..5 |-> Script[1 + i - 1]]
    BY PartIs DEF Part
  <2>2. \A i \in 1..5 : Part(1, 5)[i] = Disable[i]
    BY <1>1, <2>1
  <2>3. Len(Part(1, 5)) = 5
    BY <2>1
  <2>4. /\ Len(Part(1, 5)) = Len(Disable)
        /\ \A i \in 1..Len(Part(1, 5)) : Part(1, 5)[i] = Disable[i]
    BY <1>1, <2>2, <2>3
  <2>5. Disable \in Seq(Phase) /\ Part(1, 5) \in Seq(Phase)
    BY <1>1, <2>1
  <2>6. QED
    BY <2>4, <2>5, SeqEqual
<1>5. Part(6, 5) = <<>>
  BY PartIs
<1>6. QED
  BY <1>2, <1>3, <1>4, <1>5 DEF Script

\* The event thread goes through its job, and each step leaves what the next
\* one needs.
LEMMA JobInvStep ==
  ASSUME FrameType, NEW k \in 1..21, NEW n \in {5, 20}, JobAt(k, n),
         EncoderInv, HandInv, Step
  PROVE  \E l \in 1..21, m \in {5, 20} : JobAt(l, m)'
<1> USE DEF queueVars, devVars, encVars, hostVars, fillVars
<1>1. /\ job = Part(k, n) /\ k \in 1..(n + 1)
      /\ "sender" \in Thread /\ "event" \in Thread
      /\ \A t \in Thread : t = "sender" \/ t = "event"
  BY DEF JobAt, Thread
<1>2. CASE EncGet \/ EncEnd \/ Disconnect
  BY <1>2, JobStays DEF EncGet, EncEnd, Disconnect, jobVars
<1>3. CASE EncPut
  <2>1. ~cut => k \notin 7..16
    BY <1>3 DEF EncPut, JobAt, EncoderInv
  <2>2. UNCHANGED <<job, vstream, late, started, cut, buf, at, idx, node>>
    BY <1>3 DEF EncPut
  <2>3. JobAt(k, n)'
    BY <2>1, <2>2 DEF JobAt, Filling
  <2>4. QED
    BY <2>3
<1>4. CASE SenderSelect \/ SenderTimeout
  <2>1. /\ UNCHANGED <<job, vstream, late, started, cut, okQ, buf, idx, node>>
        /\ at'["event"] = at["event"]
        /\ at'["sender"] \in {"select", "none"}
    BY <1>1, <1>4 DEF SenderSelect, SenderTimeout, FrameType
  <2>2. ~Filling("sender")'
    BY <2>1 DEF Filling
  <2>3. QED
    BY <2>1, <2>2, JobStays
<1>5. CASE SenderDqbuf
  <2>1. /\ UNCHANGED <<job, vstream, late, started, cut, okQ, node>> /\ vstream
        /\ at'["event"] = at["event"] /\ idx'["event"] = idx["event"]
    BY <1>1, <1>5 DEF SenderDqbuf, FrameType
  <2>2. QED
    BY <2>1, JobStays
<1>6. CASE SenderQbuf
  <2>1. vstream \/ late
    BY <1>6 DEF SenderQbuf, Filling, JobAt
  <2>2. /\ UNCHANGED <<job, vstream, late, started, cut, okQ>>
        /\ at'["event"] = at["event"] /\ idx'["event"] = idx["event"]
        /\ node'["event"] = node["event"]
    BY <1>1, <1>6 DEF SenderQbuf, FrameType
  <2>3. QED
    BY <2>1, <2>2, JobStays
<1>7. CASE \/ FillGet("sender") \/ FillRelease("sender") \/ FillZero("sender")
           \/ FillStore("sender")
  <2>1. vstream \/ late
    BY <1>7 DEF FillGet, FillRelease, FillZero, FillStore, Filling, JobAt
  <2>2. /\ UNCHANGED <<job, vstream, late, started, cut, buf, idx>>
        /\ at'["event"] = at["event"] /\ node'["event"] = node["event"]
        /\ okQ = <<>> => okQ' = <<>>
    BY <1>1, <1>7 DEF FillGet, FillRelease, FillZero, FillStore, FrameType, Rest
  <2>3. QED
    BY <2>1, <2>2, JobStays
<1>8. CASE \/ FillGet("event") \/ FillRelease("event") \/ FillZero("event")
           \/ FillStore("event")
  <2>1. k = 18
    BY <1>8, EventAt DEF FillGet, FillRelease, FillZero, FillStore
  <2>2. /\ UNCHANGED <<job, vstream, late, started, cut, buf, idx>>
        /\ at'["sender"] = at["sender"]
    BY <1>1, <1>8 DEF FillGet, FillRelease, FillZero, FillStore, FrameType
  <2>3. at'["event"] \in {"none", "get"} => node'["event"] = NoFrame
    BY <1>1, <1>8 DEF FillGet, FillRelease, FillZero, FillStore, FrameType
  <2>4. JobAt(k, n)'
    BY <2>1, <2>2, <2>3 DEF JobAt, Filling
  <2>5. QED
    BY <2>4
<1>9. CASE Off
  <2>1. /\ k \in {1, 8} /\ k <= n /\ k + 1 \in 1..21 /\ k + 1 \in 1..(n + 1)
        /\ job' = Part(k + 1, n)
    BY <1>1, <1>9, JobStep, PhaseAt DEF Off
  <2>2. /\ UNCHANGED <<started, cut, okQ, at, idx, node>>
        /\ ~vstream' /\ (~late' => ~Filling("sender")')
    BY <1>9 DEF Off, Filling
  <2>3. \A i \in Slot : ~buf'[i].queued
    BY <1>9, RecordTypes DEF Off
  <2>4. JobAt(k + 1, n)'
    BY <2>1, <2>2, <2>3 DEF JobAt
  <2>5. QED
    BY <2>1, <2>4
<1>10. CASE Stop
  <2>1. /\ k \in {2, 9, 14} /\ k <= n /\ k + 1 \in 1..21 /\ k + 1 \in 1..(n + 1)
        /\ job' = Part(k + 1, n)
    BY <1>1, <1>10, JobStep, PhaseAt DEF Stop
  <2>2. UNCHANGED <<vstream, late, started, cut, okQ, buf, at, idx, node>>
    BY <1>1, <1>10 DEF Stop
  <2>3. JobAt(k + 1, n)'
    BY <2>1, <2>2 DEF JobAt, Filling
  <2>4. QED
    BY <2>1, <2>3
<1>11. CASE Join
  <2>1. /\ k \in {3, 10, 15} /\ k <= n /\ k + 1 \in 1..21 /\ k + 1 \in 1..(n + 1)
        /\ job' = Part(k + 1, n)
    BY <1>1, <1>11, JobStep, PhaseAt DEF Join
  <2>2. UNCHANGED <<vstream, late, cut, okQ, buf, at, idx, node>> /\ ~started'
    BY <1>1, <1>11 DEF Join
  <2>3. JobAt(k + 1, n)'
    BY <2>1, <2>2 DEF JobAt, Filling
  <2>4. QED
    BY <2>1, <2>3
<1>12. CASE FlagOff
  <2>1. /\ k \in {4, 11} /\ k <= n /\ k + 1 \in 1..21 /\ k + 1 \in 1..(n + 1)
        /\ job' = Part(k + 1, n)
    BY <1>1, <1>12, JobStep, PhaseAt DEF FlagOff
  <2>2. UNCHANGED <<vstream, late, started, cut, okQ, buf, at, idx, node>>
    BY <1>1, <1>12 DEF FlagOff
  <2>3. JobAt(k + 1, n)'
    BY <2>1, <2>2 DEF JobAt, Filling
  <2>4. QED
    BY <2>1, <2>3
<1>13. CASE SetProp
  <2>1. /\ k \in {13} /\ k <= n /\ k + 1 \in 1..21 /\ k + 1 \in 1..(n + 1)
        /\ job' = Part(k + 1, n)
    BY <1>1, <1>13, JobStep, PhaseAt DEF SetProp
  <2>2. UNCHANGED <<vstream, late, started, cut, okQ, buf, at, idx, node>>
    BY <1>1, <1>13 DEF SetProp
  <2>3. JobAt(k + 1, n)'
    BY <2>1, <2>2 DEF JobAt, Filling
  <2>4. QED
    BY <2>1, <2>3
<1>14. CASE Startup
  <2>1. /\ k \in {16} /\ k <= n /\ k + 1 \in 1..21 /\ k + 1 \in 1..(n + 1)
        /\ job' = Part(k + 1, n)
    BY <1>1, <1>14, JobStep, PhaseAt DEF Startup
  <2>2. UNCHANGED <<vstream, late, cut, okQ, buf, at, idx, node>>
    BY <1>1, <1>14 DEF Startup
  <2>3. JobAt(k + 1, n)'
    BY <2>1, <2>2 DEF JobAt, Filling
  <2>4. QED
    BY <2>1, <2>3
<1>15. CASE Reqbufs
  <2>1. /\ k \in {17} /\ k <= n /\ k + 1 \in 1..21 /\ k + 1 \in 1..(n + 1)
        /\ job' = Part(k + 1, n)
    BY <1>1, <1>15, JobStep, PhaseAt DEF Reqbufs
  <2>2. UNCHANGED <<vstream, late, started, cut, okQ, at, idx, node>>
    BY <1>15 DEF Reqbufs
  <2>3. \A i \in Slot : ~buf'[i].queued
    BY <1>15, RecordTypes DEF Reqbufs
  <2>4. JobAt(k + 1, n)'
    BY <2>1, <2>2, <2>3 DEF JobAt, Filling
  <2>5. QED
    BY <2>1, <2>4
<1>16. CASE On
  <2>1. /\ k \in {19} /\ k <= n /\ k + 1 \in 1..21 /\ k + 1 \in 1..(n + 1)
        /\ job' = Part(k + 1, n)
    BY <1>1, <1>16, JobStep, PhaseAt DEF On
  <2>2. UNCHANGED <<late, started, cut, okQ, buf, at, idx, node>> /\ vstream'
    BY <1>1, <1>16 DEF On
  <2>3. JobAt(k + 1, n)'
    BY <2>1, <2>2 DEF JobAt, Filling
  <2>4. QED
    BY <2>1, <2>3
<1>17. CASE FlagOn
  <2>1. /\ k \in {20} /\ k <= n /\ k + 1 \in 1..21 /\ k + 1 \in 1..(n + 1)
        /\ job' = Part(k + 1, n)
    BY <1>1, <1>17, JobStep, PhaseAt DEF FlagOn
  <2>2. UNCHANGED <<vstream, late, started, cut, okQ, buf, at, idx, node>>
    BY <1>1, <1>17 DEF FlagOn
  <2>3. JobAt(k + 1, n)'
    BY <2>1, <2>2 DEF JobAt, Filling
  <2>4. QED
    BY <2>1, <2>3
<1>18. CASE ClearOk
  <2>1. k = 6 /\ n = 20 /\ k + 1 \in 1..21 /\ (Done => job' = Part(k + 1, n))
    <3>1. Does("clearOk")
      BY <1>18 DEF ClearOk
    <3>2. /\ k <= n /\ k \in 1..20 /\ Script[k] = "clearOk"
          /\ Done => job' = Part(k + 1, n)
      BY <1>1, <3>1, JobStep
    <3>3. k = 6
      BY <3>2, PhaseAt
    <3>4. n = 20
      BY <3>2, <3>3
    <3>5. QED
      BY <3>2, <3>3, <3>4
  <2>2. UNCHANGED <<vstream, late, started, cut, buf, at, idx>>
    BY <1>18 DEF ClearOk
  <2>3. CASE Done /\ okQ = <<>> /\ node["event"] = NoFrame /\ UNCHANGED <<okQ, node>>
    <3>1. JobAt(k + 1, n)'
      BY <2>1, <2>2, <2>3 DEF JobAt, Filling
    <3>2. QED
      BY <2>1, <3>1
  <2>4. CASE UNCHANGED job
    <3>1. JobAt(k, n)'
      BY <2>1, <2>2, <2>4 DEF JobAt, Filling
    <3>2. QED
      BY <3>1
  <2>5. QED
    BY <1>18, <2>3, <2>4 DEF ClearOk
<1>19. CASE ClearPut
  <2>1. k \in {5, 7, 12}
    <3>1. k \in 1..20 /\ Script[k] = "clear"
      BY <1>1, <1>19, JobStep DEF ClearPut
    <3>2. QED
      BY <3>1, PhaseAt
  <2>2. /\ UNCHANGED <<job, vstream, late, started, cut, buf, okQ, node>>
        /\ at'["sender"] = at["sender"] /\ at'["event"] \in {"none", "zero"}
    BY <1>1, <1>19 DEF ClearPut, FrameType
  <2>3. JobAt(k, n)'
    BY <2>1, <2>2 DEF JobAt, Filling
  <2>4. QED
    BY <2>3
<1>20. CASE ClearZero
  <2>1. k \in {5, 7, 12}
    BY <1>1, <1>20, JobStep, PhaseAt DEF ClearZero
  <2>2. /\ UNCHANGED <<job, vstream, late, started, cut, buf, okQ, node>>
        /\ at'["sender"] = at["sender"] /\ at'["event"] = "none"
    BY <1>1, <1>20 DEF ClearZero, FrameType
  <2>3. JobAt(k, n)'
    BY <2>1, <2>2 DEF JobAt, Filling
  <2>4. QED
    BY <2>3
<1>21. CASE LoopEnd
  <2>1. /\ k \in {5, 7, 12, 18} /\ k <= n /\ k + 1 \in 1..21 /\ k + 1 \in 1..(n + 1)
        /\ job' = Part(k + 1, n)
    BY <1>1, <1>21, JobStep, PhaseAt DEF LoopEnd
  <2>2. /\ UNCHANGED <<vstream, late, started, cut, buf, okQ, at, node>>
        /\ at["event"] = "none" /\ idx'["event"] = 0
    BY <1>1, <1>21 DEF LoopEnd, FrameType
  <2>3. JobAt(k + 1, n)'
    BY <2>1, <2>2 DEF JobAt, Filling
  <2>4. QED
    BY <2>1, <2>3
<1>22. CASE FillBegin
  <2>1. k = 18
    BY <1>1, <1>22, JobStep, PhaseAt DEF FillBegin
  <2>2. /\ UNCHANGED <<job, vstream, late, started, cut, buf, okQ, idx, node>>
        /\ at'["sender"] = at["sender"] /\ at["event"] = "none"
    BY <1>1, <1>22 DEF FillBegin, FrameType
  <2>3. JobAt(k, n)'
    BY <2>1, <2>2 DEF JobAt, Filling
  <2>4. QED
    BY <2>3
<1>23. CASE EventQbuf
  <2>1. k = 18
    BY <1>23, EventAt DEF EventQbuf
  <2>2. /\ UNCHANGED <<job, vstream, late, started, cut, okQ>>
        /\ at'["sender"] = at["sender"] /\ at'["event"] = "none"
        /\ node'["event"] = NoFrame
    BY <1>1, <1>23 DEF EventQbuf, FrameType
  <2>3. /\ idx["event"] \in Slot /\ idx'["event"] \in {idx["event"] + 1, Slots}
        /\ \A i \in Slot : i # idx["event"] => buf'[i] = buf[i]
    BY <1>23, EventQueue
  <2>4. \A i \in Slot : i >= idx'["event"] => i # idx["event"] /\ i >= idx["event"]
    <3>1. /\ idx["event"] \in Nat /\ idx["event"] < Slots /\ Slots \in Nat
          /\ \A i \in Slot : i \in Nat /\ i < Slots
      BY <2>3, SlotFacts
    <3>2. \A i \in Nat : i >= idx["event"] + 1 => i # idx["event"] /\ i >= idx["event"]
      BY <3>1
    <3>3. \A i \in Slot : ~(i >= Slots)
      BY <3>1
    <3>4. QED
      BY <2>3, <3>1, <3>2, <3>3
  <2>5. ~late => \A i \in Slot : (i >= idx'["event"] => ~buf'[i].queued)
    BY <2>1, <2>3, <2>4 DEF JobAt
  <2>6. JobAt(k, n)'
    BY <2>1, <2>2, <2>5 DEF JobAt, Filling
  <2>7. QED
    BY <2>6
<1>24. CASE Commit
  <2>1. UNCHANGED <<vstream, late, started, cut, okQ, buf, at, idx, node>> /\ job = <<>>
    BY <1>24 DEF Commit
  <2>2. k = n + 1
    BY <1>1, <2>1, PartIs
  <2>3. CASE env.bulk
    <3>1. job' = Part(1, 20)
      BY <1>24, <2>3, WholeScript DEF Commit
    <3>2. JobAt(1, 20)'
      BY <2>1, <2>2, <3>1 DEF JobAt, Filling
    <3>3. QED
      BY <3>2
  <2>4. CASE ~env.bulk
    <3>1. UNCHANGED jobVars
      BY <1>24, <2>1, <2>4 DEF Commit, jobVars
    <3>2. QED
      BY <3>1, JobStays
  <2>5. QED
    BY <2>3, <2>4
<1>25. CASE StreamOn
  <2>1. /\ UNCHANGED <<vstream, late, started, okQ, buf, at, idx, node>> /\ job = <<>>
        /\ job' = Part(6, 20) /\ cut' = vstream
    BY <1>25, WholeScript DEF StreamOn
  <2>2. k = n + 1
    BY <1>1, <2>1, PartIs
  <2>3. k \in {6, 21} /\ (k = 6 => n = 5) /\ (k = 21 => vstream)
    BY <2>2 DEF JobAt
  <2>4. JobAt(6, 20)'
    BY <2>1, <2>3 DEF JobAt, Filling, FrameType
  <2>5. QED
    BY <2>4
<1>26. CASE StreamOff
  <2>1. /\ UNCHANGED <<vstream, late, started, cut, okQ, buf, at, idx, node>> /\ job = <<>>
        /\ job' = Part(1, 5)
    BY <1>26, WholeScript DEF StreamOff
  <2>2. k = n + 1
    BY <1>1, <2>1, PartIs
  <2>3. JobAt(1, 5)'
    BY <2>1, <2>2 DEF JobAt, Filling
  <2>4. QED
    BY <2>3
<1>27. QED
  BY <1>1, <1>2, <1>3, <1>4, <1>5, <1>6, <1>7, <1>8, <1>9, <1>10, <1>11, <1>12,
     <1>13, <1>14, <1>15, <1>16, <1>17, <1>18, <1>19, <1>20, <1>21, <1>22,
     <1>23, <1>24, <1>25, <1>26, StepCases

-----------------------------------------------------------------------------
(* What the threads have in hand.                                          *)

\* The two threads in one slot, whichever of the two is named first.
LEMMA ClashIs ==
  ASSUME NEW t \in Thread, NEW u \in Thread, t # u
  PROVE  /\ Clash <=> /\ at[t] \in {"zero", "store"} /\ at[u] \in {"zero", "store"}
                      /\ idx[t] = idx[u]
         /\ Clash' <=> /\ at'[t] \in {"zero", "store"} /\ at'[u] \in {"zero", "store"}
                       /\ idx'[t] = idx'[u]
BY DEF Clash, Thread

\* In an orderly stream one thread at a time fills or clears a slot.
LEMMA Alone ==
  ASSUME FrameType, NEW k \in 1..21, NEW n \in {5, 20}, JobAt(k, n), Orderly,
         NEW t \in Thread, NEW u \in Thread, Filling(t), u # t
  PROVE  at[u] \in {"none", "select"}
<1>1. at[u] \in {"none", "select", "get", "release", "zero", "store", "qbuf"}
  BY DEF FrameType
<1>2. ~(Filling("sender") /\ Filling("event"))
  BY EventAt
<1>3. ~Filling(u)
  BY <1>2 DEF Thread
<1>4. QED
  BY <1>1, <1>3 DEF Filling

\* A step by which only the thread t moves, and no other slot than its own
\* changes.
LEMMA HandMove ==
  ASSUME HandInv, ~Clash, NEW t \in Thread,
         \A u \in Thread : u # t => at'[u] = at[u] /\ idx'[u] = idx[u] /\ node'[u] = node[u],
         \/ waited' = waited
         \/ /\ at[t] \in {"zero", "store"}
            /\ \A i \in Slot : i # idx[t] => waited'[i] = waited[i],
         t = "sender" /\ at'[t] \in {"none", "select", "get"} => node'[t] = NoFrame,
         t = "event" => at'[t] # "select",
         at'[t] \notin {"none", "select"} => idx'[t] \in Slot,
         at'[t] = "zero" => waited'[idx'[t]] # NoFrame,
         at'[t] = "store" => waited'[idx'[t]] = NoFrame
  PROVE  HandInv'
<1>1. at'["sender"] \in {"none", "select", "get"} => node'["sender"] = NoFrame
  BY DEF HandInv, Thread
<1>2. at'["event"] # "select"
  BY DEF HandInv, Thread
<1>3. ASSUME NEW u \in Thread
      PROVE  /\ at'[u] \notin {"none", "select"} => idx'[u] \in Slot
             /\ at'[u] = "zero" => waited'[idx'[u]] # NoFrame
             /\ at'[u] = "store" => waited'[idx'[u]] = NoFrame
  <2>1. CASE u = t
    BY <2>1
  <2>2. CASE u # t
    <3>1. at'[u] = at[u] /\ idx'[u] = idx[u]
      BY <2>2
    <3>2. /\ at[u] \notin {"none", "select"} => idx[u] \in Slot
          /\ at[u] = "zero" => waited[idx[u]] # NoFrame
          /\ at[u] = "store" => waited[idx[u]] = NoFrame
      BY DEF HandInv
    <3>3. at[u] \in {"zero", "store"} => waited'[idx[u]] = waited[idx[u]]
      BY <2>2, <3>2, ClashIs
    <3>4. QED
      BY <3>1, <3>2, <3>3
  <2>3. QED
    BY <2>1, <2>2
<1>4. QED
  BY <1>1, <1>2, <1>3 DEF HandInv

\* HandInv is inductive.
LEMMA HandStep ==
  ASSUME FrameType, NEW k \in 1..21, NEW n \in {5, 20}, JobAt(k, n),
         HandInv, Step, ~Clash
  PROVE  HandInv'
<1> USE DEF queueVars, devVars, encVars, hostVars, fillVars
<1>1. /\ job = Part(k, n) /\ k \in 1..(n + 1)
      /\ "sender" \in Thread /\ "event" \in Thread /\ "sender" # "event"
  BY DEF JobAt, Thread
<1>2. \A t \in Thread : t = "sender" \/ t = "event"
  BY DEF Thread
<1>3. ASSUME UNCHANGED <<at, idx, node, waited>> PROVE HandInv'
  BY <1>3 DEF HandInv, Clash
<1>4. CASE ClearOk
  <2>1. at["event"] = "none"
    <3>1. k = 6
      <4>1. Does("clearOk")
        BY <1>4 DEF ClearOk
      <4>2. k \in 1..20 /\ Script[k] = "clearOk"
        BY <1>1, <4>1, JobStep
      <4>3. QED
        BY <4>2, PhaseAt
    <3>2. QED
      BY <3>1 DEF JobAt
  <2>2. UNCHANGED <<at, idx, waited>>
    BY <1>4 DEF ClearOk
  <2>3. node'["sender"] = node["sender"]
    BY <1>1, <1>4 DEF ClearOk, FrameType
  <2>4. QED
    BY <1>1, <1>2, <2>1, <2>2, <2>3, HandMove
<1>5. CASE SenderSelect \/ SenderTimeout
  <2>1. /\ UNCHANGED <<idx, node, waited>> /\ at'["event"] = at["event"]
        /\ at'["sender"] \in {"none", "select"} /\ at["sender"] \in {"none", "select"}
    BY <1>1, <1>5 DEF SenderSelect, SenderTimeout, FrameType
  <2>2. node["sender"] = NoFrame
    BY <2>1 DEF HandInv
  <2>3. QED
    BY <1>1, <1>2, <2>1, <2>2, HandMove
<1>6. CASE SenderDqbuf
  <2>1. PICK i \in Slot : idx' = [idx EXCEPT !["sender"] = i]
    BY <1>6, Dequeued
  <2>2. /\ UNCHANGED <<node, waited>> /\ at' = [at EXCEPT !["sender"] = "get"]
        /\ at["sender"] = "select"
    BY <1>6, Dequeued
  <2>3. idx'["sender"] = i /\ at'["sender"] = "get"
        /\ at'["event"] = at["event"] /\ idx'["event"] = idx["event"]
    BY <1>1, <2>1, <2>2 DEF FrameType
  <2>4. node["sender"] = NoFrame
    BY <2>2 DEF HandInv
  <2>5. QED
    BY <1>1, <1>2, <2>2, <2>3, <2>4, HandMove
<1>7. CASE SenderQbuf
  <2>1. /\ at'["sender"] = "none" /\ node'["sender"] = NoFrame /\ waited' = waited
        /\ at'["event"] = at["event"] /\ idx'["event"] = idx["event"]
        /\ node'["event"] = node["event"]
    BY <1>1, <1>7 DEF SenderQbuf, FrameType
  <2>2. QED
    BY <1>1, <1>2, <2>1, HandMove
<1>8. ASSUME NEW t \in Thread, FillGet(t) PROVE HandInv'
  <2>1. /\ at[t] = "get" /\ at' = [at EXCEPT ![t] = "release"] /\ UNCHANGED <<idx, waited>>
        /\ node' = [node EXCEPT ![t] = First(okQ)]
    BY <1>8 DEF FillGet
  <2>2. /\ at'[t] = "release"
        /\ \A u \in Thread : u # t => at'[u] = at[u] /\ node'[u] = node[u]
    BY <2>1 DEF FrameType
  <2>3. idx[t] \in Slot
    BY <2>1 DEF HandInv
  <2>4. QED
    BY <2>1, <2>2, <2>3, HandMove
<1>9. ASSUME NEW t \in Thread, FillRelease(t) PROVE HandInv'
  <2>1. /\ at[t] = "release" /\ UNCHANGED <<idx, waited, node>>
        /\ at' = [at EXCEPT ![t] = IF waited[idx[t]] = NoFrame THEN "store" ELSE "zero"]
    BY <1>9 DEF FillRelease
  <2>2. /\ at'[t] = IF waited[idx[t]] = NoFrame THEN "store" ELSE "zero"
        /\ \A u \in Thread : u # t => at'[u] = at[u] /\ node'[u] = node[u]
    BY <2>1 DEF FrameType
  <2>3. idx[t] \in Slot
    BY <2>1 DEF HandInv
  <2>4. QED
    BY <2>1, <2>2, <2>3, HandMove
<1>10. ASSUME NEW t \in Thread, FillZero(t) PROVE HandInv'
  <2>1. /\ at[t] = "zero" /\ UNCHANGED <<idx, node>>
        /\ at' = [at EXCEPT ![t] = "store"]
        /\ waited' = [waited EXCEPT ![idx[t]] = NoFrame]
    BY <1>10 DEF FillZero
  <2>2. /\ at'[t] = "store"
        /\ \A u \in Thread : u # t => at'[u] = at[u] /\ node'[u] = node[u]
    BY <2>1 DEF FrameType
  <2>3. idx[t] \in Slot
    BY <2>1 DEF HandInv
  <2>4. waited'[idx[t]] = NoFrame /\ \A i \in Slot : i # idx[t] => waited'[i] = waited[i]
    BY <2>1, <2>3 DEF FrameType
  <2>5. QED
    BY <2>1, <2>2, <2>3, <2>4, HandMove
<1>11. ASSUME NEW t \in Thread, FillStore(t) PROVE HandInv'
  <2>1. at[t] = "store" /\ UNCHANGED <<idx, node>>
    BY <1>11 DEF FillStore
  <2>2. idx[t] \in Slot
    BY <2>1 DEF HandInv
  <2>3. CASE /\ node[t] # NoFrame /\ waited' = [waited EXCEPT ![idx[t]] = node[t]]
             /\ at' = [at EXCEPT ![t] = "qbuf"]
    <3>1. /\ at'[t] = "qbuf"
          /\ \A u \in Thread : u # t => at'[u] = at[u]
          /\ \A i \in Slot : i # idx[t] => waited'[i] = waited[i]
      BY <2>1, <2>2, <2>3 DEF FrameType
    <3>2. QED
      BY <2>1, <2>2, <3>1, HandMove
  <2>4. CASE /\ node[t] = NoFrame /\ waited' = waited
             /\ \E a \in {"get", "qbuf"} : at' = [at EXCEPT ![t] = a]
    <3>1. /\ at'[t] \in {"get", "qbuf"}
          /\ \A u \in Thread : u # t => at'[u] = at[u]
      BY <2>1, <2>2, <2>4 DEF FrameType
    <3>2. QED
      BY <2>1, <2>2, <2>4, <3>1, HandMove
  <2>5. QED
    BY <1>11, <2>3, <2>4 DEF FillStore
<1>12. CASE ClearPut
  <2>1. /\ UNCHANGED <<waited, node>> /\ at["event"] = "none"
        /\ idx["event"] \in Slot
        /\ \/ /\ waited[idx["event"]] # NoFrame /\ idx' = idx
              /\ at' = [at EXCEPT !["event"] = "zero"]
           \/ /\ at' = at /\ idx'["sender"] = idx["sender"]
    BY <1>1, <1>12, SlotFacts DEF ClearPut, FrameType
  <2>2. CASE waited[idx["event"]] # NoFrame /\ idx' = idx /\ at' = [at EXCEPT !["event"] = "zero"]
    <3>1. at'["event"] = "zero" /\ at'["sender"] = at["sender"]
      BY <1>1, <2>2 DEF FrameType
    <3>2. QED
      BY <1>1, <1>2, <2>1, <2>2, <3>1, HandMove
  <2>3. CASE at' = at /\ idx'["sender"] = idx["sender"]
    BY <1>1, <1>2, <2>1, <2>3, HandMove
  <2>4. QED
    BY <2>1, <2>2, <2>3
<1>13. CASE ClearZero
  <2>1. /\ at["event"] = "zero" /\ UNCHANGED node
        /\ waited' = [waited EXCEPT ![idx["event"]] = NoFrame]
        /\ at'["event"] = "none" /\ at'["sender"] = at["sender"]
        /\ idx'["sender"] = idx["sender"]
    BY <1>1, <1>13 DEF ClearZero, FrameType
  <2>2. \A i \in Slot : i # idx["event"] => waited'[i] = waited[i]
    BY <2>1 DEF FrameType
  <2>3. QED
    BY <1>1, <1>2, <2>1, <2>2, HandMove
<1>14. CASE LoopEnd
  <2>1. /\ at["event"] = "none" /\ UNCHANGED <<at, node, waited>>
        /\ idx'["sender"] = idx["sender"]
    BY <1>1, <1>14 DEF LoopEnd, FrameType
  <2>2. QED
    BY <1>1, <1>2, <2>1, HandMove
<1>15. CASE FillBegin
  <2>1. /\ UNCHANGED <<waited, node, idx>> /\ at'["event"] = "get"
        /\ at'["sender"] = at["sender"] /\ idx["event"] \in Slot
    BY <1>1, <1>15, SlotFacts DEF FillBegin, FrameType
  <2>2. QED
    BY <1>1, <1>2, <2>1, HandMove
<1>16. CASE EventQbuf
  <2>1. /\ at'["event"] = "none" /\ at'["sender"] = at["sender"]
        /\ node'["sender"] = node["sender"] /\ idx'["sender"] = idx["sender"]
        /\ waited' = waited
    BY <1>1, <1>16 DEF EventQbuf, FrameType
  <2>2. QED
    BY <1>1, <1>2, <2>1, HandMove
<1>17. QED
  BY <1>3, <1>4, <1>5, <1>6, <1>7, <1>8, <1>9, <1>10, <1>11, <1>12, <1>13, <1>14,
     <1>15, <1>16, StepCases
     DEF EncGet, EncPut, EncEnd, Off, Reqbufs, Stop, Join, FlagOff, SetProp, Startup, On,
         FlagOn, Commit, StreamOn, StreamOff, Disconnect

-----------------------------------------------------------------------------
(* Each node stays in one place.                                           *)

\* A node that leaves free_queue or ok_queue, or enters it.
LEMMA QueueMoves ==
  ASSUME NEW q \in Seq(Frame), NEW f \in Frame
  PROVE  /\ QueueAt(q, f) \in Nat
         /\ \A e \in Frame : QueueAt(Append(q, e), f) = QueueAt(q, f) + (IF f = e THEN 1 ELSE 0)
         /\ q # <<>> => /\ Head(q) \in Frame
                        /\ QueueAt(Tail(q), f) = QueueAt(q, f) - (IF f = Head(q) THEN 1 ELSE 0)
<1>1. QueueAt(q, f) \in Nat
  BY QueueAtType
<1>2. \A e \in Frame : QueueAt(Append(q, e), f) = QueueAt(q, f) + (IF f = e THEN 1 ELSE 0)
  BY QueueAtAppend
<1>3. ASSUME q # <<>>
      PROVE  /\ Head(q) \in Frame
             /\ QueueAt(Tail(q), f) = QueueAt(q, f) - (IF f = Head(q) THEN 1 ELSE 0)
  BY <1>3, QueueAtTail, HeadTailProperties
<1>4. QED
  BY <1>1, <1>2, <1>3

\* A node is in a hand some number of times.
LEMMA HandAtType ==
  ASSUME NEW f
  PROVE  HandAt(f) \in Nat
BY HandAtIs

\* A step by which no slot begins or ends to be zeroed.
LEMMA WaitStays ==
  ASSUME NEW f, waited' = waited,
         \A t \in Thread : at[t] = "zero" \/ at'[t] = "zero" =>
           at[t] = "zero" /\ at'[t] = "zero" /\ idx'[t] = idx[t]
  PROVE  WaitAt(f)' = WaitAt(f)
<1>1. \A i \in Slot : Zeroing(i)' <=> Zeroing(i)
  BY DEF Zeroing
<1>2. QED
  BY <1>1, WaitSame

\* A step by which no node moves.
LEMMA PlacesStay ==
  ASSUME NEW f, UNCHANGED <<freeQ, okQ, waited, enc>>,
         \A t \in Thread :
           /\ InHand(t)' = InHand(t)
           /\ at[t] = "zero" \/ at'[t] = "zero" =>
                at[t] = "zero" /\ at'[t] = "zero" /\ idx'[t] = idx[t]
  PROVE  Places(f)' = Places(f)
<1>1. WaitAt(f)' = WaitAt(f)
  BY WaitStays
<1>2. HandAt(f)' = HandAt(f)
  BY HandAtIs DEF Thread
<1>3. QED
  BY <1>1, <1>2, PlacesAre

\* A node in a hand, where the other hand stays as it is.
LEMMA HandMoves ==
  ASSUME NEW f \in Frame, NEW t \in Thread,
         \A u \in Thread : u # t => InHand(u)' = InHand(u)
  PROVE  /\ HandAt(f) \in Nat /\ HandAt(f)' \in Nat
         /\ HandAt(f)' + (IF InHand(t) = f THEN 1 ELSE 0)
              = HandAt(f) + (IF InHand(t)' = f THEN 1 ELSE 0)
<1>1. CASE t = "sender"
  <2>1. InHand("event")' = InHand("event")
    BY <1>1 DEF Thread
  <2>2. QED
    BY <1>1, <2>1, HandAtIs
<1>2. CASE t = "event"
  <2>1. InHand("sender")' = InHand("sender")
    BY <1>2 DEF Thread
  <2>2. QED
    BY <1>2, <2>1, HandAtIs
<1>3. QED
  BY <1>1, <1>2 DEF Thread

\* The slot j begins to be zeroed, its node is put into free_queue.
LEMMA ReleaseMoves ==
  ASSUME FrameType, NEW f \in Frame, NEW t \in Thread, NEW u \in Thread, u # t,
         \A v \in Thread : v = t \/ v = u,
         at[t] # "zero", at[t] # "qbuf", at[u] = "zero" => idx[u] # idx[t],
         idx[t] \in Slot, waited[idx[t]] # NoFrame,
         freeQ' = Append(freeQ, waited[idx[t]]), at' = [at EXCEPT ![t] = "zero"],
         UNCHANGED <<okQ, waited, idx, node, enc>>
  PROVE  Places(f)' = Places(f)
<1> DEFINE w == waited[idx[t]]
<1>1. w \in Frame
  BY DEF FrameType
<1>2. QueueAt(freeQ', f) = QueueAt(freeQ, f) + (IF f = w THEN 1 ELSE 0) /\ QueueAt(freeQ, f) \in Nat
  BY <1>1, QueueMoves DEF FrameType
<1>3. at'[t] = "zero" /\ at'[u] = at[u]
  BY DEF FrameType
<1>4. /\ ~Zeroing(idx[t]) /\ Zeroing(idx[t])'
      /\ \A i \in Slot : i # idx[t] => (Zeroing(i)' <=> Zeroing(i))
  BY <1>3 DEF Zeroing
<1>5. WaitAt(f) \in Nat /\ WaitAt(f)' \in Nat
      /\ WaitAt(f)' + (IF f = w THEN 1 ELSE 0) = WaitAt(f)
  <2>1. \A i \in Slot : i # idx[t] =>
          ((waited'[i] = f /\ ~Zeroing(i)') <=> (waited[i] = f /\ ~Zeroing(i)))
    BY <1>4
  <2>2. /\ WaitAt(f) \in Nat /\ WaitAt(f)' \in Nat
        /\ WaitAt(f)' + (IF waited[idx[t]] = f /\ ~Zeroing(idx[t]) THEN 1 ELSE 0)
             = WaitAt(f) + (IF waited'[idx[t]] = f /\ ~Zeroing(idx[t])' THEN 1 ELSE 0)
    BY <2>1, WaitChange
  <2>3. Zeroing(idx[t])' /\ ~Zeroing(idx[t])
    BY <1>4
  <2>4. QED
    BY <2>2, <2>3
<1>6. HandAt(f)' = HandAt(f)
  <2>1. \A v \in Thread : InHand(v)' = InHand(v)
    BY <1>3 DEF InHand
  <2>2. QED
    BY <2>1, HandAtIs DEF Thread
<1> HIDE DEF w
<1>7. okQ' = okQ /\ enc' = enc
  OBVIOUS
<1>8. QueueAt(freeQ', f) + WaitAt(f)' = QueueAt(freeQ, f) + WaitAt(f)
  BY <1>2, <1>5
<1>9. QueueAt(okQ, f) \in Nat /\ HandAt(f) \in Nat
  BY QueueMoves, HandAtType DEF FrameType
<1>10. QED
  BY <1>2, <1>5, <1>6, <1>7, <1>8, <1>9, PlacesAre

\* The slot is zeroed.
LEMMA ZeroMoves ==
  ASSUME FrameType, NEW f \in Frame, NEW t \in Thread, NEW u \in Thread, u # t,
         \A v \in Thread : v = t \/ v = u,
         at[t] = "zero", at[u] = "zero" => idx[u] # idx[t], idx[t] \in Slot,
         waited' = [waited EXCEPT ![idx[t]] = NoFrame],
         at'[t] \in {"store", "none"}, at'[u] = at[u], idx'[u] = idx[u],
         UNCHANGED <<freeQ, okQ, node, enc>>
  PROVE  Places(f)' = Places(f)
<1>1. WaitAt(f)' = WaitAt(f)
  <2>1. Zeroing(idx[t])
    BY DEF Zeroing
  <2>2. \A i \in Slot : i # idx[t] => (Zeroing(i)' <=> Zeroing(i))
    BY DEF Zeroing
  <2>3. \A i \in Slot : waited'[i] = IF i = idx[t] THEN NoFrame ELSE waited[i]
    BY DEF FrameType
  <2>4. f # NoFrame
    BY UvcAssumption
  <2>5. QED
    BY <2>1, <2>2, <2>3, <2>4, WaitSame
<1>2. HandAt(f)' = HandAt(f)
  <2>1. \A v \in Thread : InHand(v)' = InHand(v)
    BY DEF InHand
  <2>2. QED
    BY <2>1, HandAtIs DEF Thread
<1>3. QED
  BY <1>1, <1>2, PlacesAre

\* No step adds a place to a node or takes one from it, where the two threads
\* do not meet in a slot.
LEMMA KeptStep ==
  ASSUME FrameType, NEW k \in 1..21, NEW n \in {5, 20}, JobAt(k, n),
         HandInv, Step, ~Clash, ~Clash', NEW f \in Frame
  PROVE  Places(f)' = Places(f)
<1> USE DEF queueVars, devVars, encVars, hostVars, fillVars
<1>1. /\ job = Part(k, n) /\ k \in 1..(n + 1)
      /\ "sender" \in Thread /\ "event" \in Thread /\ "sender" # "event"
      /\ \A t \in Thread : t = "sender" \/ t = "event"
  BY DEF JobAt, Thread
<1>2. f # NoFrame /\ NoFrame \notin Frame
  BY UvcAssumption
<1>3. /\ freeQ \in Seq(Frame) /\ okQ \in Seq(Frame)
      /\ QueueAt(freeQ, f) \in Nat /\ QueueAt(okQ, f) \in Nat
      /\ WaitAt(f) \in Nat /\ HandAt(f) \in Nat
  <2>1. freeQ \in Seq(Frame) /\ okQ \in Seq(Frame)
    BY DEF FrameType
  <2>2. QueueAt(freeQ, f) \in Nat /\ QueueAt(okQ, f) \in Nat
    BY <2>1, QueueMoves
  <2>3. WaitAt(f) \in Nat /\ HandAt(f) \in Nat
    BY WaitType, HandAtType
  <2>4. QED
    BY <2>1, <2>2, <2>3
<1>4. CASE EncGet
  <2>1. /\ freeQ # <<>> /\ enc = NoFrame /\ enc' = Head(freeQ) /\ freeQ' = Tail(freeQ)
        /\ UNCHANGED <<okQ, waited, at, idx, node>>
    BY <1>4 DEF EncGet
  <2>2. WaitAt(f)' = WaitAt(f) /\ HandAt(f)' = HandAt(f)
    BY <2>1, WaitStays, HandAtIs DEF InHand
  <2>3. QueueAt(freeQ', f) = QueueAt(freeQ, f) - (IF f = enc' THEN 1 ELSE 0)
    BY <1>3, <2>1, QueueMoves
  <2>4. QED
    BY <1>2, <1>3, <2>1, <2>2, <2>3, PlacesAre
<1>5. CASE EncPut
  <2>1. /\ enc \in Frame /\ enc' = NoFrame /\ okQ' = Append(okQ, enc)
        /\ UNCHANGED <<freeQ, waited, at, idx, node>>
    BY <1>5 DEF EncPut, FrameType
  <2>2. WaitAt(f)' = WaitAt(f) /\ HandAt(f)' = HandAt(f)
    BY <2>1, WaitStays, HandAtIs DEF InHand
  <2>3. QueueAt(okQ', f) = QueueAt(okQ, f) + (IF f = enc THEN 1 ELSE 0)
    BY <1>3, <2>1, QueueMoves
  <2>4. QED
    BY <1>2, <1>3, <2>1, <2>2, <2>3, PlacesAre
<1>6. CASE SenderSelect \/ SenderTimeout \/ FillBegin
  <2>1. /\ UNCHANGED <<freeQ, okQ, waited, enc, idx, node>>
        /\ \A t \in Thread : at'[t] = at[t] \/ ({at[t], at'[t]} \subseteq {"none", "select", "get"})
    BY <1>1, <1>6 DEF SenderSelect, SenderTimeout, FillBegin, FrameType
  <2>2. QED
    BY <2>1, PlacesStay DEF InHand
<1>7. CASE SenderDqbuf
  <2>1. /\ UNCHANGED <<freeQ, okQ, waited, enc, node>>
        /\ at["sender"] = "select" /\ at'["sender"] = "get"
        /\ at'["event"] = at["event"] /\ idx'["event"] = idx["event"]
    BY <1>1, <1>7 DEF SenderDqbuf, FrameType
  <2>2. QED
    BY <1>1, <2>1, PlacesStay DEF InHand
<1>8. CASE SenderQbuf
  <2>1. /\ UNCHANGED <<freeQ, okQ, waited, enc>>
        /\ at["sender"] = "qbuf" /\ at'["sender"] = "none" /\ node'["sender"] = NoFrame
        /\ at'["event"] = at["event"] /\ idx'["event"] = idx["event"]
        /\ node'["event"] = node["event"]
    BY <1>1, <1>8 DEF SenderQbuf, FrameType
  <2>2. QED
    BY <1>1, <2>1, PlacesStay DEF InHand
<1>9. CASE EventQbuf
  <2>1. /\ UNCHANGED <<freeQ, okQ, waited, enc>>
        /\ at["event"] = "qbuf" /\ at'["event"] = "none" /\ node'["event"] = NoFrame
        /\ at'["sender"] = at["sender"] /\ idx'["sender"] = idx["sender"]
        /\ node'["sender"] = node["sender"]
    BY <1>1, <1>9 DEF EventQbuf, FrameType
  <2>2. QED
    BY <1>1, <2>1, PlacesStay DEF InHand
<1>10. CASE LoopEnd
  <2>1. /\ UNCHANGED <<freeQ, okQ, waited, enc, at, node>> /\ at["event"] = "none"
        /\ idx'["sender"] = idx["sender"]
    BY <1>1, <1>10 DEF LoopEnd, FrameType
  <2>2. QED
    BY <1>1, <2>1, PlacesStay DEF InHand
<1>11. ASSUME NEW t \in Thread, FillGet(t) PROVE Places(f)' = Places(f)
  <2>1. /\ at[t] = "get" /\ at'[t] = "release" /\ node' = [node EXCEPT ![t] = First(okQ)]
        /\ okQ' = Rest(okQ) /\ UNCHANGED <<freeQ, waited, enc, idx>>
        /\ \A u \in Thread : u # t => at'[u] = at[u] /\ node'[u] = node[u]
    BY <1>11 DEF FillGet, FrameType
  <2>2. node[t] = NoFrame
    <3>1. CASE t = "sender"
      BY <2>1, <3>1 DEF HandInv
    <3>2. CASE t = "event"
      BY <2>1, <3>2 DEF JobAt
    <3>3. QED
      BY <1>1, <3>1, <3>2
  <2>3. WaitAt(f)' = WaitAt(f)
    BY <2>1, WaitStays
  <2>4. InHand(t) = NoFrame /\ InHand(t)' = First(okQ)
    BY <2>1, <2>2 DEF InHand, FrameType
  <2>5. HandAt(f)' = HandAt(f) + (IF First(okQ) = f THEN 1 ELSE 0)
    <3>1. \A u \in Thread : u # t => InHand(u)' = InHand(u)
      BY <2>1 DEF InHand
    <3>2. QED
      BY <1>2, <2>4, <3>1, HandMoves
  <2>6. QueueAt(okQ', f) = QueueAt(okQ, f) - (IF First(okQ) = f THEN 1 ELSE 0)
    <3>1. CASE okQ = <<>>
      BY <1>2, <1>3, <2>1, <3>1 DEF First, Rest
    <3>2. CASE okQ # <<>>
      BY <1>3, <2>1, <3>2, QueueMoves DEF First, Rest
    <3>3. QED
      BY <3>1, <3>2
  <2>7. QED
    BY <1>3, <2>1, <2>3, <2>5, <2>6, PlacesAre
<1>12. ASSUME NEW t \in Thread, FillRelease(t) PROVE Places(f)' = Places(f)
  <2>1. /\ at[t] = "release" /\ UNCHANGED <<okQ, waited, idx, node, enc>>
        /\ \/ /\ waited[idx[t]] = NoFrame
              /\ at' = [at EXCEPT ![t] = "store"] /\ freeQ' = freeQ
           \/ /\ waited[idx[t]] # NoFrame
              /\ at' = [at EXCEPT ![t] = "zero"] /\ freeQ' = Append(freeQ, waited[idx[t]])
    BY <1>12 DEF FillRelease
  <2>2. PICK u \in Thread : u # t /\ \A v \in Thread : v = t \/ v = u
    BY <1>1
  <2>4. CASE at' = [at EXCEPT ![t] = "store"] /\ freeQ' = freeQ
    <3>1. at'[t] = "store" /\ at'[u] = at[u]
      BY <2>2, <2>4 DEF FrameType
    <3>2. QED
      BY <2>1, <2>2, <2>4, <3>1, PlacesStay DEF InHand
  <2>5. CASE /\ waited[idx[t]] # NoFrame
             /\ at' = [at EXCEPT ![t] = "zero"] /\ freeQ' = Append(freeQ, waited[idx[t]])
    <3>1. idx[t] \in Slot
      BY <2>1 DEF HandInv
    <3>2. at'[t] = "zero" /\ at'[u] = at[u]
      BY <2>2, <2>5 DEF FrameType
    <3>3. at[u] = "zero" => idx[u] # idx[t]
      BY <2>1, <2>2, <3>2, ClashIs
    <3>4. QED
      BY <2>1, <2>2, <2>5, <3>1, <3>3, ReleaseMoves
  <2>6. QED
    BY <2>1, <2>4, <2>5
<1>13. ASSUME NEW t \in Thread, FillZero(t) PROVE Places(f)' = Places(f)
  <2>1. /\ at[t] = "zero" /\ UNCHANGED <<freeQ, okQ, idx, node, enc>>
        /\ at' = [at EXCEPT ![t] = "store"]
        /\ waited' = [waited EXCEPT ![idx[t]] = NoFrame]
    BY <1>13 DEF FillZero
  <2>2. PICK u \in Thread : u # t /\ \A v \in Thread : v = t \/ v = u
    BY <1>1
  <2>3. (at[u] = "zero" => idx[u] # idx[t]) /\ idx[t] \in Slot
    BY <2>1, <2>2, ClashIs DEF HandInv
  <2>4. at'[t] = "store" /\ at'[u] = at[u]
    BY <2>1, <2>2 DEF FrameType
  <2>5. QED
    BY <2>1, <2>2, <2>3, <2>4, ZeroMoves
<1>14. ASSUME NEW t \in Thread, FillStore(t) PROVE Places(f)' = Places(f)
  <2>1. /\ at[t] = "store" /\ UNCHANGED <<freeQ, okQ, idx, node, enc>>
    BY <1>14 DEF FillStore
  <2>2. /\ idx[t] \in Slot /\ waited[idx[t]] = NoFrame
    BY <2>1 DEF HandInv
  <2>3. PICK u \in Thread : u # t /\ \A v \in Thread : v = t \/ v = u
    BY <1>1
  <2>4. at[u] = "zero" => idx[u] # idx[t]
    BY <2>1, <2>3, ClashIs
  <2>5. CASE /\ node[t] # NoFrame /\ waited' = [waited EXCEPT ![idx[t]] = node[t]]
             /\ at' = [at EXCEPT ![t] = "qbuf"]
    <3>1. at'[t] = "qbuf" /\ at'[u] = at[u]
      BY <2>3, <2>5 DEF FrameType
    <3>2. /\ \A i \in Slot : Zeroing(i)' <=> Zeroing(i)
          /\ ~Zeroing(idx[t]) /\ ~Zeroing(idx[t])'
      BY <2>1, <2>3, <2>4, <3>1 DEF Zeroing
    <3>3. /\ waited'[idx[t]] = node[t]
          /\ \A i \in Slot : i # idx[t] => waited'[i] = waited[i]
      BY <2>2, <2>5 DEF FrameType
    <3>4. WaitAt(f)' = WaitAt(f) + (IF node[t] = f THEN 1 ELSE 0)
      <4>1. PICK j \in Slot : j = idx[t]
        BY <2>2
      <4>2. \A i \in Slot : i # j =>
              ((waited'[i] = f /\ ~Zeroing(i)') <=> (waited[i] = f /\ ~Zeroing(i)))
        BY <3>2, <3>3, <4>1
      <4>3. /\ WaitAt(f)' \in Nat
            /\ WaitAt(f)' + (IF waited[j] = f /\ ~Zeroing(j) THEN 1 ELSE 0)
                 = WaitAt(f) + (IF waited'[j] = f /\ ~Zeroing(j)' THEN 1 ELSE 0)
        BY <4>2, WaitChange
      <4>4. ~(waited[j] = f /\ ~Zeroing(j))
        BY <1>2, <2>2, <4>1
      <4>5. waited'[j] = f /\ ~Zeroing(j)' <=> node[t] = f
        BY <3>2, <3>3, <4>1
      <4>6. QED
        BY <1>3, <4>3, <4>4, <4>5
    <3>5. HandAt(f) = HandAt(f)' + (IF node[t] = f THEN 1 ELSE 0) /\ HandAt(f)' \in Nat
      <4>1. InHand(t) = node[t] /\ InHand(t)' = NoFrame
        BY <2>1, <3>1 DEF InHand
      <4>2. \A v \in Thread : v # t => InHand(v)' = InHand(v)
        BY <2>1, <2>3, <3>1 DEF InHand
      <4>3. QED
        BY <1>2, <4>1, <4>2, HandMoves
    <3>6. QED
      BY <1>3, <2>1, <3>4, <3>5, PlacesAre
  <2>6. CASE node[t] = NoFrame /\ waited' = waited
             /\ \E a \in {"get", "qbuf"} : at' = [at EXCEPT ![t] = a]
    <3>1. at'[t] \in {"get", "qbuf"} /\ at'[u] = at[u]
      BY <2>3, <2>6 DEF FrameType
    <3>2. QED
      BY <2>1, <2>3, <2>6, <3>1, PlacesStay DEF InHand
  <2>7. QED
    BY <1>14, <2>5, <2>6 DEF FillStore
<1>15. CASE ClearOk
  <2>1. at["event"] = "none"
    <3>1. k \in 1..20 /\ Script[k] = "clearOk"
      <4>1. Does("clearOk")
        BY <1>15 DEF ClearOk
      <4>2. QED
        BY <1>1, <4>1, JobStep
    <3>2. k = 6
      BY <3>1, PhaseAt
    <3>3. QED
      BY <3>2 DEF JobAt
  <2>2. /\ UNCHANGED <<waited, enc, at, idx>> /\ WaitAt(f)' = WaitAt(f)
        /\ node'["sender"] = node["sender"]
    <3>1. UNCHANGED <<waited, enc, at, idx>>
      BY <1>15 DEF ClearOk
    <3>2. WaitAt(f)' = WaitAt(f)
      BY <3>1, WaitStays
    <3>3. node'["sender"] = node["sender"]
      BY <1>1, <1>15 DEF ClearOk, FrameType
    <3>4. QED
      BY <3>1, <3>2, <3>3
  <2>3. /\ InHand("event") = node["event"] /\ InHand("event")' = node'["event"]
        /\ InHand("sender")' = InHand("sender")
    BY <2>1, <2>2 DEF InHand
  <2>4. /\ HandAt(f)' \in Nat
        /\ HandAt(f)' + (IF node["event"] = f THEN 1 ELSE 0)
             = HandAt(f) + (IF node'["event"] = f THEN 1 ELSE 0)
    BY <1>1, <2>3, HandMoves
  <2>5. CASE UNCHANGED <<queueVars, node>>
    BY <1>3, <2>2, <2>4, <2>5, PlacesAre
  <2>6. CASE /\ node["event"] = NoFrame /\ okQ # <<>> /\ freeQ' = freeQ
             /\ node' = [node EXCEPT !["event"] = Head(okQ)] /\ okQ' = Tail(okQ)
    <3>1. node'["event"] = Head(okQ)
      BY <1>1, <2>6 DEF FrameType
    <3>2. QueueAt(okQ', f) = QueueAt(okQ, f) - (IF f = Head(okQ) THEN 1 ELSE 0)
      BY <1>3, <2>6, QueueMoves
    <3>3. HandAt(f)' = HandAt(f) + (IF f = Head(okQ) THEN 1 ELSE 0)
      BY <1>2, <1>3, <2>4, <2>6, <3>1
    <3>4. QueueAt(okQ', f) + HandAt(f)' = QueueAt(okQ, f) + HandAt(f)
      BY <1>3, <3>2, <3>3
    <3>5. freeQ' = freeQ /\ enc' = enc
      BY <2>2, <2>6
    <3>6. QueueAt(okQ', f) \in Int /\ HandAt(f)' \in Int
      BY <1>3, <3>2, <3>3
    <3>7. QED
      BY <1>3, <2>2, <3>4, <3>5, <3>6, PlacesAre
  <2>7. CASE /\ node["event"] # NoFrame /\ okQ' = okQ
             /\ freeQ' = Append(freeQ, node["event"])
             /\ node' = [node EXCEPT !["event"] = NoFrame]
    <3>1. node'["event"] = NoFrame /\ node["event"] \in Frame
      BY <1>1, <2>7 DEF FrameType
    <3>2. QueueAt(freeQ', f) = QueueAt(freeQ, f) + (IF f = node["event"] THEN 1 ELSE 0)
      BY <1>3, <2>7, <3>1, QueueMoves
    <3>3. QED
      BY <1>2, <1>3, <2>2, <2>4, <2>7, <3>1, <3>2, PlacesAre
  <2>8. QED
    BY <1>15, <2>5, <2>6, <2>7 DEF ClearOk
<1>16. CASE ClearPut \/ ClearZero
  <2>1. CASE ClearZero
    <3>1. /\ at["event"] = "zero" /\ UNCHANGED <<freeQ, okQ, node, enc>>
          /\ waited' = [waited EXCEPT ![idx["event"]] = NoFrame]
          /\ at'["event"] = "none" /\ at'["sender"] = at["sender"]
          /\ idx'["sender"] = idx["sender"]
      BY <1>1, <2>1 DEF ClearZero, FrameType
    <3>2. (at["sender"] = "zero" => idx["sender"] # idx["event"]) /\ idx["event"] \in Slot
      BY <1>1, <3>1, ClashIs DEF HandInv
    <3>3. QED
      BY <1>1, <3>1, <3>2, ZeroMoves
  <2>2. CASE ClearPut
    <3>1. /\ at["event"] = "none" /\ idx["event"] \in Slot
          /\ UNCHANGED <<okQ, waited, node, enc>>
          /\ \/ /\ waited[idx["event"]] # NoFrame /\ idx' = idx
                /\ freeQ' = Append(freeQ, waited[idx["event"]])
                /\ at' = [at EXCEPT !["event"] = "zero"]
             \/ UNCHANGED <<freeQ, at>> /\ idx'["sender"] = idx["sender"]
      BY <1>1, <2>2, SlotFacts DEF ClearPut, FrameType
    <3>2. CASE UNCHANGED <<freeQ, at>> /\ idx'["sender"] = idx["sender"]
      BY <1>1, <3>1, <3>2, PlacesStay DEF InHand
    <3>3. CASE /\ waited[idx["event"]] # NoFrame /\ idx' = idx
               /\ freeQ' = Append(freeQ, waited[idx["event"]])
               /\ at' = [at EXCEPT !["event"] = "zero"]
      <4>1. at'["event"] = "zero" /\ at'["sender"] = at["sender"]
        BY <1>1, <3>3 DEF FrameType
      <4>2. at["sender"] = "zero" => idx["sender"] # idx["event"]
        BY <1>1, <3>3, <4>1, ClashIs
      <4>3. QED
        BY <1>1, <3>1, <3>3, <4>2, ReleaseMoves
    <3>4. QED
      BY <3>1, <3>2, <3>3
  <2>3. QED
    BY <1>16, <2>1, <2>2
<1>17. ASSUME UNCHANGED <<freeQ, okQ, waited, enc, at, idx, node>>
       PROVE  Places(f)' = Places(f)
  BY <1>17, PlacesStay DEF InHand
<1>18. QED
  BY <1>4, <1>5, <1>6, <1>7, <1>8, <1>9, <1>10, <1>11, <1>12, <1>13, <1>14, <1>15,
     <1>16, <1>17, StepCases
     DEF Off, Stop, Join, FlagOff, SetProp, Startup, Reqbufs, On, FlagOn, Commit,
         StreamOn, StreamOff, Disconnect, EncEnd

-----------------------------------------------------------------------------
(* What the driver's buffers were queued with.                             *)

\* What a step that moves only the thread t leaves of a buffer's node.
LEMMA BufMove ==
  ASSUME FrameType, NEW k \in 1..21, NEW n \in {5, 20}, JobAt(k, n), HandInv, BufInv,
         Orderly, NEW t \in Thread, Filling(t),
         \A u \in Thread : u # t => at'[u] = at[u] /\ node'[u] = node[u] /\ idx'[u] = idx[u],
         buf' = buf, \A i \in Slot : i # idx[t] => waited'[i] = waited[i],
         Filling(t)' => idx'[t] = idx[t],
         at'[t] = "qbuf" => waited'[idx[t]] = node'[t]
  PROVE  BufInv'
<1>1. idx[t] \in Slot /\ ~buf[idx[t]].queued
  BY DEF HandInv, BufInv, Filling
<1>2. ASSUME NEW u \in Thread, u # t PROVE ~Filling(u)'
  BY <1>2, Alone DEF Filling
<1>3. ASSUME NEW u \in Thread
      PROVE  /\ at'[u] = "qbuf" => waited'[idx'[u]] = node'[u]
             /\ Filling(u)' => ~buf'[idx'[u]].queued
  BY <1>1, <1>2 DEF Filling
<1>4. \A i \in Slot : buf'[i].queued /\ buf'[i].fresh =>
                        waited'[i] = buf'[i].node /\ buf'[i].node # NoFrame
  BY <1>1 DEF BufInv
<1>5. QED
  BY <1>3, <1>4 DEF BufInv

\* A step after which nothing is filled and nothing queued.
LEMMA Restart ==
  ASSUME FrameType, NEW k \in 1..21, NEW n \in {5, 20}, JobAt(k, n), HandInv,
         Orderly', Off \/ StreamOn
  PROVE  /\ \A t \in Thread : ~Filling(t)'
         /\ \A i \in Slot : ~buf'[i].queued
<1>1. job = Part(k, n) /\ k \in 1..(n + 1)
  BY DEF JobAt
<1>2. CASE Off
  <2>1. k \in {1, 8}
    BY <1>1, <1>2, JobStep, PhaseAt DEF Off
  <2>2. at' = at /\ at["sender"] \in {"none", "select"} /\ \A i \in Slot : buf'[i] = Idle
    BY <1>2 DEF Off, Orderly, fillVars
  <2>3. at["event"] = "none"
    BY <2>1 DEF JobAt
  <2>4. QED
    BY <2>2, <2>3, RecordTypes DEF Filling, Thread
<1>3. CASE StreamOn
  <2>1. job = <<>> /\ cut' = vstream /\ UNCHANGED <<at, late, buf>>
    BY <1>3 DEF StreamOn, devVars, fillVars
  <2>2. ~vstream /\ ~late
    BY <2>1 DEF Orderly
  <2>3. k = n + 1
    BY <1>1, <2>1, PartIs
  <2>4. k = 6
    BY <2>2, <2>3 DEF JobAt
  <2>5. at["event"] = "none" /\ ~Filling("sender") /\ \A i \in Slot : ~buf[i].queued
    BY <2>2, <2>4 DEF JobAt
  <2>6. QED
    BY <2>1, <2>5 DEF Filling, Thread
<1>4. QED
  BY <1>2, <1>3

\* Any other step of an orderly stream begins in one.
LEMMA OrderlyStays ==
  ASSUME Step, Orderly', ~Off, ~StreamOn
  PROVE  Orderly
<1> USE DEF devVars, hostVars
<1>1. CASE EncGet \/ EncPut \/ EncEnd
  BY <1>1 DEF EncGet, EncPut, EncEnd, Orderly
<1>2. CASE SenderSelect \/ SenderDqbuf \/ SenderTimeout \/ SenderQbuf
  BY <1>2 DEF SenderSelect, SenderDqbuf, SenderTimeout, SenderQbuf, Orderly
<1>3. ASSUME NEW t \in Thread, FillGet(t) \/ FillRelease(t) \/ FillZero(t) \/ FillStore(t)
      PROVE  Orderly
  BY <1>3 DEF FillGet, FillRelease, FillZero, FillStore, Orderly
<1>4. CASE Stop \/ Join \/ FlagOff \/ ClearOk \/ ClearPut \/ ClearZero
  BY <1>4 DEF Stop, Join, FlagOff, ClearOk, ClearPut, ClearZero, Orderly
<1>5. CASE LoopEnd \/ SetProp \/ Startup \/ Reqbufs \/ FillBegin \/ EventQbuf
  BY <1>5 DEF LoopEnd, SetProp, Startup, Reqbufs, FillBegin, EventQbuf, Orderly
<1>6. CASE On \/ FlagOn \/ Commit \/ StreamOff \/ Disconnect
  BY <1>6 DEF On, FlagOn, Commit, StreamOff, Disconnect, Orderly
<1>7. QED
  BY <1>1, <1>2, <1>3, <1>4, <1>5, <1>6, StepCases

\* BufInv is inductive: a slot is zeroed only when its buffer is with the
\* application, and a buffer is queued after its node is stored.
LEMMA BufStep ==
  ASSUME FrameType, NEW k \in 1..21, NEW n \in {5, 20}, JobAt(k, n),
         HandInv, BufInv, Step
  PROVE  BufInv'
<1> USE DEF queueVars, devVars, encVars, hostVars, fillVars
<1> SUFFICES ASSUME Orderly' PROVE BufInv'
  BY DEF BufInv
<1>1. /\ job = Part(k, n) /\ k \in 1..(n + 1)
      /\ "sender" \in Thread /\ "event" \in Thread /\ "sender" # "event"
      /\ \A t \in Thread : t = "sender" \/ t = "event"
  BY DEF JobAt, Thread
<1>2. CASE Off \/ StreamOn
  <2>1. /\ \A t \in Thread : ~Filling(t)'
        /\ \A i \in Slot : ~buf'[i].queued
    BY <1>2, Restart
  <2>2. \A t \in Thread : at'[t] # "qbuf"
    BY <2>1 DEF Filling
  <2>3. QED
    BY <2>1, <2>2 DEF BufInv
<1>3. CASE ~Off /\ ~StreamOn
  <2>1. Orderly
    BY <1>3, OrderlyStays
  <2>2. ASSUME UNCHANGED <<waited, buf>>,
               \A t \in Thread : /\ at'[t] = at[t] \/ at'[t] \in {"none", "select"}
                                 /\ Filling(t)' => idx'[t] = idx[t] /\ node'[t] = node[t]
        PROVE  BufInv'
    <3>1. \A t \in Thread : Filling(t)' => at'[t] = at[t] /\ Filling(t)
      BY <2>2 DEF Filling
    <3>2. QED
      BY <2>1, <2>2, <3>1 DEF BufInv, Filling
  <2>3. CASE ClearOk
    <3>1. k = 6
      <4>1. Does("clearOk")
        BY <2>3 DEF ClearOk
      <4>2. k \in 1..20 /\ Script[k] = "clearOk"
        BY <1>1, <4>1, JobStep
      <4>3. QED
        BY <4>2, PhaseAt
    <3>2. at["event"] = "none"
      BY <3>1 DEF JobAt
    <3>3. UNCHANGED <<waited, buf, at, idx>> /\ node'["sender"] = node["sender"]
      <4>1. node'["sender"] = node["sender"]
        BY <1>1, <2>3 DEF ClearOk, FrameType
      <4>2. QED
        BY <2>3, <4>1 DEF ClearOk
    <3>4. QED
      BY <1>1, <2>2, <3>2, <3>3 DEF Filling
  <2>4. CASE SenderSelect \/ SenderTimeout
    <3>1. /\ UNCHANGED <<waited, buf, idx, node>> /\ at'["event"] = at["event"]
          /\ at'["sender"] \in {"none", "select"}
      BY <1>1, <2>4 DEF SenderSelect, SenderTimeout, FrameType
    <3>2. QED
      BY <1>1, <2>2, <3>1
  <2>5. CASE LoopEnd
    <3>1. /\ UNCHANGED <<waited, buf, at, node>> /\ at["event"] = "none"
          /\ idx'["sender"] = idx["sender"]
      BY <1>1, <2>5 DEF LoopEnd, FrameType
    <3>2. QED
      BY <1>1, <2>2, <3>1 DEF Filling
  <2>6. CASE SenderDqbuf
    <3>1. PICK i \in Slot : /\ idx' = [idx EXCEPT !["sender"] = i]
                            /\ ~buf'[i].queued /\ \A j \in Slot : j # i => buf'[j] = buf[j]
      BY <2>6, Dequeued
    <3>2. /\ at' = [at EXCEPT !["sender"] = "get"] /\ vstream /\ UNCHANGED <<waited, node>>
      BY <2>6, Dequeued
    <3>3. at["event"] = "none"
      BY <2>1, <3>2 DEF JobAt, Orderly
    <3>4. at'["sender"] = "get" /\ idx'["sender"] = i /\ at'["event"] = "none"
      BY <1>1, <3>1, <3>2, <3>3 DEF FrameType
    <3>5. \A t \in Thread : /\ at'[t] # "qbuf"
                            /\ Filling(t)' => ~buf'[idx'[t]].queued
      BY <1>1, <3>1, <3>4 DEF Filling
    <3>6. \A j \in Slot : buf'[j].queued /\ buf'[j].fresh =>
                            waited'[j] = buf'[j].node /\ buf'[j].node # NoFrame
      BY <2>1, <3>1, <3>2 DEF BufInv
    <3>7. QED
      BY <3>5, <3>6 DEF BufInv
  <2>7. ASSUME NEW t \in Thread, at[t] = "qbuf", waited' = waited, at'[t] = "none",
               \A u \in Thread : u # t => at'[u] = at[u] /\ idx'[u] = idx[u]
                                          /\ node'[u] = node[u],
               \A i \in Slot : i # idx[t] => buf'[i] = buf[i],
               \/ buf'[idx[t]] = buf[idx[t]]
               \/ /\ node[t] # NoFrame
                  /\ buf'[idx[t]] = [queued |-> TRUE, node |-> node[t], fresh |-> TRUE]
               \/ ~buf'[idx[t]].fresh
        PROVE  BufInv'
    <3>1. idx[t] \in Slot /\ waited[idx[t]] = node[t]
      BY <2>1, <2>7 DEF HandInv, BufInv
    <3>2. ASSUME NEW u \in Thread PROVE ~Filling(u)'
      <4>1. Filling(t)
        BY <2>7 DEF Filling
      <4>2. u # t => at[u] \in {"none", "select"}
        BY <2>1, <4>1, Alone
      <4>3. QED
        BY <2>7, <4>2 DEF Filling
    <3>3. \A i \in Slot : buf'[i].queued /\ buf'[i].fresh =>
                            waited'[i] = buf'[i].node /\ buf'[i].node # NoFrame
      BY <2>1, <2>7, <3>1 DEF BufInv
    <3>4. \A u \in Thread : at'[u] # "qbuf"
      BY <3>2 DEF Filling
    <3>5. QED
      BY <3>2, <3>3, <3>4 DEF BufInv
  <2>8. CASE SenderQbuf
    <3>1. /\ at["sender"] = "qbuf" /\ at'["sender"] = "none" /\ waited' = waited
          /\ at'["event"] = at["event"] /\ idx'["event"] = idx["event"]
          /\ node'["event"] = node["event"]
      BY <1>1, <2>8 DEF SenderQbuf, FrameType
    <3>2. /\ \A i \in Slot : i # idx["sender"] => buf'[i] = buf[i]
          /\ \/ buf'[idx["sender"]] = buf[idx["sender"]]
             \/ /\ node["sender"] # NoFrame
                /\ buf'[idx["sender"]] =
                     [queued |-> TRUE, node |-> node["sender"], fresh |-> TRUE]
             \/ ~buf'[idx["sender"]].fresh
      BY <2>8, SenderQueue
    <3>3. QED
      BY <1>1, <2>7, <3>1, <3>2
  <2>9. CASE EventQbuf
    <3>1. /\ at["event"] = "qbuf" /\ at'["event"] = "none" /\ waited' = waited
          /\ at'["sender"] = at["sender"] /\ idx'["sender"] = idx["sender"]
          /\ node'["sender"] = node["sender"]
      BY <1>1, <2>9 DEF EventQbuf, FrameType
    <3>2. /\ \A i \in Slot : i # idx["event"] => buf'[i] = buf[i]
          /\ \/ buf'[idx["event"]] = buf[idx["event"]]
             \/ /\ node["event"] # NoFrame
                /\ buf'[idx["event"]] =
                     [queued |-> TRUE, node |-> node["event"], fresh |-> TRUE]
      BY <2>9, EventQueue
    <3>3. QED
      BY <1>1, <2>7, <3>1, <3>2
  <2>10. ASSUME NEW t \in Thread, FillGet(t) \/ FillRelease(t) PROVE BufInv'
    <3>1. /\ Filling(t) /\ buf' = buf /\ waited' = waited /\ idx' = idx
          /\ \A u \in Thread : u # t => at'[u] = at[u] /\ node'[u] = node[u]
          /\ at'[t] # "qbuf"
      BY <2>10 DEF FillGet, FillRelease, Filling, FrameType
    <3>2. QED
      BY <2>1, <3>1, BufMove
  <2>11. ASSUME NEW t \in Thread, FillZero(t) PROVE BufInv'
    <3>1. /\ Filling(t) /\ buf' = buf /\ idx' = idx /\ node' = node
          /\ \A u \in Thread : u # t => at'[u] = at[u]
          /\ at'[t] # "qbuf"
          /\ \A i \in Slot : i # idx[t] => waited'[i] = waited[i]
      BY <2>11 DEF FillZero, Filling, FrameType
    <3>2. QED
      BY <2>1, <3>1, BufMove
  <2>12. ASSUME NEW t \in Thread, FillStore(t), ~Clash PROVE BufInv'
    <3>1. /\ Filling(t) /\ buf' = buf /\ idx' = idx /\ node' = node
          /\ \A u \in Thread : u # t => at'[u] = at[u]
          /\ \A i \in Slot : i # idx[t] => waited'[i] = waited[i]
      BY <2>12 DEF FillStore, Filling, FrameType
    <3>2. idx[t] \in Slot /\ waited[idx[t]] = NoFrame
      BY <2>12 DEF FillStore, HandInv
    <3>3. at'[t] = "qbuf" => waited'[idx[t]] = node[t]
      BY <2>12, <3>2 DEF FillStore, FrameType
    <3>4. QED
      BY <2>1, <3>1, <3>3, BufMove
  <2>13. ~Clash
    <3>1. Clash => Filling("sender") /\ Filling("event")
      BY DEF Clash, Filling
    <3>2. QED
      BY <2>1, <3>1, EventAt
  <2>14. CASE ClearZero
    <3>1. /\ Filling("event") /\ buf' = buf /\ node' = node
          /\ at'["sender"] = at["sender"] /\ idx'["sender"] = idx["sender"]
          /\ at'["event"] = "none"
          /\ \A i \in Slot : i # idx["event"] => waited'[i] = waited[i]
      BY <1>1, <2>14 DEF ClearZero, Filling, FrameType
    <3>2. ~Filling("event")'
      BY <3>1 DEF Filling
    <3>3. QED
      BY <1>1, <2>1, <3>1, <3>2, BufMove
  <2>15. CASE ClearPut \/ FillBegin
    <3>1. /\ UNCHANGED <<waited, buf, node>> /\ idx["event"] \in Slot
          /\ at'["sender"] = at["sender"] /\ idx'["sender"] = idx["sender"]
          /\ \/ at'["event"] = "none"
             \/ at'["event"] # "qbuf" /\ idx'["event"] = idx["event"]
          /\ at["event"] = "none"
      BY <1>1, <2>15, SlotFacts DEF ClearPut, FillBegin, FrameType
    <3>2. k \in {5, 7, 12, 18}
      <4>1. k \in 1..20 /\ Script[k] \in {"clear", "fill"}
        BY <1>1, <2>15, JobStep DEF ClearPut, FillBegin
      <4>2. QED
        BY <4>1, PhaseAt
    <3>3. ~vstream /\ ~late
      BY <2>1, <3>2 DEF JobAt, Orderly
    <3>4. ~buf[idx["event"]].queued
      <4>1. CASE k = 18
        <5>1. idx["event"] \in Nat
          BY <3>1, SlotFacts
        <5>2. idx["event"] >= idx["event"]
          BY <5>1
        <5>3. QED
          BY <3>1, <3>3, <4>1, <5>2 DEF JobAt
      <4>2. CASE k \in {5, 7, 12}
        BY <3>1, <3>3, <4>2 DEF JobAt
      <4>3. QED
        BY <3>2, <4>1, <4>2
    <3>5. at'["event"] # "qbuf" /\ (Filling("event")' => ~buf'[idx'["event"]].queued)
      BY <3>1, <3>4 DEF Filling
    <3>6. /\ at'["sender"] = "qbuf" => waited'[idx'["sender"]] = node'["sender"]
          /\ Filling("sender")' => ~buf'[idx'["sender"]].queued
      BY <1>1, <2>1, <3>1 DEF BufInv, Filling
    <3>7. QED
      BY <1>1, <2>1, <3>1, <3>5, <3>6 DEF BufInv
  <2>16. CASE Reqbufs
    <3>1. k = 17
      BY <1>1, <2>16, JobStep, PhaseAt DEF Reqbufs
    <3>2. ~Filling("sender") /\ at["event"] = "none"
      BY <2>1, <3>1 DEF JobAt, Orderly
    <3>3. UNCHANGED at /\ \A i \in Slot : buf'[i] = Idle
      BY <2>16 DEF Reqbufs
    <3>4. \A t \in Thread : ~Filling(t)' /\ at'[t] # "qbuf"
      BY <1>1, <3>2, <3>3 DEF Filling
    <3>5. QED
      BY <3>3, <3>4, RecordTypes DEF BufInv
  <2>17. ASSUME UNCHANGED <<waited, buf, at, idx, node>> PROVE BufInv'
    BY <2>2, <2>17
  <2>18. QED
    BY <1>3, <2>3, <2>4, <2>5, <2>6, <2>8, <2>9, <2>10, <2>11, <2>12, <2>13, <2>14, <2>15,
       <2>16, <2>17, StepCases
       DEF EncGet, EncPut, EncEnd, Stop, Join, FlagOff, SetProp, Startup, On, FlagOn,
           Commit, StreamOff, Disconnect
<1>4. QED
  BY <1>2, <1>3

-----------------------------------------------------------------------------
(* What is in the nodes on their way to the driver.                        *)

\* In an orderly stream a node that is queued to the driver, or is about to
\* be, waits in its slot.
LEMMA OnlyWaits ==
  ASSUME FrameType, NodesKept, ~Clash, NEW k \in 1..21, NEW n \in {5, 20}, JobAt(k, n),
         HandInv, BufInv, Orderly, NEW h \in Frame,
         \/ \E i \in Slot : buf[i].queued /\ buf[i].fresh /\ buf[i].node = h
         \/ \E t \in Thread : at[t] = "qbuf" /\ node[t] = h
  PROVE  QueueAt(freeQ, h) = 0 /\ enc # h
<1>1. \E i \in Slot : waited[i] = h /\ ~Zeroing(i)
  <2>1. CASE \E i \in Slot : buf[i].queued /\ buf[i].fresh /\ buf[i].node = h
    <3>1. PICK i \in Slot : buf[i].queued /\ buf[i].fresh /\ buf[i].node = h
      BY <2>1
    <3>2. waited[i] = h
      BY <3>1 DEF BufInv
    <3>3. ASSUME NEW t \in Thread, at[t] = "zero" PROVE idx[t] # i
      BY <3>1, <3>3 DEF BufInv, Filling
    <3>4. QED
      BY <3>2, <3>3 DEF Zeroing
  <2>2. CASE \E t \in Thread : at[t] = "qbuf" /\ node[t] = h
    <3>1. PICK t \in Thread : at[t] = "qbuf" /\ node[t] = h
      BY <2>2
    <3>2. waited[idx[t]] = h /\ idx[t] \in Slot
      BY <3>1 DEF HandInv, BufInv
    <3>3. ASSUME NEW u \in Thread PROVE at[u] # "zero"
      <4>1. Filling(t)
        BY <3>1 DEF Filling
      <4>2. u # t => at[u] \in {"none", "select"}
        BY <4>1, Alone
      <4>3. QED
        BY <3>1, <4>2
    <3>4. QED
      BY <3>2, <3>3 DEF Zeroing
  <2>3. QED
    BY <2>1, <2>2
<1>2. WaitAt(h) \in Nat \ {0}
  BY <1>1, WaitType
<1>3. QueueAt(freeQ, h) \in Nat /\ QueueAt(okQ, h) \in Nat /\ HandAt(h) \in Nat
  <2>1. freeQ \in Seq(Frame) /\ okQ \in Seq(Frame)
    BY DEF FrameType
  <2>2. QED
    BY <2>1, QueueMoves, HandAtType
<1>4. Places(h) = 1
  BY DEF NodesKept
<1>5. QueueAt(freeQ, h) + QueueAt(okQ, h) + WaitAt(h) + HandAt(h)
        + (IF enc = h THEN 1 ELSE 0) = 1
  BY <1>4, PlacesAre
<1>6. QED
  BY <1>2, <1>3, <1>5

\* A node of free_queue is nowhere else.
LEMMA FreeIsFree ==
  ASSUME FrameType, NodesKept, ~Clash, freeQ # <<>>
  PROVE  LET h == Head(freeQ) IN
         /\ h \in Frame /\ QueueAt(freeQ, h) # 0
         /\ \A j \in 1..Len(okQ) : okQ[j] # h
         /\ \A t \in Thread : InHand(t) # h
<1> DEFINE h == Head(freeQ)
<1>1. freeQ \in Seq(Frame) /\ okQ \in Seq(Frame)
  BY DEF FrameType
<1>2. h \in Frame /\ Tail(freeQ) \in Seq(Frame)
  BY <1>1, HeadTailProperties
<1>3. QueueAt(freeQ, h) \in Nat \ {0}
  <2>1. QueueAt(Tail(freeQ), h) = QueueAt(freeQ, h) - 1
    BY <1>1, <1>2, QueueMoves
  <2>2. QueueAt(Tail(freeQ), h) \in Nat /\ QueueAt(freeQ, h) \in Nat
    BY <1>1, <1>2, QueueMoves
  <2>3. QED
    BY <2>1, <2>2
<1> HIDE DEF h
<1>4. QueueAt(okQ, h) \in Nat /\ WaitAt(h) \in Nat /\ HandAt(h) \in Nat
  BY <1>1, <1>2, QueueMoves, WaitType, HandAtType
<1>5. Places(h) = 1
  BY <1>2 DEF NodesKept
<1>6. QueueAt(freeQ, h) + QueueAt(okQ, h) + WaitAt(h) + HandAt(h)
        + (IF enc = h THEN 1 ELSE 0) = 1
  BY <1>5, PlacesAre
<1>7. QueueAt(okQ, h) = 0 /\ HandAt(h) = 0
  BY <1>3, <1>4, <1>6
<1>8. \A j \in 1..Len(okQ) : okQ[j] # h
  BY <1>1, <1>7, QueueAtType
<1>9. \A t \in Thread : InHand(t) # h
  BY <1>7, HandAtIs DEF Thread
<1>10. QED
  BY <1>2, <1>3, <1>8, <1>9 DEF h

\* enable_uvc_video has something to do.
LEMMA EnableNotEmpty == Enable # <<>>
<1>1. Len(Enable) = 15
  BY EnableIs
<1>2. Len(<<>>) = 0
  BY EmptySeq
<1>3. ASSUME Enable = <<>> PROVE FALSE
  <2>1. Len(Enable) = Len(<<>>)
    BY <1>3
  <2>2. 15 = 0
    BY <1>1, <1>2, <2>1
  <2>3. QED
    BY <2>2
<1>4. QED
  BY <1>3

\* It is at its beginning, the clearing of ok_queue.
LEMMA EnableAt ==
  ASSUME NEW k \in 1..21, NEW n \in {5, 20}, JobAt(k, n), job = Enable
  PROVE  k = 6 /\ n = 20
<1>1. job = Part(k, n) /\ k \in 1..(n + 1)
  BY DEF JobAt
<1>2. Does("clearOk")
  BY EnableIs, EnableNotEmpty DEF Does
<1>3. k <= n /\ k \in 1..20 /\ Script[k] = "clearOk"
  BY <1>1, <1>2, JobStep
<1>4. k = 6
  BY <1>3, PhaseAt
<1>5. QED
  BY <1>3, <1>4

\* A step that puts nothing into ok_queue and lets the formats be.
LEMMA QueueFmtStays ==
  ASSUME QueueFmt, env' = env, UNCHANGED <<cut, prop, fmt>>, job' = job \/ job # Enable,
         okQ' = okQ \/ (okQ # <<>> /\ okQ' = Tail(okQ) /\ okQ \in Seq(Frame)),
         enc' = enc \/ enc' = NoFrame
  PROVE  QueueFmt'
<1> SUFFICES ASSUME ~env.fails, ~cut PROVE QueueFmt'
  BY DEF QueueFmt
<1>1. ASSUME job' # Enable
      PROVE  \A j \in 1..Len(okQ') : fmt'[okQ'[j]] = prop'
  <2>1. \A j \in 1..Len(okQ) : fmt[okQ[j]] = prop
    BY <1>1 DEF QueueFmt
  <2>2. CASE okQ' = okQ
    BY <2>1, <2>2
  <2>3. CASE okQ # <<>> /\ okQ' = Tail(okQ) /\ okQ \in Seq(Frame)
    <3>1. /\ Len(okQ) \in Nat /\ Len(Tail(okQ)) = Len(okQ) - 1
          /\ \A j \in 1..Len(Tail(okQ)) : Tail(okQ)[j] = okQ[j + 1]
      BY <2>3, HeadTailProperties, LenProperties
    <3>2. \A j \in 1..Len(Tail(okQ)) : j + 1 \in 1..Len(okQ)
      BY <3>1
    <3>3. QED
      BY <2>1, <2>3, <3>1, <3>2
  <2>4. QED
    BY <2>2, <2>3
<1>2. enc' # NoFrame => fmt'[enc'] = prop'
  BY DEF QueueFmt
<1>3. QED
  BY <1>1, <1>2 DEF QueueFmt

\* QueueFmt is inductive: the format changes when ok_queue is empty and the
\* encoder joined.
LEMMA QueueFmtStep ==
  ASSUME FrameType, NodesKept, ~Clash, NEW k \in 1..21, NEW n \in {5, 20}, JobAt(k, n),
         EncoderInv, QueueFmt, Step, env' = env
  PROVE  QueueFmt'
<1> USE DEF queueVars, devVars, encVars, hostVars, fillVars
<1>1. job = Part(k, n) /\ k \in 1..(n + 1) /\ okQ \in Seq(Frame)
  BY DEF JobAt, FrameType
<1>2. ASSUME NEW phase, Does(phase), phase # "clearOk" PROVE job # Enable
  BY <1>2, EnableIs, HeadTailProperties DEF Does
<1>3. CASE StreamOn
  <2> SUFFICES ASSUME ~cut' PROVE QueueFmt'
    BY DEF QueueFmt
  <2>1. job = <<>> /\ cut' = vstream /\ job' = Enable /\ UNCHANGED <<enc, prop, fmt>>
    BY <1>3 DEF StreamOn
  <2>2. k = n + 1
    BY <1>1, <2>1, PartIs
  <2>3. k = 6 /\ n = 5
    BY <2>1, <2>2 DEF JobAt
  <2>4. ~started
    BY <2>3 DEF JobAt
  <2>5. enc' = NoFrame
    BY <2>1, <2>4 DEF EncoderInv
  <2>6. QED
    BY <2>1, <2>5 DEF QueueFmt
<1>4. CASE EncGet
  <2> SUFFICES ASSUME ~env.fails, ~cut' PROVE QueueFmt'
    BY DEF QueueFmt
  <2> DEFINE h == Head(freeQ)
  <2>1. /\ freeQ # <<>> /\ loop.run /\ enc' = h /\ fmt' = [fmt EXCEPT ![h] = loop.kind]
        /\ UNCHANGED <<okQ, prop, job, cut>>
    BY <1>4 DEF EncGet
  <2>2. loop.kind = prop
    BY <2>1 DEF EncoderInv
  <2>3. h \in Frame /\ \A j \in 1..Len(okQ) : okQ[j] # h
    BY <2>1, FreeIsFree
  <2>4. fmt'[h] = prop /\ \A f \in Frame : f # h => fmt'[f] = fmt[f]
    BY <2>1, <2>2, <2>3 DEF FrameType
  <2> HIDE DEF h
  <2>5. job' # Enable => \A j \in 1..Len(okQ') : fmt'[okQ'[j]] = prop'
    BY <1>1, <2>1, <2>3, <2>4, ElementOfSeq DEF QueueFmt
  <2>6. enc' # NoFrame => fmt'[enc'] = prop'
    BY <2>1, <2>4
  <2>7. QED
    BY <2>5, <2>6 DEF QueueFmt
<1>5. CASE EncPut
  <2> SUFFICES ASSUME ~env.fails, ~cut' PROVE QueueFmt'
    BY DEF QueueFmt
  <2>1. /\ enc \in Frame /\ enc # NoFrame /\ enc' = NoFrame /\ okQ' = Append(okQ, enc)
        /\ UNCHANGED <<prop, fmt, job, cut>>
    BY <1>5 DEF EncPut, FrameType
  <2>2. /\ Len(okQ') = Len(okQ) + 1 /\ Len(okQ) \in Nat
        /\ \A j \in 1..Len(okQ) : okQ'[j] = okQ[j]
        /\ okQ'[Len(okQ) + 1] = enc
    BY <1>1, <2>1, AppendProperties, LenProperties
  <2>3. \A j \in 1..Len(okQ') : j \in 1..Len(okQ) \/ j = Len(okQ) + 1
    BY <2>2
  <2>4. job # Enable => \A j \in 1..Len(okQ') : fmt[okQ'[j]] = prop
    BY <2>1, <2>2, <2>3 DEF QueueFmt
  <2>5. QED
    BY <2>1, <2>4 DEF QueueFmt
<1>6. ASSUME NEW t \in Thread, FillGet(t) PROVE QueueFmt'
  <2>1. /\ UNCHANGED <<cut, prop, fmt, job, enc>>
        /\ okQ' = okQ \/ (okQ # <<>> /\ okQ' = Tail(okQ))
    BY <1>6 DEF FillGet, Rest
  <2>2. QED
    BY <1>1, <2>1, QueueFmtStays
<1>7. CASE ClearOk
  <2>1. UNCHANGED <<cut, prop, fmt, enc>>
    BY <1>7 DEF ClearOk
  <2>2. CASE okQ = <<>> /\ okQ' = <<>>
    <3>1. \A j \in 1..Len(okQ') : FALSE
      BY <2>2
    <3>2. QED
      BY <2>1, <3>1 DEF QueueFmt
  <2>3. CASE job' = job /\ (okQ' = okQ \/ (okQ # <<>> /\ okQ' = Tail(okQ)))
    BY <1>1, <2>1, <2>3, QueueFmtStays
  <2>4. QED
    BY <1>7, <2>2, <2>3 DEF ClearOk
<1>8. CASE SetProp
  <2> SUFFICES ASSUME ~cut' PROVE QueueFmt'
    BY DEF QueueFmt
  <2>1. k = 13
    BY <1>1, <1>8, JobStep, PhaseAt DEF SetProp
  <2>2. UNCHANGED <<cut, okQ, enc>>
    BY <1>8 DEF SetProp
  <2>3. okQ' = <<>> /\ ~started
    BY <2>1, <2>2 DEF JobAt
  <2>4. enc' = NoFrame
    BY <2>2, <2>3 DEF EncoderInv
  <2>5. \A j \in 1..Len(okQ') : FALSE
    BY <2>3
  <2>6. QED
    BY <2>4, <2>5 DEF QueueFmt
<1>9. CASE EncEnd \/ SenderSelect \/ SenderDqbuf \/ SenderTimeout \/ SenderQbuf \/ EventQbuf
  <2>1. UNCHANGED <<cut, prop, fmt, job, okQ, enc>>
    BY <1>9 DEF EncEnd, SenderSelect, SenderDqbuf, SenderTimeout, SenderQbuf, EventQbuf
  <2>2. QED
    BY <2>1, QueueFmtStays
<1>10. ASSUME NEW t \in Thread, FillRelease(t) \/ FillZero(t) \/ FillStore(t) PROVE QueueFmt'
  <2>1. UNCHANGED <<cut, prop, fmt, job, okQ, enc>>
    BY <1>10 DEF FillRelease, FillZero, FillStore
  <2>2. QED
    BY <2>1, QueueFmtStays
<1>11. CASE Off \/ Stop \/ Join \/ FlagOff \/ ClearPut \/ ClearZero \/ LoopEnd
  <2>1. UNCHANGED <<cut, prop, fmt, okQ, enc>>
    BY <1>11 DEF Off, Stop, Join, FlagOff, ClearPut, ClearZero, LoopEnd
  <2>2. job # Enable
    BY <1>2, <1>11 DEF Off, Stop, Join, FlagOff, ClearPut, ClearZero, LoopEnd
  <2>3. QED
    BY <2>1, <2>2, QueueFmtStays
<1>12. CASE Startup \/ Reqbufs \/ FillBegin \/ On \/ FlagOn
  <2>1. UNCHANGED <<cut, prop, fmt, okQ, enc>>
    BY <1>12 DEF Startup, Reqbufs, FillBegin, On, FlagOn
  <2>2. job # Enable
    BY <1>2, <1>12 DEF Startup, Reqbufs, FillBegin, On, FlagOn
  <2>3. QED
    BY <2>1, <2>2, QueueFmtStays
<1>13. CASE Commit \/ StreamOff \/ Disconnect
  <2>1. UNCHANGED <<cut, prop, fmt, okQ, enc>> /\ job = <<>>
    BY <1>13 DEF Commit, StreamOff, Disconnect
  <2>2. job # Enable
    BY <2>1, EnableNotEmpty
  <2>3. QED
    BY <2>1, <2>2, QueueFmtStays
<1>14. QED
  BY <1>3, <1>4, <1>5, <1>6, <1>7, <1>8, <1>9, <1>10, <1>11, <1>12, <1>13, StepCases

\* A step that begins no filling with a node in hand, and queues nothing.
LEMMA SentStays ==
  ASSUME SentFmt, Orderly, env' = env, UNCHANGED <<prop, fmt>>,
         \A t \in Thread : Filling(t)' /\ node'[t] # NoFrame =>
           Filling(t) /\ node'[t] = node[t],
         \A i \in Slot : ~buf'[i].queued \/ buf'[i] = buf[i]
  PROVE  SentFmt'
<1> SUFFICES ASSUME ~env.fails PROVE SentFmt'
  BY DEF SentFmt
<1>1. \A t \in Thread : Filling(t)' /\ node'[t] # NoFrame => fmt'[node'[t]] = prop'
  BY DEF SentFmt
<1>2. \A i \in Slot : buf'[i].queued /\ buf'[i].fresh => fmt'[buf'[i].node] = prop'
  BY DEF SentFmt
<1>3. QED
  BY <1>1, <1>2 DEF SentFmt

\* SentFmt is inductive: the format changes when nothing is filled or queued.
LEMMA SentFmtStep ==
  ASSUME FrameType, NodesKept, ~Clash, NEW k \in 1..21, NEW n \in {5, 20}, JobAt(k, n),
         EncoderInv, HandInv, BufInv, QueueFmt, SentFmt, Step, env' = env
  PROVE  SentFmt'
<1> USE DEF queueVars, devVars, encVars, hostVars, fillVars
<1> SUFFICES ASSUME ~env.fails, Orderly' PROVE SentFmt'
  BY DEF SentFmt
<1>1. /\ job = Part(k, n) /\ k \in 1..(n + 1)
      /\ "sender" \in Thread /\ "event" \in Thread /\ "sender" # "event"
      /\ \A t \in Thread : t = "sender" \/ t = "event"
  BY DEF JobAt, Thread
<1>2. CASE Off \/ StreamOn
  <2>1. /\ \A t \in Thread : ~Filling(t)'
        /\ \A i \in Slot : ~buf'[i].queued
    BY <1>2, Restart
  <2>2. QED
    BY <2>1 DEF SentFmt
<1>3. CASE ~Off /\ ~StreamOn
  <2>1. Orderly
    BY <1>3, OrderlyStays
  <2>2. ASSUME UNCHANGED <<prop, fmt, node, buf>>,
               \A t \in Thread : at'[t] = at[t] \/ at'[t] \in {"none", "select"}
        PROVE  SentFmt'
    <3>1. \A t \in Thread : Filling(t)' => Filling(t)
      BY <2>2 DEF Filling
    <3>2. QED
      BY <2>1, <2>2, <3>1, SentStays
  <2>3. CASE EncGet
    <3> DEFINE h == Head(freeQ)
    <3>1. /\ freeQ # <<>> /\ fmt' = [fmt EXCEPT ![h] = loop.kind]
          /\ UNCHANGED <<prop, at, node, buf>>
      BY <2>3 DEF EncGet
    <3>2. h \in Frame /\ QueueAt(freeQ, h) # 0 /\ \A t \in Thread : InHand(t) # h
      BY <3>1, FreeIsFree
    <3>3. \A f \in Frame : f # h => fmt'[f] = fmt[f]
      BY <3>1, <3>2 DEF FrameType
    <3> HIDE DEF h
    <3>4. ASSUME NEW t \in Thread, Filling(t), node[t] # NoFrame
          PROVE  fmt'[node[t]] = prop
      <4>1. fmt[node[t]] = prop /\ node[t] \in Frame
        BY <2>1, <3>4 DEF SentFmt, FrameType
      <4>2. node[t] # h
        <5>1. CASE at[t] = "qbuf"
          BY <2>1, <3>2, <5>1, OnlyWaits
        <5>2. CASE at[t] # "qbuf"
          BY <3>2, <5>2 DEF InHand
        <5>3. QED
          BY <5>1, <5>2
      <4>3. QED
        BY <3>3, <4>1, <4>2
    <3>5. ASSUME NEW i \in Slot, buf[i].queued, buf[i].fresh
          PROVE  fmt'[buf[i].node] = prop
      <4>1. fmt[buf[i].node] = prop /\ buf[i].node \in Frame
        <5>1. buf[i].node # NoFrame
          BY <2>1, <3>5 DEF BufInv
        <5>2. buf[i].node \in Frame \cup {NoFrame}
          BY RecordTypes DEF FrameType
        <5>3. QED
          BY <2>1, <3>5, <5>1, <5>2 DEF SentFmt
      <4>2. buf[i].node # h
        BY <2>1, <3>2, <3>5, OnlyWaits
      <4>3. QED
        BY <3>3, <4>1, <4>2
    <3>6. QED
      BY <3>1, <3>4, <3>5 DEF SentFmt, Filling
  <2>4. CASE SenderSelect \/ SenderTimeout
    <3>1. /\ UNCHANGED <<prop, fmt, node, buf>> /\ at'["event"] = at["event"]
          /\ at'["sender"] \in {"none", "select"}
      BY <1>1, <2>4 DEF SenderSelect, SenderTimeout, FrameType
    <3>2. QED
      BY <1>1, <2>2, <3>1
  <2>5. CASE SenderDqbuf
    <3>1. /\ UNCHANGED <<prop, fmt, node>> /\ at["sender"] = "select"
          /\ at' = [at EXCEPT !["sender"] = "get"]
          /\ \A i \in Slot : ~buf'[i].queued \/ buf'[i] = buf[i]
      BY <2>5, Dequeued
    <3>2. node["sender"] = NoFrame /\ at'["event"] = at["event"]
      BY <1>1, <3>1 DEF HandInv, FrameType
    <3>3. \A t \in Thread : Filling(t)' /\ node'[t] # NoFrame =>
            Filling(t) /\ node'[t] = node[t]
      BY <1>1, <3>1, <3>2 DEF Filling
    <3>4. QED
      BY <2>1, <3>1, <3>3, SentStays
  <2>6. ASSUME NEW t \in Thread, at[t] = "qbuf", idx[t] \in Slot, at'[t] = "none",
               UNCHANGED <<prop, fmt>>,
               \A u \in Thread : u # t => at'[u] = at[u] /\ node'[u] = node[u],
               \A i \in Slot : i # idx[t] => buf'[i] = buf[i],
               \/ buf'[idx[t]] = buf[idx[t]]
               \/ /\ node[t] # NoFrame
                  /\ buf'[idx[t]] = [queued |-> TRUE, node |-> node[t], fresh |-> TRUE]
               \/ ~buf'[idx[t]].fresh
        PROVE  SentFmt'
    <3>1. \A u \in Thread : Filling(u)' => Filling(u) /\ node'[u] = node[u]
      BY <2>6 DEF Filling
    <3>2. node[t] # NoFrame => fmt[node[t]] = prop
      BY <2>1, <2>6 DEF SentFmt, Filling
    <3>3. \A i \in Slot : buf'[i].queued /\ buf'[i].fresh => fmt'[buf'[i].node] = prop'
      BY <2>1, <2>6, <3>2 DEF SentFmt
    <3>4. \A u \in Thread : Filling(u)' /\ node'[u] # NoFrame => fmt'[node'[u]] = prop'
      BY <2>1, <2>6, <3>1 DEF SentFmt
    <3>5. QED
      BY <3>3, <3>4 DEF SentFmt
  <2>7. CASE SenderQbuf
    <3>1. /\ at["sender"] = "qbuf" /\ at'["sender"] = "none" /\ UNCHANGED <<prop, fmt>>
          /\ at'["event"] = at["event"] /\ node'["event"] = node["event"]
      BY <1>1, <2>7 DEF SenderQbuf, FrameType
    <3>2. /\ idx["sender"] \in Slot
          /\ \A i \in Slot : i # idx["sender"] => buf'[i] = buf[i]
          /\ \/ buf'[idx["sender"]] = buf[idx["sender"]]
             \/ /\ node["sender"] # NoFrame
                /\ buf'[idx["sender"]] =
                     [queued |-> TRUE, node |-> node["sender"], fresh |-> TRUE]
             \/ ~buf'[idx["sender"]].fresh
      BY <2>7, SenderQueue
    <3>3. QED
      BY <1>1, <2>6, <3>1, <3>2
  <2>8. CASE EventQbuf
    <3>1. /\ at["event"] = "qbuf" /\ at'["event"] = "none" /\ UNCHANGED <<prop, fmt>>
          /\ at'["sender"] = at["sender"] /\ node'["sender"] = node["sender"]
      BY <1>1, <2>8 DEF EventQbuf, FrameType
    <3>2. /\ idx["event"] \in Slot
          /\ \A i \in Slot : i # idx["event"] => buf'[i] = buf[i]
          /\ \/ buf'[idx["event"]] = buf[idx["event"]]
             \/ /\ node["event"] # NoFrame
                /\ buf'[idx["event"]] =
                     [queued |-> TRUE, node |-> node["event"], fresh |-> TRUE]
      BY <2>8, EventQueue
    <3>3. QED
      BY <1>1, <2>6, <3>1, <3>2
  <2>9. ASSUME NEW t \in Thread, FillGet(t) PROVE SentFmt'
    <3>1. /\ Filling(t) /\ UNCHANGED <<prop, fmt, buf>> /\ at[t] = "get"
          /\ node'[t] = First(okQ)
          /\ \A u \in Thread : u # t => at'[u] = at[u] /\ node'[u] = node[u]
      BY <2>9 DEF FillGet, Filling, FrameType
    <3>2. job # Enable
      <4>1. k = 18 \/ k \in {1, 20, 21}
        BY <1>1, <2>1, <3>1, EventAt
      <4>2. QED
        BY <4>1, EnableAt
    <3>3. node'[t] # NoFrame => fmt[node'[t]] = prop
      <4>1. CASE okQ = <<>>
        BY <3>1, <4>1 DEF First
      <4>2. CASE okQ # <<>>
        <5>1. okQ \in Seq(Frame)
          BY DEF FrameType
        <5>2. Head(okQ) = okQ[1] /\ 1 \in 1..Len(okQ)
          BY <4>2, <5>1
        <5>3. QED
          BY <2>1, <3>1, <3>2, <4>2, <5>2 DEF First, QueueFmt, Orderly
      <4>3. QED
        BY <4>1, <4>2
    <3>4. \A u \in Thread : Filling(u)' /\ node'[u] # NoFrame => fmt'[node'[u]] = prop'
      BY <2>1, <3>1, <3>3 DEF SentFmt, Filling
    <3>5. \A i \in Slot : buf'[i].queued /\ buf'[i].fresh => fmt'[buf'[i].node] = prop'
      BY <2>1, <3>1 DEF SentFmt
    <3>6. QED
      BY <3>4, <3>5 DEF SentFmt
  <2>10. ASSUME NEW t \in Thread, FillRelease(t) \/ FillZero(t) \/ FillStore(t)
         PROVE  SentFmt'
    <3>1. /\ Filling(t) /\ UNCHANGED <<prop, fmt, buf, node>>
          /\ \A u \in Thread : u # t => at'[u] = at[u]
      BY <2>10 DEF FillRelease, FillZero, FillStore, Filling, FrameType
    <3>2. \A u \in Thread : Filling(u)' => Filling(u)
      BY <3>1 DEF Filling
    <3>3. QED
      BY <2>1, <3>1, <3>2, SentStays
  <2>11. CASE ClearOk
    <3>1. k = 6
      <4>1. Does("clearOk")
        BY <2>11 DEF ClearOk
      <4>2. k \in 1..20 /\ Script[k] = "clearOk"
        BY <1>1, <4>1, JobStep
      <4>3. QED
        BY <4>2, PhaseAt
    <3>2. at["event"] = "none"
      BY <3>1 DEF JobAt
    <3>3. UNCHANGED <<prop, fmt, buf, at>> /\ node'["sender"] = node["sender"]
      <4>1. node'["sender"] = node["sender"]
        BY <1>1, <2>11 DEF ClearOk, FrameType
      <4>2. QED
        BY <2>11, <4>1 DEF ClearOk
    <3>4. \A t \in Thread : Filling(t)' => Filling(t) /\ node'[t] = node[t]
      BY <1>1, <3>2, <3>3 DEF Filling
    <3>5. QED
      BY <2>1, <3>3, <3>4, SentStays
  <2>12. CASE ClearPut \/ FillBegin
    <3>1. k \in {5, 7, 12, 18} /\ at["event"] = "none"
      <4>1. k \in 1..20 /\ Script[k] \in {"clear", "fill"}
        BY <1>1, <2>12, JobStep DEF ClearPut, FillBegin
      <4>2. k \in {5, 7, 12, 18}
        BY <4>1, PhaseAt
      <4>3. QED
        BY <2>12, <4>2 DEF ClearPut, FillBegin
    <3>2. node["event"] = NoFrame
      BY <3>1 DEF JobAt
    <3>3. UNCHANGED <<prop, fmt, buf, node>> /\ at'["sender"] = at["sender"]
      <4>1. at'["sender"] = at["sender"]
        BY <1>1, <2>12 DEF ClearPut, FillBegin, FrameType
      <4>2. QED
        BY <2>12, <4>1 DEF ClearPut, FillBegin
    <3>4. \A t \in Thread : Filling(t)' /\ node'[t] # NoFrame =>
            Filling(t) /\ node'[t] = node[t]
      BY <1>1, <3>2, <3>3 DEF Filling
    <3>5. QED
      BY <2>1, <3>3, <3>4, SentStays
  <2>13. CASE ClearZero \/ LoopEnd
    <3>1. UNCHANGED <<prop, fmt, buf, node>>
      BY <2>13 DEF ClearZero, LoopEnd
    <3>2. \A t \in Thread : at'[t] = at[t] \/ at'[t] = "none"
      BY <2>13 DEF ClearZero, LoopEnd, FrameType
    <3>3. QED
      BY <2>2, <3>1, <3>2
  <2>14. CASE Reqbufs
    <3>1. UNCHANGED <<prop, fmt, node, at>> /\ \A i \in Slot : ~buf'[i].queued
      BY <2>14, RecordTypes DEF Reqbufs
    <3>2. \A t \in Thread : Filling(t)' => Filling(t)
      BY <3>1 DEF Filling
    <3>3. QED
      BY <2>1, <3>1, <3>2, SentStays
  <2>15. CASE SetProp
    <3>1. k = 13
      BY <1>1, <2>15, JobStep, PhaseAt DEF SetProp
    <3>2. ~vstream /\ ~late /\ at["event"] = "none" /\ ~Filling("sender")
      BY <2>1, <3>1, EventAt DEF JobAt, Orderly
    <3>3. UNCHANGED <<node, at, buf>>
      BY <2>15 DEF SetProp
    <3>4. (\A t \in Thread : ~Filling(t)') /\ \A i \in Slot : ~buf'[i].queued
      BY <1>1, <3>1, <3>2, <3>3 DEF Filling, JobAt
    <3>5. QED
      BY <3>4 DEF SentFmt
  <2>16. ASSUME UNCHANGED <<prop, fmt, node, at, buf>> PROVE SentFmt'
    BY <2>2, <2>16
  <2>17. QED
    BY <1>3, <2>3, <2>4, <2>5, <2>7, <2>8, <2>9, <2>10, <2>11, <2>12, <2>13, <2>14,
       <2>15, <2>16, StepCases
       DEF EncPut, EncEnd, Stop, Join, FlagOff, Startup, On, FlagOn, Commit, StreamOff,
           Disconnect
<1>4. QED
  BY <1>2, <1>3

-----------------------------------------------------------------------------
(* The invariant holds.                                                    *)

\* The cache at the start: an order of the nodes, without a repetition.
LEMMA CacheOrder ==
  ASSUME FrameInit
  PROVE  /\ freeQ \in Bijection(1..Cardinality(Frame), Frame)
         /\ Cardinality(Frame) \in Nat /\ freeQ \in Seq(Frame)
         /\ Len(freeQ) = Cardinality(Frame)
<1> DEFINE n == Cardinality(Frame)
<1>1. IsFiniteSet(Frame) /\ n \in Nat /\ ExistsBijection(1..n, Frame)
  BY UvcAssumption, FS_CardinalityType
<1>2. IsFiniteSet(1..n) /\ Cardinality(1..n) = n
  BY <1>1, FS_Interval
<1>3. PICK g : g \in Bijection(1..n, Frame)
  BY <1>1 DEF ExistsBijection
<1>4. /\ g \in [1..n -> Frame]
      /\ \A i, j \in DOMAIN g : g[i] = g[j] => i = j
  BY <1>3 DEF Bijection, Injection, IsInjective
<1>5. freeQ = CHOOSE q \in [1..n -> Frame] : \A i, j \in DOMAIN q : q[i] = q[j] => i = j
  BY DEF FrameInit
<1>6. /\ freeQ \in [1..n -> Frame]
      /\ \A i, j \in DOMAIN freeQ : freeQ[i] = freeQ[j] => i = j
  BY <1>4, <1>5
<1>7. freeQ \in Injection(1..n, Frame)
  BY <1>6 DEF Injection, IsInjective
<1>8. freeQ \in Surjection(1..n, Frame)
  BY <1>1, <1>2, <1>7, FS_Injection
<1>9. freeQ \in Seq(Frame) /\ Len(freeQ) = n
  BY <1>1, <1>6
<1>10. QED
  BY <1>1, <1>7, <1>8, <1>9 DEF Bijection

\* At the start every node is in free_queue, once.
LEMMA KeptInit ==
  ASSUME FrameInit, NEW f \in Frame
  PROVE  Places(f) = 1
<1> DEFINE n == Cardinality(Frame)
           P == {i \in 1..n : freeQ[i] = f}
<1>1. freeQ \in Injection(1..n, Frame) /\ freeQ \in Surjection(1..n, Frame)
      /\ Len(freeQ) = n
  BY CacheOrder DEF Bijection
<1>2. /\ \A i, j \in 1..n : freeQ[i] = freeQ[j] => i = j
      /\ \E i \in 1..n : freeQ[i] = f
  BY <1>1 DEF Injection, IsInjective, Surjection
<1>3. PICK m \in 1..n : freeQ[m] = f
  BY <1>2
<1>4. P = {m}
  BY <1>2, <1>3
<1>5. QueueAt(freeQ, f) = Cardinality(P)
  BY <1>1 DEF QueueAt
<1>6. QueueAt(freeQ, f) = 1
  BY <1>4, <1>5, FS_Singleton
<1>7. f # NoFrame
  BY UvcAssumption
<1>8. QueueAt(okQ, f) = 0
  <2>1. okQ = <<>> /\ okQ \in Seq(Frame) /\ Len(okQ) = 0
    BY DEF FrameInit
  <2>2. \A i \in 1..Len(okQ) : okQ[i] # f
    BY <2>1
  <2>3. QED
    BY <2>1, <2>2, QueueAtType
<1>9. WaitAt(f) = 0
  BY <1>7, WaitType DEF FrameInit
<1>10. HandAt(f) = 0
  <2>1. "sender" \in Thread /\ "event" \in Thread
    BY DEF Thread
  <2>2. InHand("sender") = NoFrame /\ InHand("event") = NoFrame
    BY <2>1 DEF FrameInit, InHand
  <2>3. QED
    BY <1>7, <2>2, HandAtIs
<1>11. (IF enc = f THEN 1 ELSE 0) = 0
  BY <1>7 DEF FrameInit
<1>12. QED
  BY <1>6, <1>8, <1>9, <1>10, <1>11, PlacesAre

\* The invariant holds at the start.
LEMMA FrameInitInv ==
  ASSUME FrameInit
  PROVE  FrameInv
<1>1. FrameType
  <2>1. freeQ \in Seq(Frame) /\ okQ \in Seq(Frame)
    <3>1. okQ = <<>>
      BY DEF FrameInit
    <3>2. QED
      BY <3>1, CacheOrder
  <2>2. 0 \in 0..Slots /\ 0 \in 0..Retries
    BY UvcAssumption
  <2>3. loop \in [kind : Format \cup {"none"}, run : BOOLEAN]
    BY RecordTypes DEF FrameInit
  <2>4. buf \in [Slot -> Buffer]
    BY RecordTypes DEF FrameInit
  <2>5. QED
    BY <2>1, <2>2, <2>3, <2>4 DEF FrameInit, FrameType, Format
<1>2. NodesKept
  BY KeptInit DEF NodesKept
<1>3. JobAt(6, 5)
  <2>1. "sender" \in Thread /\ "event" \in Thread
    BY DEF Thread
  <2>2. job = Part(6, 5)
    BY WholeScript DEF FrameInit
  <2>3. ~Filling("sender")
    BY <2>1 DEF FrameInit, Filling
  <2>4. \A i \in Slot : ~buf[i].queued
    BY RecordTypes DEF FrameInit
  <2>5. ~vstream /\ ~started /\ ~late /\ okQ = <<>> /\ at["event"] = "none"
        /\ idx["event"] = 0 /\ node["event"] = NoFrame
    BY <2>1 DEF FrameInit
  <2>6. QED
    BY <2>2, <2>3, <2>4, <2>5 DEF JobAt
<1>4. EncoderInv
  BY DEF FrameInit, EncoderInv
<1>5. HandInv
  BY DEF FrameInit, HandInv, Thread
<1>6. (\A t \in Thread : ~Filling(t) /\ at[t] # "qbuf") /\ \A i \in Slot : ~buf[i].queued
  BY RecordTypes DEF FrameInit, Filling
<1>7. BufInv /\ SentFmt
  BY <1>6 DEF BufInv, SentFmt
<1>8. QueueFmt
  <2>1. Len(okQ) = 0 /\ enc = NoFrame
    BY DEF FrameInit
  <2>2. QED
    BY <2>1 DEF QueueFmt
<1>9. QED
  BY <1>1, <1>2, <1>3, <1>4, <1>5, <1>7, <1>8 DEF FrameInv

\* The invariant is inductive.
LEMMA FrameStep ==
  ASSUME FrameInv, Step, ~Clash, env' = env
  PROVE  FrameInv'
<1>1. /\ FrameType /\ NodesKept /\ EncoderInv /\ HandInv /\ BufInv /\ QueueFmt /\ SentFmt
      /\ \E k \in 1..21, n \in {5, 20} : JobAt(k, n)
  BY DEF FrameInv
<1>2. PICK k \in 1..21, n \in {5, 20} : JobAt(k, n)
  BY <1>1
<1>3. FrameType'
  BY <1>1, FrameTypeStep
<1>4. NodesKept'
  <2>1. ASSUME ~Clash', NEW f \in Frame PROVE Places(f)' = 1
    <3>1. Places(f) = 1
      BY <1>1 DEF NodesKept
    <3>2. Places(f)' = Places(f)
      BY <1>1, <1>2, <2>1, KeptStep
    <3>3. QED
      BY <3>1, <3>2
  <2>2. QED
    BY <2>1 DEF NodesKept
<1>5. \E l \in 1..21, m \in {5, 20} : JobAt(l, m)'
  BY <1>1, <1>2, JobInvStep
<1>6. EncoderInv'
  BY <1>1, <1>2, EncoderStep
<1>7. HandInv'
  BY <1>1, <1>2, HandStep
<1>8. BufInv'
  BY <1>1, <1>2, BufStep
<1>9. QueueFmt'
  BY <1>1, <1>2, QueueFmtStep
<1>10. SentFmt'
  BY <1>1, <1>2, SentFmtStep
<1>11. QED
  BY <1>3, <1>4, <1>5, <1>6, <1>7, <1>8, <1>9, <1>10 DEF FrameInv

\* It is kept when nothing moves.
LEMMA FrameStutter ==
  ASSUME FrameInv, UNCHANGED frameVars
  PROVE  FrameInv'
<1> USE DEF frameVars, queueVars, devVars, encVars, hostVars, fillVars
<1>1. FrameType'
  BY DEF FrameInv, FrameType
<1>2. NodesKept'
  BY DEF FrameInv, NodesKept, Places, Zeroing, InHand, Clash
<1>3. \E k \in 1..21, n \in {5, 20} : JobAt(k, n)'
  <2>1. PICK k \in 1..21, n \in {5, 20} : JobAt(k, n)
    BY DEF FrameInv
  <2>2. JobAt(k, n)'
    BY <2>1, JobStays DEF jobVars
  <2>3. QED
    BY <2>2
<1>4. EncoderInv' /\ HandInv'
  BY DEF FrameInv, EncoderInv, HandInv, Clash
<1>5. BufInv' /\ QueueFmt' /\ SentFmt'
  BY DEF FrameInv, BufInv, QueueFmt, SentFmt, Filling, Orderly
<1>6. QED
  BY <1>1, <1>2, <1>3, <1>4, <1>5 DEF FrameInv

\* Over the whole of a behaviour.
LEMMA FramesAlways == FrameSpec => []FrameInv
<1>1. FrameInit => FrameInv
  BY FrameInitInv
<1>2. FrameInv /\ [FrameNext]_frameVars => FrameInv'
  <2>1. ASSUME FrameInv, FrameNext PROVE FrameInv'
    <3>1. (Step /\ ~Clash /\ env' = env) \/ UNCHANGED frameVars
      BY <2>1 DEF FrameNext, Runs
    <3>2. QED
      BY <2>1, <3>1, FrameStep, FrameStutter
  <2>2. ASSUME FrameInv, UNCHANGED frameVars PROVE FrameInv'
    BY <2>2, FrameStutter
  <2>3. QED
    BY <2>1, <2>2
<1>3. QED
  BY <1>1, <1>2, PTL DEF FrameSpec

-----------------------------------------------------------------------------
(* What follows from it.                                                   *)

\* It gives the types.
LEMMA FrameInvType ==
  ASSUME FrameInv
  PROVE  FrameTypeOK
<1>1. FrameType
  BY DEF FrameInv
<1>2. freeQ \in Seq(Frame) /\ okQ \in Seq(Frame)
  BY <1>1 DEF FrameType
<1>3. \A q \in {freeQ, okQ} : \A i \in 1..Len(q) : q[i] \in Frame
  BY <1>2, ElementOfSeq
<1>4. \A i \in 1..Len(job) : job[i] \in Phase
  <2>1. PICK k \in 1..21, n \in {5, 20} : JobAt(k, n)
    BY DEF FrameInv
  <2>2. k \in 1..(n + 1) /\ job = Part(k, n)
    BY <2>1 DEF JobAt
  <2>3. job \in Seq(Phase)
    BY <2>2, PartIs
  <2>4. QED
    BY <2>3, ElementOfSeq
<1>5. {vstream, streaming, late, started, host, cut} \subseteq BOOLEAN
      /\ {fcc, prop} \subseteq Format
  BY <1>1 DEF FrameType
<1>6. QED
  BY <1>1, <1>3, <1>4, <1>5 DEF FrameTypeOK, FrameType, Buffer

\* It gives what is promised of the driver's buffers.
LEMMA FrameInvSent ==
  ASSUME FrameInv
  PROVE  SentIsRight
<1> SUFFICES ASSUME Orderly PROVE SentIsStable /\ FormatFresh
  BY DEF SentIsRight, Orderly
<1>1. PICK k \in 1..21, n \in {5, 20} : JobAt(k, n)
  BY DEF FrameInv
<1>2. FrameType /\ NodesKept /\ HandInv /\ BufInv /\ SentFmt
  BY DEF FrameInv
<1>3. ~Clash
  <2>1. Clash => Filling("sender") /\ Filling("event")
    BY DEF Clash, Filling
  <2>2. QED
    BY <1>1, <2>1, EventAt
<1>4. SentIsStable
  <2> SUFFICES ASSUME NEW i \in Slot, Sending(i)
               PROVE  waited[i] = buf[i].node /\ buf[i].node # enc
    BY DEF SentIsStable
  <2>1. waited[i] = buf[i].node /\ buf[i].node # NoFrame
    BY <1>2 DEF BufInv, Sending
  <2>2. buf[i].node \in Frame
    BY <1>2, <2>1 DEF FrameType
  <2>3. enc # buf[i].node
    BY <1>1, <1>2, <1>3, <2>2, OnlyWaits DEF Sending
  <2>4. QED
    BY <2>1, <2>3
<1>5. FormatFresh
  BY <1>2 DEF SentFmt, FormatFresh, Sending
<1>6. QED
  BY <1>4, <1>5

\* FrameTypeOK for any cache, any number of buffers and of retries:
\* uvc_video_fill_buffer_userptr and clear_waited_node stay inside
\* __waited_node, and the queues hold nodes of the cache.
THEOREM FrameTypeCorrect == FrameSpec => []FrameTypeOK
BY FramesAlways, FrameInvType, PTL

\* NodesKept for any cache and any number of buffers: the encoder's thread,
\* uvc_video_fill_buffer_userptr in two threads, clear_ok_queue and
\* clear_waited_node lose no node and return none twice before the send and
\* the event thread are in one slot of __waited_node at once (Clash), which
\* nothing in uvc_streamoff prevents.
THEOREM FramesAlwaysKept == FrameSpec => []NodesKept
<1>1. FrameInv => NodesKept
  BY DEF FrameInv
<1>2. QED
  BY <1>1, FramesAlways, PTL

\* SentIsRight for any cache and any number of buffers: in a stream that
\* began after a stop, and whose stop met no buffer in the hand of the send
\* thread (neither cut nor late), a buffer that goes out with a frame names a
\* node that waits in its slot and is not filled again; and the frame has the
\* format of the stream, unless a conversion may fail.
THEOREM SentAlwaysRight == FrameSpec => []SentIsRight
BY FramesAlways, FrameInvSent, PTL

=============================================================================
