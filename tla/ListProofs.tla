----------------------------- MODULE ListProofs -----------------------------
(***************************************************************************)
(* Theorems about Slist and Queue, the two kinds of lists in the kernel.   *)
(*                                                                         *)
(* A free list keeps its shape and implements FreePool.                    *)
(*                                                                         *)
(* The links of every queue mirror each other, and the pointer operations  *)
(* of kernel/sched/queue.c implement the operations on sequences of        *)
(* QueueSeq.  The invariant is that some sequences c represent the links   *)
(* (`Rep`).  A push inserts at one place of one of them and a removal      *)
(* takes one place away; InsertRep and RemoveRep say which links must then *)
(* change, and each branch of the code is shown to change those and no     *)
(* others.                                                                 *)
(***************************************************************************)
EXTENDS Queue, Slist, SlistOpsProofs, SequenceTheorems, WellFoundedInduction

-----------------------------------------------------------------------------
\* Free lists.

\* slist_init establishes the shape of the free list.
LEMMA ShapeInit == SlistInit => ShapeOK
BY LengthAssumption, InitShape DEF SlistInit, ShapeOK

\* slist_alloc and slist_free preserve it.
LEMMA ShapeNext == ShapeOK /\ [SlistNext]_slistVars => ShapeOK'
<1> SUFFICES ASSUME ShapeOK, [SlistNext]_slistVars PROVE ShapeOK'
  OBVIOUS
<1>0. Length \in Nat \ {0} /\ nodes \in SlistType(Length) /\ SlistShape(nodes, Length)
  BY LengthAssumption DEF ShapeOK
<1>1. CASE Alloc
  BY <1>0, <1>1, AllocShape DEF Alloc, ShapeOK
<1>2. ASSUME NEW i \in Args, Free(i) PROVE ShapeOK'
  <2>1. i \in Int
    BY <1>0 DEF Args
  <2> QED BY <1>0, <1>2, <2>1, FreeShape DEF Free, ShapeOK
<1>3. CASE UNCHANGED slistVars
  BY <1>3 DEF slistVars, ShapeOK
<1> QED BY <1>1, <1>2, <1>3 DEF SlistNext

\* Whatever calls are made, slist.c keeps every cursor inside the array and
\* threads each free node exactly once.
THEOREM SlistCorrect == SlistSpec => []ShapeOK
BY ShapeInit, ShapeNext, PTL DEF SlistSpec

\* slist.c implements the free pool: an index handed out is not in use, 0 is
\* returned only when all are in use, and a double free changes nothing.
THEOREM SlistImplementsPool == SlistSpec => PoolSpec
<1> DEFINE used == {i \in 1 .. Length - 1 : nodes[i].valid = 1}
<1>1. SlistInit => Pool!Init
  BY LengthAssumption, InitShape DEF SlistInit, Pool!Init
<1>2. ShapeOK /\ [SlistNext]_slistVars => [Pool!Next]_<<used, result>>
  <2> SUFFICES ASSUME ShapeOK, [SlistNext]_slistVars PROVE [Pool!Next]_<<used, result>>
    OBVIOUS
  <2>0. Length \in Nat \ {0} /\ nodes \in SlistType(Length) /\ SlistShape(nodes, Length)
    BY LengthAssumption DEF ShapeOK
  <2>1. CASE Alloc
    <3>1. CASE result' = 0
      <4>1. nodes' = nodes /\ \A i \in 1 .. Length - 1 : nodes[i].valid = 1
        BY <2>0, <2>1, <3>1, AllocShape DEF Alloc
      <4>2. used = 1 .. Length - 1 /\ used' = used
        BY <4>1
      <4>3. Pool!Alloc
        BY <3>1, <4>2 DEF Pool!Alloc, Pool!Indices
      <4> QED BY <4>3 DEF Pool!Next
    <3>2. CASE result' # 0
      <4>1. /\ result' \in 1 .. Length - 1 /\ nodes[result'].valid = 0
            /\ \A i \in 1 .. Length - 1 : nodes'[i].valid = IF i = result' THEN 1 ELSE nodes[i].valid
        BY <2>0, <2>1, <3>2, AllocShape DEF Alloc
      <4>2. result' \in (1 .. Length - 1) \ used /\ used' = used \cup {result'}
        BY <4>1
      <4>3. Pool!Alloc
        BY <4>2 DEF Pool!Alloc, Pool!Indices
      <4> QED BY <4>3 DEF Pool!Next
    <3> QED BY <3>1, <3>2
  <2>2. ASSUME NEW i \in Args, Free(i) PROVE Pool!Next
    <3>1. i \in Int
      BY <2>0 DEF Args
    <3>2. /\ slist_is_valid(nodes, i, Length) <=> i \in used
          /\ \A j \in 1 .. Length - 1 : nodes'[j].valid = IF j = i THEN 0 ELSE nodes[j].valid
      BY <2>0, <2>2, <3>1, FreeShape DEF Free
    <3>3. used' = used \ {i}
      BY <3>2
    <3>4. result' = IF i \in used THEN 1 ELSE 0
      BY <2>2, <3>2 DEF Free, slist_free_ret
    <3>5. Pool!Free(i)
      BY <3>3, <3>4 DEF Pool!Free
    <3> QED BY <3>5 DEF Pool!Next
  <2>3. CASE UNCHANGED slistVars
    BY <2>3 DEF slistVars
  <2> QED BY <2>1, <2>2, <2>3 DEF SlistNext
<1> QED BY <1>1, <1>2, ShapeInit, ShapeNext, PTL DEF SlistSpec, PoolSpec, Pool!Spec, Pool!pvars

-----------------------------------------------------------------------------
\* Queues.

\* The items of the sequence s, head first, are linked as queue q.  The
\* functions are arguments, so that a lemma can speak of two states.
Linked(s, q, hd, tl, pv, nx, qu) ==
  /\ hd[q] = IF Len(s) = 0 THEN NULL ELSE s[1]
  /\ tl[q] = IF Len(s) = 0 THEN NULL ELSE s[Len(s)]
  /\ \A k \in 1 .. Len(s) :
       /\ qu[s[k]] = q
       /\ pv[s[k]] = IF k = 1 THEN NULL ELSE s[k - 1]
       /\ nx[s[k]] = IF k = Len(s) THEN NULL ELSE s[k + 1]
  /\ \A j, k \in 1 .. Len(s) : s[j] = s[k] => j = k

\* An item is in the sequence of its queue, or in none with NULL links.
Placed(c, i, pv, nx, qu) ==
  \/ qu[i] = NULL /\ nx[i] = NULL /\ pv[i] = NULL
  \/ qu[i] \in Queues /\ \E k \in 1 .. Len(c[qu[i]]) : c[qu[i]][k] = i

Rep(c, hd, tl, pv, nx, qu) ==
  /\ c \in [Queues -> Seq(Items)]
  /\ \A q \in Queues : Linked(c[q], q, hd, tl, pv, nx, qu)
  /\ \A i \in Items : Placed(c, i, pv, nx, qu)

Types ==
  /\ head \in [Queues -> Pointer] /\ tail \in [Queues -> Pointer]
  /\ prev \in [Items -> Pointer] /\ next \in [Items -> Pointer]
  /\ queue \in [Items -> Queues \cup {NULL}] /\ priority \in [Items -> 1 .. 2]

RepInv == \E c : Rep(c, head, tail, prev, next, queue)

QInv == Types /\ RepInv

-----------------------------------------------------------------------------
\* Sequences with one more or one less item.

\* t is s with i inserted at place j.
Inserted(s, t, j, i) ==
  /\ j \in 1 .. Len(s) + 1 /\ t \in Seq(Items) /\ Len(t) = Len(s) + 1
  /\ \A k \in 1 .. Len(s) + 1 :
       t[k] = IF k < j THEN s[k] ELSE IF k = j THEN i ELSE s[k - 1]

\* t is s without its item at place j.
Removed(s, t, j) ==
  /\ j \in 1 .. Len(s) /\ t \in Seq(Items) /\ Len(t) = Len(s) - 1
  /\ \A k \in 1 .. Len(s) - 1 : t[k] = IF k < j THEN s[k] ELSE s[k + 1]

LEMMA InsertAtInserted ==
  ASSUME NEW s \in Seq(Items), NEW j \in 1 .. Len(s) + 1, NEW i \in Items
  PROVE  Inserted(s, Abs!InsertAt(s, j, i), j, i)
<1> DEFINE a == SubSeq(s, 1, j - 1)
           b == SubSeq(s, j, Len(s))
           one == <<i>>
           d == a \o one
           e == d \o b
<1>1. Len(s) \in Nat /\ j \in Nat /\ 1 <= j /\ j <= Len(s) + 1
  OBVIOUS
<1>2. a \in Seq(Items) /\ Len(a) = j - 1 /\ \A k \in 1 .. j - 1 : a[k] = s[k]
  BY <1>1
<1>3. /\ b \in Seq(Items) /\ Len(b) = Len(s) + 1 - j
      /\ \A k \in 1 .. Len(s) + 1 - j : b[k] = s[k + j - 1]
  BY <1>1
<1>4. one \in Seq(Items) /\ Len(one) = 1 /\ one[1] = i
  OBVIOUS
<1>5. e = Abs!InsertAt(s, j, i)
  BY DEF Abs!InsertAt
<1> HIDE DEF a, b, one
<1>6. /\ d \in Seq(Items) /\ Len(d) = Len(a) + Len(one)
      /\ \A k \in 1 .. Len(a) + Len(one) :
           d[k] = IF k <= Len(a) THEN a[k] ELSE one[k - Len(a)]
  BY <1>2, <1>4, ConcatProperties
<1> HIDE DEF d
<1>6a. d \in Seq(Items)
  BY <1>6
<1>6b. b \in Seq(Items)
  BY <1>3
<1>7. /\ e \in Seq(Items) /\ Len(e) = Len(d) + Len(b)
      /\ \A k \in 1 .. Len(d) + Len(b) :
           e[k] = IF k <= Len(d) THEN d[k] ELSE b[k - Len(d)]
  BY <1>6a, <1>6b, ConcatProperties
<1> HIDE DEF e
<1>8. Len(d) = j /\ Len(e) = Len(s) + 1 /\ Len(d) + Len(b) = Len(s) + 1
  BY <1>1, <1>2, <1>3, <1>4, <1>6, <1>7
<1>9. ASSUME NEW k \in 1 .. Len(s) + 1
      PROVE  e[k] = IF k < j THEN s[k] ELSE IF k = j THEN i ELSE s[k - 1]
  <2>0. e[k] = IF k <= j THEN d[k] ELSE b[k - j]
    BY <1>7, <1>8
  <2>1. CASE k < j
    <3>1. d[k] = a[k]
      BY <1>1, <1>2, <1>4, <1>6, <2>1
    <3> QED BY <1>1, <1>2, <2>0, <2>1, <3>1
  <2>2. CASE k = j
    <3>1. d[k] = one[1]
      BY <1>1, <1>2, <1>4, <1>6, <2>2
    <3> QED BY <1>1, <1>4, <2>0, <2>2, <3>1
  <2>3. CASE k > j
    <3>1. b[k - j] = s[(k - j) + j - 1]
      BY <1>1, <1>3, <2>3
    <3> QED BY <1>1, <2>0, <2>3, <3>1
  <2> QED BY <1>1, <2>1, <2>2, <2>3
<1> QED BY <1>5, <1>7, <1>8, <1>9 DEF Inserted

LEMMA AppendInserted ==
  ASSUME NEW s \in Seq(Items), NEW i \in Items
  PROVE  Inserted(s, Append(s, i), Len(s) + 1, i)
BY DEF Inserted

LEMMA RemoveAtRemoved ==
  ASSUME NEW s \in Seq(Items), NEW j \in 1 .. Len(s)
  PROVE  Removed(s, Abs!RemoveAt(s, j), j)
<1> DEFINE a == SubSeq(s, 1, j - 1)
           b == SubSeq(s, j + 1, Len(s))
           e == a \o b
<1>1. Len(s) \in Nat /\ j \in Nat /\ 1 <= j /\ j <= Len(s)
  OBVIOUS
<1>2. a \in Seq(Items) /\ Len(a) = j - 1 /\ \A k \in 1 .. j - 1 : a[k] = s[k]
  BY <1>1
<1>3. /\ b \in Seq(Items) /\ Len(b) = Len(s) - j
      /\ \A k \in 1 .. Len(s) - j : b[k] = s[k + j]
  BY <1>1
<1>4. e = Abs!RemoveAt(s, j)
  BY DEF Abs!RemoveAt
<1> HIDE DEF a, b
<1>5. /\ e \in Seq(Items) /\ Len(e) = Len(a) + Len(b)
      /\ \A k \in 1 .. Len(a) + Len(b) :
           e[k] = IF k <= Len(a) THEN a[k] ELSE b[k - Len(a)]
  BY <1>2, <1>3, ConcatProperties
<1> HIDE DEF e
<1>6. Len(e) = Len(s) - 1 /\ Len(a) + Len(b) = Len(s) - 1
  BY <1>1, <1>2, <1>3, <1>5
<1>7. ASSUME NEW k \in 1 .. Len(s) - 1
      PROVE  e[k] = IF k < j THEN s[k] ELSE s[k + 1]
  <2>0. e[k] = IF k <= j - 1 THEN a[k] ELSE b[k - (j - 1)]
    BY <1>2, <1>5, <1>6
  <2>1. CASE k < j
    BY <1>1, <1>2, <2>0, <2>1
  <2>2. CASE ~ (k < j)
    <3>1. b[k - (j - 1)] = s[(k - (j - 1)) + j]
      BY <1>1, <1>3, <2>2
    <3> QED BY <1>1, <2>0, <2>2, <3>1
  <2> QED BY <2>1, <2>2
<1> QED BY <1>4, <1>5, <1>6, <1>7 DEF Removed

LEMMA TailRemoved ==
  ASSUME NEW s \in Seq(Items), s # <<>>
  PROVE  Removed(s, Tail(s), 1)
<1>1. Len(s) \in Nat /\ Len(s) # 0
  BY EmptySeq
<1>2. /\ Tail(s) \in Seq(Items) /\ Len(Tail(s)) = Len(s) - 1
      /\ \A k \in 1 .. Len(Tail(s)) : Tail(s)[k] = s[k + 1]
  BY HeadTailProperties
<1>3. 1 \in 1 .. Len(s) /\ \A k \in 1 .. Len(s) - 1 : ~ (k < 1)
  BY <1>1
<1> QED BY <1>2, <1>3 DEF Removed

-----------------------------------------------------------------------------
\* The links of a queue with one more or one less item.

\* What an insertion of i at place j of queue q, whose items are s, changes.
InsertLinks(s, q, j, i, hd, tl, pv, nx, qu, hd2, tl2, pv2, nx2, qu2) ==
  /\ qu[i] = NULL
  /\ \A r \in Queues : r # q => hd2[r] = hd[r] /\ tl2[r] = tl[r]
  /\ hd2[q] = IF j = 1 THEN i ELSE hd[q]
  /\ tl2[q] = IF j = Len(s) + 1 THEN i ELSE tl[q]
  /\ \A x \in Items :
       /\ qu2[x] = IF x = i THEN q ELSE qu[x]
       /\ nx2[x] = IF x = i THEN (IF j = Len(s) + 1 THEN NULL ELSE s[j])
                   ELSE IF j > 1 /\ x = s[j - 1] THEN i ELSE nx[x]
       /\ pv2[x] = IF x = i THEN (IF j = 1 THEN NULL ELSE s[j - 1])
                   ELSE IF j <= Len(s) /\ x = s[j] THEN i ELSE pv[x]

\* What the removal of the item at place j of queue q changes.
RemoveLinks(s, q, j, i, hd, tl, pv, nx, qu, hd2, tl2, pv2, nx2, qu2) ==
  /\ i = s[j]
  /\ \A r \in Queues : r # q => hd2[r] = hd[r] /\ tl2[r] = tl[r]
  /\ hd2[q] = IF j > 1 THEN hd[q] ELSE IF Len(s) = 1 THEN NULL ELSE s[2]
  /\ tl2[q] = IF j < Len(s) THEN tl[q] ELSE IF j = 1 THEN NULL ELSE s[j - 1]
  /\ \A x \in Items :
       /\ qu2[x] = IF x = i THEN NULL ELSE qu[x]
       /\ nx2[x] = IF x = i THEN NULL
                   ELSE IF j > 1 /\ x = s[j - 1]
                   THEN (IF j = Len(s) THEN NULL ELSE s[j + 1]) ELSE nx[x]
       /\ pv2[x] = IF x = i THEN NULL
                   ELSE IF j < Len(s) /\ x = s[j + 1]
                   THEN (IF j = 1 THEN NULL ELSE s[j - 1]) ELSE pv[x]

LEMMA InsertLinked ==
  ASSUME NEW s \in Seq(Items), NEW t, NEW q \in Queues, NEW j, NEW i \in Items,
         NEW hd, NEW tl, NEW pv, NEW nx, NEW qu,
         NEW hd2, NEW tl2, NEW pv2, NEW nx2, NEW qu2,
         Linked(s, q, hd, tl, pv, nx, qu), Inserted(s, t, j, i),
         InsertLinks(s, q, j, i, hd, tl, pv, nx, qu, hd2, tl2, pv2, nx2, qu2)
  PROVE  Linked(t, q, hd2, tl2, pv2, nx2, qu2)
<1> DEFINE l == Len(s)
<1>1. /\ l \in Nat /\ j \in 1 .. l + 1 /\ Len(t) = l + 1
      /\ \A k \in 1 .. l + 1 :
           t[k] = IF k < j THEN s[k] ELSE IF k = j THEN i ELSE s[k - 1]
  BY DEF Inserted
<1>1a. l \in Nat /\ j \in 1 .. l + 1
  BY <1>1
<1>2. \A k \in 1 .. l : s[k] \in Items
  OBVIOUS
<1>3. /\ hd[q] = IF l = 0 THEN NULL ELSE s[1]
      /\ tl[q] = IF l = 0 THEN NULL ELSE s[l]
      /\ \A k \in 1 .. l : /\ qu[s[k]] = q
                           /\ pv[s[k]] = IF k = 1 THEN NULL ELSE s[k - 1]
                           /\ nx[s[k]] = IF k = l THEN NULL ELSE s[k + 1]
      /\ \A k, m \in 1 .. l : s[m] = s[k] => m = k
  BY DEF Linked
<1>4. /\ hd2[q] = IF j = 1 THEN i ELSE hd[q]
      /\ tl2[q] = IF j = l + 1 THEN i ELSE tl[q]
      /\ \A x \in Items :
           /\ qu2[x] = IF x = i THEN q ELSE qu[x]
           /\ nx2[x] = IF x = i THEN (IF j = l + 1 THEN NULL ELSE s[j])
                       ELSE IF j > 1 /\ x = s[j - 1] THEN i ELSE nx[x]
           /\ pv2[x] = IF x = i THEN (IF j = 1 THEN NULL ELSE s[j - 1])
                       ELSE IF j <= l /\ x = s[j] THEN i ELSE pv[x]
  BY DEF InsertLinks
<1>5. \A k \in 1 .. l : s[k] # i
  BY <1>3, NullAssumption DEF InsertLinks
<1> HIDE DEF l
<1>6. hd2[q] = t[1] /\ tl2[q] = t[l + 1]
  BY <1>1, <1>3, <1>4
<1>7. ASSUME NEW k \in 1 .. l + 1
      PROVE  /\ qu2[t[k]] = q
             /\ pv2[t[k]] = IF k = 1 THEN NULL ELSE t[k - 1]
             /\ nx2[t[k]] = IF k = l + 1 THEN NULL ELSE t[k + 1]
  <2>1. CASE k < j
    <3>1. t[k] = s[k] /\ k \in 1 .. l /\ s[k] \in Items /\ s[k] # i
      BY <1>1, <1>2, <1>5, <2>1
    <3>2. qu2[t[k]] = q
      <4>1. qu[t[k]] = q /\ t[k] \in Items /\ t[k] # i
        BY <1>3, <3>1
      <4> QED BY <1>4, <4>1
    <3>3. pv2[t[k]] = IF k = 1 THEN NULL ELSE t[k - 1]
      <4>1. pv2[t[k]] = pv[s[k]]
        BY <1>1, <1>3, <1>4, <2>1, <3>1
      <4>2. k # 1 => t[k - 1] = s[k - 1]
        BY <1>1, <2>1
      <4> QED BY <1>3, <3>1, <4>1, <4>2
    <3>4. nx2[t[k]] = IF k = l + 1 THEN NULL ELSE t[k + 1]
      <4>1. CASE k + 1 = j
        <5>1. t[k + 1] = i /\ nx2[s[k]] = i
          BY <1>1, <1>4, <3>1, <4>1
        <5> QED BY <1>1, <3>1, <4>1, <5>1
      <4>2. CASE k + 1 < j
        <5>0. j - 1 \in 1 .. l /\ k # j - 1
          BY <1>1, <4>2
        <5>0a. s[k] # s[j - 1]
          BY <1>3, <3>1, <5>0
        <5>0b. k + 1 \in 1 .. l + 1 /\ k + 1 < j
          BY <1>1a, <3>1, <4>2
        <5>1. t[k + 1] = s[k + 1] /\ s[k] # s[j - 1]
          BY <1>1, <5>0a, <5>0b
        <5>2. nx2[s[k]] = nx[s[k]]
          BY <1>4, <3>1, <5>1
        <5> QED BY <1>1, <1>3, <3>1, <4>2, <5>1, <5>2
      <4> QED BY <1>1, <2>1, <4>1, <4>2
    <3> QED BY <3>2, <3>3, <3>4
  <2>2. CASE k = j
    <3>1. t[k] = i
      BY <1>1, <2>2
    <3>2. k # 1 => t[k - 1] = s[j - 1]
      BY <1>1, <2>2
    <3>3. k # l + 1 => t[k + 1] = s[j]
      BY <1>1, <2>2
    <3> QED BY <1>4, <2>2, <3>1, <3>2, <3>3
  <2>3. CASE k > j
    <3>1. t[k] = s[k - 1] /\ k - 1 \in 1 .. l /\ s[k - 1] \in Items /\ s[k - 1] # i
      BY <1>1, <1>2, <1>5, <2>3
    <3>2. qu2[t[k]] = q
      <4>1. qu[s[k - 1]] = q
        BY <1>3, <3>1
      <4> QED BY <1>4, <3>1, <4>1
    <3>3. nx2[t[k]] = IF k = l + 1 THEN NULL ELSE t[k + 1]
      <4>0. j > 1 => j - 1 \in 1 .. l /\ k - 1 # j - 1
        BY <1>1, <2>3
      <4>0a. j > 1 => s[k - 1] # s[j - 1]
        BY <1>3, <3>1, <4>0
      <4>1. nx2[t[k]] = nx[s[k - 1]]
        BY <1>4, <3>1, <4>0a
      <4>2. k # l + 1 => t[k + 1] = s[k]
        BY <1>1, <2>3
      <4> QED BY <1>1, <1>3, <3>1, <4>1, <4>2
    <3>4. pv2[t[k]] = IF k = 1 THEN NULL ELSE t[k - 1]
      <4>1. CASE k - 1 = j
        <5>1. t[k - 1] = i /\ pv2[s[k - 1]] = i
          BY <1>1, <1>4, <3>1, <4>1
        <5> QED BY <1>1, <3>1, <4>1, <5>1
      <4>2. CASE k - 1 > j
        <5>0. j \in 1 .. l /\ k - 1 # j
          BY <1>1, <4>2
        <5>0a. t[k - 1] = s[k - 2] /\ s[k - 1] # s[j]
          BY <1>1, <1>3, <3>1, <4>2, <5>0
        <5>1. t[k - 1] = s[k - 2] /\ pv2[s[k - 1]] = pv[s[k - 1]]
          BY <1>4, <3>1, <5>0a
        <5>2. pv[s[k - 1]] = s[k - 2]
          BY <1>1, <1>3, <3>1, <4>2
        <5> QED BY <1>1, <3>1, <4>2, <5>1, <5>2
      <4> QED BY <1>1, <2>3, <4>1, <4>2
    <3> QED BY <3>2, <3>3, <3>4
  <2> QED BY <1>1, <2>1, <2>2, <2>3
<1>8. ASSUME NEW k \in 1 .. l + 1, NEW m \in 1 .. l + 1, t[m] = t[k] PROVE m = k
  <2> DEFINE at(n) == IF n < j THEN n ELSE n - 1
  <2>1. \A n \in 1 .. l + 1 : n # j => at(n) \in 1 .. l /\ t[n] = s[at(n)] /\ t[n] # i
    BY <1>1, <1>5
  <2>2. CASE k = j \/ m = j
    <3>1. t[j] = i
      BY <1>1
    <3> QED BY <1>8, <2>1, <2>2, <3>1
  <2>3. CASE k # j /\ m # j
    <3>1. at(m) = at(k)
      <4> HIDE DEF at
      <4> QED BY <1>3, <1>8, <2>1, <2>3
    <3> QED BY <1>1, <2>3, <3>1
  <2> QED BY <2>2, <2>3
<1>9. Len(t) # 0
  BY <1>1
<1> QED BY <1>1, <1>6, <1>7, <1>8, <1>9 DEF Linked

LEMMA RemoveLinked ==
  ASSUME NEW s \in Seq(Items), NEW t, NEW q \in Queues, NEW j, NEW i \in Items,
         NEW hd, NEW tl, NEW pv, NEW nx, NEW qu,
         NEW hd2, NEW tl2, NEW pv2, NEW nx2, NEW qu2,
         Linked(s, q, hd, tl, pv, nx, qu), Removed(s, t, j),
         RemoveLinks(s, q, j, i, hd, tl, pv, nx, qu, hd2, tl2, pv2, nx2, qu2)
  PROVE  Linked(t, q, hd2, tl2, pv2, nx2, qu2)
<1> DEFINE l == Len(s)
<1>1. /\ l \in Nat /\ j \in 1 .. l /\ Len(t) = l - 1
      /\ \A k \in 1 .. l - 1 : t[k] = IF k < j THEN s[k] ELSE s[k + 1]
  BY DEF Removed
<1>1a. l \in Nat /\ j \in 1 .. l
  BY <1>1
<1>2. \A k \in 1 .. l : s[k] \in Items
  OBVIOUS
<1>3. /\ hd[q] = IF l = 0 THEN NULL ELSE s[1]
      /\ tl[q] = IF l = 0 THEN NULL ELSE s[l]
      /\ \A k \in 1 .. l : /\ qu[s[k]] = q
                           /\ pv[s[k]] = IF k = 1 THEN NULL ELSE s[k - 1]
                           /\ nx[s[k]] = IF k = l THEN NULL ELSE s[k + 1]
      /\ \A k, m \in 1 .. l : s[m] = s[k] => m = k
  BY DEF Linked
<1>4. /\ i = s[j]
      /\ hd2[q] = IF j > 1 THEN hd[q] ELSE IF l = 1 THEN NULL ELSE s[2]
      /\ tl2[q] = IF j < l THEN tl[q] ELSE IF j = 1 THEN NULL ELSE s[j - 1]
      /\ \A x \in Items :
           /\ qu2[x] = IF x = i THEN NULL ELSE qu[x]
           /\ nx2[x] = IF x = i THEN NULL
                       ELSE IF j > 1 /\ x = s[j - 1]
                       THEN (IF j = l THEN NULL ELSE s[j + 1]) ELSE nx[x]
           /\ pv2[x] = IF x = i THEN NULL
                       ELSE IF j < l /\ x = s[j + 1]
                       THEN (IF j = 1 THEN NULL ELSE s[j - 1]) ELSE pv[x]
  BY DEF RemoveLinks
<1> HIDE DEF l
<1>5. \A k \in 1 .. l : k # j => s[k] # i
  BY <1>1, <1>3, <1>4
<1>6. hd2[q] = IF l - 1 = 0 THEN NULL ELSE t[1]
  BY <1>1, <1>3, <1>4
<1>6a. tl2[q] = IF l - 1 = 0 THEN NULL ELSE t[l - 1]
  <2>1. CASE j < l
    <3>1. t[l - 1] = s[l] /\ l # 0 /\ l # 1
      BY <1>1, <2>1
    <3> QED BY <1>1, <1>3, <1>4, <2>1, <3>1
  <2>2. CASE j = l
    <3>1. l # 1 => t[l - 1] = s[l - 1]
      BY <1>1, <2>2
    <3> QED BY <1>1, <1>4, <2>2, <3>1
  <2> QED BY <1>1, <2>1, <2>2
<1>7. ASSUME NEW k \in 1 .. l - 1
      PROVE  /\ qu2[t[k]] = q
             /\ pv2[t[k]] = IF k = 1 THEN NULL ELSE t[k - 1]
             /\ nx2[t[k]] = IF k = l - 1 THEN NULL ELSE t[k + 1]
  <2>1. CASE k < j
    <3>1. t[k] = s[k] /\ k \in 1 .. l /\ s[k] \in Items /\ s[k] # i
      BY <1>1, <1>2, <1>5, <2>1
    <3>2. qu2[t[k]] = q
      <4>1. qu[t[k]] = q /\ t[k] \in Items /\ t[k] # i
        BY <1>3, <3>1
      <4> QED BY <1>4, <4>1
    <3>3. pv2[t[k]] = IF k = 1 THEN NULL ELSE t[k - 1]
      <4>0. j < l => j + 1 \in 1 .. l /\ k # j + 1
        BY <1>1, <2>1
      <4>0a. j < l => s[k] # s[j + 1]
        BY <1>3, <3>1, <4>0
      <4>1. pv2[t[k]] = pv[s[k]]
        BY <1>4, <3>1, <4>0a
      <4>2. k # 1 => t[k - 1] = s[k - 1]
        BY <1>1, <2>1
      <4> QED BY <1>3, <3>1, <4>1, <4>2
    <3>4. nx2[t[k]] = IF k = l - 1 THEN NULL ELSE t[k + 1]
      <4>1. CASE k + 1 = j
        <5>1. nx2[s[k]] = IF j = l THEN NULL ELSE s[j + 1]
          BY <1>1, <1>4, <3>1, <4>1
        <5>2. k # l - 1 => t[k + 1] = s[j + 1]
          BY <1>1, <4>1
        <5> QED BY <1>1, <3>1, <4>1, <5>1, <5>2
      <4>2. CASE k + 1 < j
        <5>0. j - 1 \in 1 .. l /\ k # j - 1
          BY <1>1, <4>2
        <5>0a. t[k + 1] = s[k + 1] /\ s[k] # s[j - 1]
          BY <1>1, <1>3, <3>1, <4>2, <5>0
        <5>1. t[k + 1] = s[k + 1] /\ nx2[s[k]] = nx[s[k]]
          BY <1>4, <3>1, <5>0a
        <5> QED BY <1>1, <1>3, <3>1, <4>2, <5>1
      <4> QED BY <1>1, <2>1, <4>1, <4>2
    <3> QED BY <3>2, <3>3, <3>4
  <2>2. CASE k >= j
    <3>1. t[k] = s[k + 1] /\ k + 1 \in 1 .. l /\ s[k + 1] \in Items /\ s[k + 1] # i
      BY <1>1, <1>2, <1>5, <2>2
    <3>2. qu2[t[k]] = q
      <4>1. qu[t[k]] = q /\ t[k] \in Items /\ t[k] # i
        BY <1>3, <3>1
      <4> QED BY <1>4, <4>1
    <3>3. nx2[t[k]] = IF k = l - 1 THEN NULL ELSE t[k + 1]
      <4>0. j > 1 => j - 1 \in 1 .. l /\ k + 1 # j - 1
        BY <1>1, <2>2
      <4>0a. j > 1 => s[k + 1] # s[j - 1]
        BY <1>3, <3>1, <4>0
      <4>1. nx2[t[k]] = nx[s[k + 1]]
        BY <1>4, <3>1, <4>0a
      <4>1a. k # l - 1 => k + 1 \in 1 .. l - 1 /\ ~ (k + 1 < j) /\ (k + 1) + 1 = k + 2
        BY <1>1a, <2>2
      <4>2. k # l - 1 => t[k + 1] = s[k + 2]
        BY <1>1, <4>1a
      <4>3. nx[s[k + 1]] = IF k + 1 = l THEN NULL ELSE s[k + 2]
        BY <1>1, <1>3, <3>1
      <4> QED BY <1>1, <3>1, <4>1, <4>2, <4>3
    <3>4. pv2[t[k]] = IF k = 1 THEN NULL ELSE t[k - 1]
      <4>1. CASE k = j
        <5>1. pv2[s[k + 1]] = IF j = 1 THEN NULL ELSE s[j - 1]
          BY <1>1, <1>4, <3>1, <4>1
        <5>2. k # 1 => t[k - 1] = s[j - 1]
          BY <1>1, <4>1
        <5> QED BY <1>1, <3>1, <4>1, <5>1, <5>2
      <4>2. CASE k > j
        <5>0. j + 1 \in 1 .. l /\ k + 1 # j + 1 /\ (k + 1) - 1 = k /\ k + 1 # 1
          BY <1>1, <4>2
        <5>0a. t[k - 1] = s[k] /\ s[k + 1] # s[j + 1]
          BY <1>1, <1>3, <3>1, <4>2, <5>0
        <5>1. t[k - 1] = s[k] /\ pv2[s[k + 1]] = pv[s[k + 1]]
          BY <1>4, <3>1, <5>0a
        <5>2. pv[s[k + 1]] = s[k]
          BY <1>3, <3>1, <5>0
        <5> QED BY <1>1, <3>1, <4>2, <5>1, <5>2
      <4> QED BY <1>1, <2>2, <4>1, <4>2
    <3> QED BY <3>2, <3>3, <3>4
  <2> QED BY <1>1, <2>1, <2>2
<1>8. ASSUME NEW k \in 1 .. l - 1, NEW m \in 1 .. l - 1, t[m] = t[k] PROVE m = k
  <2> DEFINE at(n) == IF n < j THEN n ELSE n + 1
  <2>1. \A n \in 1 .. l - 1 : at(n) \in 1 .. l /\ t[n] = s[at(n)]
    BY <1>1
  <2>2. at(m) = at(k)
    <3> HIDE DEF at
    <3> QED BY <1>3, <1>8, <2>1
  <2> QED BY <1>1, <2>2
<1> QED BY <1>1, <1>6, <1>6a, <1>7, <1>8 DEF Linked

LEMMA InsertRep ==
  ASSUME NEW c, NEW t, NEW q \in Queues, NEW j, NEW i \in Items,
         NEW hd, NEW tl, NEW pv, NEW nx, NEW qu,
         NEW hd2, NEW tl2, NEW pv2, NEW nx2, NEW qu2,
         Rep(c, hd, tl, pv, nx, qu), Inserted(c[q], t, j, i),
         InsertLinks(c[q], q, j, i, hd, tl, pv, nx, qu, hd2, tl2, pv2, nx2, qu2)
  PROVE  Rep([c EXCEPT ![q] = t], hd2, tl2, pv2, nx2, qu2)
<1> DEFINE s == c[q]
           c2 == [c EXCEPT ![q] = t]
<1>1. c \in [Queues -> Seq(Items)] /\ s \in Seq(Items) /\ t \in Seq(Items)
  BY DEF Rep, Inserted
<1>2. c2 \in [Queues -> Seq(Items)] /\ c2[q] = t /\ \A r \in Queues : r # q => c2[r] = c[r]
  BY <1>1
<1>3. Linked(s, q, hd, tl, pv, nx, qu) /\ Linked(t, q, hd2, tl2, pv2, nx2, qu2)
  <2>1. Linked(s, q, hd, tl, pv, nx, qu)
    BY DEF Rep
  <2> QED BY <1>1, <2>1, InsertLinked
<1>4. /\ j \in 1 .. Len(s) + 1 /\ Len(t) = Len(s) + 1
      /\ \A k \in 1 .. Len(s) + 1 :
           t[k] = IF k < j THEN s[k] ELSE IF k = j THEN i ELSE s[k - 1]
  BY DEF Inserted
<1>5. \A k \in 1 .. Len(s) : qu[s[k]] = q
  BY <1>3 DEF Linked
<1>6. ASSUME NEW x \in Items, qu[x] # q
      PROVE  /\ x = i => qu2[x] = q
             /\ x # i => qu2[x] = qu[x] /\ nx2[x] = nx[x] /\ pv2[x] = pv[x]
  <2>1. j > 1 => j - 1 \in 1 .. Len(s)
    BY <1>1, <1>4
  <2>2. j <= Len(s) => j \in 1 .. Len(s)
    BY <1>1, <1>4
  <2>3. ~ (j > 1 /\ x = s[j - 1])
    BY <1>5, <1>6, <2>1
  <2>4. ~ (j <= Len(s) /\ x = s[j])
    BY <1>5, <1>6, <2>2
  <2> HIDE DEF s
  <2>5. /\ qu2[x] = IF x = i THEN q ELSE qu[x]
        /\ nx2[x] = IF x = i THEN (IF j = Len(s) + 1 THEN NULL ELSE s[j])
                    ELSE IF j > 1 /\ x = s[j - 1] THEN i ELSE nx[x]
        /\ pv2[x] = IF x = i THEN (IF j = 1 THEN NULL ELSE s[j - 1])
                    ELSE IF j <= Len(s) /\ x = s[j] THEN i ELSE pv[x]
    BY DEF InsertLinks, s
  <2> QED BY <2>3, <2>4, <2>5
<1>7. ASSUME NEW r \in Queues PROVE Linked(c2[r], r, hd2, tl2, pv2, nx2, qu2)
  <2>1. CASE r = q
    BY <1>2, <1>3, <2>1
  <2>2. CASE r # q
    <3> DEFINE w == c[r]
    <3>1. Linked(w, r, hd, tl, pv, nx, qu) /\ w \in Seq(Items) /\ c2[r] = w
      BY <1>1, <1>2, <2>2 DEF Rep
    <3> HIDE DEF w, c2
    <3>2. hd2[r] = hd[r] /\ tl2[r] = tl[r]
      BY <2>2 DEF InsertLinks
    <3>3. ASSUME NEW k \in 1 .. Len(w)
          PROVE  /\ qu2[w[k]] = r
                 /\ pv2[w[k]] = pv[w[k]] /\ nx2[w[k]] = nx[w[k]]
      <4>1. w[k] \in Items /\ qu[w[k]] = r
        BY <3>1 DEF Linked
      <4>2. w[k] # i
        BY <4>1, NullAssumption DEF InsertLinks
      <4> QED BY <1>6, <2>2, <4>1, <4>2
    <3>4. Linked(w, r, hd2, tl2, pv2, nx2, qu2)
      BY <3>1, <3>2, <3>3 DEF Linked
    <3> QED BY <3>1, <3>4
  <2> QED BY <2>1, <2>2
<1>8. ASSUME NEW x \in Items PROVE Placed(c2, x, pv2, nx2, qu2)
  <2>1. CASE x = i
    <3>1. qu2[x] = q
      BY <2>1, <1>6, NullAssumption DEF InsertLinks
    <3>2. j \in 1 .. Len(t) /\ t[j] = x
      BY <1>1, <1>4, <2>1
    <3> QED BY <1>2, <3>1, <3>2 DEF Placed
  <2>2. CASE x # i /\ qu[x] = q
    <3>1. PICK k \in 1 .. Len(s) : s[k] = x
      BY <2>2, NullAssumption DEF Rep, Placed
    <3>2. qu2[x] = q
      BY <2>2 DEF InsertLinks
    <3> DEFINE m == IF k < j THEN k ELSE k + 1
    <3>3. m \in 1 .. Len(t) /\ t[m] = x
      BY <1>1, <1>4, <3>1
    <3> HIDE DEF m
    <3> QED BY <1>2, <3>2, <3>3 DEF Placed
  <2>3. CASE x # i /\ qu[x] # q
    <3>1. qu2[x] = qu[x] /\ nx2[x] = nx[x] /\ pv2[x] = pv[x]
      BY <1>6, <2>3
    <3>2. Placed(c, x, pv, nx, qu)
      BY DEF Rep
    <3>3. qu[x] \in Queues => c2[qu[x]] = c[qu[x]]
      BY <1>2, <2>3
    <3> QED BY <3>1, <3>2, <3>3 DEF Placed
  <2> QED BY <2>1, <2>2, <2>3
<1> QED BY <1>2, <1>7, <1>8 DEF Rep

LEMMA RemoveRep ==
  ASSUME NEW c, NEW t, NEW q \in Queues, NEW j, NEW i \in Items,
         NEW hd, NEW tl, NEW pv, NEW nx, NEW qu,
         NEW hd2, NEW tl2, NEW pv2, NEW nx2, NEW qu2,
         Rep(c, hd, tl, pv, nx, qu), Removed(c[q], t, j),
         RemoveLinks(c[q], q, j, i, hd, tl, pv, nx, qu, hd2, tl2, pv2, nx2, qu2)
  PROVE  Rep([c EXCEPT ![q] = t], hd2, tl2, pv2, nx2, qu2)
<1> DEFINE s == c[q]
           c2 == [c EXCEPT ![q] = t]
<1>1. c \in [Queues -> Seq(Items)] /\ s \in Seq(Items) /\ t \in Seq(Items)
  BY DEF Rep, Removed
<1>2. c2 \in [Queues -> Seq(Items)] /\ c2[q] = t /\ \A r \in Queues : r # q => c2[r] = c[r]
  BY <1>1
<1>3. Linked(s, q, hd, tl, pv, nx, qu) /\ Linked(t, q, hd2, tl2, pv2, nx2, qu2)
  <2>1. Linked(s, q, hd, tl, pv, nx, qu)
    BY DEF Rep
  <2> QED BY <1>1, <2>1, RemoveLinked
<1>4. /\ j \in 1 .. Len(s) /\ Len(t) = Len(s) - 1
      /\ \A k \in 1 .. Len(s) - 1 : t[k] = IF k < j THEN s[k] ELSE s[k + 1]
  BY DEF Removed
<1>5. \A k \in 1 .. Len(s) : qu[s[k]] = q
  BY <1>3 DEF Linked
<1>5a. qu[i] = q /\ i = s[j]
  BY <1>4, <1>5 DEF RemoveLinks
<1>6. ASSUME NEW x \in Items, qu[x] # q
      PROVE  qu2[x] = qu[x] /\ nx2[x] = nx[x] /\ pv2[x] = pv[x]
  <2>1. j > 1 => j - 1 \in 1 .. Len(s)
    BY <1>1, <1>4
  <2>2. j < Len(s) => j + 1 \in 1 .. Len(s)
    BY <1>1, <1>4
  <2>3. ~ (j > 1 /\ x = s[j - 1])
    BY <1>5, <1>6, <2>1
  <2>4. ~ (j < Len(s) /\ x = s[j + 1])
    BY <1>5, <1>6, <2>2
  <2> HIDE DEF s
  <2>5. /\ qu2[x] = IF x = i THEN NULL ELSE qu[x]
        /\ nx2[x] = IF x = i THEN NULL
                    ELSE IF j > 1 /\ x = s[j - 1]
                    THEN (IF j = Len(s) THEN NULL ELSE s[j + 1]) ELSE nx[x]
        /\ pv2[x] = IF x = i THEN NULL
                    ELSE IF j < Len(s) /\ x = s[j + 1]
                    THEN (IF j = 1 THEN NULL ELSE s[j - 1]) ELSE pv[x]
    BY DEF RemoveLinks, s
  <2> QED BY <1>5a, <1>6, <2>3, <2>4, <2>5
<1>7. ASSUME NEW r \in Queues PROVE Linked(c2[r], r, hd2, tl2, pv2, nx2, qu2)
  <2>1. CASE r = q
    BY <1>2, <1>3, <2>1
  <2>2. CASE r # q
    <3> DEFINE w == c[r]
    <3>1. Linked(w, r, hd, tl, pv, nx, qu) /\ w \in Seq(Items) /\ c2[r] = w
      BY <1>1, <1>2, <2>2 DEF Rep
    <3> HIDE DEF w, c2
    <3>2. hd2[r] = hd[r] /\ tl2[r] = tl[r]
      BY <2>2 DEF RemoveLinks
    <3>3. ASSUME NEW k \in 1 .. Len(w)
          PROVE  /\ qu2[w[k]] = r
                 /\ pv2[w[k]] = pv[w[k]] /\ nx2[w[k]] = nx[w[k]]
      <4>1. w[k] \in Items /\ qu[w[k]] = r
        BY <3>1 DEF Linked
      <4> QED BY <1>6, <2>2, <4>1
    <3>4. Linked(w, r, hd2, tl2, pv2, nx2, qu2)
      BY <3>1, <3>2, <3>3 DEF Linked
    <3> QED BY <3>1, <3>4
  <2> QED BY <2>1, <2>2
<1>8. ASSUME NEW x \in Items PROVE Placed(c2, x, pv2, nx2, qu2)
  <2>1. CASE x = i
    BY <2>1 DEF Placed, RemoveLinks
  <2>2. CASE x # i /\ qu[x] = q
    <3>1. PICK k \in 1 .. Len(s) : s[k] = x
      BY <2>2, NullAssumption DEF Rep, Placed
    <3>2. qu2[x] = q
      BY <2>2 DEF RemoveLinks
    <3>2a. k # j
      BY <1>5a, <2>2, <3>1
    <3> DEFINE m == IF k < j THEN k ELSE k - 1
    <3>3. m \in 1 .. Len(t) /\ t[m] = x
      BY <1>1, <1>4, <3>1, <3>2a
    <3> HIDE DEF m
    <3> QED BY <1>2, <3>2, <3>3 DEF Placed
  <2>3. CASE x # i /\ qu[x] # q
    <3>1. qu2[x] = qu[x] /\ nx2[x] = nx[x] /\ pv2[x] = pv[x]
      BY <1>6, <2>3
    <3>2. Placed(c, x, pv, nx, qu)
      BY DEF Rep
    <3>3. qu[x] \in Queues => c2[qu[x]] = c[qu[x]]
      BY <1>2, <2>3
    <3> QED BY <3>1, <3>2, <3>3 DEF Placed
  <2> QED BY <2>1, <2>2, <2>3
<1> QED BY <1>2, <1>7, <1>8 DEF Rep

-----------------------------------------------------------------------------
\* The branches of the code change the links as the two lemmas ask.

\* The links, and the items they link, of the current state.
Now(c) == Rep(c, head, tail, prev, next, queue)
Then(c) == Rep(c, head', tail', prev', next', queue')
InsertsAt(s, q, j, i) ==
  InsertLinks(s, q, j, i, head, tail, prev, next, queue, head', tail', prev', next', queue')
RemovesAt(s, q, j, i) ==
  RemoveLinks(s, q, j, i, head, tail, prev, next, queue, head', tail', prev', next', queue')

\* What is known of the sequence s of queue q.
Seen(s, q, l) ==
  /\ l \in Nat /\ l = Len(s) /\ s \in Seq(Items)
  /\ \A k \in 1 .. l : s[k] \in Items /\ s[k] # NULL
  /\ head[q] = IF l = 0 THEN NULL ELSE s[1]
  /\ tail[q] = IF l = 0 THEN NULL ELSE s[l]
  /\ \A k \in 1 .. l : /\ queue[s[k]] = q
                       /\ prev[s[k]] = IF k = 1 THEN NULL ELSE s[k - 1]
                       /\ next[s[k]] = IF k = l THEN NULL ELSE s[k + 1]
  /\ \A k, m \in 1 .. l : s[m] = s[k] => m = k

LEMMA SeenNow ==
  ASSUME NEW c, Now(c), NEW q \in Queues
  PROVE  Seen(c[q], q, Len(c[q]))
<1> DEFINE s == c[q]
<1>1. s \in Seq(Items) /\ Linked(s, q, head, tail, prev, next, queue)
  BY DEF Now, Rep
<1> HIDE DEF s
<1>2. \A k \in 1 .. Len(s) : s[k] \in Items /\ s[k] # NULL
  BY <1>1, NullAssumption
<1>3. Seen(s, q, Len(s))
  BY <1>1, <1>2 DEF Seen, Linked
<1> QED BY <1>3 DEF s

LEMMA SeenFirst ==
  ASSUME NEW s, NEW q \in Queues, NEW l, Seen(s, q, l)
  PROVE  /\ head[q] = NULL <=> l = 0
         /\ l # 0 => 1 \in 1 .. l /\ l \in 1 .. l /\ head[q] = s[1] /\ tail[q] = s[l]
<1>1. l # 0 => 1 \in 1 .. l /\ l \in 1 .. l
  BY DEF Seen
<1> QED BY <1>1 DEF Seen

LEMMA PushFirstInserts ==
  ASSUME Types, NEW s, NEW q \in Queues, NEW i \in Items, NEW l, Seen(s, q, l),
         queue[i] = NULL, queue_is_empty(q), PushFirst(q, i),
         queue' = [queue EXCEPT ![i] = q]
  PROVE  InsertsAt(s, q, l + 1, i)
<1>1. l = 0 /\ Len(s) = 0
  BY SeenFirst DEF queue_is_empty, Seen
<1>2. /\ head' = [head EXCEPT ![q] = i] /\ tail' = [tail EXCEPT ![q] = i]
      /\ next' = [next EXCEPT ![i] = NULL] /\ prev' = [prev EXCEPT ![i] = NULL]
  BY DEF PushFirst
<1>3. \A r \in Queues : r # q => head'[r] = head[r] /\ tail'[r] = tail[r]
  BY <1>2 DEF Types
<1>4. head'[q] = i /\ tail'[q] = i
  BY <1>2 DEF Types
<1>5. ASSUME NEW x \in Items
      PROVE  /\ queue'[x] = IF x = i THEN q ELSE queue[x]
             /\ next'[x] = IF x = i THEN NULL ELSE next[x]
             /\ prev'[x] = IF x = i THEN NULL ELSE prev[x]
  BY <1>2 DEF Types
<1> QED BY <1>1, <1>3, <1>4, <1>5 DEF InsertsAt, InsertLinks

LEMMA PushLastInserts ==
  ASSUME Types, NEW s, NEW q \in Queues, NEW i \in Items, NEW l, Seen(s, q, l),
         queue[i] = NULL, ~ queue_is_empty(q), PushLast(q, i),
         queue' = [queue EXCEPT ![i] = q]
  PROVE  InsertsAt(s, q, l + 1, i)
<1> DEFINE e == s[l]
<1>1. l # 0 /\ l \in Nat /\ Len(s) = l /\ l \in 1 .. l
  BY SeenFirst DEF queue_is_empty, Seen
<1>1a. e = tail[q] /\ e \in Items
  BY <1>1 DEF Seen
<1>1b. e # i
  BY <1>1, NullAssumption DEF Seen
<1>1c. (l + 1) - 1 = l /\ l + 1 # 1 /\ l + 1 > 1 /\ ~ (l + 1 <= l)
  BY <1>1
<1> HIDE DEF e
<1>2. /\ head' = head /\ tail' = [tail EXCEPT ![q] = i]
      /\ next' = [next EXCEPT ![e] = i, ![i] = NULL]
      /\ prev' = [prev EXCEPT ![i] = e]
  BY <1>1a DEF PushLast
<1>3. \A r \in Queues : r # q => head'[r] = head[r] /\ tail'[r] = tail[r]
  BY <1>2 DEF Types
<1>4. head'[q] = head[q] /\ tail'[q] = i
  BY <1>2 DEF Types
<1>5. ASSUME NEW x \in Items
      PROVE  /\ queue'[x] = IF x = i THEN q ELSE queue[x]
             /\ next'[x] = IF x = i THEN NULL ELSE IF x = e THEN i ELSE next[x]
             /\ prev'[x] = IF x = i THEN e ELSE prev[x]
  BY <1>1a, <1>1b, <1>2 DEF Types
<1> QED BY <1>1, <1>1c, <1>3, <1>4, <1>5 DEF InsertsAt, InsertLinks, e

LEMMA InsertBeforeInserts ==
  ASSUME Types, NEW s, NEW q \in Queues, NEW i \in Items, NEW l, Seen(s, q, l),
         NEW j \in 1 .. l, queue[i] = NULL, InsertBefore(q, i, s[j]),
         queue' = [queue EXCEPT ![i] = q]
  PROVE  InsertsAt(s, q, j, i)
<1> DEFINE t == s[j]
           p == s[j - 1]
<1>1. l \in Nat /\ Len(s) = l /\ 1 \in 1 .. l /\ j \in Nat /\ 1 <= j /\ j <= l /\ j # l + 1 /\ j # Len(s) + 1
  BY DEF Seen
<1>2. t \in Items /\ t # i /\ head[q] = s[1]
  BY <1>1, NullAssumption DEF Seen
<1>3. t = head[q] <=> j = 1
  BY <1>1, <1>2 DEF Seen
<1>4. tail' = tail /\ queue' = [queue EXCEPT ![i] = q]
  BY DEF InsertBefore
<1>5. CASE j = 1
  <2>1. /\ head' = [head EXCEPT ![q] = i] /\ next' = [next EXCEPT ![i] = t]
        /\ prev' = [prev EXCEPT ![t] = i, ![i] = NULL]
    BY <1>3, <1>5 DEF InsertBefore
  <2> HIDE DEF t
  <2>2. \A r \in Queues : r # q => head'[r] = head[r] /\ tail'[r] = tail[r]
    BY <1>4, <2>1 DEF Types
  <2>3. head'[q] = i /\ tail'[q] = tail[q]
    BY <1>4, <2>1 DEF Types
  <2>4. ASSUME NEW x \in Items
        PROVE  /\ queue'[x] = IF x = i THEN q ELSE queue[x]
               /\ next'[x] = IF x = i THEN t ELSE next[x]
               /\ prev'[x] = IF x = i THEN NULL ELSE IF x = t THEN i ELSE prev[x]
    BY <1>2, <1>4, <2>1 DEF Types
  <2> QED BY <1>1, <1>5, <2>2, <2>3, <2>4 DEF InsertsAt, InsertLinks, t
<1>6. CASE j # 1
  <2>1. j - 1 \in 1 .. l /\ j > 1
    BY <1>1, <1>6
  <2>2. p \in Items /\ p # i /\ prev[t] = p
    BY <1>1, <1>6, <2>1, NullAssumption DEF Seen
  <2>3. /\ head' = head /\ next' = [next EXCEPT ![p] = i, ![i] = t]
        /\ prev' = [prev EXCEPT ![i] = p, ![t] = i]
    BY <1>3, <1>6, <2>2 DEF InsertBefore
  <2> HIDE DEF t, p
  <2>4. \A r \in Queues : r # q => head'[r] = head[r] /\ tail'[r] = tail[r]
    BY <1>4, <2>3
  <2>5. head'[q] = head[q] /\ tail'[q] = tail[q]
    BY <1>4, <2>3
  <2>6. ASSUME NEW x \in Items
        PROVE  /\ queue'[x] = IF x = i THEN q ELSE queue[x]
               /\ next'[x] = IF x = i THEN t ELSE IF x = p THEN i ELSE next[x]
               /\ prev'[x] = IF x = i THEN p ELSE IF x = t THEN i ELSE prev[x]
    BY <1>2, <1>4, <2>2, <2>3 DEF Types
  <2> QED BY <1>1, <1>6, <2>1, <2>4, <2>5, <2>6 DEF InsertsAt, InsertLinks, t, p
<1> QED BY <1>5, <1>6

LEMMA RemoveOnly ==
  ASSUME Types, NEW s, NEW q \in Queues, NEW i \in Items, NEW l, Seen(s, q, l),
         l = 1, i = s[1],
         head' = [head EXCEPT ![q] = NULL], tail' = [tail EXCEPT ![q] = NULL],
         prev' = prev, next' = next, queue' = [queue EXCEPT ![i] = NULL]
  PROVE  RemovesAt(s, q, 1, i)
<1>1. Len(s) = 1 /\ 1 \in 1 .. l /\ ~ (1 < Len(s)) /\ ~ (1 > 1)
  BY DEF Seen
<1>2. next[i] = NULL /\ prev[i] = NULL
  BY <1>1 DEF Seen
<1>3. \A r \in Queues : r # q => head'[r] = head[r] /\ tail'[r] = tail[r]
  BY DEF Types
<1>4. head'[q] = NULL /\ tail'[q] = NULL
  BY DEF Types
<1>5. ASSUME NEW x \in Items
      PROVE  /\ queue'[x] = IF x = i THEN NULL ELSE queue[x]
             /\ next'[x] = IF x = i THEN NULL ELSE next[x]
             /\ prev'[x] = IF x = i THEN NULL ELSE prev[x]
  BY <1>2 DEF Types
<1> QED BY <1>1, <1>3, <1>4, <1>5 DEF RemovesAt, RemoveLinks

LEMMA RemoveFirst ==
  ASSUME Types, NEW s, NEW q \in Queues, NEW i \in Items, NEW l, Seen(s, q, l),
         l > 1, i = s[1],
         head' = [head EXCEPT ![q] = next[i]], tail' = tail,
         prev' = [prev EXCEPT ![next[i]] = NULL, ![i] = NULL],
         next' = [next EXCEPT ![i] = NULL], queue' = [queue EXCEPT ![i] = NULL]
  PROVE  RemovesAt(s, q, 1, i)
<1> DEFINE n == s[2]
<1>1. /\ l \in Nat /\ Len(s) = l /\ 1 \in 1 .. l /\ 2 \in 1 .. l
      /\ 1 < Len(s) /\ Len(s) # 1 /\ ~ (1 > 1) /\ 1 + 1 = 2 /\ 1 # l
  BY DEF Seen
<1>2. n \in Items /\ next[i] = n /\ n # i
  BY <1>1 DEF Seen
<1> HIDE DEF n
<1>3. \A r \in Queues : r # q => head'[r] = head[r] /\ tail'[r] = tail[r]
  BY DEF Types
<1>4. head'[q] = n /\ tail'[q] = tail[q]
  BY <1>2 DEF Types
<1>5. ASSUME NEW x \in Items
      PROVE  /\ queue'[x] = IF x = i THEN NULL ELSE queue[x]
             /\ next'[x] = IF x = i THEN NULL ELSE next[x]
             /\ prev'[x] = IF x = i THEN NULL ELSE IF x = n THEN NULL ELSE prev[x]
  BY <1>2 DEF Types
<1> DEFINE one == 1
<1>6. /\ n = s[one + 1] /\ n = s[2] /\ i = s[one] /\ ~ (one > 1) /\ one < Len(s) /\ one = 1
      /\ Len(s) # 1
  BY <1>1 DEF n
<1> HIDE DEF one
<1>6a. ASSUME NEW x \in Items
       PROVE  /\ queue'[x] = IF x = i THEN NULL ELSE queue[x]
              /\ next'[x] = IF x = i THEN NULL
                            ELSE IF one > 1 /\ x = s[one - 1]
                            THEN (IF one = Len(s) THEN NULL ELSE s[one + 1]) ELSE next[x]
              /\ prev'[x] = IF x = i THEN NULL
                            ELSE IF one < Len(s) /\ x = s[one + 1]
                            THEN (IF one = 1 THEN NULL ELSE s[one - 1]) ELSE prev[x]
  <2>1. next'[x] = IF x = i THEN NULL
                   ELSE IF one > 1 /\ x = s[one - 1]
                   THEN (IF one = Len(s) THEN NULL ELSE s[one + 1]) ELSE next[x]
    BY <1>5, <1>6
  <2>2. prev'[x] = IF x = i THEN NULL
                   ELSE IF one < Len(s) /\ x = s[one + 1]
                   THEN (IF one = 1 THEN NULL ELSE s[one - 1]) ELSE prev[x]
    <3>0. n = s[one + 1]
      BY <1>6
    <3>1. prev'[x] = IF x = i THEN NULL ELSE IF x = s[one + 1] THEN NULL ELSE prev[x]
      BY <1>5, <3>0
    <3> QED BY <1>6, <3>1
  <2> QED BY <1>5, <2>1, <2>2
<1>6b. /\ head'[q] = IF one > 1 THEN head[q] ELSE IF Len(s) = 1 THEN NULL ELSE s[2]
       /\ tail'[q] = IF one < Len(s) THEN tail[q] ELSE IF one = 1 THEN NULL ELSE s[one - 1]
  BY <1>4, <1>6
<1>7. RemovesAt(s, q, one, i)
  BY <1>3, <1>6, <1>6a, <1>6b, Zenon DEF RemovesAt, RemoveLinks
<1> QED BY <1>7 DEF one

LEMMA RemoveLast ==
  ASSUME Types, NEW s, NEW q \in Queues, NEW i \in Items, NEW l, Seen(s, q, l),
         l > 1, i = s[l],
         tail' = [tail EXCEPT ![q] = prev[i]], head' = head,
         next' = [next EXCEPT ![prev[i]] = NULL, ![i] = NULL],
         prev' = [prev EXCEPT ![i] = NULL], queue' = [queue EXCEPT ![i] = NULL]
  PROVE  RemovesAt(s, q, l, i)
<1> DEFINE p == s[l - 1]
<1>1. /\ l \in Nat /\ Len(s) = l /\ l \in 1 .. l /\ l - 1 \in 1 .. l
      /\ l # 1 /\ ~ (l < Len(s)) /\ l # l - 1
  <2>1. l \in Nat /\ Len(s) = l
    BY DEF Seen
  <2> QED BY <2>1
<1>2. p \in Items /\ prev[i] = p /\ p # i
  BY <1>1 DEF Seen
<1> HIDE DEF p
<1>3. \A r \in Queues : r # q => head'[r] = head[r] /\ tail'[r] = tail[r]
  BY DEF Types
<1>4. head'[q] = head[q] /\ tail'[q] = p
  BY <1>2 DEF Types
<1>5. ASSUME NEW x \in Items
      PROVE  /\ queue'[x] = IF x = i THEN NULL ELSE queue[x]
             /\ next'[x] = IF x = i THEN NULL ELSE IF x = p THEN NULL ELSE next[x]
             /\ prev'[x] = IF x = i THEN NULL ELSE prev[x]
  BY <1>2 DEF Types
<1>6. p = s[l - 1] /\ l > 1 /\ l = Len(s) /\ l # 1 /\ ~ (l < Len(s))
  BY <1>1 DEF p
<1>6a. ASSUME NEW x \in Items
       PROVE  /\ queue'[x] = IF x = i THEN NULL ELSE queue[x]
              /\ next'[x] = IF x = i THEN NULL
                            ELSE IF l > 1 /\ x = s[l - 1]
                            THEN (IF l = Len(s) THEN NULL ELSE s[l + 1]) ELSE next[x]
              /\ prev'[x] = IF x = i THEN NULL
                            ELSE IF l < Len(s) /\ x = s[l + 1]
                            THEN (IF l = 1 THEN NULL ELSE s[l - 1]) ELSE prev[x]
  BY <1>5, <1>6, Zenon
<1>6b. /\ head'[q] = IF l > 1 THEN head[q] ELSE IF Len(s) = 1 THEN NULL ELSE s[2]
       /\ tail'[q] = IF l < Len(s) THEN tail[q] ELSE IF l = 1 THEN NULL ELSE s[l - 1]
  BY <1>4, <1>6, Zenon
<1> QED BY <1>3, <1>6a, <1>6b, Zenon DEF RemovesAt, RemoveLinks

LEMMA RemoveInner ==
  ASSUME Types, NEW s, NEW q \in Queues, NEW i \in Items, NEW l, Seen(s, q, l),
         NEW j \in 1 .. l, 1 < j, j < l, i = s[j],
         next' = [next EXCEPT ![prev[i]] = next[i], ![i] = NULL],
         prev' = [prev EXCEPT ![next[i]] = prev[i], ![i] = NULL],
         head' = head, tail' = tail, queue' = [queue EXCEPT ![i] = NULL]
  PROVE  RemovesAt(s, q, j, i)
<1> DEFINE p == s[j - 1]
           n == s[j + 1]
<1>1. /\ l \in Nat /\ Len(s) = l /\ j - 1 \in 1 .. l /\ j + 1 \in 1 .. l
      /\ j # 1 /\ j > 1 /\ j < Len(s) /\ j # l /\ j # Len(s) /\ j - 1 # j /\ j + 1 # j
  BY DEF Seen
<1>2. p \in Items /\ prev[i] = p /\ p # i
  BY <1>1 DEF Seen
<1>2a. n \in Items /\ next[i] = n /\ n # i
  BY <1>1 DEF Seen
<1> HIDE DEF p, n
<1>4. \A r \in Queues : head'[r] = head[r] /\ tail'[r] = tail[r]
  OBVIOUS
<1>5. ASSUME NEW x \in Items
      PROVE  /\ queue'[x] = IF x = i THEN NULL ELSE queue[x]
             /\ next'[x] = IF x = i THEN NULL ELSE IF x = p THEN n ELSE next[x]
             /\ prev'[x] = IF x = i THEN NULL ELSE IF x = n THEN p ELSE prev[x]
  BY <1>2, <1>2a DEF Types
<1>6. p = s[j - 1] /\ n = s[j + 1] /\ j > 1 /\ j < Len(s) /\ j # 1 /\ j # Len(s)
  BY <1>1 DEF p, n
<1>6a. ASSUME NEW x \in Items
       PROVE  /\ queue'[x] = IF x = i THEN NULL ELSE queue[x]
              /\ next'[x] = IF x = i THEN NULL
                            ELSE IF j > 1 /\ x = s[j - 1]
                            THEN (IF j = Len(s) THEN NULL ELSE s[j + 1]) ELSE next[x]
              /\ prev'[x] = IF x = i THEN NULL
                            ELSE IF j < Len(s) /\ x = s[j + 1]
                            THEN (IF j = 1 THEN NULL ELSE s[j - 1]) ELSE prev[x]
  BY <1>5, <1>6, Zenon
<1>6b. /\ head'[q] = IF j > 1 THEN head[q] ELSE IF Len(s) = 1 THEN NULL ELSE s[2]
       /\ tail'[q] = IF j < Len(s) THEN tail[q] ELSE IF j = 1 THEN NULL ELSE s[j - 1]
  BY <1>4, <1>6, Zenon
<1> QED BY <1>4, <1>6a, <1>6b, Zenon DEF RemovesAt, RemoveLinks

-----------------------------------------------------------------------------
\* Following `next` from the head reads the sequence that the links represent.

\* Every nonempty set of natural numbers has a least element: the induction
\* over the places of a walk is an argument about the first bad one.
LEMMA LeastNat ==
  ASSUME NEW T, T \subseteq Nat, T # {}
  PROVE  \E x \in T : \A y \in T : x <= y
<1> DEFINE R == {ss \in Nat \X Nat : ss[1] < ss[2]}
<1>1. IsWellFoundedOn(R, Nat)
  BY NatLessThanWellFounded DEF OpToRel
<1>2. \A x, y \in Nat : x < y => <<x, y>> \in R
  OBVIOUS
<1> HIDE DEF R
<1>3. PICK x \in T : \A y \in T : ~ (<<y, x>> \in R)
  BY <1>1, WFMin
<1>4. ASSUME NEW y \in T PROVE x <= y
  <2>1. x \in Nat /\ y \in Nat
    OBVIOUS
  <2>2. ~ y < x
    BY <1>2, <1>3, <2>1
  <2> QED BY <2>1, <2>2
<1> QED BY <1>4

\* Reach and Walk of a given state, and what makes a function the reach.
IsReach(f, hd, nx, q) ==
  f = [n \in 0 .. Cardinality(Items) |->
         IF n = 0 THEN hd[q] ELSE IF f[n - 1] = NULL THEN NULL ELSE nx[f[n - 1]]]

ReachOf(hd, nx, q) == CHOOSE f : IsReach(f, hd, nx, q)

WalkOf(hd, nx, q) ==
  LET seen == {n \in 0 .. Cardinality(Items) : ReachOf(hd, nx, q)[n] # NULL}
  IN  [n \in 1 .. Cardinality(seen) |-> ReachOf(hd, nx, q)[n - 1]]

LEMMA ReachIs ==
  ASSUME NEW q
  PROVE  Reach(q) = ReachOf(head, next, q) /\ Walk(q) = WalkOf(head, next, q)
<1>1. Reach(q) = ReachOf(head, next, q)
  BY Zenon DEF Reach, ReachOf, IsReach
<1> QED BY <1>1, Zenon DEF Walk, WalkOf

LEMMA ReachIsThen ==
  ASSUME NEW q
  PROVE  Walk(q)' = WalkOf(head', next', q)
<1>1. Reach(q)' = ReachOf(head', next', q)
  BY Zenon DEF Reach, ReachOf, IsReach
<1> QED BY <1>1, Zenon DEF Walk, WalkOf

\* The places of a walk of the sequence s.
Place(s, n) == IF n < Len(s) THEN s[n + 1] ELSE NULL

LEMMA LengthBound ==
  ASSUME NEW s \in Seq(Items), \A j, k \in 1 .. Len(s) : s[j] = s[k] => j = k
  PROVE  Cardinality(Items) \in Nat /\ Len(s) <= Cardinality(Items)
<1>1. s \in Injection(1 .. Len(s), Items)
  BY DEF Injection, IsInjective
<1>2. Cardinality(1 .. Len(s)) <= Cardinality(Items)
  BY <1>1, ItemsAssumption, FS_Injection
<1>3. Cardinality(1 .. Len(s)) = Len(s)
  <2>1. 1 \in Int /\ Len(s) \in Int /\ Len(s) \in Nat
    OBVIOUS
  <2>2. Cardinality(1 .. Len(s)) = IF 1 > Len(s) THEN 0 ELSE Len(s) - 1 + 1
    BY <2>1, FS_Interval
  <2> QED BY <2>1, <2>2
<1> QED BY <1>2, <1>3, ItemsAssumption, FS_CardinalityType

LEMMA ReachPlaces ==
  ASSUME NEW s \in Seq(Items), NEW q, NEW hd, NEW tl, NEW pv, NEW nx, NEW qu,
         Linked(s, q, hd, tl, pv, nx, qu)
  PROVE  \A n \in 0 .. Cardinality(Items) : ReachOf(hd, nx, q)[n] = Place(s, n)
<1> DEFINE N == Cardinality(Items)
           l == Len(s)
           next1(f, n) == IF f[n - 1] = NULL THEN NULL ELSE nx[f[n - 1]]
           g == [n \in 0 .. N |-> Place(s, n)]
<1>1. N \in Nat /\ l \in Nat /\ l <= N
  BY LengthBound DEF Linked
<1>2. \A k \in 1 .. l : s[k] # NULL
  BY NullAssumption
<1>3. /\ hd[q] = IF l = 0 THEN NULL ELSE s[1]
      /\ \A k \in 1 .. l : nx[s[k]] = IF k = l THEN NULL ELSE s[k + 1]
  BY DEF Linked
<1>4. \A n \in Int : Place(s, n) = IF n < l THEN s[n + 1] ELSE NULL
  BY DEF Place
<1> HIDE DEF N, l
<1>5. Place(s, 0) = hd[q]
  BY <1>1, <1>3, <1>4
<1>6. ASSUME NEW n \in 1 .. N
      PROVE  Place(s, n) = IF Place(s, n - 1) = NULL THEN NULL ELSE nx[Place(s, n - 1)]
  <2>1. CASE n <= l
    <3>1. n \in 1 .. l /\ n - 1 < l /\ (n - 1) + 1 = n /\ n - 1 \in Int /\ n \in Int
      BY <1>1, <2>1
    <3>2. Place(s, n - 1) = s[n] /\ s[n] # NULL
      BY <1>2, <1>4, <3>1
    <3>3. nx[s[n]] = IF n = l THEN NULL ELSE s[n + 1]
      BY <1>3, <3>1
    <3>4. Place(s, n) = IF n = l THEN NULL ELSE s[n + 1]
      BY <1>1, <1>4, <3>1
    <3> QED BY <3>2, <3>3, <3>4
  <2>2. CASE ~ (n <= l)
    <3>1. ~ (n < l) /\ ~ (n - 1 < l) /\ n - 1 \in Int /\ n \in Int
      BY <1>1, <2>2
    <3> QED BY <1>4, <3>1
  <2> QED BY <2>1, <2>2
<1>7. IsReach(g, hd, nx, q)
  <2> DEFINE h == [n \in 0 .. N |-> IF n = 0 THEN hd[q] ELSE next1(g, n)]
  <2>1. ASSUME NEW n \in 0 .. N PROVE g[n] = IF n = 0 THEN hd[q] ELSE next1(g, n)
    <3>1. CASE n = 0
      BY <1>5, <3>1
    <3>2. CASE n # 0
      <4>1. n \in 1 .. N /\ n - 1 \in 0 .. N
        BY <1>1, <3>2
      <4>2. g[n] = Place(s, n) /\ g[n - 1] = Place(s, n - 1)
        BY <4>1
      <4> QED BY <1>6, <3>2, <4>1, <4>2
    <3> QED BY <3>1, <3>2
  <2>2. g = h
    <3>1. \A n \in 0 .. N : g[n] = h[n]
      BY <2>1
    <3> HIDE DEF next1
    <3> QED BY <3>1
  <2> QED BY <2>2, Zenon DEF IsReach, N
<1>8. ASSUME NEW f, IsReach(f, hd, nx, q)
      PROVE  \A n \in 0 .. N : f[n] = Place(s, n)
  <2>1. \A n \in 0 .. N : f[n] = IF n = 0 THEN hd[q] ELSE next1(f, n)
    BY <1>8 DEF IsReach, N
  <2> DEFINE T == {n \in 0 .. N : f[n] # Place(s, n)}
  <2> SUFFICES ASSUME T # {} PROVE FALSE
    OBVIOUS
  <2>2. PICK m \in T : \A y \in T : m <= y
    <3>1. T \subseteq Nat
      BY <1>1
    <3> HIDE DEF T
    <3> QED BY <3>1, LeastNat
  <2>3. m \in 0 .. N /\ f[m] # Place(s, m)
    OBVIOUS
  <2>4. m # 0
    BY <1>5, <2>1, <2>3
  <2>5. m \in 1 .. N /\ m - 1 \in 0 .. N /\ ~ (m <= m - 1)
    BY <1>1, <2>3, <2>4
  <2>6. f[m - 1] = Place(s, m - 1)
    BY <2>2, <2>5
  <2>7. f[m] = IF f[m - 1] = NULL THEN NULL ELSE nx[f[m - 1]]
    BY <2>1, <2>3, <2>4
  <2> QED BY <1>6, <2>3, <2>5, <2>6, <2>7
<1>9. IsReach(ReachOf(hd, nx, q), hd, nx, q)
  <2> HIDE DEF g
  <2> QED BY <1>7, Zenon DEF ReachOf
<1> QED BY <1>8, <1>9 DEF N

LEMMA WalkReads ==
  ASSUME NEW s \in Seq(Items), NEW q, NEW hd, NEW tl, NEW pv, NEW nx, NEW qu,
         Linked(s, q, hd, tl, pv, nx, qu)
  PROVE  WalkOf(hd, nx, q) = s
<1> DEFINE N == Cardinality(Items)
           l == Len(s)
           at == ReachOf(hd, nx, q)
           seen == {n \in 0 .. N : at[n] # NULL}
<1>1. N \in Nat /\ l \in Nat /\ l <= N
  BY LengthBound DEF Linked
<1>2. \A n \in 0 .. N : at[n] = IF n < l THEN s[n + 1] ELSE NULL
  BY ReachPlaces DEF Place
<1>3. \A k \in 1 .. l : s[k] # NULL
  BY NullAssumption
<1>4. s = [n \in 1 .. l |-> s[n]]
  OBVIOUS
<1>5. WalkOf(hd, nx, q) = [n \in 1 .. Cardinality(seen) |-> at[n - 1]]
  BY Zenon DEF WalkOf
<1> HIDE DEF N, l, at
<1>6. seen = 0 .. l - 1
  <2>1. ASSUME NEW n \in 0 .. N PROVE at[n] # NULL <=> n < l
    <3>1. n < l => n + 1 \in 1 .. l
      BY <1>1
    <3> QED BY <1>2, <1>3, <3>1
  <2> QED BY <1>1, <2>1
<1>7. Cardinality(seen) = l
  <2>1. 0 \in Int /\ l - 1 \in Int
    BY <1>1
  <2>2. Cardinality(0 .. l - 1) = IF 0 > l - 1 THEN 0 ELSE (l - 1) - 0 + 1
    BY <2>1, FS_Interval
  <2> HIDE DEF seen
  <2>3. Cardinality(seen) = IF 0 > l - 1 THEN 0 ELSE (l - 1) - 0 + 1
    BY <1>6, <2>2
  <2> QED BY <1>1, <2>3
<1> HIDE DEF seen
<1>8. \A n \in 1 .. l : at[n - 1] = s[n]
  <2> SUFFICES ASSUME NEW n \in 1 .. l PROVE at[n - 1] = s[n]
    OBVIOUS
  <2>1. n - 1 \in 0 .. N /\ n - 1 < l /\ (n - 1) + 1 = n
    BY <1>1
  <2> QED BY <1>2, <2>1
<1>9. [n \in 1 .. l |-> at[n - 1]] = [n \in 1 .. l |-> s[n]]
  BY <1>8
<1> QED BY <1>4, <1>5, <1>7, <1>9

-----------------------------------------------------------------------------
\* The four operations on the sequences.

\* Where the loop of queue_push_increasingly stops, as a place of the sequence.
StopsAt(s, i, j) ==
  /\ j \in 1 .. Len(s) + 1
  /\ \A m \in 1 .. j - 1 : priority[s[m]] > priority[i]
  /\ j <= Len(s) => priority[s[j]] <= priority[i]

LEMMA SeekStops ==
  ASSUME Types, NEW c, Now(c), NEW q \in Queues, NEW i \in Items
  PROVE  \E j : StopsAt(c[q], i, j) /\ Seek(q, i) = Place(c[q], j - 1)
<1> DEFINE s == c[q]
           N == Cardinality(Items)
           l == Len(s)
           at == Reach(q)
           stop == {n \in 0 .. N : at[n] = NULL \/ priority[at[n]] <= priority[i]}
           x == CHOOSE n \in stop : \A m \in stop : n <= m
<1>1. s \in Seq(Items) /\ Linked(s, q, head, tail, prev, next, queue)
  BY DEF Now, Rep
<1>2. \A n \in 0 .. N : at[n] = Place(s, n)
  <2> HIDE DEF s
  <2> QED BY <1>1, ReachPlaces, ReachIs
<1>3. N \in Nat /\ l \in Nat /\ l <= N
  <2> HIDE DEF s
  <2> QED BY <1>1, LengthBound DEF Linked, l
<1>4. \A k \in 1 .. l : s[k] \in Items /\ s[k] # NULL /\ priority[s[k]] \in Int
  BY <1>1, NullAssumption DEF Types
<1>4a. priority[i] \in Int
  BY DEF Types
<1>5. Seek(q, i) = at[x]
  BY Zenon DEF Seek
<1>6. \A n \in 0 .. N : at[n] = IF n < l THEN s[n + 1] ELSE NULL
  BY <1>2 DEF Place
<1> HIDE DEF s, N, l, at
<1>7. l \in stop
  BY <1>3, <1>6
<1>8. x \in stop /\ \A m \in stop : x <= m
  <2>1. stop \subseteq Nat /\ stop # {}
    BY <1>3, <1>7
  <2> HIDE DEF stop
  <2>2. \E n \in stop : \A m \in stop : n <= m
    BY <2>1, LeastNat
  <2> QED BY <2>2
<1> HIDE DEF x
<1>9. x \in 0 .. N /\ x \in 0 .. l /\ (at[x] = NULL \/ priority[at[x]] <= priority[i])
  BY <1>3, <1>7, <1>8
<1>10. ASSUME NEW m \in 1 .. x PROVE priority[s[m]] > priority[i]
  <2>1. m - 1 \in 0 .. N /\ m - 1 < l /\ (m - 1) + 1 = m /\ ~ (x <= m - 1) /\ m \in 1 .. l
    BY <1>3, <1>9
  <2>2. at[m - 1] = s[m]
    BY <1>6, <2>1
  <2>3. m - 1 \notin stop
    BY <1>8, <2>1
  <2>4. ~ (priority[s[m]] <= priority[i])
    BY <2>1, <2>2, <2>3
  <2> QED BY <1>4, <1>4a, <2>1, <2>4
<1>11. x + 1 <= l => priority[s[x + 1]] <= priority[i]
  <2> SUFFICES ASSUME x + 1 <= l PROVE priority[s[x + 1]] <= priority[i]
    OBVIOUS
  <2>1. x + 1 \in 1 .. l /\ x < l
    BY <1>3, <1>9
  <2>2. at[x] = s[x + 1] /\ s[x + 1] # NULL
    BY <1>4, <1>6, <1>9, <2>1
  <2> QED BY <1>9, <2>2
<1> DEFINE j == x + 1
<1>12. j \in 1 .. l + 1 /\ j - 1 = x
  BY <1>3, <1>9
<1>13. StopsAt(s, i, j)
  BY <1>10, <1>11, <1>12 DEF StopsAt, l
<1>14. Seek(q, i) = Place(s, j - 1)
  BY <1>2, <1>5, <1>9, <1>12
<1> HIDE DEF j
<1> QED BY <1>13, <1>14 DEF s

LEMMA SeqOf ==
  ASSUME NEW c, Now(c), NEW q \in Queues
  PROVE  /\ c \in [Queues -> Seq(Items)] /\ c[q] \in Seq(Items) /\ Len(c[q]) \in Nat
         /\ Linked(c[q], q, head, tail, prev, next, queue)
BY DEF Now, Rep

LEMMA InsertThen ==
  ASSUME NEW c, Now(c), NEW q \in Queues, NEW i \in Items, NEW j, NEW t,
         Inserted(c[q], t, j, i), InsertsAt(c[q], q, j, i)
  PROVE  Then([c EXCEPT ![q] = t])
BY InsertRep DEF Now, Then, InsertsAt

LEMMA RemoveThen ==
  ASSUME NEW c, Now(c), NEW q \in Queues, NEW i \in Items, NEW j, NEW t,
         Removed(c[q], t, j), RemovesAt(c[q], q, j, i)
  PROVE  Then([c EXCEPT ![q] = t])
BY RemoveRep DEF Now, Then, RemovesAt

LEMMA PushStep ==
  ASSUME Types, NEW c, Now(c), NEW q \in Queues, NEW i \in Items, queue_push(q, i)
  PROVE  Then([c EXCEPT ![q] = Append(c[q], i)])
<1> DEFINE s == c[q]
           l == Len(s)
           j == l + 1
           t == Append(s, i)
<1>1. s \in Seq(Items) /\ Seen(s, q, l)
  BY SeqOf, SeenNow
<1>2. Inserted(s, t, j, i)
  BY <1>1, AppendInserted
<1> HIDE DEF l
<1>3. InsertsAt(s, q, j, i)
  <2> HIDE DEF s, t
  <2>1. CASE queue_is_empty(q)
    BY <1>1, <2>1, PushFirstInserts DEF queue_push
  <2>2. CASE ~ queue_is_empty(q)
    BY <1>1, <2>2, PushLastInserts DEF queue_push
  <2> QED BY <2>1, <2>2
<1> HIDE DEF j, t
<1>4. Then([c EXCEPT ![q] = t])
  BY <1>2, <1>3, InsertThen
<1> QED BY <1>4 DEF t

LEMMA PushIncreasinglyStep ==
  ASSUME Types, NEW c, Now(c), NEW q \in Queues, NEW i \in Items,
         queue_push_increasingly(q, i)
  PROVE  \E j : /\ StopsAt(c[q], i, j)
                /\ Then([c EXCEPT ![q] = Abs!InsertAt(c[q], j, i)])
<1> DEFINE s == c[q]
           l == Len(s)
<1>1. s \in Seq(Items) /\ Seen(s, q, l)
  BY SeqOf, SeenNow
<1>2. PICK j : StopsAt(s, i, j) /\ Seek(q, i) = Place(s, j - 1)
  BY SeekStops
<1> DEFINE t == Abs!InsertAt(s, j, i)
<1>3. j \in 1 .. Len(s) + 1
  BY <1>2 DEF StopsAt
<1>3a. Inserted(s, t, j, i)
  <2> HIDE DEF s
  <2> QED BY <1>1, <1>3, InsertAtInserted
<1>4. InsertsAt(s, q, j, i)
  <2> HIDE DEF s, t
  <2>0. l \in Nat /\ l = Len(s) /\ queue[i] = NULL /\ queue' = [queue EXCEPT ![i] = q]
    BY <1>1 DEF queue_push_increasingly, Seen
  <2>1. CASE queue_is_empty(q)
    <3>1. l = 0 /\ j = l + 1
      BY <1>1, <1>3, <2>0, <2>1, SeenFirst DEF queue_is_empty
    <3>2. PushFirst(q, i)
      BY <2>1 DEF queue_push_increasingly
    <3> HIDE DEF l
    <3> QED BY <1>1, <2>0, <2>1, <3>1, <3>2, PushFirstInserts
  <2>2. CASE ~ queue_is_empty(q) /\ j = l + 1
    <3>1. Seek(q, i) = NULL
      BY <1>2, <2>0, <2>2 DEF Place
    <3>2. PushLast(q, i)
      BY <2>2, <3>1 DEF queue_push_increasingly
    <3> HIDE DEF l
    <3> QED BY <1>1, <2>0, <2>2, <3>2, PushLastInserts
  <2>3. CASE ~ queue_is_empty(q) /\ j # l + 1
    <3>1. j \in 1 .. l /\ j - 1 < l /\ (j - 1) + 1 = j
      BY <1>3, <2>0, <2>3
    <3>2. Seek(q, i) = s[j] /\ s[j] # NULL
      BY <1>1, <1>2, <3>1 DEF Place, Seen
    <3>3. InsertBefore(q, i, s[j])
      BY <2>3, <3>2 DEF queue_push_increasingly
    <3> HIDE DEF l
    <3> QED BY <1>1, <2>0, <3>1, <3>3, InsertBeforeInserts
  <2> QED BY <2>1, <2>2, <2>3
<1> HIDE DEF t
<1>5. Then([c EXCEPT ![q] = t])
  BY <1>3a, <1>4, InsertThen
<1> QED BY <1>2, <1>5 DEF t

LEMMA DequeueStep ==
  ASSUME Types, NEW c, Now(c), NEW q \in Queues, queue_dequeue(q)
  PROVE  /\ c[q] # <<>> /\ ret' = Head(c[q])
         /\ Then([c EXCEPT ![q] = Tail(c[q])])
<1> DEFINE s == c[q]
           l == Len(s)
           h == head[q]
           t == Tail(s)
<1>1. s \in Seq(Items) /\ Seen(s, q, l)
  BY SeqOf, SeenNow
<1>2. l # 0 /\ l \in Nat /\ 1 \in 1 .. l /\ h = s[1] /\ h \in Items
  <2> HIDE DEF s, l
  <2>1. l # 0 /\ l \in Nat /\ 1 \in 1 .. l /\ h = s[1]
    BY <1>1, SeenFirst DEF queue_dequeue, queue_is_empty, Seen
  <2> QED BY <1>1, <2>1 DEF Seen
<1>3. s # <<>> /\ ret' = h /\ Head(s) = s[1]
  BY <1>1, <1>2 DEF queue_dequeue
<1>4. Removed(s, t, 1)
  BY <1>1, <1>3, TailRemoved
<1>5. queue' = [queue EXCEPT ![h] = NULL]
  BY DEF queue_dequeue
<1>6. RemovesAt(s, q, 1, h)
  <2> HIDE DEF s, t
  <2>0. next[h] = IF 1 = l THEN NULL ELSE s[1 + 1]
    <3> HIDE DEF l
    <3> QED BY <1>1, <1>2 DEF Seen
  <2>1. CASE l = 1
    <3>1. next[h] = NULL
      BY <2>0, <2>1
    <3>2. /\ head' = [head EXCEPT ![q] = NULL] /\ tail' = [tail EXCEPT ![q] = NULL]
          /\ prev' = prev /\ next' = next
      BY <3>1 DEF queue_dequeue
    <3> HIDE DEF l, h
    <3> QED BY <1>1, <1>2, <1>5, <2>1, <3>2, RemoveOnly
  <2>2. CASE l # 1
    <3>0. 2 \in 1 .. l /\ 1 + 1 = 2 /\ l > 1
      BY <1>2, <2>2
    <3>1. next[h] # NULL
      <4> HIDE DEF l, h
      <4> QED BY <1>1, <2>0, <2>2, <3>0 DEF Seen
    <3>2. /\ head' = [head EXCEPT ![q] = next[h]] /\ tail' = tail
          /\ prev' = [prev EXCEPT ![next[h]] = NULL, ![h] = NULL]
          /\ next' = [next EXCEPT ![h] = NULL]
      BY <3>1 DEF queue_dequeue
    <3> HIDE DEF l, h
    <3> QED BY <1>1, <1>2, <1>5, <3>0, <3>2, RemoveFirst
  <2> QED BY <2>1, <2>2
<1> DEFINE one == 1
<1>7. Removed(s, t, one) /\ RemovesAt(s, q, one, h)
  BY <1>4, <1>6
<1> HIDE DEF t, h, one
<1>8. Then([c EXCEPT ![q] = t])
  BY <1>2, <1>7, RemoveThen
<1> QED BY <1>2, <1>3, <1>8 DEF t

LEMMA RemoveStep ==
  ASSUME Types, NEW c, Now(c), NEW q \in Queues, NEW i \in Items, queue_remove(q, i)
  PROVE  \E j : /\ j \in 1 .. Len(c[q]) /\ c[q][j] = i
                /\ ret' = IF j = Len(c[q]) THEN NULL ELSE c[q][j + 1]
                /\ Then([c EXCEPT ![q] = Abs!RemoveAt(c[q], j)])
<1> DEFINE s == c[q]
           l == Len(s)
<1>1. s \in Seq(Items) /\ Seen(s, q, l)
  BY SeqOf, SeenNow
<1>2. queue[i] = q /\ ret' = next[i] /\ queue' = [queue EXCEPT ![i] = NULL]
  BY DEF queue_remove
<1>3. PICK j \in 1 .. l : s[j] = i
  <2>1. Placed(c, i, prev, next, queue)
    BY DEF Now, Rep
  <2> QED BY <1>2, <2>1, NullAssumption DEF Placed
<1> DEFINE t == Abs!RemoveAt(s, j)
<1>4. Removed(s, t, j)
  <2> HIDE DEF s
  <2> QED BY <1>1, <1>3, RemoveAtRemoved
<1>5. /\ l \in Nat /\ l # 0 /\ head[q] = s[1] /\ tail[q] = s[l] /\ 1 \in 1 .. l /\ l \in 1 .. l
      /\ l = Len(s) /\ (i = head[q] <=> j = 1) /\ (i = tail[q] <=> j = l)
  <2> HIDE DEF s
  <2>1. l \in Nat /\ l = Len(s)
    BY <1>1 DEF Seen
  <2> HIDE DEF l
  <2>2. l # 0
    BY <1>3, <2>1
  <2>3. head[q] = s[1] /\ tail[q] = s[l] /\ 1 \in 1 .. l /\ l \in 1 .. l
    BY <1>1, <2>2, SeenFirst
  <2> QED BY <1>1, <1>3, <2>1, <2>2, <2>3 DEF Seen
<1>6. next[i] = IF j = l THEN NULL ELSE s[j + 1]
  <2> HIDE DEF s, l
  <2> QED BY <1>1, <1>3 DEF Seen
<1>7. RemovesAt(s, q, j, i)
  <2> HIDE DEF s, t, l
  <2>1. CASE j = 1 /\ l = 1
    <3>1. /\ head' = [head EXCEPT ![q] = NULL] /\ tail' = [tail EXCEPT ![q] = NULL]
          /\ prev' = prev /\ next' = next
      BY <1>5, <2>1 DEF queue_remove
    <3>2. RemovesAt(s, q, 1, i)
      BY <1>1, <1>2, <1>3, <2>1, <3>1, RemoveOnly
    <3> QED BY <2>1, <3>2
  <2>2. CASE j = 1 /\ l # 1
    <3>1. /\ head' = [head EXCEPT ![q] = next[i]] /\ tail' = tail
          /\ prev' = [prev EXCEPT ![next[i]] = NULL, ![i] = NULL]
          /\ next' = [next EXCEPT ![i] = NULL]
      BY <1>5, <2>2 DEF queue_remove, Unlink
    <3>2. l > 1
      BY <1>5, <2>2
    <3>3. RemovesAt(s, q, 1, i)
      BY <1>1, <1>2, <1>3, <2>2, <3>1, <3>2, RemoveFirst
    <3> QED BY <2>2, <3>3
  <2>3. CASE j # 1 /\ j = l
    <3>1. /\ tail' = [tail EXCEPT ![q] = prev[i]] /\ head' = head
          /\ next' = [next EXCEPT ![prev[i]] = NULL, ![i] = NULL]
          /\ prev' = [prev EXCEPT ![i] = NULL]
      BY <1>5, <2>3 DEF queue_remove, Unlink
    <3>2. l > 1
      BY <1>5, <2>3
    <3>3. RemovesAt(s, q, l, i)
      BY <1>1, <1>2, <1>3, <2>3, <3>1, <3>2, RemoveLast
    <3> QED BY <2>3, <3>3
  <2>4. CASE j # 1 /\ j # l
    <3>1. /\ next' = [next EXCEPT ![prev[i]] = next[i], ![i] = NULL]
          /\ prev' = [prev EXCEPT ![next[i]] = prev[i], ![i] = NULL]
          /\ head' = head /\ tail' = tail
      BY <1>5, <2>4 DEF queue_remove, Unlink
    <3>2. 1 < j /\ j < l
      BY <1>3, <1>5, <2>4
    <3> QED BY <1>1, <1>2, <1>3, <3>1, <3>2, RemoveInner
  <2> QED BY <2>1, <2>2, <2>3, <2>4
<1> HIDE DEF t
<1>8. Then([c EXCEPT ![q] = t])
  BY <1>4, <1>7, RemoveThen
<1> QED BY <1>2, <1>3, <1>6, <1>8 DEF t

-----------------------------------------------------------------------------
\* The theorems.

LEMMA PushTypes ==
  ASSUME Types, NEW q \in Queues, NEW i \in Items,
         PushFirst(q, i) \/ PushLast(q, i) \/ \E t \in Items : InsertBefore(q, i, t),
         queue' = [queue EXCEPT ![i] = q], priority' = priority
  PROVE  Types'
<1>1. NULL \in Pointer /\ Items \subseteq Pointer
  BY DEF Pointer
<1>2. tail[q] \in Pointer /\ queue' \in [Items -> Queues \cup {NULL}]
  BY DEF Types
<1>3. CASE PushFirst(q, i)
  BY <1>1, <1>2, <1>3 DEF PushFirst, Types
<1>4. CASE PushLast(q, i)
  BY <1>1, <1>2, <1>4 DEF PushLast, Types
<1>5. ASSUME NEW t \in Items, InsertBefore(q, i, t) PROVE Types'
  <2>1. prev[t] \in Pointer
    BY DEF Types
  <2>2. CASE t = head[q]
    BY <1>1, <1>2, <1>5, <2>1, <2>2 DEF InsertBefore, Types
  <2>3. CASE t # head[q]
    BY <1>1, <1>2, <1>5, <2>1, <2>3 DEF InsertBefore, Types
  <2> QED BY <2>2, <2>3
<1> QED BY <1>3, <1>4, <1>5

LEMMA DequeueTypes ==
  ASSUME Types, NEW q \in Queues, queue_dequeue(q)
  PROVE  Types'
<1> DEFINE h == head[q]
           n == next[h]
<1>1. NULL \in Pointer /\ h \in Items
  BY DEF queue_dequeue, queue_is_empty, Types, Pointer
<1>2. n \in Pointer
  BY <1>1 DEF Types
<1>3. /\ priority' = priority /\ queue' = [queue EXCEPT ![h] = NULL]
      /\ \/ /\ head' = [head EXCEPT ![q] = NULL] /\ tail' = [tail EXCEPT ![q] = NULL]
            /\ prev' = prev /\ next' = next
         \/ /\ head' = [head EXCEPT ![q] = n] /\ tail' = tail
            /\ prev' = [prev EXCEPT ![n] = NULL, ![h] = NULL]
            /\ next' = [next EXCEPT ![h] = NULL]
  BY DEF queue_dequeue
<1> HIDE DEF h, n
<1> QED BY <1>1, <1>2, <1>3 DEF Types

LEMMA RemoveTypes ==
  ASSUME Types, NEW q \in Queues, NEW i \in Items, queue_remove(q, i)
  PROVE  Types'
<1> DEFINE n == next[i]
           p == prev[i]
<1>1. NULL \in Pointer /\ n \in Pointer /\ p \in Pointer
  BY DEF Types, Pointer
<1>2. priority' = priority /\ queue' = [queue EXCEPT ![i] = NULL]
  BY DEF queue_remove
<1>3. CASE i = head[q] /\ i = tail[q]
  <2>1. /\ head' = [head EXCEPT ![q] = NULL] /\ tail' = [tail EXCEPT ![q] = NULL]
        /\ prev' = prev /\ next' = next
    BY <1>3 DEF queue_remove
  <2> QED BY <1>1, <1>2, <2>1 DEF Types
<1>4. CASE i = head[q] /\ i # tail[q]
  <2>1. /\ head' = [head EXCEPT ![q] = n] /\ tail' = tail
        /\ prev' = [prev EXCEPT ![n] = NULL, ![i] = NULL]
        /\ next' = [next EXCEPT ![i] = NULL]
    BY <1>4 DEF queue_remove, Unlink
  <2> HIDE DEF n
  <2> QED BY <1>1, <1>2, <2>1 DEF Types
<1>5. CASE i # head[q] /\ i = tail[q]
  <2>1. /\ tail' = [tail EXCEPT ![q] = p] /\ head' = head
        /\ next' = [next EXCEPT ![p] = NULL, ![i] = NULL]
        /\ prev' = [prev EXCEPT ![i] = NULL]
    BY <1>5 DEF queue_remove, Unlink
  <2> HIDE DEF p
  <2> QED BY <1>1, <1>2, <2>1 DEF Types
<1>6. CASE i # head[q] /\ i # tail[q]
  <2>1. /\ next' = [next EXCEPT ![p] = n, ![i] = NULL]
        /\ prev' = [prev EXCEPT ![n] = p, ![i] = NULL]
        /\ head' = head /\ tail' = tail
    BY <1>6 DEF queue_remove, Unlink
  <2> HIDE DEF n, p
  <2> QED BY <1>1, <1>2, <2>1 DEF Types
<1> QED BY <1>3, <1>4, <1>5, <1>6

LEMMA SeekTypes ==
  ASSUME Types, NEW c, Now(c), NEW q \in Queues, NEW i \in Items
  PROVE  Seek(q, i) \in Pointer
<1> DEFINE s == c[q]
<1>1. s \in Seq(Items)
  BY SeqOf
<1>2. PICK j : StopsAt(s, i, j) /\ Seek(q, i) = Place(s, j - 1)
  BY SeekStops
<1> HIDE DEF s
<1>3. j - 1 < Len(s) => (j - 1) + 1 \in 1 .. Len(s)
  BY <1>1, <1>2 DEF StopsAt
<1>4. j - 1 < Len(s) => s[(j - 1) + 1] \in Items
  BY <1>1, <1>3
<1> QED BY <1>2, <1>4 DEF Place, Pointer

LEMMA QInit ==
  ASSUME Init
  PROVE  Types /\ Now([q \in Queues |-> <<>>])
<1> DEFINE c == [q \in Queues |-> <<>>]
<1>1. Types
  BY DEF Init, queue_init, Types, Pointer
<1>2. c \in [Queues -> Seq(Items)]
  OBVIOUS
<1>3. ASSUME NEW q \in Queues PROVE Linked(c[q], q, head, tail, prev, next, queue)
  <2>1. c[q] = <<>> /\ Len(c[q]) = 0 /\ 1 .. Len(c[q]) = {}
    OBVIOUS
  <2>2. head[q] = NULL /\ tail[q] = NULL
    BY DEF Init, queue_init
  <2> HIDE DEF c
  <2> QED BY <2>1, <2>2 DEF Linked
<1>4. ASSUME NEW i \in Items PROVE Placed(c, i, prev, next, queue)
  BY DEF Init, Placed
<1> HIDE DEF c
<1>5. Now(c)
  BY <1>2, <1>3, <1>4 DEF Now, Rep
<1> QED BY <1>1, <1>5 DEF c

LEMMA QNext ==
  ASSUME QInv, [Next]_vars
  PROVE  QInv'
<1>1. Types /\ \E c : Now(c)
  BY DEF QInv, RepInv, Now
<1>2. PICK c : Now(c)
  BY <1>1
<1>3. ASSUME Types', NEW d, Then(d) PROVE QInv'
  BY <1>3 DEF QInv, RepInv, Then
<1>4. ASSUME NEW q \in Queues, queue_dequeue(q) PROVE QInv'
  <2>1. Types'
    BY <1>1, <1>4, DequeueTypes
  <2>2. Then([c EXCEPT ![q] = Tail(c[q])])
    BY <1>1, <1>2, <1>4, DequeueStep
  <2> QED BY <1>3, <2>1, <2>2
<1>5. ASSUME NEW q \in Queues, NEW i \in Items, queue_push(q, i) PROVE QInv'
  <2>1. Types'
    BY <1>1, <1>5, PushTypes DEF queue_push
  <2>2. Then([c EXCEPT ![q] = Append(c[q], i)])
    BY <1>1, <1>2, <1>5, PushStep
  <2> QED BY <1>3, <2>1, <2>2
<1>6. ASSUME NEW q \in Queues, NEW i \in Items, queue_push_increasingly(q, i) PROVE QInv'
  <2>1. Seek(q, i) \in Pointer
    BY <1>1, <1>2, SeekTypes
  <2>2. PushFirst(q, i) \/ PushLast(q, i) \/ \E t \in Items : InsertBefore(q, i, t)
    BY <1>6, <2>1 DEF queue_push_increasingly, Pointer
  <2>3. Types'
    BY <1>1, <1>6, <2>2, PushTypes DEF queue_push_increasingly
  <2>4. PICK j : Then([c EXCEPT ![q] = Abs!InsertAt(c[q], j, i)])
    BY <1>1, <1>2, <1>6, PushIncreasinglyStep
  <2> QED BY <1>3, <2>3, <2>4
<1>7. ASSUME NEW q \in Queues, NEW i \in Items, queue_remove(q, i) PROVE QInv'
  <2>1. Types'
    BY <1>1, <1>7, RemoveTypes
  <2>2. PICK j : Then([c EXCEPT ![q] = Abs!RemoveAt(c[q], j)])
    BY <1>1, <1>2, <1>7, RemoveStep
  <2> QED BY <1>3, <2>1, <2>2
<1>8. CASE UNCHANGED vars
  BY <1>8 DEF vars, QInv, RepInv, Types
<1> QED BY <1>4, <1>5, <1>6, <1>7, <1>8 DEF Next

LEMMA MirroredNow ==
  ASSUME Types, NEW c, Now(c)
  PROVE  Mirrored
<1>1. ASSUME NEW q \in Queues
      PROVE  /\ head[q] = NULL <=> tail[q] = NULL
             /\ head[q] # NULL => /\ queue[head[q]] = q /\ prev[head[q]] = NULL
                                  /\ queue[tail[q]] = q /\ next[tail[q]] = NULL
  <2> DEFINE s == c[q]
             l == Len(s)
  <2>1. Seen(s, q, l)
    BY SeenNow
  <2> HIDE DEF s, l
  <2>2. CASE l = 0
    BY <2>1, <2>2 DEF Seen
  <2>3. CASE l # 0
    <3>1. 1 \in 1 .. l /\ l \in 1 .. l
      BY <2>1, <2>3 DEF Seen
    <3>2. head[q] = s[1] /\ tail[q] = s[l]
      BY <2>1, <2>3 DEF Seen
    <3>3. head[q] # NULL /\ queue[head[q]] = q /\ prev[head[q]] = NULL
      BY <2>1, <3>1, <3>2 DEF Seen
    <3>4. tail[q] # NULL /\ queue[tail[q]] = q /\ next[tail[q]] = NULL
      BY <2>1, <3>1, <3>2 DEF Seen
    <3> QED BY <3>3, <3>4
  <2> QED BY <2>2, <2>3
<1>2. ASSUME NEW i \in Items
      PROVE  /\ queue[i] = NULL => next[i] = NULL /\ prev[i] = NULL
             /\ next[i] # NULL => prev[next[i]] = i /\ queue[next[i]] = queue[i]
             /\ prev[i] # NULL => next[prev[i]] = i
  <2>1. Placed(c, i, prev, next, queue)
    BY DEF Now, Rep
  <2>2. CASE queue[i] = NULL
    BY <2>1, <2>2, NullAssumption DEF Placed
  <2>3. CASE queue[i] # NULL
    <3> DEFINE q == queue[i]
               s == c[q]
               l == Len(s)
    <3>1. q \in Queues
      BY <2>1, <2>3 DEF Placed
    <3>2. PICK k \in 1 .. l : s[k] = i
      BY <2>1, <2>3 DEF Placed
    <3>3. Seen(s, q, l)
      BY <3>1, SeenNow
    <3> HIDE DEF s, l
    <3>4. next[i] # NULL => prev[next[i]] = i /\ queue[next[i]] = q
      <4> SUFFICES ASSUME next[i] # NULL PROVE prev[next[i]] = i /\ queue[next[i]] = q
        OBVIOUS
      <4>1. next[i] = s[k + 1] /\ k # l
        BY <3>2, <3>3 DEF Seen
      <4>2. k + 1 \in 1 .. l /\ k + 1 # 1 /\ (k + 1) - 1 = k
        BY <3>3, <4>1 DEF Seen
      <4>3. prev[s[k + 1]] = s[k] /\ queue[s[k + 1]] = q
        BY <3>3, <4>2 DEF Seen
      <4> QED BY <3>2, <4>1, <4>3
    <3>5. prev[i] # NULL => next[prev[i]] = i
      <4> SUFFICES ASSUME prev[i] # NULL PROVE next[prev[i]] = i
        OBVIOUS
      <4>1. prev[i] = s[k - 1] /\ k # 1
        BY <3>2, <3>3 DEF Seen
      <4>2. k - 1 \in 1 .. l /\ k - 1 # l /\ (k - 1) + 1 = k
        BY <3>3, <4>1 DEF Seen
      <4>3. next[s[k - 1]] = s[k]
        BY <3>3, <4>2 DEF Seen
      <4> QED BY <3>2, <4>1, <4>3
    <3> QED BY <2>3, <3>4, <3>5
  <2> QED BY <2>2, <2>3
<1> QED BY <1>1, <1>2 DEF Mirrored

\* After any sequence of calls every link has its mirror and a task in no
\* queue has NULL links, for any number of tasks and queues.
THEOREM QueueMirrored == Spec => []Mirrored
<1>1. Init => QInv
  BY QInit DEF QInv, RepInv, Now
<1>2. QInv => Mirrored
  BY MirroredNow DEF QInv, RepInv, Now
<1> QED BY <1>1, <1>2, QNext, PTL DEF Spec

LEMMA WalksNow ==
  ASSUME NEW c, Now(c)
  PROVE  [q \in Queues |-> Walk(q)] = c
<1>1. c \in [Queues -> Seq(Items)]
  BY DEF Now, Rep
<1>2. ASSUME NEW q \in Queues PROVE Walk(q) = c[q]
  <2>1. c[q] \in Seq(Items) /\ Linked(c[q], q, head, tail, prev, next, queue)
    BY SeqOf
  <2>2. WalkOf(head, next, q) = c[q]
    BY <2>1, WalkReads
  <2> QED BY <2>2, ReachIs
<1> QED BY <1>1, <1>2

LEMMA WalksThen ==
  ASSUME NEW c, Then(c)
  PROVE  [q \in Queues |-> Walk(q)]' = c
<1>1. c \in [Queues -> Seq(Items)]
  BY DEF Then, Rep
<1>2. ASSUME NEW q \in Queues PROVE Walk(q)' = c[q]
  <2>1. c[q] \in Seq(Items) /\ Linked(c[q], q, head', tail', prev', next', queue')
    BY DEF Then, Rep
  <2>2. WalkOf(head', next', q) = c[q]
    BY <2>1, WalkReads
  <2> QED BY <2>2, ReachIsThen
<1> QED BY <1>1, <1>2

LEMMA NotQueued ==
  ASSUME NEW c, Now(c), NEW i \in Items, queue[i] = NULL
  PROVE  i \notin UNION {Abs!ToSet(c[q]) : q \in Queues}
<1> SUFFICES ASSUME NEW q \in Queues, i \in Abs!ToSet(c[q]) PROVE FALSE
  OBVIOUS
<1> DEFINE s == c[q]
<1>1. Seen(s, q, Len(s)) /\ s \in Seq(Items)
  BY SeenNow, SeqOf
<1> HIDE DEF s
<1>2. PICK k \in 1 .. Len(s) : s[k] = i
  BY <1>1 DEF s, Abs!ToSet
<1> QED BY <1>1, <1>2, NullAssumption DEF Seen

\* The pointer operations of queue.c implement the operations on sequences:
\* each call changes the walk of its own queue as the sequence operation says,
\* changes no other queue and returns the right item.
THEOREM QueueImplementsSeq == Spec => SeqSpec
<1> DEFINE A == [q \in Queues |-> Walk(q)]
<1>1. Init => Abs!Init
  <2> SUFFICES ASSUME Init PROVE Abs!Init
    OBVIOUS
  <2>1. A = [q \in Queues |-> <<>>]
    BY QInit, WalksNow
  <2> QED BY <2>1 DEF Abs!Init, Init
<1>2. QInv /\ [Next]_vars => [Abs!Next]_<<A, priority, ret>>
  <2> SUFFICES ASSUME QInv, [Next]_vars PROVE [Abs!Next]_<<A, priority, ret>>
    OBVIOUS
  <2>1. Types /\ \E c : Now(c)
    BY DEF QInv, RepInv, Now
  <2>2. PICK c : Now(c)
    BY <2>1
  <2>3. A = c
    BY <2>2, WalksNow
  <2>4. ASSUME NEW d, Then(d) PROVE A' = d
    BY <2>4, WalksThen
  <2> HIDE DEF A
  <2>5. ASSUME NEW q \in Queues, queue_dequeue(q) PROVE Abs!Next
    <3>1. /\ c[q] # <<>> /\ ret' = Head(c[q]) /\ priority' = priority
          /\ Then([c EXCEPT ![q] = Tail(c[q])])
      BY <2>1, <2>2, <2>5, DequeueStep DEF queue_dequeue
    <3>2. A' = [A EXCEPT ![q] = Tail(A[q])] /\ A[q] # <<>> /\ ret' = Head(A[q])
      BY <2>3, <2>4, <3>1
    <3>3. Abs!Dequeue(q)
      BY <3>1, <3>2 DEF Abs!Dequeue, A
    <3> QED BY <3>3 DEF Abs!Next
  <2>6. ASSUME NEW q \in Queues, NEW i \in Items, queue_push(q, i) PROVE Abs!Next
    <3>1. /\ queue[i] = NULL /\ priority' = priority /\ ret' = ret
          /\ Then([c EXCEPT ![q] = Append(c[q], i)])
      BY <2>1, <2>2, <2>6, PushStep DEF queue_push
    <3>2. A' = [A EXCEPT ![q] = Append(A[q], i)]
      BY <2>3, <2>4, <3>1
    <3>3. i \notin Abs!Queued
      BY <2>2, <2>3, <3>1, NotQueued DEF Abs!Queued, A
    <3>4. Abs!Push(q, i)
      BY <3>1, <3>2, <3>3 DEF Abs!Push, A
    <3> QED BY <3>4 DEF Abs!Next
  <2>7. ASSUME NEW q \in Queues, NEW i \in Items, queue_push_increasingly(q, i) PROVE Abs!Next
    <3>0. queue[i] = NULL /\ priority' = priority /\ ret' = ret
      BY <2>7 DEF queue_push_increasingly
    <3>1. PICK j : /\ StopsAt(c[q], i, j)
                   /\ Then([c EXCEPT ![q] = Abs!InsertAt(c[q], j, i)])
      BY <2>1, <2>2, <2>7, PushIncreasinglyStep
    <3>2. A' = [A EXCEPT ![q] = Abs!InsertAt(A[q], j, i)] /\ StopsAt(A[q], i, j)
      BY <2>3, <2>4, <3>1
    <3>3. i \notin Abs!Queued
      BY <2>2, <2>3, <3>0, NotQueued DEF Abs!Queued, A
    <3>4. /\ j \in 1 .. Len(A[q]) + 1
          /\ \A m \in 1 .. j - 1 : priority[A[q][m]] > priority[i]
          /\ j <= Len(A[q]) => priority[A[q][j]] <= priority[i]
      BY <3>2 DEF StopsAt
    <3>5. Abs!PushIncreasingly(q, i)
      BY <3>0, <3>2, <3>3, <3>4 DEF Abs!PushIncreasingly, A
    <3> QED BY <3>5 DEF Abs!Next
  <2>8. ASSUME NEW q \in Queues, NEW i \in Items, queue_remove(q, i) PROVE Abs!Next
    <3>1. PICK j : /\ j \in 1 .. Len(c[q]) /\ c[q][j] = i
                   /\ ret' = IF j = Len(c[q]) THEN NULL ELSE c[q][j + 1]
                   /\ Then([c EXCEPT ![q] = Abs!RemoveAt(c[q], j)])
      BY <2>1, <2>2, <2>8, RemoveStep
    <3>2. A' = [A EXCEPT ![q] = Abs!RemoveAt(A[q], j)]
      BY <2>3, <2>4, <3>1
    <3>3. A[q] \in Seq(Items) /\ priority' = priority
      BY <2>2, <2>3, <2>8, SeqOf DEF queue_remove
    <3>4. j \in DOMAIN A[q] /\ A[q][j] = i /\ ret' = IF j = Len(A[q]) THEN NULL ELSE A[q][j + 1]
      BY <2>3, <3>1, <3>3
    <3>5. Abs!RemoveItem(q, i)
      BY <3>2, <3>3, <3>4 DEF Abs!RemoveItem, A
    <3> QED BY <3>5 DEF Abs!Next
  <2>9. CASE UNCHANGED vars
    <3>1. UNCHANGED <<head, tail, prev, next, queue, priority, ret>>
      BY <2>9 DEF vars
    <3>2. Then(c)
      BY <2>2, <3>1 DEF Now, Then
    <3> QED BY <2>3, <2>4, <3>1, <3>2
  <2> QED BY <2>5, <2>6, <2>7, <2>8, <2>9 DEF Next
<1>3. Spec => []QInv
  <2>1. Init => QInv
    BY QInit DEF QInv, RepInv, Now
  <2> QED BY <2>1, QNext, PTL DEF Spec
<1> QED BY <1>1, <1>2, <1>3, PTL DEF Spec, SeqSpec, Abs!Spec, Abs!qvars

=============================================================================
