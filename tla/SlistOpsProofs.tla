--------------------------- MODULE SlistOpsProofs ---------------------------
(***************************************************************************)
(* What slist_init, slist_alloc and slist_free do to a free list of any    *)
(* length: the cursors stay a simple chain through exactly the free nodes. *)
(***************************************************************************)
EXTENDS SlistOps, FiniteSetTheorems, TLAPS

\* SlistShape without the bound on the chain's length, which follows.
Threaded(a, length, top, stk) ==
  /\ top \in Nat
  /\ stk \in [1 .. top -> 1 .. length - 1]
  /\ FreeChain(a, length, top, stk)

\* A chain names distinct nodes of 1 .. length - 1, so it is not longer.
LEMMA ChainBound ==
  ASSUME NEW length \in Nat \ {0}, NEW a, NEW top, NEW stk,
         Threaded(a, length, top, stk)
  PROVE  top \in 0 .. length - 1
<1>1. top \in Nat /\ stk \in [1 .. top -> 1 .. length - 1]
  BY DEF Threaded
<1>2. IsFiniteSet(1 .. length - 1) /\ Cardinality(1 .. length - 1) = length - 1
  BY FS_Interval
<1>3. IsFiniteSet(1 .. top) /\ Cardinality(1 .. top) = top
  BY <1>1, FS_Interval
<1>4. stk \in Injection(1 .. top, 1 .. length - 1)
  BY <1>1 DEF Threaded, FreeChain, Injection, IsInjective
<1>5. Cardinality(1 .. top) <= Cardinality(1 .. length - 1)
  BY <1>2, <1>4, FS_Injection DEF ExistsInjection
<1> QED
  BY <1>1, <1>2, <1>3, <1>5

\* A chain of slots that is Threaded has the Shape of a free list.
LEMMA ShapeFromThreaded ==
  ASSUME NEW length \in Nat \ {0}, NEW a, NEW top, NEW stk,
         Threaded(a, length, top, stk)
  PROVE  SlistShape(a, length)
BY ChainBound DEF Threaded, SlistShape

\* And conversely.
LEMMA ThreadedFromShape ==
  ASSUME NEW length \in Nat \ {0}, NEW a, SlistShape(a, length)
  PROVE  \E top, stk : Threaded(a, length, top, stk)
BY DEF Threaded, SlistShape

\* slist_init threads all the nodes but the head, in increasing order.
LEMMA InitShape ==
  ASSUME NEW length \in Nat \ {0}
  PROVE  /\ SlistShape(slist_init(length), length)
         /\ slist_init(length) \in SlistType(length)
         /\ \A i \in 1 .. length - 1 : slist_init(length)[i].valid = 0
<1> DEFINE a == slist_init(length)
           stk == [k \in 1 .. length - 1 |-> length - k]
<1>1. a \in SlistType(length)
  BY DEF slist_init, SlistType, SlistNode
<1>2. \A i \in 1 .. length - 1 : a[i].valid = 0
  BY DEF slist_init
<1>3. stk \in [1 .. length - 1 -> 1 .. length - 1]
  OBVIOUS
<1>4. FreeChain(a, length, length - 1, stk)
  <2>1. \A j, k \in 1 .. length - 1 : stk[j] = stk[k] => j = k
    OBVIOUS
  <2>2. \A i \in 1 .. length - 1 : a[i].valid = 0 <=> \E k \in 1 .. length - 1 : stk[k] = i
    <3>1. TAKE i \in 1 .. length - 1
    <3>2. length - i \in 1 .. length - 1 /\ stk[length - i] = i
      OBVIOUS
    <3> QED BY <1>2, <3>2
  <2>3. a[0].cursor = IF length - 1 = 0 THEN 0 ELSE stk[length - 1]
    BY DEF slist_init
  <2>4. \A k \in 1 .. length - 1 : a[stk[k]].cursor = IF k = 1 THEN 0 ELSE stk[k - 1]
    BY DEF slist_init
  <2> QED BY <2>1, <2>2, <2>3, <2>4 DEF FreeChain
<1>5. Threaded(a, length, length - 1, stk)
  BY <1>3, <1>4 DEF Threaded
<1> QED BY <1>1, <1>2, <1>5, ShapeFromThreaded

\* slist_alloc pops the chain: the node returned was free, becomes taken, and
\* no other node changes hands; it returns 0 only when no node is free.
LEMMA AllocShape ==
  ASSUME NEW length \in Nat \ {0}, NEW a \in SlistType(length),
         SlistShape(a, length)
  PROVE  LET b == slist_alloc(a)  r == slist_alloc_ret(a)
         IN  /\ b \in SlistType(length)
             /\ SlistShape(b, length)
             /\ r \in 0 .. length - 1
             /\ r = 0 => b = a /\ \A i \in 1 .. length - 1 : a[i].valid = 1
             /\ r # 0 => /\ a[r].valid = 0
                        /\ \A i \in 1 .. length - 1 :
                             b[i].valid = IF i = r THEN 1 ELSE a[i].valid
<1> DEFINE b == slist_alloc(a)
           t == a[0].cursor
<1>1. PICK top, stk : Threaded(a, length, top, stk)
  BY ThreadedFromShape
<1>2. /\ top \in Nat
      /\ stk \in [1 .. top -> 1 .. length - 1]
      /\ \A j, k \in 1 .. top : stk[j] = stk[k] => j = k
      /\ \A i \in 1 .. length - 1 : a[i].valid = 0 <=> \E k \in 1 .. top : stk[k] = i
      /\ t = IF top = 0 THEN 0 ELSE stk[top]
      /\ \A k \in 1 .. top : a[stk[k]].cursor = IF k = 1 THEN 0 ELSE stk[k - 1]
  BY <1>1 DEF Threaded, FreeChain
<1>3. CASE top = 0
  <2>1. t = 0 /\ b = a /\ slist_alloc_ret(a) = 0
    BY <1>2, <1>3 DEF slist_alloc, slist_alloc_ret, slist_is_insufficient
  <2>2. \A i \in 1 .. length - 1 : a[i].valid = 1
    BY <1>2, <1>3 DEF SlistType, SlistNode
  <2> QED BY <2>1, <2>2
<1>4. CASE top # 0
  <2>1. top \in 1 .. top /\ t = stk[top] /\ t \in 1 .. length - 1
    BY <1>2, <1>4
  <2>2. slist_alloc_ret(a) = t
    BY <2>1 DEF slist_alloc_ret, slist_is_insufficient
  <2>3. /\ b[0] = [a[0] EXCEPT !.cursor = a[t].cursor]
        /\ b[t] = [a[t] EXCEPT !.valid = 1]
        /\ \A i \in 1 .. length - 1 : i # t => b[i] = a[i]
    BY <2>1 DEF slist_alloc, slist_is_insufficient, SlistType
  <2>4. a[0] \in SlistNode(length) /\ a[t] \in SlistNode(length)
    BY <2>1 DEF SlistType
  <2>5. /\ b[0] \in SlistNode(length) /\ b[0].cursor = a[t].cursor
        /\ b[t] \in SlistNode(length) /\ b[t].cursor = a[t].cursor /\ b[t].valid = 1
    BY <2>1, <2>3, <2>4 DEF SlistNode
  <2>6. b \in SlistType(length)
    BY <2>1, <2>3, <2>5 DEF slist_alloc, slist_is_insufficient, SlistType
  <2>7. /\ a[t].valid = 0
        /\ \A i \in 1 .. length - 1 : b[i].valid = IF i = t THEN 1 ELSE a[i].valid
        /\ \A i \in 1 .. length - 1 : b[i].cursor = a[i].cursor
    BY <1>2, <2>1, <2>3, <2>5
  <2> DEFINE s == [k \in 1 .. top - 1 |-> stk[k]]
  <2>8. Threaded(b, length, top - 1, s)
    <3>1. top - 1 \in Nat /\ s \in [1 .. top - 1 -> 1 .. length - 1]
      BY <1>2, <1>4
    <3>2. \A j, k \in 1 .. top - 1 : s[j] = s[k] => j = k
      BY <1>2
    <3>3. \A i \in 1 .. length - 1 :
            b[i].valid = 0 <=> \E k \in 1 .. top - 1 : s[k] = i
      <4>1. TAKE i \in 1 .. length - 1
      <4>2. ASSUME b[i].valid = 0
            PROVE  \E k \in 1 .. top - 1 : s[k] = i
        <5>1. i # t /\ a[i].valid = 0
          BY <2>7, <4>2
        <5>2. PICK k \in 1 .. top : stk[k] = i
          BY <1>2, <5>1
        <5>3. k \in 1 .. top - 1
          BY <2>1, <5>1, <5>2, <1>2
        <5> QED BY <5>2, <5>3
      <4>3. ASSUME NEW k \in 1 .. top - 1, s[k] = i
            PROVE  b[i].valid = 0
        <5>1. k \in 1 .. top /\ stk[k] = i
          BY <1>2, <4>3
        <5>2. i # t
          BY <1>2, <2>1, <5>1
        <5> QED BY <1>2, <2>7, <5>1, <5>2
      <4> QED BY <4>2, <4>3
    <3>4. b[0].cursor = IF top - 1 = 0 THEN 0 ELSE s[top - 1]
      BY <1>2, <1>4, <2>1, <2>5
    <3>5. \A k \in 1 .. top - 1 : b[s[k]].cursor = IF k = 1 THEN 0 ELSE s[k - 1]
      <4>1. TAKE k \in 1 .. top - 1
      <4>2. k \in 1 .. top /\ s[k] = stk[k] /\ stk[k] \in 1 .. length - 1
        BY <1>2
      <4>3. k # 1 => k - 1 \in 1 .. top - 1 /\ s[k - 1] = stk[k - 1]
        BY <1>2
      <4> QED BY <1>2, <2>7, <4>2, <4>3
    <3> QED BY <3>1, <3>2, <3>3, <3>4, <3>5 DEF Threaded, FreeChain
  <2>9. SlistShape(b, length)
    BY <2>8, ShapeFromThreaded
  <2> QED BY <2>1, <2>2, <2>6, <2>7, <2>9
<1> QED BY <1>3, <1>4

\* slist_free pushes the node on the chain if it is taken, and otherwise
\* refuses: a node is never threaded twice.
LEMMA FreeShape ==
  ASSUME NEW length \in Nat \ {0}, NEW a \in SlistType(length),
         SlistShape(a, length), NEW x \in Int
  PROVE  LET b == slist_free(a, x, length)
         IN  /\ b \in SlistType(length)
             /\ SlistShape(b, length)
             /\ slist_is_valid(a, x, length) <=> x \in 1 .. length - 1 /\ a[x].valid = 1
             /\ slist_free_ret(a, x, length) = 0 => b = a
             /\ \A i \in 1 .. length - 1 : b[i].valid = IF i = x THEN 0 ELSE a[i].valid
<1> DEFINE b == slist_free(a, x, length)
           t == a[0].cursor
<1>1. slist_is_valid(a, x, length) <=> x \in 1 .. length - 1 /\ a[x].valid = 1
  BY DEF slist_is_valid
<1>2. slist_free_ret(a, x, length) = 0 => b = a
  BY DEF slist_free, slist_free_ret
<1>3. CASE ~ slist_is_valid(a, x, length)
  <2>1. b = a
    BY <1>3 DEF slist_free
  <2>2. \A i \in 1 .. length - 1 : i = x => a[i].valid = 0
    BY <1>1, <1>3 DEF SlistType, SlistNode
  <2> QED BY <1>1, <1>2, <2>1, <2>2
<1>4. CASE slist_is_valid(a, x, length)
  <2>1. x \in 1 .. length - 1 /\ a[x].valid = 1
    BY <1>1, <1>4
  <2>2. /\ b[0] = [a[0] EXCEPT !.cursor = x]
        /\ b[x] = [cursor |-> t, valid |-> 0]
        /\ \A i \in 1 .. length - 1 : i # x => b[i] = a[i]
    BY <1>4, <2>1 DEF slist_free, SlistType
  <2>3. a[0] \in SlistNode(length)
    BY DEF SlistType
  <2>4. /\ b[0] \in SlistNode(length) /\ b[0].cursor = x
        /\ b[x] \in SlistNode(length) /\ b[x].cursor = t /\ b[x].valid = 0
    BY <2>1, <2>2, <2>3 DEF SlistNode
  <2>5. b \in SlistType(length)
    BY <1>4, <2>1, <2>2, <2>4 DEF slist_free, SlistType
  <2>6. \A i \in 1 .. length - 1 : b[i].valid = IF i = x THEN 0 ELSE a[i].valid
    BY <2>2, <2>4
  <2>7. PICK top, stk : Threaded(a, length, top, stk)
    BY ThreadedFromShape
  <2>8. /\ top \in Nat
        /\ stk \in [1 .. top -> 1 .. length - 1]
        /\ \A j, k \in 1 .. top : stk[j] = stk[k] => j = k
        /\ \A i \in 1 .. length - 1 : a[i].valid = 0 <=> \E k \in 1 .. top : stk[k] = i
        /\ t = IF top = 0 THEN 0 ELSE stk[top]
        /\ \A k \in 1 .. top : a[stk[k]].cursor = IF k = 1 THEN 0 ELSE stk[k - 1]
    BY <2>7 DEF Threaded, FreeChain
  <2>9. \A k \in 1 .. top : stk[k] # x
    <3>1. a[x].valid = 0 <=> \E k \in 1 .. top : stk[k] = x
      BY <2>1, <2>8
    <3> QED BY <2>1, <3>1
  <2> DEFINE s == [k \in 1 .. top + 1 |-> IF k = top + 1 THEN x ELSE stk[k]]
  <2>10. /\ s \in [1 .. top + 1 -> 1 .. length - 1]
         /\ s[top + 1] = x
         /\ \A k \in 1 .. top : s[k] = stk[k]
         /\ \A k \in 1 .. top + 1 : k \in 1 .. top \/ k = top + 1
    BY <2>1, <2>8
  <2>11. Threaded(b, length, top + 1, s)
    <3>1. \A j, k \in 1 .. top + 1 : s[j] = s[k] => j = k
      BY <2>8, <2>9, <2>10
    <3>2. \A i \in 1 .. length - 1 :
            b[i].valid = 0 <=> \E k \in 1 .. top + 1 : s[k] = i
      <4>1. TAKE i \in 1 .. length - 1
      <4>2. CASE i = x
        BY <2>4, <2>8, <2>10, <4>2
      <4>3. CASE i # x
        <5>1. b[i].valid = a[i].valid
          BY <2>2, <4>3
        <5>2. (\E k \in 1 .. top + 1 : s[k] = i) <=> \E k \in 1 .. top : stk[k] = i
          BY <2>8, <2>10, <4>3
        <5> QED BY <2>8, <5>1, <5>2
      <4> QED BY <4>2, <4>3
    <3>3. b[0].cursor = IF top + 1 = 0 THEN 0 ELSE s[top + 1]
      BY <2>4, <2>8, <2>10
    <3>4. \A k \in 1 .. top + 1 : b[s[k]].cursor = IF k = 1 THEN 0 ELSE s[k - 1]
      <4>1. TAKE k \in 1 .. top + 1
      <4>2. CASE k = top + 1
        BY <2>4, <2>8, <2>10, <4>2
      <4>3. CASE k \in 1 .. top
        <5>1. b[s[k]] = a[stk[k]]
          BY <2>2, <2>8, <2>9, <2>10, <4>3
        <5>2. k # 1 => k - 1 \in 1 .. top
          BY <2>8, <4>3
        <5> QED BY <2>8, <2>10, <4>3, <5>1, <5>2
      <4> QED BY <2>10, <4>2, <4>3
    <3> QED BY <2>8, <2>10, <3>1, <3>2, <3>3, <3>4 DEF Threaded, FreeChain
  <2>12. SlistShape(b, length)
    BY <2>11, ShapeFromThreaded
  <2> QED BY <1>1, <1>2, <2>5, <2>6, <2>12
<1> QED BY <1>3, <1>4
=============================================================================
