------------------------------ MODULE SlistOps ------------------------------
(***************************************************************************)
(* The static free list of libs/slist.c: an array of nodes whose unused    *)
(* ones are threaded through `cursor`, node 0 being the list head.  The    *)
(* kernel hands out pids, page tables, swap slots and file descriptors     *)
(* from such lists.  The operators take the array and return the new one;  *)
(* slist_alloc_ret and slist_free_ret are the functions' return values.    *)
(***************************************************************************)
EXTENDS Integers

\* Faulty variant of slist_init: the list is not closed ("make a circle").
slist_init_open(length) ==
  [i \in 0 .. length - 1 |-> [cursor |-> i + 1, valid |-> IF i = 0 THEN 1 ELSE 0]]

slist_init(length) ==
  [i \in 0 .. length - 1 |->
     [cursor |-> IF i = length - 1 THEN 0 ELSE i + 1,
      valid  |-> IF i = 0 THEN 1 ELSE 0]]

slist_is_insufficient(l) == l[0].cursor = 0

slist_is_valid(l, index, length) ==
  index > 0 /\ index < length /\ l[index].valid = 1

slist_alloc_ret(l) == IF slist_is_insufficient(l) THEN 0 ELSE l[0].cursor

\* Faulty variant of slist_alloc: the head is not advanced past the node.
slist_alloc_keeps_head(l) ==
  IF slist_is_insufficient(l) THEN l
  ELSE [l EXCEPT ![l[0].cursor].valid = 1]

slist_alloc(l) ==
  IF slist_is_insufficient(l) THEN l
  ELSE [l EXCEPT ![0].cursor = l[l[0].cursor].cursor, ![l[0].cursor].valid = 1]

slist_free_ret(l, index, length) ==
  IF slist_is_valid(l, index, length) THEN 1 ELSE 0

\* Faulty variant of slist_free: the range is tested and `valid` is not, so
\* that a node can be freed twice.
slist_free_unchecked(l, index, length) ==
  IF ~ (index > 0 /\ index < length) THEN l
  ELSE [l EXCEPT ![0].cursor = index,
                 ![index] = [cursor |-> l[0].cursor, valid |-> 0]]

slist_free(l, index, length) ==
  IF ~ slist_is_valid(l, index, length) THEN l
  ELSE [l EXCEPT ![0].cursor = index,
                 ![index] = [cursor |-> l[0].cursor, valid |-> 0]]

-----------------------------------------------------------------------------
\* A node, and the arrays of `length` nodes.
SlistNode(length) == [cursor : 0 .. length - 1, valid : 0 .. 1]

SlistType(length) == [0 .. length - 1 -> SlistNode(length)]

(***************************************************************************)
(* stk[top], ..., stk[1] is the free list, first node to be allocated      *)
(* first: it names every free node once and the cursors spell it out.      *)
(***************************************************************************)
FreeChain(l, length, top, stk) ==
  /\ \A j, k \in 1 .. top : stk[j] = stk[k] => j = k
  /\ \A i \in 1 .. length - 1 : l[i].valid = 0 <=> \E k \in 1 .. top : stk[k] = i
  /\ l[0].cursor = IF top = 0 THEN 0 ELSE stk[top]
  /\ \A k \in 1 .. top : l[stk[k]].cursor = IF k = 1 THEN 0 ELSE stk[k - 1]

SlistShape(l, length) ==
  \E top \in 0 .. length - 1 : \E stk \in [1 .. top -> 1 .. length - 1] :
    FreeChain(l, length, top, stk)
=============================================================================
