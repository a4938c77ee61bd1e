------------------------------- MODULE Slist --------------------------------
(***************************************************************************)
(* A free list in use: any sequence of slist_alloc and slist_free calls,   *)
(* the latter with any index (kill(pid), fclose(fd) pass what the user     *)
(* gave them).                                                             *)
(***************************************************************************)
EXTENDS SlistOps

CONSTANT Length
ASSUME LengthAssumption == Length \in Nat \ {0}

VARIABLES nodes,  \* the node array
          result  \* the value the last call returned

slistVars == <<nodes, result>>

\* Indices a caller may pass: every node, and one out of range on each side.
Args == -1 .. Length

SlistInit == nodes = slist_init(Length) /\ result = 0

Alloc == nodes' = slist_alloc(nodes) /\ result' = slist_alloc_ret(nodes)

Free(i) == nodes' = slist_free(nodes, i, Length) /\ result' = slist_free_ret(nodes, i, Length)

SlistNext == Alloc \/ \E i \in Args : Free(i)

SlistSpec == SlistInit /\ [][SlistNext]_slistVars

-----------------------------------------------------------------------------
\* The cursors stay in the array and thread every free node exactly once, from
\* node 0 back to 0, whatever sequence of slist_alloc and slist_free was called,
\* double frees and out-of-range indices included: no node is lost and none is
\* shared.
ShapeOK == nodes \in SlistType(Length) /\ SlistShape(nodes, Length)

Pool ==
  INSTANCE FreePool WITH used <- {i \in 1 .. Length - 1 : nodes[i].valid = 1}, ret <- result

\* slist.c implements FreePool: "alloc a node from slist, return its index,
\* return 0 if insufficient" (libs/slist.c:29-30), a node being insufficient
\* only when all are taken, and slist_free of a free node does nothing.
PoolSpec == Pool!Spec
=============================================================================
