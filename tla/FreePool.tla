------------------------------ MODULE FreePool ------------------------------
(***************************************************************************)
(* What a free list promises its callers: an index handed out is in nobody *)
(* else's hands, allocation fails only when everything is handed out, and  *)
(* giving back what was not handed out is refused.                         *)
(***************************************************************************)
EXTENDS Integers

CONSTANTS Length,   \* indices are 1 .. Length - 1
          Args      \* what a caller may try to give back

VARIABLES used,   \* the indices handed out
          ret     \* the value the last call returned

pvars == <<used, ret>>

Indices == 1 .. Length - 1

Init == used = {} /\ ret = 0

Alloc ==
  \/ \E i \in Indices \ used : used' = used \cup {i} /\ ret' = i
  \/ used = Indices /\ ret' = 0 /\ UNCHANGED used

Free(i) ==
  /\ ret' = IF i \in used THEN 1 ELSE 0
  /\ used' = used \ {i}

Next == Alloc \/ \E i \in Args : Free(i)

Spec == Init /\ [][Next]_pvars
=============================================================================
