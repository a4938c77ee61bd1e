------------------------------ MODULE MCMemory ------------------------------
(***************************************************************************)
(* Memory for TLC.  Two frames are the shell's and io_proc's, and the      *)
(* other tasks have one: every page they touch replaces another.           *)
(***************************************************************************)
EXTENDS Memory

\* Their pages differ in both parts of the address.
TouchesOne(p) == {IF p = 3 THEN <<0, 1>> ELSE <<1, 0>>}

\* Swapping never runs out of slots.
ASSUME MCSwapFits == SwapFits
=============================================================================
