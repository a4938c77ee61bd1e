------------------------------ MODULE MCMailbox ------------------------------
(***************************************************************************)
(* Mailbox for TLC.                                                        *)
(***************************************************************************)
EXTENDS Mailbox, TLC

\* Tasks, names and bytes are only compared for equality.
Symmetry == Permutations(Tasks) \cup Permutations(Names) \cup Permutations(Bytes)
=============================================================================
