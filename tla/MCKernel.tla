------------------------------ MODULE MCKernel ------------------------------
(***************************************************************************)
(* Kernel for TLC.  With MAX_TASK_NUM = 5 there are four tasks: the shell, *)
(* io_proc and two more, enough for two of them to wait for what a third   *)
(* holds, and for a pid to be freed and used again.                        *)
(***************************************************************************)
EXTENDS Kernel

MCSemValues == {-1, 1}
=============================================================================
