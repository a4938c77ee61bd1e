------------------------------- MODULE MCNet --------------------------------
(***************************************************************************)
(* Net for TLC.  With three descriptors a package can come before, after   *)
(* and while the receiver waits for another one.                           *)
(***************************************************************************)
EXTENDS Net
=============================================================================
