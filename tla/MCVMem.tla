------------------------------- MODULE MCVMem ------------------------------
(***************************************************************************)
(* TLC instance of VMem.                                                   *)
(***************************************************************************)
EXTENDS VMem
=============================================================================
