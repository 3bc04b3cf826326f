---------------------------- MODULE MCKernelMem ----------------------------
(***************************************************************************)
(* TLC instance of KernelMem.                                              *)
(***************************************************************************)
EXTENDS KernelMem
=============================================================================
