----------------------------- MODULE MCContents ----------------------------
(***************************************************************************)
(* TLC instance of Contents.                                               *)
(***************************************************************************)
EXTENDS Contents
=============================================================================
