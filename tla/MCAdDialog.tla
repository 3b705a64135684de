---------------------------- MODULE MCAdDialog ----------------------------
(***************************************************************************)
(* Two updates at once; a seller who sends one thing nobody asked for, and *)
(* two faults.                                                             *)
(***************************************************************************)
EXTENDS AdDialogProperties
=============================================================================
