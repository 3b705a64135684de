---------------------------- MODULE MCMediaStore ----------------------------
(***************************************************************************)
(* Instances of MediaStore for TLC.                                        *)
(***************************************************************************)
EXTENDS MediaStoreProperties, TLC

Symmetry == Permutations(Ad) \cup Permutations(Handler)
=============================================================================
