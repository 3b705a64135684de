-------------------------- MODULE MCConsentAccount --------------------------
(***************************************************************************)
(* Instances of ConsentAccount for TLC.                                    *)
(***************************************************************************)
EXTENDS ConsentAccountProperties, TLC

Symmetry == Permutations(Handler)
=============================================================================
