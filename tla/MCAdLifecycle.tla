--------------------------- MODULE MCAdLifecycle ---------------------------
(***************************************************************************)
(* Instances of AdLifecycle for TLC.                                       *)
(***************************************************************************)
EXTENDS AdLifecycleProperties, TLC

CONSTANTS u1, u2, a1, a2, a3, s1, s2, s3

OneSeller == [a \in Ad |-> u1]
TwoSellers == [a \in Ad |-> IF a = a3 THEN u2 ELSE u1]

Symmetry == Permutations(Session)
SymmetryOneSeller == Permutations(Session) \cup Permutations(Ad)
=============================================================================
