--------------------------- MODULE MCLoginTokens ---------------------------
(***************************************************************************)
(* Instances of LoginTokens for TLC.                                       *)
(***************************************************************************)
EXTENDS LoginTokensProperties, TLC

Symmetry == Permutations(Request) \cup Permutations(Token)
              \cup Permutations(Browser) \cup Permutations(User)
=============================================================================
