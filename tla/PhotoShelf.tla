----------------------------- MODULE PhotoShelf -----------------------------
(***************************************************************************)
(* What the photo store promises to those who look at ads, without saying  *)
(* how: a shelf.  A photo that arrives has its bytes and no risk; an ad    *)
(* shows only photos that are kept, or whose risk is on record; bytes go   *)
(* one photo at a time, and never those of a photo that is shown and not   *)
(* on record.  A risk is on record until the photo arrives anew.           *)
(***************************************************************************)
CONSTANT Key

VARIABLES
  shown,   \* SUBSET Key, the photos the ads show
  kept,    \* SUBSET Key, the photos whose bytes are somewhere
  risky    \* SUBSET Key, the photos on record as put at risk

svars == <<shown, kept, risky>>

ShelfInit == shown = {} /\ kept = {} /\ risky = {}

Receive(k) ==
  /\ k \notin kept \cup shown
  /\ kept' = kept \cup {k}
  /\ risky' = risky \ {k}
  /\ UNCHANGED shown

\* The ads show the photos of S from now on; those of R are on record.
Show(S, R) ==
  /\ risky \subseteq R /\ S \ R \subseteq kept
  /\ shown' = S /\ risky' = R
  /\ UNCHANGED kept

Lose(k) ==
  /\ k \notin shown \ risky
  /\ kept' = kept \ {k}
  /\ UNCHANGED <<shown, risky>>

ShelfNext ==
  \/ \E k \in Key : Receive(k) \/ Lose(k)
  \/ \E S, R \in SUBSET Key : Show(S, R)

ShelfSpec == ShelfInit /\ [][ShelfNext]_svars

(* What is shown and not on record is kept.                                *)
NothingMissing == shown \ risky \subseteq kept
=============================================================================
