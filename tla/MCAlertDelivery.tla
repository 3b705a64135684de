--------------------------- MODULE MCAlertDelivery ---------------------------
(***************************************************************************)
(* Two ads, one without a price; a user with two searches that overlap and *)
(* a user who blocked the bot.                                             *)
(***************************************************************************)
EXTENDS AlertDeliveryProperties, TLC

CONSTANTS car, boat, u1, u2, s1, s2, s3, anything, priced, red, crimson

MCListing ==
  car :> [city |-> "mostar", category |-> "cars", price |-> 5,
          vector |-> [ru |-> {"red"}, bs |-> {}]]
  @@ boat :> [city |-> "neum", category |-> "boats", price |-> None,
              vector |-> [ru |-> {}, bs |-> {"red"}]]
MCCategory == {"goods", "cars", "boats"}
MCParent == [c \in MCCategory |-> IF c = "goods" THEN None ELSE "goods"]
MCOwnerOf == [s \in Search |-> IF s = s3 THEN u2 ELSE u1]

OfAny == [query |-> None, language |-> None, city |-> None, category |-> "goods",
        min |-> None, max |-> None]
MCTerms ==
  anything :> OfAny @@ priced :> [OfAny EXCEPT !.min = 2]
  @@ red :> [OfAny EXCEPT !.query = "red", !.language = "bs"]
  @@ crimson :> [OfAny EXCEPT !.query = "red", !.city = "mostar"]
MCFirstFilter == [s \in Search |-> IF s = s1 THEN anything ELSE
                                IF s = s2 THEN priced ELSE crimson]


Symmetry == Permutations(Run)
=============================================================================
