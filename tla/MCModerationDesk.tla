--------------------------- MODULE MCModerationDesk ---------------------------
(***************************************************************************)
(* Three ads: 1 and 3 of a seller, 2 of a clerk, who is staff, as is an    *)
(* editor; and a superuser.                                                *)
(* Two requests of every kind meet over them, or three of those that       *)
(* concern a price or a ban.                                               *)
(***************************************************************************)
EXTENDS ModerationDeskProperties, TLC

CONSTANTS seller, clerk, editor, root, s1, s2, s3

MCOwner == [a \in Ad |-> IF a = 2 THEN clerk ELSE seller]

Waiting == TransitionTo(NewDraft, "on_moderation")
Online == TransitionTo(Waiting, "published")

Shop(r1, t1, r2, r3) ==
  LET Rec(r, t) == [row |-> r, text |-> t, amount |-> 0, norm |-> <<0, 0>>]
  IN [a \in Ad |-> CASE a = 1 -> Rec(r1, t1) [] a = 2 -> Rec(r2, "fit")
                     [] OTHER -> Rec(r3, "fit")]

Failed == TransitionTo(Waiting, "on_moderation_failed")
Archived == TransitionTo(Online, "archived")

Shops == {Shop(Waiting, "fit", Waiting, Archived), Shop(Waiting, "unfit", Waiting, Waiting),
          Shop(Online, "fit", Failed, Waiting)}

Ask(way, deed, by, on, to) ==
  [way |-> way, deed |-> deed, by |-> by, ads |-> on, to |-> to]

Nobody == Ask("command", "recompute", None, {}, "nothing")

Moderating ==
  {Ask("api", d, editor, {1, 3}, "nothing") : d \in {"approve", "reject", "flag"}}
    \cup {Ask("bulk", d, editor, {1, 2, 3}, "nothing") : d \in {"approve", "reject"}}
    \cup {Ask("view", d, root, {1}, "nothing") : d \in {"approve", "reject", "ban"}}
    \cup {Ask("bulk", "delete", root, {1, 2}, "nothing")}

Forms == {Ask("form", "save", root, {1}, to) :
            to \in {"nothing", "unfit", "price", "published", "archived", "deleted",
                   "draft"}}

Banning == {Ask("bulk", "ban", by, {1, 2}, "nothing") : by \in {clerk, editor, root}}
             \cup {Ask("view", "ban", editor, {2}, "nothing")}

Edits == {Ask("seller", "edit", seller, {1}, to) : to \in {"fit", "unfit", "price"}}
           \cup {Ask("seller", "edit", seller, {3}, "reactivate")}

\* Two archived ads of one seller come back, and there is room for one.
Returns == {Ask("seller", "edit", seller, {a}, "reactivate") : a \in {1, 3}}
             \cup {Ask("form", "save", root, {a}, "published") : a \in {1, 3}}

Sweep == Ask("command", "recompute", None, {1, 3}, "nothing")
Pricing == {Ask("rates", "set", root, {}, "nothing"), Sweep}

\* The score of ad 1 is missing where it waits: an error of the scoring is only
\* logged.
Score(shop) == [a \in Ad |-> IF a = 1 /\ shop[a].row = Waiting THEN None ELSE "low"]

Two(x, y, z) == (s1 :> x) @@ (s2 :> y) @@ (s3 :> z)

\* The sessions are alike: of two requests either may be the first.
Pairs(reqs) == {{x, y} : x, y \in reqs}
One(pair) == CHOOSE x \in pair : TRUE
Other(pair) == CHOOSE y \in pair : pair = {One(pair), y}

MCStarts ==
  {[ads |-> shop, score |-> Score(shop), req |-> Two(One(pair), Other(pair), Nobody)] :
      shop \in Shops, pair \in Pairs(Moderating \cup Edits)}
  \cup
  {[ads |-> shop, score |-> Score(shop), req |-> Two(x, y, Nobody)] :
      shop \in Shops, x \in Moderating \cup Edits, y \in Forms \cup Banning \cup Pricing}
  \cup {LET shop == Shop(Online, "fit", Failed, Waiting)
      IN [ads |-> shop, score |-> Score(shop), req |-> Two(x, y, z)] :
      x \in Edits \cup Banning \cup {Sweep}, y \in Banning \cup Pricing,
      z \in Forms \cup Banning \cup Pricing}
  \cup {LET shop == Shop(Archived, "fit", Failed, Archived)
      IN [ads |-> shop, score |-> Score(shop), req |-> Two(x, y, Nobody)] :
      x \in Returns, y \in Returns}
=============================================================================
