---------------------------- MODULE AlertMatching ----------------------------
(***************************************************************************)
(* Which ads a saved search asks for.  The code answers twice: the daily   *)
(* digest filters ads by a search, in SQL (send_alerts and                 *)
(* find_matching_ads); the immediate alert filters searches by an ad, in   *)
(* Python (find_matching_saved_searches).  Texts are sets of words and a   *)
(* query is one word; stemming and ranking are left out.                   *)
(***************************************************************************)
EXTENDS Integers, FiniteSets

CONSTANTS
  Ad,
  Listing,   \* [Ad -> [city, category, price, vector]], the public ads
  Category,
  Parent,    \* [Category -> Category or None], the tree of categories
  Language,
  None

CONSTANT Russian
ASSUME RussianIsSpoken == Russian \in Language

\* SavedSearchInput: a filter that is absent, blank or no number is None.
IsFilter(f) ==
  /\ f.category \in Category \cup {None}
  /\ f.language \in Language \cup {None}
  /\ f.min \in Nat \cup {None} /\ f.max \in Nat \cup {None}

\* LanguageLocale.from_code(language, fallback=RUSSIAN)
from_code(language) == IF language \in Language THEN language ELSE Russian

\* The categories of the subtree that c is the root of are those whose
\* ancestry c is in (get_descendants(include_self=True)).
Ancestry[c \in Category] ==
  {c} \cup (IF Parent[c] = None THEN {} ELSE Ancestry[Parent[c]])
get_descendants(c) == {d \in Category : c \in Ancestry[d]}

-----------------------------------------------------------------------------
(* From the searches to the ads. *)

\* The full-text stage, evaluated once for all searches of one key.
GroupKey(f) == <<f.language, f.query>>
EvaluateGroupFts(key, ads) ==
  {a \in ads : key[2] = None \/ key[2] \in Listing[a].vector[from_code(key[1])]}

\* A comparison with NULL is not true.
AtLeast(x, y) == x # None /\ y # None /\ x >= y

\* The filters of one search over the candidates of its group; the receipts
\* and the cap are in AlertDelivery.
MemberFilters(candidates, f) ==
  {a \in candidates :
     /\ f.city \in {None, Listing[a].city}
     /\ f.category # None => Listing[a].category \in get_descendants(f.category)
     /\ f.min # None => AtLeast(Listing[a].price, f.min)
     /\ f.max # None => AtLeast(f.max, Listing[a].price)}

\* find_matching_ads: both stages for one search.
AdsOfSearch(f, ads) == MemberFilters(EvaluateGroupFts(GroupKey(f), ads), f)

-----------------------------------------------------------------------------
(* From an ad to the searches. *)

AdInCategorySubtree(a, c) == Listing[a].category \in get_descendants(c)

AdMatchesVector(a, f) == f.query \in Listing[a].vector[from_code(f.language)]

\* Mutant: the price of an ad that has none passes every minimum.
AdMatchesUnpriced(a, f) ==
  /\ f.city # None => f.city = Listing[a].city
  /\ f.min # None /\ Listing[a].price # None => Listing[a].price >= f.min
  /\ f.max # None => Listing[a].price # None /\ Listing[a].price <= f.max
  /\ f.category # None => AdInCategorySubtree(a, f.category)
  /\ f.query # None => AdMatchesVector(a, f)

AdMatchesSavedSearch(a, f) ==
  /\ f.city # None => f.city = Listing[a].city
  /\ f.min # None => Listing[a].price # None /\ Listing[a].price >= f.min
  /\ f.max # None => Listing[a].price # None /\ Listing[a].price <= f.max
  /\ f.category # None => AdInCategorySubtree(a, f.category)
  /\ f.query # None => AdMatchesVector(a, f)

-----------------------------------------------------------------------------
(* The digest of one user holds an ad once and `limit` ads at most.  The   *)
(* ads of a search come in no order, or in that of a rank.                 *)
SelectDigestAds(bucket, ads, limit) ==
  LET new == ads \ bucket
      room == limit - Cardinality(bucket)
      size == IF Cardinality(new) < room THEN Cardinality(new) ELSE room
  IN {chosen \in SUBSET new : Cardinality(chosen) = size}
=============================================================================
