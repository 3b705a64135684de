---------------------------- MODULE PublicBoard ----------------------------
(***************************************************************************)
(* What the ad service promises to buyers, without saying how: a board of  *)
(* public ads.  An ad is put up one at a time, never above the quota of    *)
(* its seller and never for a seller who has left; any ads may come down   *)
(* together; a seller who leaves takes all of theirs down in one step and  *)
(* does not come back.                                                     *)
(***************************************************************************)
EXTENDS Naturals, FiniteSets

CONSTANTS User, Ad, Owner, Quota

VARIABLES
  board,   \* SUBSET Ad, what buyers see
  gone     \* SUBSET User, sellers who have left

bvars == <<board, gone>>

BoardInit == board = {} /\ gone = {}

PutUp(a) ==
  /\ a \notin board /\ Owner[a] \notin gone
  /\ Cardinality({b \in board : Owner[b] = Owner[a]}) < Quota
  /\ board' = board \cup {a}
  /\ UNCHANGED gone

TakeDown(S) ==
  /\ board' = board \ S
  /\ UNCHANGED gone

Leave(u) ==
  /\ board' = {a \in board : Owner[a] # u}
  /\ gone' = gone \cup {u}

BoardNext ==
  \/ \E a \in Ad : PutUp(a)
  \/ \E S \in SUBSET Ad : TakeDown(S)
  \/ \E u \in User : Leave(u)

BoardSpec == BoardInit /\ [][BoardNext]_bvars

(* What the board is worth to its sellers and to those who leave: nobody    *)
(* has more ads on it than the quota, and nothing of the gone is on it.     *)
BoardHolds ==
  /\ board \subseteq Ad
  /\ \A u \in User : Cardinality({a \in board : Owner[a] = u}) <= Quota
  /\ \A a \in board : Owner[a] \notin gone
=============================================================================
