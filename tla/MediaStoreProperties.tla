------------------------ MODULE MediaStoreProperties ------------------------
(***************************************************************************)
(* What MediaStore promises.                                               *)
(***************************************************************************)
EXTENDS MediaStore

\* A handler that still has to move the file of k.
Awaited(k) == \E p \in Handler : pc[p] = "promote" /\ k \in todo[p]

(* A photo some ad shows has its bytes, in permanent storage or staged with *)
(* the move under way, unless it was put at risk in one of the known ways:  *)
(* the reference check of the signal, the pruning of duplicates and the     *)
(* two-hour bound on staging lose nothing else.                             *)
EveryLossIsKnown ==
  \A k \in Referenced \ exposed :
    k \in files \/ (k \in staged /\ Awaited(k))

(* Why: a photo that is shown and not at risk is neither gone nor           *)
(* condemned; one that is still staged has a handler to move it, and what a *)
(* handler holds does not age.                                              *)
MInv ==
  /\ MediaTypeOK
  /\ \A k \in Referenced \ exposed : ~TooLate(k)
  /\ \A k \in staged \ exposed :
       \/ Awaited(k)
       \/ /\ k \notin Referenced
          /\ \A p \in Handler : pc[p] = "copy" => k \notin todo[p]
  /\ \A p \in Handler :
       /\ pc[p] \in {"submit", "promote"} => todo[p] \cap stale = {}
       /\ pc[p] \in {"discard", "drop"} => act[p] # None

(* The store is a shelf to those who look at ads: the bytes of a photo are  *)
(* staged or in permanent storage, and they go one photo at a time, never   *)
(* those of a photo that an ad shows and that is not known to be at risk;   *)
(* a move from staging/ loses nothing on the way.                           *)
Shelf == INSTANCE PhotoShelf
         WITH shown <- Referenced, kept <- files \cup staged, risky <- exposed
ImplementsShelf == Shelf!ShelfSpec

(* A file no ad shows is deleted in the end, whatever failed before, unless *)
(* an ad shows it again (sweep_orphaned_media is the backstop).             *)
OrphansGo ==
  \A k \in Key :
    (k \in files \ Referenced) ~> (k \notin files \/ k \in Referenced)
=============================================================================
