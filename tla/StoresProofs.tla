---------------------------- MODULE StoresProofs ----------------------------
(***************************************************************************)
(* Proofs about what is kept beside the rows: no photo of MediaStore is    *)
(* lost in an unknown way and the store implements PhotoShelf, for any     *)
(* number of ads, keys and concurrent handlers; and no page of StaleCache  *)
(* is staler than it may be, for any number of requests, any finite set of *)
(* changes, any life of an entry and of a lock, and any number of faults.  *)
(***************************************************************************)
EXTENDS MediaStoreProperties, StaleCacheProperties, FiniteSetTheorems, TLAPS

-----------------------------------------------------------------------------
(* Photos. *)

\* The parts of MInv.
NothingLost == \A k \in Referenced \ exposed : ~TooLate(k)

StagedAwaited ==
  \A k \in staged \ exposed :
    \/ Awaited(k)
    \/ /\ k \notin Referenced
       /\ \A p \in Handler : pc[p] = "copy" => k \notin todo[p]

HeldIsFresh ==
  \A p \in Handler :
    /\ pc[p] \in {"submit", "promote"} => todo[p] \cap stale = {}
    /\ pc[p] \in {"discard", "drop"} => act[p] # None

LEMMA Parts == MInv <=> /\ MediaTypeOK /\ NothingLost /\ StagedAwaited
                        /\ HeldIsFresh
  BY DEF MInv, NothingLost, StagedAwaited, HeldIsFresh

(* Types.                                                                  *)
LEMMA ReferencedType == ASSUME MediaTypeOK PROVE Referenced \in SUBSET Key
  BY DEF MediaTypeOK, Referenced

LEMMA MediaTyped ==
  ASSUME MediaTypeOK, HeldIsFresh, [MediaNext]_mediaVars
  PROVE  MediaTypeOK'
  <1> USE DEF MediaTypeOK, rows, disk, dialog, handlers, sweeper, Goto, Stop,
              FreeFiles, GoOn, Step, AdState
  <1>0. Referenced \in SUBSET Key
    BY ReferencedType
  <1>1. CASE UNCHANGED mediaVars
    BY <1>1 DEF mediaVars
  <1>2. ASSUME NEW p \in Handler, Dialog(p) PROVE MediaTypeOK'
    <2>1. ASSUME NEW b \in Ad, Post(p, b) PROVE MediaTypeOK'
      BY <2>1 DEF Post, NewDraft
    <2>2. ASSUME NEW b \in Ad, PhotoUnavailable(p, b) PROVE MediaTypeOK'
      BY <2>2 DEF PhotoUnavailable, NewDraft
    <2>3. ASSUME NEW b \in Ad, ReplaceDraft(p, b) PROVE MediaTypeOK'
      BY <2>3 DEF ReplaceDraft, NewDraft
    <2>4. ASSUME NEW k \in Key, Upload(k) PROVE MediaTypeOK'
      BY <2>4 DEF Upload
    <2>5. CASE Forget(p)
      BY <2>5 DEF Forget
    <2> QED
      BY <1>2, <2>1, <2>2, <2>3, <2>4, <2>5 DEF Dialog
  <1>3. ASSUME NEW p \in Handler, Copy(p) PROVE MediaTypeOK'
    <2>1. ASSUME NEW a \in Ad, ReadSource(p, a) PROVE MediaTypeOK'
      BY <2>1 DEF ReadSource
    <2>2. ASSUME NEW a \in Ad, CommitCopy(p, a) PROVE MediaTypeOK'
      BY <2>2 DEF CommitCopy, NewDraft
    <2> QED
      BY <1>3, <2>1, <2>2 DEF Copy
  <1>4. ASSUME NEW p \in Handler, Submit(p) PROVE MediaTypeOK'
    <2>1. CASE Plan(p)
      BY <2>1 DEF Plan
    <2>2. CASE CommitSubmit(p)
      BY <2>2 DEF CommitSubmit, Created, Duplicates
    <2>3. CASE CommitRefused(p)
      BY <2>3 DEF CommitRefused, Created
    <2>4. CASE Finish(p)
      BY <2>4 DEF Finish
    <2>5. ASSUME NEW k \in Key,
                 ReclaimDuplicate(p, k) \/ Promote(p, k) \/ PromoteFails(p, k)
          PROVE MediaTypeOK'
      BY <2>5 DEF ReclaimDuplicate, Promote, PromoteFails
    <2> QED
      BY <1>4, <2>1, <2>2, <2>3, <2>4, <2>5 DEF Submit
  <1>5. ASSUME NEW p \in Handler, Cancel(p) PROVE MediaTypeOK'
    <2>1. CASE CancelRead(p)
      BY <2>1 DEF CancelRead
    <2>2. CASE GetDraft(p)
      BY <2>2 DEF GetDraft
    <2>3. CASE DeleteDraft(p)
      BY <2>3 DEF DeleteDraft, HeldIsFresh
    <2>4. ASSUME NEW k \in Key, Discard(p, k) \/ Purge(p, k)
          PROVE MediaTypeOK'
      BY <2>4 DEF Discard, Purge
    <2> QED
      BY <1>5, <2>1, <2>2, <2>3, <2>4 DEF Cancel
  <1>6. ASSUME NEW p \in Handler, Free(p) PROVE MediaTypeOK'
    <2>1. CASE WithdrawAds(p)
      BY <2>1 DEF WithdrawAds
    <2>2. CASE Unlink(p) \/ UnlinkFails(p)
      BY <2>2 DEF Unlink, UnlinkFails
    <2>3. ASSUME NEW a \in Ad, DeleteAd(p, a) PROVE MediaTypeOK'
      BY <2>3 DEF DeleteAd
    <2>4. ASSUME NEW a \in Ad, NEW k \in Key, RemoveImage(p, a, k)
          PROVE MediaTypeOK'
      BY <2>4 DEF RemoveImage
    <2>5. ASSUME NEW k \in Key, Query(p, k) PROVE MediaTypeOK'
      BY <2>5 DEF Query
    <2> QED
      BY <1>6, <2>1, <2>2, <2>3, <2>4, <2>5 DEF Free
  <1>7. ASSUME NEW p \in Handler, Crash(p) PROVE MediaTypeOK'
    BY <1>7 DEF Crash
  <1>8. CASE Sweep
    BY <1>8, <1>0 DEF Sweep, Snapshot, Walk, EndSweep, SweepDelete,
       SweepDeleteFails, ReclaimStale
  <1>9. ASSUME NEW k \in Key, Age(k) PROVE MediaTypeOK'
    BY <1>9 DEF Age
  <1>10. ASSUME NEW a \in Ad, Move(a) PROVE MediaTypeOK'
    BY <1>10 DEF Move
  <1> QED
    BY <1>1, <1>2, <1>3, <1>4, <1>5, <1>6, <1>7, <1>8, <1>9, <1>10
       DEF MediaNext
-----------------------------------------------------------------------------
(* Every action keeps the three other parts, which are proved together:    *)
(* that a photo stays is a matter of what the handlers hold, and of what   *)
(* has not aged.                                                           *)

RowsKept == NothingLost /\ StagedAwaited /\ HeldIsFresh

(* The dialog: drafts and uploads.                                         *)
LEMMA DialogKeeps ==
  ASSUME MInv, NEW p \in Handler, Dialog(p)
  PROVE  RowsKept'
  <1> USE Parts, NoneIsNone DEF MediaTypeOK, rows, disk, dialog, handlers,
      sweeper, Goto, Stop, FreeFiles, GoOn, Referenced, Awaited, TooLate,
      Condemned, RowsKept, NothingLost, StagedAwaited, HeldIsFresh
  <1>1. ASSUME NEW b \in Ad, Post(p, b) PROVE RowsKept'
    BY <1>1 DEF Post, NewDraft
  <1>2. ASSUME NEW b \in Ad, PhotoUnavailable(p, b) PROVE RowsKept'
    BY <1>2 DEF PhotoUnavailable, NewDraft
  <1>3. ASSUME NEW b \in Ad, ReplaceDraft(p, b) PROVE RowsKept'
    BY <1>3 DEF ReplaceDraft, NewDraft
  <1>4. ASSUME NEW k \in Key, Upload(k) PROVE RowsKept'
    BY <1>4 DEF Upload
  <1>5. ASSUME Forget(p) PROVE RowsKept'
    BY <1>5 DEF Forget
  <1> HIDE DEF RowsKept
  <1> QED
    BY <1>1, <1>2, <1>3, <1>4, <1>5 DEF Dialog

(* A copy commits what it has read, unless it is too late.                 *)
LEMMA CopyKeeps ==
  ASSUME MInv, NEW p \in Handler, Copy(p)
  PROVE  RowsKept'
  <1> USE Parts, NoneIsNone DEF MediaTypeOK, rows, disk, dialog, handlers,
      sweeper, Goto, Stop, FreeFiles, GoOn, Referenced, Awaited, TooLate,
      Condemned, RowsKept, NothingLost, StagedAwaited, HeldIsFresh
  <1>1. ASSUME NEW a \in Ad, ReadSource(p, a) PROVE RowsKept'
    BY <1>1 DEF ReadSource
  <1>2. ASSUME NEW b \in Ad, CommitCopy(p, b) PROVE RowsKept'
    BY <1>2 DEF CommitCopy, NewDraft
  <1> HIDE DEF RowsKept
  <1> QED
    BY <1>1, <1>2 DEF Copy

(* A submission commits, reclaims and promotes.                            *)
LEMMA SubmitKeeps ==
  ASSUME MInv, NEW p \in Handler, Submit(p)
  PROVE  RowsKept'
  <1> USE Parts, NoneIsNone DEF MediaTypeOK, rows, disk, dialog, handlers,
      sweeper, Goto, Stop, FreeFiles, GoOn, Referenced, Awaited, TooLate,
      Condemned, RowsKept, NothingLost, StagedAwaited, HeldIsFresh
  <1>1. ASSUME Plan(p) PROVE RowsKept'
    BY <1>1 DEF Plan
  <1>2. ASSUME CommitSubmit(p) PROVE RowsKept'
    BY <1>2 DEF CommitSubmit, Created, Duplicates
  <1>3. ASSUME CommitRefused(p) PROVE RowsKept'
    BY <1>3 DEF CommitRefused, Created
  <1>4. ASSUME Finish(p) PROVE RowsKept'
    BY <1>4 DEF Finish
  <1>5. ASSUME NEW k \in Key, ReclaimDuplicate(p, k) PROVE RowsKept'
    BY <1>5 DEF ReclaimDuplicate
  <1>6. ASSUME NEW k \in Key, Promote(p, k) PROVE RowsKept'
    BY <1>6 DEF Promote
  <1>7. ASSUME NEW k \in Key, PromoteFails(p, k) PROVE RowsKept'
    BY <1>7 DEF PromoteFails
  <1> HIDE DEF RowsKept
  <1> QED
    BY <1>1, <1>2, <1>3, <1>4, <1>5, <1>6, <1>7 DEF Submit

(* A cancelled dialog frees what was condemned before.                     *)
LEMMA CancelKeeps ==
  ASSUME MInv, NEW p \in Handler, Cancel(p)
  PROVE  RowsKept'
  <1> USE Parts, NoneIsNone DEF MediaTypeOK, rows, disk, dialog, handlers,
      sweeper, Goto, Stop, FreeFiles, GoOn, Referenced, Awaited, TooLate,
      Condemned, RowsKept, NothingLost, StagedAwaited, HeldIsFresh
  <1>1. ASSUME CancelRead(p) PROVE RowsKept'
    BY <1>1 DEF CancelRead
  <1>2. ASSUME GetDraft(p) PROVE RowsKept'
    BY <1>2 DEF GetDraft
  <1>3. ASSUME DeleteDraft(p) PROVE RowsKept'
    BY <1>3 DEF DeleteDraft
  <1>4. ASSUME NEW k \in Key, Discard(p, k) PROVE RowsKept'
    BY <1>4 DEF Discard
  <1>5. ASSUME NEW k \in Key, Purge(p, k) PROVE RowsKept'
    BY <1>5 DEF Purge
  <1> HIDE DEF RowsKept
  <1> QED
    BY <1>1, <1>2, <1>3, <1>4, <1>5 DEF Cancel

(* The signal's closure frees what no row refers to.                       *)
LEMMA FreeKeeps ==
  ASSUME MInv, NEW p \in Handler, Free(p)
  PROVE  RowsKept'
  <1> USE Parts, NoneIsNone DEF MediaTypeOK, rows, disk, dialog, handlers,
      sweeper, Goto, Stop, FreeFiles, GoOn, Referenced, Awaited, TooLate,
      Condemned, RowsKept, NothingLost, StagedAwaited, HeldIsFresh
  <1>1. ASSUME WithdrawAds(p) PROVE RowsKept'
    BY <1>1 DEF WithdrawAds
  <1>2. ASSUME Unlink(p) PROVE RowsKept'
    BY <1>2 DEF Unlink
  <1>3. ASSUME UnlinkFails(p) PROVE RowsKept'
    BY <1>3 DEF UnlinkFails
  <1>4. ASSUME NEW a \in Ad, DeleteAd(p, a) PROVE RowsKept'
    BY <1>4 DEF DeleteAd
  <1>5. ASSUME NEW a \in Ad, NEW k \in Key, RemoveImage(p, a, k) PROVE RowsKept'
    BY <1>5 DEF RemoveImage
  <1>6. ASSUME NEW k \in Key, Query(p, k) PROVE RowsKept'
    BY <1>6 DEF Query
  <1> HIDE DEF RowsKept
  <1> QED
    BY <1>1, <1>2, <1>3, <1>4, <1>5, <1>6 DEF Free

(* The sweep deletes what its snapshot lacks.                              *)
LEMMA SweepKeeps ==
  ASSUME MInv, Sweep
  PROVE  RowsKept'
  <1> USE Parts, NoneIsNone DEF MediaTypeOK, rows, disk, dialog, handlers,
      sweeper, Goto, Stop, FreeFiles, GoOn, Referenced, Awaited, TooLate,
      Condemned, RowsKept, NothingLost, StagedAwaited, HeldIsFresh
  <1>1. ASSUME Snapshot PROVE RowsKept'
    BY <1>1 DEF Snapshot
  <1>2. ASSUME Walk PROVE RowsKept'
    BY <1>2 DEF Walk
  <1>3. ASSUME EndSweep PROVE RowsKept'
    BY <1>3 DEF EndSweep
  <1>4. ASSUME NEW k \in Key, SweepDelete(k) PROVE RowsKept'
    BY <1>4 DEF SweepDelete
  <1>5. ASSUME NEW k \in Key, SweepDeleteFails(k) PROVE RowsKept'
    BY <1>5 DEF SweepDeleteFails
  <1>6. ASSUME NEW k \in Key, ReclaimStale(k) PROVE RowsKept'
    BY <1>6 DEF ReclaimStale
  <1> HIDE DEF RowsKept
  <1> QED
    BY <1>1, <1>2, <1>3, <1>4, <1>5, <1>6 DEF Sweep

(* A crash, the passing of time and a move of an ad.                       *)
LEMMA OthersKeep ==
  ASSUME MInv,
         \/ \E p \in Handler : Crash(p)
         \/ \E k \in Key : Age(k)
         \/ \E a \in Ad : Move(a)
         \/ UNCHANGED mediaVars
  PROVE  RowsKept'
  <1> USE Parts, NoneIsNone DEF MediaTypeOK, rows, disk, dialog, handlers,
      sweeper, Goto, Stop, FreeFiles, GoOn, Referenced, Awaited, TooLate,
      Condemned, RowsKept, NothingLost, StagedAwaited, HeldIsFresh
  <1>1. ASSUME NEW p \in Handler, Crash(p) PROVE RowsKept'
    BY <1>1 DEF Crash
  <1>2. ASSUME NEW k \in Key, Age(k) PROVE RowsKept'
    BY <1>2 DEF Age
  <1>3. ASSUME NEW a \in Ad, Move(a) PROVE RowsKept'
    BY <1>3 DEF Move
  <1>4. CASE UNCHANGED mediaVars
    BY <1>4 DEF mediaVars
  <1> HIDE DEF RowsKept
  <1> QED
    BY <1>1, <1>2, <1>3, <1>4

-----------------------------------------------------------------------------

(* Every step keeps the invariant.                                         *)
LEMMA MediaStep == ASSUME MInv, [MediaNext]_mediaVars PROVE MInv'
  <1>1. MediaTypeOK'
    BY Parts, MediaTyped
  <1>2. RowsKept'
    BY DialogKeeps, CopyKeeps, SubmitKeeps, CancelKeeps, FreeKeeps,
       SweepKeeps, OthersKeep DEF MediaNext
  <1> QED
    BY <1>1, <1>2, Parts DEF RowsKept, MInv, NothingLost, StagedAwaited,
       HeldIsFresh

(* What is shown and not at risk is neither gone nor condemned, for ever.  *)
THEOREM MediaInvariance == MediaSpec => []MInv
  <1>1. MediaInit => MInv
    BY DEF MediaInit, MInv, MediaTypeOK, AdState, Step, Referenced
  <1>2. MInv /\ [MediaNext]_mediaVars => MInv'
    BY MediaStep
  <1> QED
    BY <1>1, <1>2, PTL DEF MediaSpec

(* A photo that an ad shows has its bytes, or was put at risk in one of    *)
(* the ways the history variable records.                                  *)
THEOREM LossesAreKnown == MediaSpec => []EveryLossIsKnown
  <1>1. MInv => EveryLossIsKnown
    BY DEF MInv, TooLate, EveryLossIsKnown
  <1> QED
    BY <1>1, MediaInvariance, PTL

-----------------------------------------------------------------------------
(* The store is a shelf.  A step either uploads a photo, or takes the bytes *)
(* of one photo and leaves the rows and the record alone, or keeps all      *)
(* bytes and all that is on record.                                         *)
Bytes == files \cup staged

Goes(k) ==
  /\ Bytes' = Bytes \ {k} /\ k \notin Bytes'
  /\ UNCHANGED <<photos, exposed>>

Stays == Bytes' = Bytes /\ exposed \subseteq exposed'

Moves == Stays \/ \E k \in Key : Upload(k) \/ Goes(k)

\* A deletion takes the bytes of one photo, wherever they were.
LEMMA OneGoes ==
  ASSUME MediaTypeOK, UNCHANGED <<photos, exposed>>, NEW k \in Key,
         \/ files' = files \ {k} /\ staged' = staged
         \/ staged' = staged \ {k} /\ files' = files
  PROVE  Moves
  <1>1. staged \cap files = {}
    BY DEF MediaTypeOK
  <1>2. CASE k \in Bytes /\ k \notin Bytes'
    BY <1>2 DEF Moves, Goes, Bytes
  <1>3. CASE k \notin Bytes \/ k \in Bytes'
    <2>1. Bytes' = Bytes
      BY <1>1, <1>3 DEF Bytes
    <2> QED
      BY <2>1 DEF Moves, Stays
  <1> QED
    BY <1>2, <1>3

LEMMA BytesMove ==
  ASSUME MInv, [MediaNext]_mediaVars PROVE Moves
  <1> USE DEF rows, disk
  <1>0. MediaTypeOK
    BY Parts
  <1>1. ASSUME NEW p \in Handler, Dialog(p) PROVE Moves
    BY <1>1 DEF Dialog, Post, PhotoUnavailable, ReplaceDraft, NewDraft, Forget,
       Moves, Stays, Bytes
  <1>2. ASSUME NEW p \in Handler, Copy(p) PROVE Moves
    BY <1>2 DEF Copy, ReadSource, CommitCopy, NewDraft, Moves, Stays, Bytes
  <1>3. ASSUME NEW p \in Handler, Submit(p) PROVE Moves
    <2>1. ASSUME NEW k \in Key, ReclaimDuplicate(p, k) PROVE Moves
      BY <2>1, <1>0, OneGoes DEF ReclaimDuplicate
    <2>2. ASSUME NEW k \in Key, Promote(p, k) PROVE Moves
      BY <2>2 DEF Promote, Moves, Stays, Bytes
    <2>3. ASSUME NEW k \in Key, PromoteFails(p, k) PROVE Moves
      BY <2>3 DEF PromoteFails, Moves, Stays, Bytes
    <2>4. CASE Plan(p) \/ CommitSubmit(p) \/ CommitRefused(p) \/ Finish(p)
      BY <2>4 DEF Plan, CommitSubmit, CommitRefused, Finish, Moves, Stays, Bytes
    <2> QED
      BY <1>3, <2>1, <2>2, <2>3, <2>4 DEF Submit
  <1>4. ASSUME NEW p \in Handler, Cancel(p) PROVE Moves
    <2>1. ASSUME NEW k \in Key, Discard(p, k) \/ Purge(p, k) PROVE Moves
      BY <2>1, <1>0, OneGoes DEF Discard, Purge
    <2>2. CASE CancelRead(p) \/ GetDraft(p) \/ DeleteDraft(p)
      BY <2>2 DEF CancelRead, GetDraft, DeleteDraft, Moves, Stays, Bytes
    <2> QED
      BY <1>4, <2>1, <2>2 DEF Cancel
  <1>5. ASSUME NEW p \in Handler, Free(p) PROVE Moves
    <2>1. CASE Unlink(p)
      <3>1. CASE key[p] \in Key
        BY <2>1, <3>1, <1>0, OneGoes DEF Unlink
      <3>2. CASE key[p] \notin Key
        BY <2>1, <3>2, <1>0 DEF Unlink, MediaTypeOK, Moves, Stays, Bytes
      <3> QED
        BY <3>1, <3>2
    <2>2. CASE WithdrawAds(p) \/ UnlinkFails(p)
      BY <2>2 DEF WithdrawAds, UnlinkFails, Moves, Stays, Bytes
    <2>3. ASSUME NEW a \in Ad, DeleteAd(p, a) PROVE Moves
      BY <2>3 DEF DeleteAd, Moves, Stays, Bytes
    <2>4. ASSUME NEW a \in Ad, NEW k \in Key, RemoveImage(p, a, k) PROVE Moves
      BY <2>4 DEF RemoveImage, Moves, Stays, Bytes
    <2>5. ASSUME NEW k \in Key, Query(p, k) PROVE Moves
      BY <2>5 DEF Query, Moves, Stays, Bytes
    <2> QED
      BY <1>5, <2>1, <2>2, <2>3, <2>4, <2>5 DEF Free
  <1>6. CASE Sweep
    <2>1. ASSUME NEW k \in Key, SweepDelete(k) \/ ReclaimStale(k) PROVE Moves
      BY <2>1, <1>0, OneGoes DEF SweepDelete, ReclaimStale
    <2>2. ASSUME NEW k \in Key, SweepDeleteFails(k) PROVE Moves
      BY <2>2 DEF SweepDeleteFails, Moves, Stays, Bytes
    <2>3. CASE Snapshot \/ Walk \/ EndSweep
      BY <2>3 DEF Snapshot, Walk, EndSweep, Moves, Stays, Bytes
    <2> QED
      BY <1>6, <2>1, <2>2, <2>3 DEF Sweep
  <1>7. ASSUME NEW p \in Handler, Crash(p) PROVE Moves
    BY <1>7 DEF Crash, Moves, Stays, Bytes
  <1>8. CASE (\E k \in Key : Age(k)) \/ (\E a \in Ad : Move(a))
             \/ UNCHANGED mediaVars
    BY <1>8 DEF Age, Move, mediaVars, Moves, Stays, Bytes
  <1> QED
    BY <1>1, <1>2, <1>3, <1>4, <1>5, <1>6, <1>7, <1>8 DEF MediaNext

(* The photo store keeps the promise of the shelf: every step receives a   *)
(* photo, loses one that nobody misses, or changes what is shown and what  *)
(* is on record.                                                           *)
THEOREM ShelfImplemented == MediaSpec => ImplementsShelf
  <1>1. MediaInit => Shelf!ShelfInit
    BY DEF MediaInit, Shelf!ShelfInit, Referenced
  <1>2. MInv /\ MInv' /\ [MediaNext]_mediaVars => [Shelf!ShelfNext]_(Shelf!svars)
    <2> SUFFICES ASSUME MInv, MInv', [MediaNext]_mediaVars
                 PROVE  [Shelf!ShelfNext]_(Shelf!svars)
      OBVIOUS
    <2>0. /\ Referenced \in SUBSET Key /\ Referenced' \in SUBSET Key
          /\ exposed' \in SUBSET Key
      <3>1. MediaTypeOK /\ MediaTypeOK'
        BY Parts DEF MInv
      <3>2. Referenced \in SUBSET Key
        BY <3>1, ReferencedType
      <3>3. Referenced' \in SUBSET Key
        BY <3>1 DEF MediaTypeOK, Referenced
      <3> QED
        BY <3>1, <3>2, <3>3 DEF MediaTypeOK
    <2>1. Referenced' \ exposed' \subseteq Bytes'
      BY DEF MInv, TooLate, Bytes
    <2>2. ASSUME NEW k \in Key, Upload(k) PROVE Shelf!Receive(k)
      BY <2>2 DEF Upload, Shelf!Receive, rows, Referenced
    <2>3. ASSUME NEW k \in Key, Goes(k) PROVE Shelf!Lose(k)
      <3>1. Referenced' = Referenced /\ exposed' = exposed
        BY <2>3 DEF Goes, Referenced
      <3>2. k \notin Referenced \ exposed
        BY <2>1, <2>3, <3>1 DEF Goes
      <3> QED
        BY <2>3, <3>1, <3>2 DEF Goes, Shelf!Lose, Bytes
    <2>4. CASE Stays
      <3>1. Shelf!Show(Referenced', exposed')
        BY <2>1, <2>4 DEF Stays, Shelf!Show, Bytes
      <3> QED
        BY <3>1, <2>0 DEF Shelf!ShelfNext
    <2> QED
      BY <2>2, <2>3, <2>4, BytesMove DEF Moves, Shelf!ShelfNext
  <1> QED
    BY <1>1, <1>2, MediaInvariance, PTL DEF MediaSpec, ImplementsShelf,
       Shelf!ShelfSpec

(* On a shelf what is shown and not on record is kept: the promise is       *)
(* worth having.                                                            *)
THEOREM ShelfKeeps == Shelf!ShelfSpec => []Shelf!NothingMissing
  <1>1. Shelf!ShelfInit => Shelf!NothingMissing
    BY DEF Shelf!ShelfInit, Shelf!NothingMissing
  <1>2. Shelf!NothingMissing /\ [Shelf!ShelfNext]_(Shelf!svars)
        => Shelf!NothingMissing'
    BY DEF Shelf!NothingMissing, Shelf!ShelfNext, Shelf!svars, Shelf!Receive,
       Shelf!Show, Shelf!Lose
  <1> QED
    BY <1>1, <1>2, PTL DEF Shelf!ShelfSpec

-----------------------------------------------------------------------------
(* Caches. *)

-----------------------------------------------------------------------------
(* Numbers and counting. *)

LEMMA Numbers ==
  /\ Cardinality(Change) \in Nat /\ Version \subseteq Nat /\ 0 \in Version
  /\ Gone \in Nat /\ Gone >= Ttl /\ Gone > 0
  /\ Bound \in Nat /\ Bound = Gone + 2 * MaxRun
<1>1. Cardinality(Change) \in Nat  BY Changes, FS_CardinalityType
<1> QED BY <1>1, Times DEF Version, Gone, Bound

LEMMA Few ==
  ASSUME NEW A \in SUBSET Change
  PROVE  /\ IsFiniteSet(A) /\ Cardinality(A) \in Nat
         /\ Cardinality(A) <= Cardinality(Change)
         /\ \A c \in A : Cardinality(A \ {c}) = Cardinality(A) - 1
         /\ \A c \in Change \ A : Cardinality(A \cup {c}) = Cardinality(A) + 1
<1>1. IsFiniteSet(A) /\ Cardinality(A) <= Cardinality(Change)
  BY Changes, FS_Subset
<1>2. Cardinality(A) \in Nat  BY <1>1, FS_CardinalityType
<1>3. \A c \in A : Cardinality(A \ {c}) = Cardinality(A) - 1
  BY <1>1, FS_RemoveElement
<1>4. \A c \in Change \ A : Cardinality(A \cup {c}) = Cardinality(A) + 1
  BY <1>1, FS_AddElement
<1> QED BY <1>1, <1>2, <1>3, <1>4

\* One worker at most is no two.
LEMMA AloneIsOne == CacheInd => SingleFlight
<1> SUFFICES ASSUME CacheInd, Locked, NEW v \in Version, v \notin overran
             PROVE  ~(Cardinality(Working(v)) > 1)
  BY DEF SingleFlight
<1>1. \A r, s \in Working(v) : r = s  BY DEF CacheInd, LockOK
<1>2. CASE Working(v) = {}  BY <1>2, FS_EmptySet
<1>3. CASE Working(v) # {}
  <2>1. PICK r : Working(v) = {r}  BY <1>1, <1>3
  <2>2. Cardinality({r}) = 1  BY FS_Singleton
  <2> QED BY <2>1, <2>2
<1> QED BY <1>2, <1>3


-----------------------------------------------------------------------------
LEMMA InitHolds == Init => CacheInd /\ BoundedStaleness /\ AccountChangesRetire
<1> SUFFICES ASSUME Init PROVE CacheInd /\ BoundedStaleness /\ AccountChangesRetire
  OBVIOUS
<1>1. PICK C \in SUBSET Change, R \in SUBSET Request :
        /\ phase = [c \in Change |-> IF c \in C THEN "none" ELSE "undone"]
        /\ req = [r \in Request |-> IF r \in R THEN Idle ELSE [Idle EXCEPT !.pc = "out"]]
  BY DEF Init
<1>2. /\ Idle \in Req /\ Idle.pc = "idle" /\ Idle.run = 0 /\ Idle.must = {} /\ Idle.key = 0
      /\ [Idle EXCEPT !.pc = "out"] \in Req /\ [Idle EXCEPT !.pc = "out"].pc = "out"
      /\ [Idle EXCEPT !.pc = "out"].run = 0 /\ [Idle EXCEPT !.pc = "out"].must = {}
      /\ [Idle EXCEPT !.pc = "out"].key = 0
  BY Numbers DEF Idle, Req
<1>3. /\ req \in [Request -> Req]
      /\ \A r \in Request : /\ req[r].pc \in {"idle", "out"} /\ req[r].run = 0
                            /\ req[r].must = {} /\ req[r].key = 0
  BY <1>1, <1>2
<1>4. CacheTypeOK
  <2>1. phase \in [Change -> Phase]  BY <1>1 DEF Phase
  <2>2. entry \in [Version -> Entry] /\ \A v \in Version : entry[v].age = Gone
    BY Numbers DEF Init, NoEntry, Entry
  <2>3. lock \in [Version -> 0..LockTtl] /\ since \in [Change -> 0..(Bound + 1)]
    BY Numbers, Times DEF Init
  <2> QED BY <1>3, <2>1, <2>2, <2>3, Numbers, Times DEF Init, CacheTypeOK
<1>5. CounterBounded
  <2>1. Cardinality(Spent) \in Nat  BY Few DEF Spent
  <2>2. Cardinality(seeding) = 0  BY FS_EmptySet DEF Init
  <2> QED BY <2>1, <2>2 DEF Init, CounterBounded
<1>6. \A v \in Version : LockOK(v) /\ EntryOK(v)
  BY <1>3, Numbers DEF Init, LockOK, EntryOK, Working, NoEntry
<1>7. \A r \in Request : RequestOK(r)
  BY <1>3 DEF Init, RequestOK, Computed, Revalidates
<1> QED BY <1>4, <1>5, <1>6, <1>7
        DEF Init, CacheInd, BoundedStaleness, AccountChangesRetire

-----------------------------------------------------------------------------
(* Time: an entry, a lock and a request grow older together. *)

LEMMA TickHolds ==
  ASSUME CacheInd, BoundedStaleness, AccountChangesRetire, Tick
  PROVE  CacheInd' /\ BoundedStaleness' /\ AccountChangesRetire'
<1> USE DEF counter, ghosts
<1>1. /\ UNCHANGED <<kind, version, seeding, raced, retired, phase, last, overdue, forgot>>
      /\ CacheTypeOK
  BY DEF Tick, CacheInd
<1>2. Live' = Live /\ Spent' = Spent /\ (Separate <=> Separate') /\ (Locked <=> Locked')
      /\ (Versioned <=> Versioned')
  BY <1>1 DEF Live, Spent, Separate, Locked, Versioned
<1>3. \A v \in Version :
        /\ entry'[v] \in Entry /\ entry'[v].age <= Gone
        /\ \/ entry'[v].age = Gone
           \/ /\ entry'[v].age = entry[v].age + 1 /\ entry'[v].value = entry[v].value
              /\ entry[v].age < Gone
  <2> SUFFICES ASSUME NEW v \in Version
               PROVE  /\ Aged(entry[v]) \in Entry /\ Aged(entry[v]).age <= Gone
                      /\ \/ Aged(entry[v]).age = Gone
                         \/ /\ Aged(entry[v]).age = entry[v].age + 1
                            /\ Aged(entry[v]).value = entry[v].value
                            /\ entry[v].age < Gone
    BY DEF Tick
  <2>1. entry[v] \in Entry  BY <1>1 DEF CacheTypeOK
  <2> QED BY <2>1, Numbers DEF Aged, NoEntry, Entry
<1>4. \A v \in Version : /\ lock'[v] \in 0..LockTtl
                         /\ lock[v] > 1 => lock'[v] > 0
  BY <1>1, Times DEF Tick, CacheTypeOK, LeftOf
<1>5. \A c \in Change : /\ since'[c] \in 0..(Bound + 1)
                        /\ since'[c] <= since[c] + 1
                        /\ c \notin Live => since'[c] = since[c]
  <2> SUFFICES ASSUME NEW c \in Change
               PROVE  /\ since'[c] \in 0..(Bound + 1) /\ since'[c] <= since[c] + 1
                      /\ c \notin Live => since'[c] = since[c]
    OBVIOUS
  <2>1. since[c] \in 0..(Bound + 1)  BY <1>1 DEF CacheTypeOK
  <2>2. since'[c] = IF c \in Live THEN Saturated(since[c], Bound) ELSE since[c]
    BY DEF Tick
  <2> QED BY <2>1, <2>2, Numbers DEF Saturated
<1>6. \A r \in Request :
        /\ req'[r] \in Req /\ req'[r].run <= MaxRun
        /\ req'[r].pc = req[r].pc /\ req'[r].key = req[r].key /\ req'[r].held = req[r].held
        /\ req'[r].value = req[r].value /\ req'[r].old = req[r].old
        /\ req'[r].must = req[r].must
        /\ req'[r].run = IF req[r].pc \in {"idle", "out"} THEN req[r].run ELSE req[r].run + 1
  <2> SUFFICES ASSUME NEW r \in Request
               PROVE  /\ req'[r] \in Req /\ req'[r].run <= MaxRun
                      /\ req'[r].pc = req[r].pc /\ req'[r].key = req[r].key
                      /\ req'[r].held = req[r].held /\ req'[r].value = req[r].value
                      /\ req'[r].old = req[r].old /\ req'[r].must = req[r].must
                      /\ req'[r].run = IF req[r].pc \in {"idle", "out"} THEN req[r].run
                                                                        ELSE req[r].run + 1
    OBVIOUS
  <2>1. req[r] \in Req /\ req[r].run <= MaxRun /\ req[r].run < MaxRun
    BY <1>1 DEF CacheTypeOK, Tick
  <2>2. req'[r] = IF req[r].pc \in {"idle", "out"} THEN req[r]
                  ELSE [req[r] EXCEPT !.run = @ + 1]
    BY DEF Tick
  <2> QED BY <2>1, <2>2, Times DEF Req
<1>7. CacheTypeOK'
  <2>1. entry' \in [Version -> Entry] /\ lock' \in [Version -> 0..LockTtl]
        /\ since' \in [Change -> 0..(Bound + 1)] /\ req' \in [Request -> Req]
    BY <1>3, <1>4, <1>5, <1>6 DEF Tick
  <2>2. overran' \subseteq Version  BY <1>1 DEF Tick, CacheTypeOK
  <2> QED BY <1>1, <1>3, <1>6, <2>1, <2>2 DEF CacheTypeOK
<1>8. CounterBounded'
  BY <1>1, <1>2, <1>5 DEF CacheInd, CounterBounded
<1>9. \A v \in Version : LockOK(v)'
  <2> SUFFICES ASSUME NEW v \in Version PROVE LockOK(v)'
    OBVIOUS
  <2>1. Working(v)' = Working(v)  BY <1>6 DEF Working
  <2>2. LockOK(v) /\ lock[v] \in Nat  BY <1>1, Times DEF CacheInd, CacheTypeOK
  <2>3. v \notin overran' => v \notin overran /\ ~(lock[v] = 1 /\ Working(v) # {})
    BY DEF Tick
  <2> QED BY <1>2, <1>4, <2>1, <2>2, <2>3 DEF LockOK
<1>10. \A v \in Version : EntryOK(v)'
  <2> SUFFICES ASSUME NEW v \in Version PROVE EntryOK(v)'
    OBVIOUS
  <2>1. EntryOK(v) /\ entry[v].age \in Nat /\ \A c \in Change : since[c] \in Nat
    BY <1>1, Numbers DEF CacheInd, CacheTypeOK, Entry
  <2>2. entry'[v].age < Gone => \A c \in Live \ entry'[v].value :
                                  since'[c] <= entry'[v].age + MaxRun
    BY <1>3, <1>5, <2>1, Numbers, Times DEF EntryOK, Live
  <2> QED BY <1>1, <1>2, <1>3, <2>1, <2>2, Numbers DEF EntryOK
<1>11. \A r \in Request : RequestOK(r)'
  <2> SUFFICES ASSUME NEW r \in Request PROVE RequestOK(r)'
    OBVIOUS
  <2>1. /\ RequestOK(r) /\ req[r].run \in Nat /\ \A c \in Change : since[c] \in Nat
    BY <1>1, Numbers DEF CacheInd, CacheTypeOK, Req
  <2>2. (Computed(r)' <=> Computed(r)) /\ (Revalidates(r)' <=> Revalidates(r))
    BY <1>6 DEF Computed, Revalidates
  <2>3. Computed(r) \/ Revalidates(r) => req'[r].run = req[r].run + 1
    BY <1>6 DEF Computed, Revalidates
  <2>4. Computed(r) => \A c \in Live \ req[r].value : since'[c] <= req'[r].run
    BY <1>5, <2>1, <2>3 DEF RequestOK, Live
  <2>5. Revalidates(r) => \A c \in Live \ req[r].old : since'[c] < Gone + MaxRun + req'[r].run
    BY <1>5, <2>1, <2>3, Numbers, Times DEF RequestOK, Live
  <2> QED BY <1>1, <1>2, <1>6, <2>1, <2>2, <2>4, <2>5 DEF RequestOK
<1> QED BY <1>1, <1>7, <1>8, <1>9, <1>10, <1>11
        DEF CacheInd, BoundedStaleness, AccountChangesRetire

-----------------------------------------------------------------------------
(* The writers. *)

\* A step of a writer: changes commit, entries go, the counter goes up, or stays
\* with what is retired, or two first bumps have met.
LEMMA WriteFrame ==
  ASSUME CacheInd, BoundedStaleness, AccountChangesRetire,
         UNCHANGED <<kind, lock, req, last, since, overran, ghosts>>,
         CounterBounded', version' \in Nat, seeding' \subseteq Change,
         phase' \in [Change -> Phase], retired' \subseteq Deferred, raced' \in {"no", "yes"},
         entry' \in [Version -> Entry],
         \A v \in Version : entry'[v] = entry[v] \/ entry'[v].age = Gone,
         Live \subseteq Live', retired \subseteq retired',
         raced' = "no" => /\ raced = "no"
                          /\ \/ version' = version /\ retired' = retired
                             \/ version' > version
  PROVE  CacheInd' /\ BoundedStaleness' /\ AccountChangesRetire'
<1>1. CacheTypeOK /\ \A c \in Change \ Live : since[c] = 0
  BY DEF CacheInd, CounterBounded
<1>2. CacheTypeOK'
  <2>1. version' \in Version
    <3>1. Spent' \in SUBSET Change  BY DEF Spent
    <3>2. Cardinality(Spent') \in Nat /\ Cardinality(Spent') <= Cardinality(Change)
      BY <3>1, Few
    <3>3. Cardinality(seeding') \in Nat  BY Few
    <3> QED BY <3>2, <3>3, Numbers DEF CounterBounded, Version
  <2> QED BY <1>1, <2>1, Numbers DEF CacheTypeOK
<1>3. /\ Live' \subseteq Change /\ \A c \in Change : since[c] \in Nat
      /\ (Versioned' <=> Versioned) /\ (Locked' <=> Locked) /\ (Separate' => Separate)
      /\ version \in Nat /\ version' \in Nat
  BY <1>1, Numbers DEF Live, Versioned, Locked, Separate, CacheTypeOK
<1>4. \A v \in Version : LockOK(v)'
  BY <1>3 DEF CacheInd, LockOK, Working
<1>5. \A v \in Version : EntryOK(v)'
  <2> SUFFICES ASSUME NEW v \in Version PROVE EntryOK(v)'
    OBVIOUS
  <2>1. EntryOK(v) /\ entry[v].age \in Nat /\ v \in Nat
    BY <1>1, Numbers DEF CacheInd, CacheTypeOK, Entry
  <2>2. entry'[v].age < Gone => \A c \in Live' \ entry'[v].value :
                                  since'[c] <= entry'[v].age + MaxRun
    BY <1>1, <1>3, <2>1, Numbers, Times DEF EntryOK
  <2>3. Separate' /\ v > version' => entry'[v].age = Gone
    BY <1>3, <2>1, Numbers DEF EntryOK, Separate
  <2>4. Separate' /\ v = version' /\ entry'[v].age < Gone => retired' \subseteq entry'[v].value
    BY <1>3, <2>1, Numbers DEF EntryOK, Separate
  <2> QED BY <2>2, <2>3, <2>4 DEF EntryOK
<1>6. \A r \in Request : RequestOK(r)'
  <2> SUFFICES ASSUME NEW r \in Request PROVE RequestOK(r)'
    OBVIOUS
  <2>1. /\ RequestOK(r) /\ req[r].run \in Nat /\ req[r].key \in Nat
        /\ (Computed(r)' <=> Computed(r)) /\ (Revalidates(r)' <=> Revalidates(r))
    BY <1>1, Numbers DEF CacheInd, CacheTypeOK, Req, Computed, Revalidates
  <2>2. Computed(r) => \A c \in Live' \ req[r].value : since[c] <= req[r].run
    BY <1>1, <1>3, <2>1 DEF RequestOK
  <2>3. Revalidates(r) => \A c \in Live' \ req[r].old : since[c] < Gone + MaxRun + req[r].run
    BY <1>1, <1>3, <2>1, Numbers, Times DEF RequestOK
  <2>4. Separate' => req[r].key <= version'
    BY <1>3, <2>1 DEF RequestOK, Separate
  <2>5. Separate' /\ req[r].pc = "store" /\ req[r].key = version' => retired' \subseteq req[r].value
    BY <1>3, <2>1 DEF RequestOK, Separate
  <2>6. req[r].must \subseteq (IF Versioned THEN retired' ELSE {})
    BY <2>1 DEF RequestOK
  <2>7. raced' = "no" => /\ Computed(r) => req[r].must \subseteq req[r].value
                         /\ Revalidates(r) => req[r].must \subseteq req[r].old
    BY <2>1 DEF RequestOK
  <2> QED BY <1>3, <2>1, <2>2, <2>3, <2>4, <2>5, <2>6, <2>7 DEF RequestOK
<1> QED BY <1>2, <1>4, <1>5, <1>6
        DEF CacheInd, ghosts, BoundedStaleness, AccountChangesRetire

\* The counter and the bumps under way stay below the changes that have bumped.
LEMMA CountFrame ==
  ASSUME CacheInd, NEW c \in Change, phase' = [phase EXCEPT ![c] = phase'[c]],
         c \notin seeding, UNCHANGED since, retired' \subseteq Live', Live \subseteq Live',
         c \in Deferred \/ phase'[c] # "due",
         \/ UNCHANGED <<version, seeding>> /\ (c \in Spent => c \in Spent')
         \/ /\ c \notin Spent /\ c \in Spent' /\ Bump(c)
            /\ phase'[c] = IF c \in Deferred THEN "live" ELSE "open"
  PROVE  /\ CounterBounded' /\ version' \in Nat /\ seeding' \subseteq Change
         /\ version' \in {version, version + 1}
         /\ version' = version + 1 <=> version' # version
<1>1. /\ CounterBounded /\ version \in Nat /\ seeding \in SUBSET Change
      /\ phase \in [Change -> Phase]
  BY Numbers DEF CacheInd, CacheTypeOK
<1>2. \A d \in Change \ {c} : phase'[d] = phase[d] /\ (d \in Spent' <=> d \in Spent)
  BY <1>1 DEF Spent
<1>3. Spent \in SUBSET Change /\ Spent' \in SUBSET Change  BY DEF Spent
<1>4. CASE UNCHANGED <<version, seeding>> /\ (c \in Spent => c \in Spent')
  <2>1. Spent' = Spent \/ (c \notin Spent /\ Spent' = Spent \cup {c})
    BY <1>2, <1>3, <1>4
  <2>2. version' + Cardinality(seeding') <= Cardinality(Spent')
    BY <1>1, <1>3, <1>4, <2>1, Few DEF CounterBounded
  <2> QED BY <1>1, <1>2, <1>4, <2>2 DEF CounterBounded
<1>5. CASE /\ c \notin Spent /\ c \in Spent' /\ Bump(c)
           /\ phase'[c] = IF c \in Deferred THEN "live" ELSE "open"
  <2>1. Spent' = Spent \cup {c}  BY <1>2, <1>3, <1>5
  <2>2. Cardinality(Spent') = Cardinality(Spent) + 1
    BY <1>3, <1>5, <2>1, Few
  <2>3. \/ version = 0 /\ version' = version /\ seeding' = seeding \cup {c}
        \/ version' = version + 1 /\ seeding' = seeding
    BY <1>1, <1>5 DEF Bump
  <2>4. Cardinality(seeding \cup {c}) = Cardinality(seeding) + 1
    BY <1>1, Few
  <2>5. version' + Cardinality(seeding') <= Cardinality(Spent')
    BY <1>1, <1>3, <2>2, <2>3, <2>4, Few DEF CounterBounded
  <2>6. \A d \in seeding' : phase'[d] = IF d \in Deferred THEN "live" ELSE "open"
    BY <1>1, <1>2, <1>5, <2>3 DEF CounterBounded
  <2> QED BY <1>1, <1>2, <2>3, <2>5, <2>6 DEF CounterBounded
<1> QED BY <1>4, <1>5

LEMMA SaveHolds ==
  ASSUME CacheInd, BoundedStaleness, AccountChangesRetire, NEW c \in Change, Save(c)
  PROVE  CacheInd' /\ BoundedStaleness' /\ AccountChangesRetire'
<1>1. CacheTypeOK /\ CounterBounded  BY DEF CacheInd
<1>2. /\ phase[c] = "none" /\ UNCHANGED <<kind, lock, req, last, since, retired, overran, ghosts>>
      /\ raced' = raced
  BY DEF Save, SaveContent, SaveAccount, SaveSetting, Kept, Bump, Delete
<1>3. /\ phase' = [phase EXCEPT ![c] = phase'[c]] /\ phase'[c] \in {"open", "undone"}
      /\ phase' \in [Change -> Phase]
      /\ c \notin Spent /\ (phase'[c] = "undone" => c \notin Deferred)
      /\ \/ UNCHANGED <<version, seeding>>
         \/ Bump(c) /\ c \notin Deferred /\ phase'[c] = "open"
  BY <1>1, <1>2 DEF Save, SaveContent, SaveAccount, SaveSetting, Kept, Delete, CacheTypeOK,
                    Phase, Spent
<1>4. Live' = Live  BY <1>1, <1>2, <1>3 DEF Live, CacheTypeOK
<1>5. c \notin seeding  BY <1>1, <1>2 DEF CounterBounded
<1>6. c \notin Deferred => c \in Spent'  BY <1>3 DEF Spent
<1>7. /\ CounterBounded' /\ version' \in Nat /\ seeding' \subseteq Change
      /\ version' = version \/ version' > version
  BY <1>1, <1>2, <1>3, <1>4, <1>5, <1>6, CountFrame, Numbers DEF CounterBounded, CacheTypeOK
<1>8. /\ entry' \in [Version -> Entry]
      /\ \A v \in Version : entry'[v] = entry[v] \/ entry'[v].age = Gone
  BY <1>1, Numbers DEF Save, SaveContent, SaveAccount, SaveSetting, Kept, Bump, Delete,
                       NoEntry, Entry, CacheTypeOK
<1> QED BY <1>1, <1>2, <1>3, <1>4, <1>7, <1>8, WriteFrame DEF CacheTypeOK

LEMMA SeedHolds ==
  ASSUME CacheInd, BoundedStaleness, AccountChangesRetire, NEW c \in Change, Seed(c)
  PROVE  CacheInd' /\ BoundedStaleness' /\ AccountChangesRetire'
<1> USE DEF database
<1>1. CacheTypeOK /\ CounterBounded /\ version \in Nat  BY Numbers DEF CacheInd, CacheTypeOK
<1>2. /\ c \in seeding /\ seeding' = seeding \ {c} /\ version' = 1
      /\ raced' = (IF version = 0 THEN raced ELSE "yes")
      /\ retired' = IF c \in Deferred THEN retired \cup {c} ELSE retired
      /\ UNCHANGED <<kind, entry, lock, phase, since, req, last, overran, ghosts>>
  BY DEF Seed
<1>3. Live' = Live /\ Spent' = Spent  BY <1>2 DEF Live, Spent
<1>4. Cardinality(seeding') = Cardinality(seeding) - 1 /\ Cardinality(seeding) \in Nat
      /\ Cardinality(Spent) \in Nat
  BY <1>1, <1>2, Few DEF CacheTypeOK, Spent
<1>5. retired' \subseteq Live' /\ retired' \subseteq Deferred
  BY <1>1, <1>2, <1>3 DEF CounterBounded, Live, CacheTypeOK
<1>6. CounterBounded'
  BY <1>1, <1>2, <1>3, <1>4, <1>5 DEF CounterBounded
<1>7. raced' = "no" => raced = "no" /\ version' > version
  BY <1>2
<1>8. raced' \in {"no", "yes"} /\ seeding' \subseteq Change /\ version' \in Nat
  BY <1>1, <1>2 DEF CacheTypeOK
<1> QED BY <1>1, <1>2, <1>3, <1>5, <1>6, <1>7, <1>8, WriteFrame DEF CacheTypeOK

LEMMA CommitHolds ==
  ASSUME CacheInd, BoundedStaleness, AccountChangesRetire, NEW c \in Change,
         Commit(c) \/ Rollback(c)
  PROVE  CacheInd' /\ BoundedStaleness' /\ AccountChangesRetire'
<1> USE DEF counter
<1>1. CacheTypeOK /\ CounterBounded  BY DEF CacheInd
<1>2. /\ phase[c] = "open" /\ c \notin seeding
      /\ UNCHANGED <<kind, counter, entry, lock, req, last, since, overran, ghosts>>
  BY DEF Commit, Rollback
<1>3. /\ phase' = [phase EXCEPT ![c] = phase'[c]] /\ phase' \in [Change -> Phase]
      /\ phase'[c] \in {"due", "live", "undone"}
      /\ phase'[c] = "due" => c \in Deferred
  BY <1>1 DEF Commit, Rollback, CacheTypeOK, Phase
<1>4. Live \subseteq Live'  BY <1>1, <1>2, <1>3 DEF Live, CacheTypeOK
<1>5. c \in Spent => c \in Spent'  BY <1>2, <1>3 DEF Spent
<1>6. retired' \subseteq Live'  BY <1>1, <1>2, <1>4 DEF CounterBounded
<1>7. CounterBounded' /\ version' \in Nat /\ seeding' \subseteq Change
  BY <1>2, <1>3, <1>4, <1>5, <1>6, CountFrame
<1> QED BY <1>1, <1>2, <1>3, <1>4, <1>7, WriteFrame DEF CacheTypeOK

LEMMA OnCommitHolds ==
  ASSUME CacheInd, BoundedStaleness, AccountChangesRetire, NEW c \in Change, OnCommit(c)
  PROVE  CacheInd' /\ BoundedStaleness' /\ AccountChangesRetire'
<1>1. CacheTypeOK /\ CounterBounded /\ version \in Nat  BY Numbers DEF CacheInd, CacheTypeOK
<1>2. /\ phase[c] = "due" /\ phase' = [phase EXCEPT ![c] = "live"]
      /\ UNCHANGED <<kind, entry, raced, lock, req, last, since, overran, ghosts>>
      /\ \/ Bump(c) /\ Retire(c)
         \/ UNCHANGED <<version, seeding, retired>>
  BY DEF OnCommit, Bump
<1>3. /\ phase'[c] = "live" /\ phase' \in [Change -> Phase]
      /\ c \in Deferred /\ c \notin seeding /\ c \notin Spent /\ c \in Spent'
      /\ Live' = Live /\ c \in Live
  BY <1>1, <1>2 DEF CacheTypeOK, CounterBounded, Phase, Spent, Live
<1>4. \/ UNCHANGED <<version, retired>>
      \/ version' = version + 1 /\ retired' = retired \cup {c}
  BY <1>1, <1>2, <1>3 DEF Bump, Retire
<1>5. retired' \subseteq Live' /\ retired' \subseteq Deferred /\ retired \subseteq retired'
  BY <1>1, <1>3, <1>4 DEF CounterBounded, CacheTypeOK
<1>6. CounterBounded' /\ version' \in Nat /\ seeding' \subseteq Change
  BY <1>2, <1>3, <1>5, CountFrame
<1> QED BY <1>1, <1>2, <1>3, <1>4, <1>5, <1>6, WriteFrame DEF CacheTypeOK

-----------------------------------------------------------------------------
(* The readers. *)

\* A step of one request that leaves the versions and the database alone.
LEMMA ReadFrame ==
  ASSUME CacheInd, NEW r \in Request, UNCHANGED <<kind, counter, database>>,
         req' \in [Request -> Req], \A q \in Request \ {r} : req'[q] = req[q],
         req'[r].run <= MaxRun, lock' \in [Version -> 0..LockTtl], overran' \subseteq Version,
         entry' \in [Version -> Entry], \A v \in Version : entry'[v].age <= Gone,
         last' \in {"none", "value", "empty", "error"},
         \A v \in Version : LockOK(v)', \A v \in Version : EntryOK(v)', RequestOK(r)',
         overdue' = {}, raced = "no" => forgot' = {}
  PROVE  CacheInd' /\ BoundedStaleness' /\ AccountChangesRetire'
<1> USE DEF counter, database
<1>1. CacheTypeOK /\ CounterBounded  BY DEF CacheInd
<1>2. CacheTypeOK'
  <2>1. \A q \in Request : req'[q].run <= MaxRun  BY <1>1 DEF CacheTypeOK
  <2> QED BY <1>1, <2>1, Numbers DEF CacheTypeOK
<1>3. CounterBounded'  BY <1>1 DEF CounterBounded, Spent, Live
<1>4. ASSUME NEW q \in Request \ {r} PROVE RequestOK(q)'
  <2>1. RequestOK(q)  BY DEF CacheInd
  <2> QED BY <2>1 DEF RequestOK, Computed, Revalidates, Live, Versioned, Separate
<1> QED BY <1>2, <1>3, <1>4 DEF CacheInd, BoundedStaleness, AccountChangesRetire

\* Locks are as they were, and r is at work only where it was.
LEMMA LockFrame ==
  ASSUME CacheInd, NEW r \in Request, UNCHANGED <<kind, lock, overran>>,
         \A q \in Request \ {r} : req'[q] = req[q],
         Locked => \A v \in Version : r \in Working(v)' => r \in Working(v)
  PROVE  \A v \in Version : LockOK(v)'
<1> SUFFICES ASSUME NEW v \in Version PROVE LockOK(v)'
  OBVIOUS
<1>1. LockOK(v) /\ (Locked' <=> Locked)  BY DEF CacheInd, Locked
<1>2. Locked => Working(v)' \subseteq Working(v)
  BY DEF Working
<1> QED BY <1>1, <1>2 DEF LockOK

LEMMA EntryFrame ==
  ASSUME CacheInd, UNCHANGED <<kind, counter, database, entry>>
  PROVE  /\ \A v \in Version : EntryOK(v)'
         /\ entry' \in [Version -> Entry] /\ \A v \in Version : entry'[v].age <= Gone
<1> SUFFICES ASSUME NEW v \in Version PROVE EntryOK(v)'
  BY DEF CacheInd, CacheTypeOK
<1>1. EntryOK(v)  BY DEF CacheInd
<1> QED BY <1>1 DEF EntryOK, Live, Versioned, Separate, counter, database

\* What a request has of itself.
LEMMA OfRequest ==
  ASSUME CacheInd, NEW r \in Request
  PROVE  /\ req \in [Request -> Req] /\ req[r] \in Req /\ RequestOK(r)
         /\ req[r].run \in Nat /\ req[r].run <= MaxRun
         /\ req[r].key \in Version /\ retired \subseteq Live /\ Live \subseteq Change
         /\ \A c \in Change : since[c] \in Nat
BY Numbers DEF CacheInd, CacheTypeOK, CounterBounded, Req, Live

LEMMA IdleOK ==
  ASSUME CacheInd, NEW r \in Request, UNCHANGED <<kind, counter, database>>,
         req' = [req EXCEPT ![r] = Idle]
  PROVE  /\ req' \in [Request -> Req] /\ \A q \in Request \ {r} : req'[q] = req[q]
         /\ req'[r].run <= MaxRun /\ RequestOK(r)' /\ req'[r].pc = "idle"
<1>1. Idle \in Req /\ Idle.pc = "idle" /\ Idle.run = 0 /\ Idle.must = {} /\ Idle.key = 0
  BY Numbers DEF Idle, Req
<1>2. req' \in [Request -> Req] /\ req'[r] = Idle
  BY <1>1, OfRequest
<1>3. version' \in Nat  BY Numbers DEF CacheInd, CacheTypeOK, counter
<1>4. RequestOK(r)'  BY <1>1, <1>2, <1>3 DEF RequestOK, Computed, Revalidates
<1> QED BY <1>1, <1>2, <1>4, Times, OfRequest

\* An answer that lacks nothing it must have, and nothing old.
LEMMA AnswerOK ==
  ASSUME CacheInd, BoundedStaleness, AccountChangesRetire, NEW r \in Request,
         UNCHANGED <<kind, counter, database>>, NEW value, Answer(r, value),
         \A c \in Live \ value : since[c] <= Bound,
         raced = "no" => req[r].must \subseteq value
  PROVE  /\ req' \in [Request -> Req] /\ \A q \in Request \ {r} : req'[q] = req[q]
         /\ req'[r].run <= MaxRun /\ RequestOK(r)' /\ req'[r].pc = "idle"
         /\ last' = "value" /\ overdue' = {} /\ (raced = "no" => forgot' = {})
<1>1. {c \in Live : since[c] > Bound} \ value = {}
  BY OfRequest, Numbers
<1>2. raced = "no" => req[r].must \ value = {}  OBVIOUS
<1> QED BY <1>1, <1>2, IdleOK DEF Answer, BoundedStaleness, AccountChangesRetire

\* Where a request begins.
LEMMA KeyOK ==
  ASSUME CacheInd
  PROVE  /\ KeyNow \in Version /\ EntryOK(KeyNow) /\ entry[KeyNow] \in Entry /\ entry[KeyNow].age \in Nat
         /\ Separate => KeyNow = version
BY Numbers DEF CacheInd, CacheTypeOK, KeyNow, Entry, Separate

LEMMA GetFreshHolds ==
  ASSUME CacheInd, BoundedStaleness, AccountChangesRetire, NEW r \in Request, GetFresh(r)
  PROVE  CacheInd' /\ BoundedStaleness' /\ AccountChangesRetire'
<1>1. /\ UNCHANGED <<kind, counter, entry, lock, database, req, overran>> /\ last' = "value"
      /\ entry[KeyNow].age < Ttl
      /\ overdue' = overdue \cup ({c \in Live : since[c] > Bound} \ entry[KeyNow].value)
      /\ forgot' = forgot \cup (Begun("idle").must \ entry[KeyNow].value)
  BY DEF GetFresh, Fresh
<1>2. \A c \in Live \ entry[KeyNow].value : since[c] <= Bound
  BY <1>1, KeyOK, OfRequest, Numbers, Times DEF EntryOK
<1>3. overdue' = {}
  BY <1>1, <1>2, OfRequest, Numbers DEF BoundedStaleness
<1>4. Begun("idle").must = IF Versioned THEN retired ELSE {}
  BY DEF Begun, Idle
<1>5. raced = "no" => forgot' = {}
  <2>1. entry[KeyNow].age < Gone  BY <1>1, KeyOK, Numbers, Times
  <2>2. raced = "no" /\ Versioned => retired \subseteq entry[KeyNow].value
    BY <2>1, KeyOK DEF EntryOK, Separate
  <2> QED BY <1>1, <1>4, <2>2 DEF AccountChangesRetire
<1>6. RequestOK(r)'
  BY <1>1, OfRequest DEF RequestOK, Computed, Revalidates, Live, Versioned, Separate,
                         counter, database
<1>7. \A v \in Version : LockOK(v)'
  BY <1>1, LockFrame DEF Working
<1> QED BY <1>1, <1>3, <1>5, <1>6, <1>7, OfRequest, EntryFrame, ReadFrame
        DEF CacheInd, CacheTypeOK

LEMMA GetStaleHolds ==
  ASSUME CacheInd, BoundedStaleness, AccountChangesRetire, NEW r \in Request, GetStale(r)
  PROVE  CacheInd' /\ BoundedStaleness' /\ AccountChangesRetire'
<1>1. /\ UNCHANGED <<kind, counter, entry, lock, database, last, overran, ghosts>>
      /\ entry[KeyNow].age < Gone
  BY DEF GetStale, Servable, Gone
<1>2. PICK q \in Req :
        /\ req' = [req EXCEPT ![r] = q] /\ q.pc = "stale" /\ q.key = KeyNow /\ q.run = 0
        /\ q.must = (IF Versioned THEN retired ELSE {}) /\ q.old = entry[KeyNow].value
  <2> DEFINE e == [Begun("stale") EXCEPT !.old = entry[KeyNow].value]
  <2>1. retired \subseteq Change /\ entry[KeyNow].value \subseteq Change
    BY OfRequest, KeyOK DEF Entry
  <2>2. /\ e \in Req /\ e.pc = "stale" /\ e.key = KeyNow /\ e.run = 0
        /\ e.must = (IF Versioned THEN retired ELSE {}) /\ e.old = entry[KeyNow].value
    BY <2>1, KeyOK DEF Begun, Idle, Req
  <2>3. req' = [req EXCEPT ![r] = e]  BY DEF GetStale
  <2> QED BY <2>2, <2>3
<1>3. /\ req' \in [Request -> Req] /\ req'[r] = q
      /\ \A s \in Request \ {r} : req'[s] = req[s]
  BY <1>2, OfRequest
<1>4. RequestOK(r)'
  <2>1. (Versioned' <=> Versioned) /\ (Separate' <=> Separate) /\ Live' = Live
        /\ UNCHANGED <<retired, raced, since, version>> /\ version \in Nat
    BY <1>1, Numbers DEF Versioned, Separate, Live, counter, database, CacheInd, CacheTypeOK
  <2>2. \A c \in Live \ q.old : since[c] < Gone + MaxRun + q.run
    BY <1>1, <1>2, KeyOK, OfRequest, Numbers, Times DEF EntryOK
  <2>3. raced = "no" => q.must \subseteq q.old
    BY <1>1, <1>2, KeyOK DEF EntryOK, Separate
  <2> QED BY <1>2, <1>3, <2>1, <2>2, <2>3, KeyOK DEF RequestOK, Computed, Revalidates
<1>5. \A v \in Version : LockOK(v)'
  BY <1>1, <1>2, <1>3, LockFrame DEF Working
<1>6. /\ last' \in {"none", "value", "empty", "error"} /\ lock' \in [Version -> 0..LockTtl]
      /\ overran' \subseteq Version /\ req'[r].run <= MaxRun
  BY <1>1, <1>2, <1>3, Times DEF CacheInd, CacheTypeOK
<1>7. overdue' = {} /\ (raced = "no" => forgot' = {})
  BY <1>1 DEF ghosts, BoundedStaleness, AccountChangesRetire
<1> QED BY <1>1, <1>3, <1>4, <1>5, <1>6, <1>7, EntryFrame, ReadFrame

LEMMA GetNothingHolds ==
  ASSUME CacheInd, BoundedStaleness, AccountChangesRetire, NEW r \in Request,
         UNCHANGED <<kind, counter, entry, lock, database, last, overran, ghosts>>,
         req' = [req EXCEPT ![r] = Begun(IF Locked THEN "miss" ELSE "produce")]
  PROVE  CacheInd' /\ BoundedStaleness' /\ AccountChangesRetire'
<1>1. PICK q \in Req :
        /\ req' = [req EXCEPT ![r] = q] /\ q.key = KeyNow /\ q.run = 0 /\ q.held = "no"
        /\ q.pc = (IF Locked THEN "miss" ELSE "produce")
        /\ q.must = (IF Versioned THEN retired ELSE {})
  <2> DEFINE e == Begun(IF Locked THEN "miss" ELSE "produce")
  <2>1. retired \subseteq Change  BY OfRequest
  <2>2. /\ e \in Req /\ e.key = KeyNow /\ e.run = 0 /\ e.held = "no"
        /\ e.pc = (IF Locked THEN "miss" ELSE "produce")
        /\ e.must = (IF Versioned THEN retired ELSE {})
    BY <2>1, KeyOK DEF Begun, Idle, Req
  <2> QED BY <2>2
<1>2. /\ req' \in [Request -> Req] /\ req'[r] = q
      /\ \A s \in Request \ {r} : req'[s] = req[s]
  BY <1>1, OfRequest
<1>3. RequestOK(r)'
  <2>1. (Versioned' <=> Versioned) /\ (Separate' <=> Separate)
        /\ UNCHANGED <<retired, raced, version>> /\ version \in Nat
    BY Numbers DEF Versioned, Separate, counter, CacheInd, CacheTypeOK
  <2> QED BY <1>1, <1>2, <2>1, KeyOK DEF RequestOK, Computed, Revalidates
<1>4. \A v \in Version : LockOK(v)'
  BY <1>1, <1>2, LockFrame DEF Working
<1> QED BY <1>1, <1>2, <1>3, <1>4, Times, EntryFrame, ReadFrame
        DEF CacheInd, CacheTypeOK, ghosts, BoundedStaleness, AccountChangesRetire

LEMMA WinHolds ==
  ASSUME CacheInd, BoundedStaleness, AccountChangesRetire, NEW r \in Request, Win(r)
  PROVE  CacheInd' /\ BoundedStaleness' /\ AccountChangesRetire'
<1> DEFINE k == req[r].key
<1>1. /\ UNCHANGED <<kind, counter, entry, database, last, ghosts>>
      /\ req[r].pc \in {"stale", "miss"} /\ lock[k] = 0 /\ lock' = [lock EXCEPT ![k] = LockTtl]
      /\ overran' = (IF Working(k) = {} THEN overran \ {k} ELSE overran)
  BY DEF Win, Take
<1>2. /\ req' \in [Request -> Req] /\ \A s \in Request \ {r} : req'[s] = req[s]
      /\ req'[r].pc = "produce" /\ req'[r].key = k /\ req'[r].run = req[r].run
      /\ req'[r].held = (IF req[r].pc = "stale" THEN "stale" ELSE "cold")
      /\ req'[r].value = req[r].value /\ req'[r].old = req[r].old
      /\ req'[r].must = req[r].must
  BY <1>1, OfRequest DEF Win, Req
<1>3. RequestOK(r)'
  <2>1. (Versioned' <=> Versioned) /\ (Separate' <=> Separate) /\ Live' = Live
        /\ UNCHANGED <<retired, raced, since, version>>
    BY <1>1 DEF Versioned, Separate, Live, counter, database
  <2>2. ~Computed(r)' /\ (Revalidates(r)' => Revalidates(r))
    BY <1>1, <1>2 DEF Computed, Revalidates
  <2> QED BY <1>2, <2>1, <2>2, OfRequest DEF RequestOK
<1>4. ASSUME NEW v \in Version PROVE LockOK(v)'
  <2>1. LockOK(v) /\ (Locked' <=> Locked) /\ lock[v] \in Nat /\ k \in Version
        /\ lock \in [Version -> 0..LockTtl]
    BY <1>1, OfRequest, Times DEF CacheInd, CacheTypeOK, Locked
  <2>2. CASE v # k
    <3>1. Working(v)' = Working(v)  BY <1>1, <1>2, <2>2 DEF Working
    <3> QED BY <1>1, <2>1, <2>2, <3>1 DEF LockOK
  <2>3. CASE v = k /\ Working(k) = {}
    <3>1. Working(v)' \subseteq {r}  BY <1>2, <2>3 DEF Working
    <3> QED BY <1>1, <2>1, <2>3, <3>1, Times DEF LockOK
  <2>4. CASE v = k /\ Working(k) # {}
    BY <1>1, <2>1, <2>4 DEF LockOK
  <2> QED BY <2>2, <2>3, <2>4
<1>5. /\ last' \in {"none", "value", "empty", "error"} /\ lock' \in [Version -> 0..LockTtl]
      /\ overran' \subseteq Version /\ req'[r].run <= MaxRun
  BY <1>1, <1>2, OfRequest, Times DEF CacheInd, CacheTypeOK
<1>6. overdue' = {} /\ (raced = "no" => forgot' = {})
  BY <1>1 DEF ghosts, BoundedStaleness, AccountChangesRetire
<1> QED BY <1>1, <1>2, <1>3, <1>4, <1>5, <1>6, EntryFrame, ReadFrame

\* A request that ends without work of its own: with an answer, with nothing, or
\* with an error.
LEMMA EndHolds ==
  ASSUME CacheInd, BoundedStaleness, AccountChangesRetire, NEW r \in Request,
         UNCHANGED <<kind, counter, entry, lock, database, overran>>,
         req' \in [Request -> Req], \A q \in Request \ {r} : req'[q] = req[q],
         req'[r].run <= MaxRun, RequestOK(r)', req'[r].pc = "idle",
         last' \in {"none", "value", "empty", "error"},
         overdue' = {}, raced = "no" => forgot' = {}
  PROVE  CacheInd' /\ BoundedStaleness' /\ AccountChangesRetire'
<1>1. \A v \in Version : LockOK(v)'
  BY LockFrame DEF Working
<1> QED BY <1>1, EntryFrame, ReadFrame DEF CacheInd, CacheTypeOK

LEMMA LoseHolds ==
  ASSUME CacheInd, BoundedStaleness, AccountChangesRetire, NEW r \in Request, Lose(r)
  PROVE  CacheInd' /\ BoundedStaleness' /\ AccountChangesRetire'
<1>1. UNCHANGED <<kind, counter, entry, lock, database, overran>>  BY DEF Lose
<1>2. CASE req[r].pc = "stale" /\ Answer(r, req[r].old)
  <2>1. \A c \in Live \ req[r].old : since[c] <= Bound
    BY <1>2, OfRequest, Numbers, Times DEF RequestOK, Revalidates
  <2>2. raced = "no" => req[r].must \subseteq req[r].old
    BY <1>2, OfRequest DEF RequestOK, Revalidates
  <2> QED BY <1>1, <1>2, <2>1, <2>2, AnswerOK, EndHolds
<1>3. CASE Answer(r, Live)
  <2>1. req[r].must \subseteq Live  BY OfRequest DEF RequestOK
  <2> QED BY <1>1, <1>3, <2>1, AnswerOK, EndHolds
<1>4. CASE req' = [req EXCEPT ![r] = Idle] /\ last' = "empty" /\ UNCHANGED ghosts
  BY <1>1, <1>4, IdleOK, EndHolds DEF ghosts, BoundedStaleness, AccountChangesRetire
<1> QED BY <1>2, <1>3, <1>4 DEF Lose

\* What is computed is up to date.
LEMMA ProduceHolds ==
  ASSUME CacheInd, BoundedStaleness, AccountChangesRetire, NEW r \in Request, Produce(r)
  PROVE  CacheInd' /\ BoundedStaleness' /\ AccountChangesRetire'
<1>1. /\ UNCHANGED <<kind, counter, entry, lock, database, last, overran, ghosts>>
      /\ req[r].pc = "produce"
  BY DEF Produce
<1>2. /\ req' \in [Request -> Req] /\ \A s \in Request \ {r} : req'[s] = req[s]
      /\ req'[r].pc = "store" /\ req'[r].value = Live /\ req'[r].key = req[r].key
      /\ req'[r].run = req[r].run /\ req'[r].held = req[r].held
      /\ req'[r].old = req[r].old /\ req'[r].must = req[r].must
  BY OfRequest DEF Produce, Req
<1>3. RequestOK(r)'
  <2>1. (Versioned' <=> Versioned) /\ (Separate' <=> Separate) /\ Live' = Live
        /\ UNCHANGED <<retired, raced, since, version>>
    BY <1>1 DEF Versioned, Separate, Live, counter, database
  <2>2. Revalidates(r)' <=> Revalidates(r)
    BY <1>1, <1>2 DEF Revalidates
  <2>3. req[r].must \subseteq Live  BY OfRequest DEF RequestOK
  <2> QED BY <1>2, <2>1, <2>2, <2>3, OfRequest DEF RequestOK
<1>4. \A v \in Version : LockOK(v)'
  BY <1>1, <1>2, LockFrame DEF Working
<1>5. overdue' = {} /\ (raced = "no" => forgot' = {})
  BY <1>1 DEF ghosts, BoundedStaleness, AccountChangesRetire
<1> QED BY <1>1, <1>2, <1>3, <1>4, <1>5, OfRequest, EntryFrame, ReadFrame
        DEF CacheInd, CacheTypeOK

\* What is stored lacks no more than the request that stores it may.
LEMMA StoreHolds ==
  ASSUME CacheInd, BoundedStaleness, AccountChangesRetire, NEW r \in Request, Store(r)
  PROVE  CacheInd' /\ BoundedStaleness' /\ AccountChangesRetire'
<1> DEFINE k == req[r].key
<1>1. /\ UNCHANGED <<kind, counter, lock, database, overran>> /\ req[r].pc = "store"
      /\ entry' = [entry EXCEPT ![k] = [value |-> req[r].value, age |-> 0]]
  BY DEF Store
<1>2. /\ Computed(r) /\ \A c \in Live \ req[r].value : since[c] <= req[r].run
      /\ raced = "no" => req[r].must \subseteq req[r].value
      /\ Separate => k <= version /\ (k = version => retired \subseteq req[r].value)
  BY <1>1, OfRequest DEF RequestOK, Computed
<1>3. /\ entry' \in [Version -> Entry] /\ entry'[k].age = 0 /\ entry'[k].value = req[r].value
      /\ \A v \in Version \ {k} : entry'[v] = entry[v]
  BY <1>1, OfRequest DEF CacheInd, CacheTypeOK, Entry, Req
<1>4. \A v \in Version : entry'[v].age <= Gone
  BY <1>3, Numbers DEF CacheInd, CacheTypeOK
<1>5. (Versioned' <=> Versioned) /\ (Separate' <=> Separate) /\ Live' = Live
      /\ UNCHANGED <<retired, raced, since, version>> /\ version \in Nat
  BY <1>1, Numbers DEF Versioned, Separate, Live, counter, database, CacheInd, CacheTypeOK
<1>6. ASSUME NEW v \in Version PROVE EntryOK(v)'
  <2>1. CASE v # k
    <3>1. EntryOK(v) /\ entry'[v] = entry[v]  BY <1>3, <2>1 DEF CacheInd
    <3> QED BY <1>5, <3>1 DEF EntryOK
  <2>2. CASE v = k
    <3>1. \A c \in Live \ entry'[k].value : since[c] <= entry'[k].age + MaxRun
      BY <1>2, <1>3, OfRequest, Times
    <3>2. Separate => ~(k > version)  BY <1>2, <1>5, OfRequest, Numbers
    <3> QED BY <1>2, <1>3, <1>5, <2>2, <3>1, <3>2 DEF EntryOK
  <2> QED BY <2>1, <2>2
<1>7. CASE Locked /\ Proceed(r, "release") /\ UNCHANGED <<last, ghosts>>
  <2>1. /\ req' \in [Request -> Req] /\ \A s \in Request \ {r} : req'[s] = req[s]
        /\ req'[r].pc = "release" /\ req'[r].value = req[r].value /\ req'[r].key = k
        /\ req'[r].run = req[r].run /\ req'[r].held = req[r].held
        /\ req'[r].old = req[r].old /\ req'[r].must = req[r].must
    BY <1>7, OfRequest DEF Proceed, Req
  <2>2. Revalidates(r)' <=> Revalidates(r)
    BY <1>1, <2>1 DEF Revalidates
  <2>3. RequestOK(r)'
    BY <1>2, <1>5, <2>1, <2>2, OfRequest DEF RequestOK
  <2>4. \A v \in Version : LockOK(v)'
    BY <1>1, <2>1, LockFrame DEF Working
  <2>5. overdue' = {} /\ (raced = "no" => forgot' = {})
    BY <1>7 DEF ghosts, BoundedStaleness, AccountChangesRetire
  <2>6. /\ last' \in {"none", "value", "empty", "error"} /\ lock' \in [Version -> 0..LockTtl]
        /\ overran' \subseteq Version /\ req'[r].run <= MaxRun
    BY <1>1, <1>7, <2>1, OfRequest DEF CacheInd, CacheTypeOK
  <2> QED BY <1>1, <1>3, <1>4, <1>6, <2>1, <2>3, <2>4, <2>5, <2>6, ReadFrame
<1>8. CASE Answer(r, req[r].value)
  <2>1. \A c \in Live \ req[r].value : since[c] <= Bound
    BY <1>2, OfRequest, Numbers, Times
  <2>2. /\ req' \in [Request -> Req] /\ \A q \in Request \ {r} : req'[q] = req[q]
        /\ req'[r].run <= MaxRun /\ RequestOK(r)' /\ req'[r].pc = "idle"
        /\ last' = "value" /\ overdue' = {} /\ (raced = "no" => forgot' = {})
    BY <1>1, <1>2, <1>8, <2>1, AnswerOK
  <2>3. \A v \in Version : LockOK(v)'
    BY <1>1, <2>2, LockFrame DEF Working
  <2>4. lock' \in [Version -> 0..LockTtl] /\ overran' \subseteq Version
    BY <1>1 DEF CacheInd, CacheTypeOK
  <2> QED BY <1>1, <1>3, <1>4, <1>6, <2>2, <2>3, <2>4, ReadFrame
<1> QED BY <1>7, <1>8 DEF Store

\* The lock that is deleted is the worker's own, or of a version in overran.
LEMMA ReleaseHolds ==
  ASSUME CacheInd, BoundedStaleness, AccountChangesRetire, NEW r \in Request, Release(r)
  PROVE  CacheInd' /\ BoundedStaleness' /\ AccountChangesRetire'
<1> DEFINE k == req[r].key
           value == IF req[r].held = "stale" THEN req[r].old ELSE req[r].value
<1>1. /\ UNCHANGED <<kind, counter, entry, database, overran>> /\ req[r].pc = "release"
      /\ lock' = [lock EXCEPT ![k] = 0] /\ Answer(r, value)
  BY DEF Release
<1>2. \A c \in Live \ value : since[c] <= Bound
  <2>1. CASE req[r].held = "stale"
    BY <1>1, <2>1, OfRequest, Numbers, Times DEF RequestOK, Revalidates
  <2>2. CASE req[r].held # "stale"
    BY <1>1, <2>2, OfRequest, Numbers, Times DEF RequestOK, Computed
  <2> QED BY <2>1, <2>2
<1>3. raced = "no" => req[r].must \subseteq value
  BY <1>1, OfRequest DEF RequestOK, Revalidates, Computed
<1> HIDE DEF value
<1>4. /\ req' \in [Request -> Req] /\ \A q \in Request \ {r} : req'[q] = req[q]
      /\ req'[r].run <= MaxRun /\ RequestOK(r)' /\ req'[r].pc = "idle"
      /\ last' = "value" /\ overdue' = {} /\ (raced = "no" => forgot' = {})
  BY <1>1, <1>2, <1>3, AnswerOK
<1>5. ASSUME NEW v \in Version PROVE LockOK(v)'
  <2>1. LockOK(v) /\ (Locked' <=> Locked) /\ k \in Version
        /\ lock \in [Version -> 0..LockTtl]
    BY <1>1, OfRequest DEF CacheInd, CacheTypeOK, Locked
  <2>2. CASE v # k
    <3>1. Working(v)' = Working(v)  BY <1>1, <1>4, <2>2 DEF Working
    <3> QED BY <1>1, <2>1, <2>2, <3>1 DEF LockOK
  <2>3. CASE v = k
    <3>1. r \in Working(v)  BY <1>1, <2>3 DEF Working
    <3>2. Working(v)' = Working(v) \ {r}  BY <1>4 DEF Working
    <3> QED BY <1>1, <2>1, <3>1, <3>2 DEF LockOK
  <2> QED BY <2>2, <2>3
<1>6. lock' \in [Version -> 0..LockTtl] /\ overran' \subseteq Version
  BY <1>1, OfRequest, Times DEF CacheInd, CacheTypeOK
<1> QED BY <1>1, <1>4, <1>5, <1>6, EntryFrame, ReadFrame

LEMMA RecomputeFailsHolds ==
  ASSUME CacheInd, BoundedStaleness, AccountChangesRetire, NEW r \in Request,
         RecomputeFails(r)
  PROVE  CacheInd' /\ BoundedStaleness' /\ AccountChangesRetire'
<1>1. /\ UNCHANGED <<kind, counter, entry, lock, database, last, overran, ghosts>>
      /\ req[r].pc \in {"produce", "store"} /\ req[r].held = "stale"
  BY DEF RecomputeFails
<1>2. /\ req' \in [Request -> Req] /\ \A s \in Request \ {r} : req'[s] = req[s]
      /\ req'[r].pc = "release" /\ req'[r].value = req[r].value /\ req'[r].key = req[r].key
      /\ req'[r].run = req[r].run /\ req'[r].held = req[r].held
      /\ req'[r].old = req[r].old /\ req'[r].must = req[r].must
  BY OfRequest DEF RecomputeFails, Proceed, Req
<1>3. RequestOK(r)'
  <2>1. (Versioned' <=> Versioned) /\ (Separate' <=> Separate) /\ Live' = Live
        /\ UNCHANGED <<retired, raced, since, version>>
    BY <1>1 DEF Versioned, Separate, Live, counter, database
  <2>2. (Revalidates(r)' <=> Revalidates(r)) /\ ~Computed(r)'
    BY <1>1, <1>2 DEF Revalidates, Computed
  <2> QED BY <1>2, <2>1, <2>2, OfRequest DEF RequestOK
<1>4. \A v \in Version : LockOK(v)'
  BY <1>1, <1>2, LockFrame DEF Working
<1>5. overdue' = {} /\ (raced = "no" => forgot' = {})
  BY <1>1 DEF ghosts, BoundedStaleness, AccountChangesRetire
<1> QED BY <1>1, <1>2, <1>3, <1>4, <1>5, OfRequest, EntryFrame, ReadFrame
        DEF CacheInd, CacheTypeOK

LEMMA SettingUncachedHolds ==
  ASSUME CacheInd, BoundedStaleness, AccountChangesRetire, NEW r \in Request,
         SettingUncached(r)
  PROVE  CacheInd' /\ BoundedStaleness' /\ AccountChangesRetire'
<1>1. /\ UNCHANGED <<kind, counter, entry, lock, database, overran>> /\ kind = "setting"
  BY DEF SettingUncached
<1>2. CASE req[r].pc = "store" /\ Answer(r, req[r].value)
  <2>1. \A c \in Live \ req[r].value : since[c] <= Bound
    BY <1>2, OfRequest, Numbers, Times DEF RequestOK, Computed
  <2>2. raced = "no" => req[r].must \subseteq req[r].value
    BY <1>2, OfRequest DEF RequestOK, Computed
  <2> QED BY <1>1, <1>2, <2>1, <2>2, AnswerOK, EndHolds
<1>3. CASE UNCHANGED <<last, ghosts>> /\ req' = [req EXCEPT ![r] = Begun("produce")]
  <2>1. ~Locked  BY <1>1 DEF Locked
  <2> QED BY <1>1, <1>3, <2>1, GetNothingHolds
<1> QED BY <1>2, <1>3 DEF SettingUncached

LEMMA DieHolds ==
  ASSUME CacheInd, BoundedStaleness, AccountChangesRetire, NEW r \in Request, Die(r)
  PROVE  CacheInd' /\ BoundedStaleness' /\ AccountChangesRetire'
BY IdleOK, EndHolds DEF Die, ghosts, BoundedStaleness, AccountChangesRetire

-----------------------------------------------------------------------------
(* Every step. *)

LEMMA StutterHolds ==
  ASSUME CacheInd, BoundedStaleness, AccountChangesRetire, UNCHANGED vars
  PROVE  CacheInd' /\ BoundedStaleness' /\ AccountChangesRetire'
<1> USE DEF vars, counter, database, ghosts
<1>1. CacheTypeOK' /\ CounterBounded'
  BY DEF CacheInd, CacheTypeOK, CounterBounded, Spent, Live
<1>2. \A v \in Version : LockOK(v)' /\ EntryOK(v)'
  BY DEF CacheInd, LockOK, EntryOK, Working, Live, Locked, Separate, Versioned
<1>3. \A r \in Request : RequestOK(r)'
  BY DEF CacheInd, RequestOK, Computed, Revalidates, Live, Separate, Versioned
<1> QED BY <1>1, <1>2, <1>3 DEF CacheInd, BoundedStaleness, AccountChangesRetire

LEMMA StepHolds ==
  CacheInd /\ BoundedStaleness /\ AccountChangesRetire /\ [Next]_vars
    => CacheInd' /\ BoundedStaleness' /\ AccountChangesRetire'
<1> SUFFICES ASSUME CacheInd, BoundedStaleness, AccountChangesRetire, [Next]_vars
             PROVE  CacheInd' /\ BoundedStaleness' /\ AccountChangesRetire'
  OBVIOUS
<1>1. CASE UNCHANGED vars  BY <1>1, StutterHolds
<1>2. CASE Tick  BY <1>2, TickHolds
<1>3. ASSUME NEW c \in Change, Write(c)
      PROVE  CacheInd' /\ BoundedStaleness' /\ AccountChangesRetire'
  BY <1>3, SaveHolds, SeedHolds, CommitHolds, OnCommitHolds DEF Write
<1>4. ASSUME NEW r \in Request, Ask(r)
      PROVE  CacheInd' /\ BoundedStaleness' /\ AccountChangesRetire'
  BY <1>4, GetFreshHolds, GetStaleHolds, GetNothingHolds DEF Ask, GetNothing
<1>5. ASSUME NEW r \in Request, Serve(r)
      PROVE  CacheInd' /\ BoundedStaleness' /\ AccountChangesRetire'
  BY <1>5, WinHolds, LoseHolds, ProduceHolds, StoreHolds, ReleaseHolds DEF Serve
<1>6. ASSUME NEW r \in Request, RecomputeFails(r) \/ SettingUncached(r) \/ Die(r)
      PROVE  CacheInd' /\ BoundedStaleness' /\ AccountChangesRetire'
  BY <1>6, RecomputeFailsHolds, SettingUncachedHolds, DieHolds
<1> QED BY <1>1, <1>2, <1>3, <1>4, <1>5, <1>6 DEF Next

(* A key is computed by one request at a time while locks last as long as   *)
(* the work, and what is cached or held is as old as it seems.              *)
THEOREM CacheInvariance == Spec => []CacheInv
<1>1. Spec => []CacheInd  BY InitHolds, StepHolds, PTL DEF Spec
<1>2. CacheInd => CacheInv  BY AloneIsOne DEF CacheInv
<1> QED BY <1>1, <1>2, PTL

(* Whatever the lives of entries and locks are and whatever fails, no       *)
(* answer is older than an entry's life and the time of two requests.       *)
THEOREM BoundedStalenessHolds == Spec => []BoundedStaleness
<1> QED BY InitHolds, StepHolds, PTL DEF Spec

(* A request that begins after the bump of a change is answered with it,    *)
(* unless two first bumps have reset each other's counter.                  *)
THEOREM AccountChangesRetireHolds == Spec => []AccountChangesRetire
<1> QED BY InitHolds, StepHolds, PTL DEF Spec
=============================================================================
