----------------------- MODULE AdLifecycleProperties -----------------------
(***************************************************************************)
(* What AdLifecycle promises: the invariants and action properties TLC     *)
(* checks and AdLifecycleProofs proves, and the board it implements.       *)
(***************************************************************************)
EXTENDS AdLifecycle

(* Every committed row satisfies the table's CHECK constraints, so no      *)
(* interleaving of requests, sweeps and withdrawals ends in an             *)
(* IntegrityError; and no row carries the clock of a status it has left,   *)
(* so no sweep acts on the age of an earlier stay (models.py, Meta).       *)
RowsOK == \A a \in Ad : RowOK(row[a])

(* A seller never has more than MaxAds published ads, however many         *)
(* submissions, reactivations and approvals race: the count set_published  *)
(* makes under the owner's row lock is what its comment says, the          *)
(* race-safe guard of max_ads_per_user.                                    *)
QuotaKept == \A u \in User : Cardinality(Published(u)) <= MaxAds

(* Once a withdrawal has committed, nothing of that seller is public,      *)
(* waiting for review or archived, and no draft of theirs is on its way:   *)
(* the loop of soft_delete_user_ads misses no ad that a request past its   *)
(* gate could still publish.                                               *)
WithdrawnHidden ==
  \A a \in Ad : standing[Owner[a]] = "withdrawn"
                  => Status(a) \in NoRow \cup {"draft", "deleted"}

(* uq_ads_single_draft_per_user: two dialogs of one seller, or a dialog    *)
(* and a copy, never leave two drafts behind.                              *)
SingleDraft ==
  \A a, b \in Ad :
    (Status(a) = "draft" /\ Status(b) = "draft" /\ Owner[a] = Owner[b])
      => a = b

-----------------------------------------------------------------------------
(* A failed moderation, a rejection and a deletion are final: an ad that   *)
(* has failed can only be rejected, deleted or purged, a rejected one      *)
(* deleted or purged, a deleted one purged, and a purged key is not used   *)
(* again (ALLOWED_TRANSITIONS, and the ids a DELETE was given).            *)
NoWayBack(a) ==
  LET old == Status(a)
      new == row'[a].status
  IN /\ old = "on_moderation_failed" =>
          new \in {old, "rejected", "deleted", "erased"}
     /\ old = "rejected" => new \in {old, "deleted", "erased"}
     /\ old = "deleted" => new \in {old, "erased"}
     /\ old = "erased" => new = old

\* original_published_at is written once: no transition, sweep or withdrawal
\* clears it while the row exists (models.py: IMMUTABLE).
AnchorStays(a) ==
  "original_published_at" \in row[a].stamps /\ row'[a].status # "erased"
    => "original_published_at" \in row'[a].stamps

(* What has happened to an ad stays: a final status, and the first instant *)
(* it was public.                                                          *)
HistoryKept == [][\A a \in Ad : NoWayBack(a) /\ AnchorStays(a)]_vars

(* The board buyers see: PUBLISHED ads, and sellers who have withdrawn.    *)
Board == INSTANCE PublicBoard
  WITH board <- {a \in Ad : Status(a) = "published"},
       gone <- {u \in User : standing[u] = "withdrawn"},
       Quota <- MaxAds

(* The ads service implements the board: ads go public one by one within   *)
(* the quota, and a withdrawal hides all of a seller's ads in one step.    *)
ImplementsBoard == Board!BoardSpec

(* Whoever holds a lock has begun and not ended: no request, timeout or    *)
(* crash leaves a lock behind.                                             *)
LocksHaveHolders ==
  /\ \A a \in Ad : rowLock[a] # None => pc[rowLock[a]] # "idle"
  /\ \A u \in User : userLock[u] # None => pc[userLock[u]] # "idle"

\* What a request that has begun needs for its next step: the lock of a row.
MayGoOn(s) ==
  CASE pc[s] = "start" -> IF op[s] = "withdraw" THEN userLock[who[s]] = None
                                                ELSE rowLock[target[s]] = None
    [] pc[s] = "publish" -> userLock[who[s]] = None
    [] pc[s] = "commit" -> ~AwaitsOwner(s)
    [] pc[s] = "delete" -> picked[s] = {} \/ \E a \in picked[s] : rowLock[a] = None
    [] pc[s] = "reap" /\ op[s] # "create_draft" -> Unlocked(picked[s])
    [] pc[s] = "reap" /\ op[s] = "create_draft" ->
         \/ \A a \in AdsOf(who[s]) : Status(a) # "none"
         \/ userLock[who[s]] = None /\ Unlocked(Replaced(s))
    [] OTHER -> TRUE

\* What lock_timeout ends, with its statement.
MayTimeOut(s) == Waits(s) \/ (pc[s] = "publish" /\ userLock[who[s]] # None)

(* Nobody waits for ever, although a withdrawal locks the seller before    *)
(* the ads and every publication locks the ad before the seller: a request *)
(* that has begun can go on, or is in a wait that lock_timeout ends; and   *)
(* so can whoever holds a lock it waits for.                               *)
NobodyWaitsForEver ==
  /\ \A s \in Session : pc[s] # "idle" => MayGoOn(s) \/ MayTimeOut(s)
  /\ LocksHaveHolders

-----------------------------------------------------------------------------
(* Why the invariants hold: what each open transaction knows.              *)

Deciding == {"moderate", "publish", "count", "commit"}

\* A request that decides about an ad is about one that was inserted; from
\* the grant of the row lock on, its status is one the request accepts.
DecidesUnderLock(s) ==
  /\ pc[s] \in Deciding => op[s] \in VerdictOps
  /\ op[s] \in VerdictOps =>
       /\ pc[s] \in Deciding \cup {"start"}
       /\ target[s] \in Ad /\ who[s] = Owner[target[s]]
       /\ Status(target[s]) # "none"
  /\ pc[s] \in Deciding => /\ rowLock[target[s]] = s
                           /\ Status(target[s]) \in Accepts(op[s])

\* The owner's lock is held from the count to the commit of a publication,
\* so the room the count found is still there.
RoomIsReserved(s) ==
  /\ pc[s] = "count" => userLock[who[s]] = s
  /\ pc[s] = "commit" /\ verdict[s] = "pass" =>
       /\ userLock[who[s]] = s
       /\ Cardinality(Published(who[s]) \ {target[s]}) < MaxAds

\* A withdrawal misses no ad: each is deleted, gone, locked or still to come.
MissesNoAd(s) ==
  /\ pc[s] = "start" => op[s] \in VerdictOps \cup {"withdraw"}
  /\ pc[s] \in {"list", "delete"} => op[s] = "withdraw"
  /\ op[s] = "withdraw" => who[s] \in User
  /\ pc[s] \in {"list", "delete"} => userLock[who[s]] = s
  /\ pc[s] = "delete" =>
       \A a \in AdsOf(who[s]) :
          Status(a) \in NoRow \cup {"deleted"} \/ a \in picked[s] \cup done[s]
  /\ pc[s] = "delete" => picked[s] \subseteq AdsOf(who[s])

\* What a withdrawal has written it keeps locked until it commits.
KeepsWhatItWrote(s) ==
  \A a \in done[s] : /\ pc[s] = "delete" /\ Owner[a] = who[s]
                     /\ rowLock[a] = s /\ MayTransition(row[a], "deleted")

\* A draft inserted after the withdrawal of its owner: no gate lets it by.
DraftStuck(s) ==
  op[s] = "submit"
    => ~(Status(target[s]) = "draft"
           /\ standing[Owner[target[s]]] = "withdrawn")

SessionInv(s) ==
  /\ DecidesUnderLock(s) /\ RoomIsReserved(s) /\ MissesNoAd(s)
  /\ KeepsWhatItWrote(s) /\ DraftStuck(s)

(* The inductive invariant: the committed table is as promised, and every  *)
(* open transaction knows enough to keep it so.                            *)
IInv ==
  /\ TypeOK /\ RowsOK /\ QuotaKept /\ WithdrawnHidden /\ SingleDraft
  /\ LocksHaveHolders
  /\ \A s \in Session : SessionInv(s)
=============================================================================
