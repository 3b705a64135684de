---------------------------- MODULE AdLifecycle ----------------------------
(***************************************************************************)
(* The life of ads while requests, moderators, sweeps and consent          *)
(* withdrawals run as concurrent PostgreSQL transactions (READ COMMITTED). *)
(*                                                                         *)
(* `row' is the committed ads table.  A session is one open transaction of *)
(* the web process, the bot or the scheduler.  It waits for row locks      *)
(* (SELECT ... FOR UPDATE, or the lock an UPDATE takes), keeps them until  *)
(* it ends, and what it writes becomes visible when it commits: a session  *)
(* that holds the lock of an ad keeps its uncommitted outcome in           *)
(* `verdict', and Commit applies it.  Reads that take no lock (the account *)
(* gate, the candidates of a sweep, the ads of a withdrawal) see the       *)
(* committed table at that step and may be stale when they are used.       *)
(***************************************************************************)
EXTENDS AdRow, Naturals, FiniteSets

CONSTANTS
  User,      \* sellers
  Ad,        \* primary keys of the ads table, used or not yet
  Owner,     \* Ad.user_id: the seller each key belongs to once inserted
  Session,   \* concurrent transactions
  MaxAds,    \* ModerationCriteria.max_ads_per_user
  None       \* no session, ad or seller

ASSUME OwnerAssumption == Owner \in [Ad -> User]
ASSUME AdsAreFinite == IsFiniteSet(Ad)
ASSUME MaxAdsAssumption == MaxAds \in Nat \ {0}
ASSUME NoneAssumption == None \notin Ad \cup User \cup Session

VARIABLES
  row,       \* [Ad -> Row], committed
  overdue,   \* [Ad -> BOOLEAN], the ad outstayed the retention of its status
  standing,  \* [User -> Standing], what the account gate reads
  rowLock,   \* [Ad -> Session or None], row locks on ads
  userLock,  \* [User -> Session or None], row locks on users
  op,        \* [Session -> Op], what the session is doing
  pc,        \* [Session -> Step], where it is
  target,    \* [Session -> Ad or None], the ad it decides about
  who,       \* [Session -> User or None], the seller it decides about
  verdict,   \* [Session -> Verdict], the outcome it will commit
  picked,    \* [Session -> SUBSET Ad], ads it read and has still to write
  done       \* [Session -> SUBSET Ad], ads it has written but not committed

ads == <<row, overdue>>
locks == <<rowLock, userLock>>
session == <<op, pc, target, who, verdict, picked, done>>
vars == <<row, overdue, standing, rowLock, userLock, op, pc, target, who,
          verdict, picked, done>>

-----------------------------------------------------------------------------

\* can_create_ad passes only in standing "good"; "barred" (banned,
\* deactivated, declined or not consented) can be lifted, "withdrawn" cannot.
Standing == {"good", "barred", "withdrawn"}

\* Commands that hard-delete by status and age, with the status they select.
SweptStatus ==
  [delete_sweep        |-> "archived",
   purge_deleted_ads   |-> "deleted",
   purge_failed_ads    |-> "on_moderation_failed",
   purge_rejected_ads  |-> "rejected",
   sweep_drafts        |-> "draft"]

\* Requests that end in a moderation verdict on one ad.
VerdictOps == {"submit", "reactivate", "approve", "admin_publish"}

Op == VerdictOps \cup DOMAIN SweptStatus
        \cup {"idle", "withdraw", "create_draft", "delete_draft"}

Step == {"idle", "start", "moderate", "publish", "count", "commit",
         "list", "delete", "reap"}

\* "pass" publishes; "content" and "quota" fail the ad; "fault" is an error
\* of the database while publishing; "refused" leaves the ad as it was.
Verdict == {"none", "pass", "content", "quota", "fault", "refused"}

TypeOK ==
  /\ row \in [Ad -> Row]
  /\ overdue \in [Ad -> BOOLEAN]
  /\ standing \in [User -> Standing]
  /\ rowLock \in [Ad -> Session \cup {None}]
  /\ userLock \in [User -> Session \cup {None}]
  /\ op \in [Session -> Op]
  /\ pc \in [Session -> Step]
  /\ target \in [Session -> Ad \cup {None}]
  /\ who \in [Session -> User \cup {None}]
  /\ verdict \in [Session -> Verdict]
  /\ picked \in [Session -> SUBSET Ad]
  /\ done \in [Session -> SUBSET Ad]

Init ==
  /\ row = [a \in Ad |-> Blank("none")]
  /\ overdue = [a \in Ad |-> FALSE]
  /\ standing = [u \in User |-> "good"]
  /\ rowLock = [a \in Ad |-> None]
  /\ userLock = [u \in User |-> None]
  /\ op = [s \in Session |-> "idle"]
  /\ pc = [s \in Session |-> "idle"]
  /\ target = [s \in Session |-> None]
  /\ who = [s \in Session |-> None]
  /\ verdict = [s \in Session |-> "none"]
  /\ picked = [s \in Session |-> {}]
  /\ done = [s \in Session |-> {}]

-----------------------------------------------------------------------------
(* Helpers *)

Status(a) == row[a].status
AdsOf(u) == {a \in Ad : Owner[a] = u}
Published(u) == {a \in AdsOf(u) : Status(a) = "published"}

\* What the publish cap counts: PUBLISHED and ON_MODERATION ads of the owner
\* of a, as committed, without a itself.
ActiveBesides(a) ==
  {b \in AdsOf(Owner[a]) \ {a} : Status(b) \in {"published", "on_moderation"}}

\* A new transaction of session s.
Begin(s, o, p, a, u, S) ==
  /\ pc[s] = "idle"
  /\ op' = [op EXCEPT ![s] = o]
  /\ pc' = [pc EXCEPT ![s] = p]
  /\ target' = [target EXCEPT ![s] = a]
  /\ who' = [who EXCEPT ![s] = u]
  /\ picked' = [picked EXCEPT ![s] = S]
  /\ UNCHANGED <<verdict, done>>

Goto(s, p) == pc' = [pc EXCEPT ![s] = p]

\* The end of a transaction, committed or not: its locks are released.
End(s) ==
  /\ op' = [op EXCEPT ![s] = "idle"]
  /\ pc' = [pc EXCEPT ![s] = "idle"]
  /\ target' = [target EXCEPT ![s] = None]
  /\ who' = [who EXCEPT ![s] = None]
  /\ verdict' = [verdict EXCEPT ![s] = "none"]
  /\ picked' = [picked EXCEPT ![s] = {}]
  /\ done' = [done EXCEPT ![s] = {}]
  /\ rowLock' = [a \in Ad |-> IF rowLock[a] = s THEN None ELSE rowLock[a]]
  /\ userLock' = [u \in User |-> IF userLock[u] = s THEN None ELSE userLock[u]]

-----------------------------------------------------------------------------
(* Submitting, reactivating and approving an ad *)

\* submit_ad and the reactivate view read the account before the ad's row is
\* locked; the ad was on the screen, so its key has been inserted.
PassGate(s, a) ==
  /\ Status(a) # "none"
  /\ standing[Owner[a]] = "good"
  /\ \E o \in {"submit", "reactivate"} :
        Begin(s, o, "start", a, Owner[a], {})
  /\ UNCHANGED <<ads, standing, locks>>

\* A moderator acts on an ad: no gate on its owner.
OpenReview(s, a) ==
  /\ Status(a) # "none"
  /\ \E o \in {"approve", "admin_publish"} :
        Begin(s, o, "start", a, Owner[a], {})
  /\ UNCHANGED <<ads, standing, locks>>

\* The statuses from which each request goes on; from the others it returns
\* without moving the ad (DRAFT_GONE, INVALID_TRANSITION, a silent no-op,
\* a 404 from the review queue, a refused change form).
Accepts(o) ==
  CASE o = "submit" -> {"draft", "published", "archived"}
    [] o = "reactivate" -> {"archived"}
    [] o = "approve" -> {"on_moderation", "on_moderation_failed"}
    [] OTHER -> {"on_moderation", "archived"}

\* The row lock is granted and the status, re-read under it, is one the
\* request goes on from.  The change form runs no content checks.
LockAd(s) ==
  LET a == target[s] IN
  /\ pc[s] = "start" /\ op[s] \in VerdictOps
  /\ rowLock[a] = None
  /\ Status(a) \in Accepts(op[s])
  /\ rowLock' = [rowLock EXCEPT ![a] = s]
  /\ Goto(s, IF op[s] = "admin_publish" THEN "publish" ELSE "moderate")
  /\ UNCHANGED <<ads, standing, userLock, op, target, who, verdict, picked,
                 done>>

\* The row lock is granted but the ad has moved on: nothing is written.
Refuse(s) ==
  /\ pc[s] = "start" /\ op[s] \in VerdictOps
  /\ rowLock[target[s]] = None
  /\ Status(target[s]) \notin Accepts(op[s])
  /\ End(s)
  /\ UNCHANGED <<ads, standing>>

Decide(s, v) ==
  /\ verdict' = [verdict EXCEPT ![s] = v]
  /\ Goto(s, "commit")

\* auto_moderate's checks on the content, and its first look at the cap.
Moderate(s) ==
  /\ pc[s] = "moderate"
  /\ \/ Decide(s, "content")
     \/ /\ Cardinality(ActiveBesides(target[s])) >= MaxAds
        /\ Decide(s, "quota")
     \/ /\ Cardinality(ActiveBesides(target[s])) < MaxAds
        /\ Goto(s, "publish")
        /\ UNCHANGED verdict
  /\ UNCHANGED <<ads, standing, locks, op, target, who, picked, done>>

\* Mutant: the owner's row is read without FOR UPDATE.
ReadOwner(s) ==
  /\ pc[s] = "publish"
  /\ userLock[who[s]] = None
  /\ Goto(s, "count")
  /\ UNCHANGED <<ads, standing, locks, op, target, who, verdict, picked, done>>

\* set_published takes the owner's row lock.
LockOwner(s) ==
  /\ pc[s] = "publish"
  /\ userLock[who[s]] = None
  /\ userLock' = [userLock EXCEPT ![who[s]] = s]
  /\ Goto(s, "count")
  /\ UNCHANGED <<ads, standing, rowLock, op, target, who, verdict, picked,
                 done>>

\* The count that decides, under the owner's lock.  MaxAdsExceeded rolls the
\* savepoint back, which gives the owner's lock up again.
Recount(s) ==
  LET full == Cardinality(ActiveBesides(target[s])) >= MaxAds
      v    == IF ~full THEN "pass"
              ELSE IF op[s] = "admin_publish" THEN "refused" ELSE "quota"
  IN /\ pc[s] = "count"
     /\ Decide(s, v)
     /\ userLock' = IF full THEN [userLock EXCEPT ![who[s]] = None]
                            ELSE userLock
     /\ UNCHANGED <<ads, standing, rowLock, op, target, who, picked, done>>

\* The row the verdict is applied to: submit_ad and reactivate_ad have moved
\* their ad to ON_MODERATION earlier in the same transaction.
UnderReview(o, r) ==
  IF o \in {"submit", "reactivate"} THEN TransitionTo(r, "on_moderation") ELSE r

Goal(v) == IF v = "pass" THEN "published" ELSE "on_moderation_failed"

\* auto_moderate fails the ad on any error met while publishing; what the
\* matrix refuses (every verdict on an ad that had failed) changes nothing.
Moves(o, v, r) == v # "refused" /\ MayTransition(UnderReview(o, r), Goal(v))

\* The log and analytics rows of a verdict refer to the seller, and their
\* deferred foreign keys wait for the seller's row when the session commits.
AwaitsOwner(s) ==
  /\ pc[s] = "commit" /\ Moves(op[s], verdict[s], row[target[s]])
  /\ userLock[who[s]] \notin {None, s}

Commit(s) ==
  LET a == target[s]
      moves == Moves(op[s], verdict[s], row[a])
  IN /\ pc[s] = "commit" /\ op[s] \in VerdictOps
     /\ ~AwaitsOwner(s)
     /\ row' = [row EXCEPT ![a] =
                  IF moves
                  THEN TransitionTo(UnderReview(op[s], @), Goal(verdict[s]))
                  ELSE @]
     /\ overdue' = [overdue EXCEPT ![a] = @ /\ ~moves]
     /\ End(s)
     /\ UNCHANGED standing

-----------------------------------------------------------------------------
(* Withdrawing consent *)

\* The instance the request holds says the account is not deleted yet.
BeginWithdraw(s, u) ==
  /\ standing[u] # "withdrawn"
  /\ Begin(s, "withdraw", "start", None, u, {})
  /\ UNCHANGED <<ads, standing, locks>>

\* Mutant: the profile is erased in a transaction of its own.
EraseProfileAtOnce(s) ==
  /\ pc[s] = "start" /\ op[s] = "withdraw"
  /\ userLock[who[s]] = None
  /\ userLock' = [userLock EXCEPT ![who[s]] = s]
  /\ standing' = [standing EXCEPT ![who[s]] = "withdrawn"]
  /\ Goto(s, "list")
  /\ UNCHANGED <<ads, rowLock, op, target, who, verdict, picked, done>>

\* user.save() changes telegram_id, a unique key, so the owner's row is locked
\* FOR UPDATE until the end of the transaction.
EraseProfile(s) ==
  /\ pc[s] = "start" /\ op[s] = "withdraw"
  /\ userLock[who[s]] = None
  /\ userLock' = [userLock EXCEPT ![who[s]] = s]
  /\ Goto(s, "list")
  /\ UNCHANGED <<ads, standing, rowLock, op, target, who, verdict, picked,
                 done>>

\* Mutant: only the ads somebody else can see are listed.
ListVisibleAds(s) ==
  /\ pc[s] = "list"
  /\ picked' = [picked EXCEPT ![s] =
                  {a \in AdsOf(who[s]) : Status(a) \notin NoRow \cup {"draft"}}]
  /\ Goto(s, "delete")
  /\ UNCHANGED <<ads, standing, locks, op, target, who, verdict, done>>

\* soft_delete_user_ads reads the seller's ads, without locking them.
ListAds(s) ==
  /\ pc[s] = "list"
  /\ picked' = [picked EXCEPT ![s] =
                  {a \in AdsOf(who[s]) : Status(a) \notin NoRow}]
  /\ Goto(s, "delete")
  /\ UNCHANGED <<ads, standing, locks, op, target, who, verdict, done>>

\* One ad of the loop: transition_to(DELETED) waits for its row; an ad that
\* is DELETED or gone by then is skipped.  (It re-reads without a lock before
\* it writes: an ad purged in between raises and the withdrawal rolls back,
\* which Crash covers; one DELETED in between is only stamped again.)
DeleteNext(s, a) ==
  /\ pc[s] = "delete" /\ a \in picked[s]
  /\ rowLock[a] = None
  /\ picked' = [picked EXCEPT ![s] = @ \ {a}]
  /\ IF MayTransition(row[a], "deleted")
     THEN /\ done' = [done EXCEPT ![s] = @ \cup {a}]
          /\ rowLock' = [rowLock EXCEPT ![a] = s]
     ELSE UNCHANGED <<done, rowLock>>
  /\ UNCHANGED <<ads, standing, userLock, op, pc, target, who, verdict>>

CommitWithdrawal(s) ==
  /\ pc[s] = "delete" /\ picked[s] = {}
  /\ row' = [a \in Ad |-> IF a \in done[s] THEN TransitionTo(row[a], "deleted")
                                           ELSE row[a]]
  /\ overdue' = [a \in Ad |-> overdue[a] /\ a \notin done[s]]
  /\ standing' = [standing EXCEPT ![who[s]] = "withdrawn"]
  /\ End(s)

-----------------------------------------------------------------------------
(* Hard deletion.  QuerySet.delete() and Model.delete() first read the rows *)
(* they will delete, then DELETE ... WHERE id IN (those ids): the status    *)
(* and the age that selected a row are not part of the second statement.    *)

\* A retention command selects; its advisory lock excludes a second run.
SelectOverdue(s, cmd) ==
  LET S == {a \in Ad : Status(a) = SweptStatus[cmd] /\ overdue[a]} IN
  /\ \A t \in Session : op[t] # cmd
  /\ S # {}
  /\ Begin(s, cmd, "reap", None, None, S)
  /\ UNCHANGED <<ads, standing, locks>>

\* create_draft_ad and copy_ad select the draft the new one replaces; so does
\* delete_draft, when the seller cancels the dialog.
SelectDraft(s, u) ==
  LET S == {a \in AdsOf(u) : Status(a) = "draft"} IN
  /\ standing[u] # "withdrawn"
  /\ \/ Begin(s, "create_draft", "reap", None, u, S)
     \/ S # {} /\ Begin(s, "delete_draft", "reap", None, u, S)
  /\ UNCHANGED <<ads, standing, locks>>

Unlocked(S) == \A a \in S : rowLock[a] = None

Erase(S, r) == [a \in Ad |-> IF a \in S THEN Blank("erased") ELSE r[a]]

\* DELETE ... WHERE id IN (picked), once no row of them is locked.
Reap(s) ==
  /\ pc[s] = "reap" /\ op[s] # "create_draft"
  /\ Unlocked(picked[s])
  /\ row' = Erase(picked[s], row)
  /\ overdue' = [a \in Ad |-> overdue[a] /\ a \notin picked[s]]
  /\ End(s)
  /\ UNCHANGED standing

\* The drafts a new one of this session replaces.
Replaced(s) == picked[s] \cup {a \in AdsOf(who[s]) : Status(a) = "draft"}

\* The same, then the insert of the new draft.  A draft another session has
\* inserted meanwhile trips uq_ads_single_draft_per_user and is deleted too.
\* The foreign key waits for the owner's row lock.
CreateDraft(s, new) ==
  LET S == Replaced(s) IN
  /\ pc[s] = "reap" /\ op[s] = "create_draft"
  /\ Status(new) = "none" /\ Owner[new] = who[s]
  /\ userLock[who[s]] = None
  /\ Unlocked(S)
  /\ row' = [Erase(S, row) EXCEPT ![new] = NewDraft]
  /\ overdue' = [a \in Ad |-> overdue[a] /\ a \notin S]
  /\ End(s)
  /\ UNCHANGED standing

\* Bound: the keys of the instance are used up.
OutOfKeys(s) ==
  /\ pc[s] = "reap" /\ op[s] = "create_draft"
  /\ \A a \in AdsOf(who[s]) : Status(a) # "none"
  /\ End(s)
  /\ UNCHANGED <<ads, standing>>

-----------------------------------------------------------------------------
(* Transactions of one ad short enough to be one step *)

\* A locked or waiting write of one transition, or of none.
ShortTransition(a, from, to) ==
  /\ rowLock[a] = None
  /\ Status(a) \in from
  /\ row' = [row EXCEPT ![a] = TransitionTo(@, to)]
  /\ overdue' = [overdue EXCEPT ![a] = FALSE]
  /\ UNCHANGED <<standing, locks, session>>

\* One row of an archive_sweep batch, selected under its lock.
ArchiveSweep(a) == overdue[a] /\ ShortTransition(a, {"published"}, "archived")

\* The view's gate is read before the row is locked; an archive after a bar
\* has committed reaches the state of one before it.
ArchiveByOwner(a) ==
  /\ standing[Owner[a]] = "good"
  /\ ShortTransition(a, {"published"}, "archived")

\* By the owner (delete_ad) or by a moderator (soft_delete_ad).
SoftDelete(a) == ShortTransition(a, AdStatus \ {"deleted"}, "deleted")

Reject(a) ==
  ShortTransition(a, {"on_moderation", "on_moderation_failed"}, "rejected")

\* The change form sends an ad back to the review queue, without the owner's
\* lock and without a count.
SendToReview(a) ==
  ShortTransition(a, {"published", "archived"}, "on_moderation")

\* An edit of the price alone restarts the clock of a published ad.
RestartClock(a) ==
  /\ rowLock[a] = None /\ Status(a) = "published"
  /\ overdue' = [overdue EXCEPT ![a] = FALSE]
  /\ UNCHANGED <<row, standing, locks, session>>

\* The heartbeat of the dialog restarts that of a draft; so does a direct edit.
TouchDraft(a) ==
  /\ rowLock[a] = None /\ Status(a) = "draft"
  /\ overdue' = [overdue EXCEPT ![a] = FALSE]
  /\ UNCHANGED <<row, standing, locks, session>>

-----------------------------------------------------------------------------
(* The environment *)

\* Time passes: the retention of the ad's status runs out.
Outstay(a) ==
  /\ Status(a) \notin NoRow \cup {"on_moderation"}
  /\ ~overdue[a]
  /\ overdue' = [overdue EXCEPT ![a] = TRUE]
  /\ UNCHANGED <<row, standing, locks, session>>

\* A ban, a deactivation or a declined consent, and its reversal: UPDATEs of
\* the user row, which wait for its lock.
Bar(u) ==
  /\ userLock[u] = None
  /\ \/ standing[u] = "good" /\ standing' = [standing EXCEPT ![u] = "barred"]
     \/ standing[u] = "barred" /\ standing' = [standing EXCEPT ![u] = "good"]
  /\ UNCHANGED <<ads, locks, session>>

\* Mutant: connections without lock_timeout.
WaitsForEver(s) == FALSE

\* The rows and the owner a session is waiting for.
Waits(s) ==
  \/ pc[s] = "start" /\ op[s] \in VerdictOps /\ rowLock[target[s]] # None
  \/ AwaitsOwner(s)
  \/ pc[s] = "start" /\ op[s] = "withdraw" /\ userLock[who[s]] # None
  \/ pc[s] = "delete" /\ \E a \in picked[s] : rowLock[a] # None
  \/ pc[s] = "reap" /\ ~Unlocked(picked[s])
  \/ /\ pc[s] = "reap" /\ op[s] = "create_draft"
     /\ userLock[who[s]] # None \/ ~Unlocked(Replaced(s))

\* lock_timeout or the deadlock detector cancels a wait.  The error reaches
\* the request handler and the transaction rolls back ...
LockTimeout(s) ==
  /\ Waits(s)
  /\ End(s)
  /\ UNCHANGED <<ads, standing>>

\* ... except inside set_published when auto_moderate called it: there the
\* savepoint rolls back and auto_moderate's `except Exception' goes on.
LockTimeoutInPublish(s) ==
  /\ pc[s] = "publish" /\ userLock[who[s]] # None
  /\ IF op[s] = "admin_publish"
     THEN End(s)
     ELSE /\ Decide(s, "fault")
          /\ UNCHANGED <<locks, op, target, who, picked, done>>
  /\ UNCHANGED <<ads, standing>>

\* The process dies or an exception escapes: PostgreSQL rolls back.
Crash(s) ==
  /\ pc[s] # "idle"
  /\ End(s)
  /\ UNCHANGED <<ads, standing>>

-----------------------------------------------------------------------------

\* What a session that has begun does next.
Advance(s) ==
  \/ LockAd(s) \/ Refuse(s) \/ Moderate(s) \/ LockOwner(s) \/ Recount(s)
  \/ Commit(s)
  \/ EraseProfile(s) \/ ListAds(s) \/ CommitWithdrawal(s)
  \/ \E a \in Ad : DeleteNext(s, a)
  \/ Reap(s)
  \/ \E a \in Ad : CreateDraft(s, a)
  \/ OutOfKeys(s)

TimeOut(s) == LockTimeout(s) \/ LockTimeoutInPublish(s)

Open(s) ==
  \/ \E a \in Ad : PassGate(s, a) \/ OpenReview(s, a)
  \/ \E u \in User : BeginWithdraw(s, u) \/ SelectDraft(s, u)
  \/ \E cmd \in DOMAIN SweptStatus : SelectOverdue(s, cmd)

Next ==
  \/ \E s \in Session : Open(s) \/ Advance(s) \/ TimeOut(s) \/ Crash(s)
  \/ \E a \in Ad : \/ ArchiveSweep(a) \/ ArchiveByOwner(a) \/ SoftDelete(a)
                   \/ Reject(a) \/ SendToReview(a) \/ RestartClock(a)
                   \/ TouchDraft(a) \/ Outstay(a)
  \/ \E u \in User : Bar(u)

Spec == Init /\ [][Next]_vars
=============================================================================
