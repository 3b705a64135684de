------------------------- MODULE AdLifecycleProofs -------------------------
(***************************************************************************)
(* Theorems about AdLifecycle, for every set of sellers, ads and sessions  *)
(* and every quota.                                                        *)
(***************************************************************************)
EXTENDS AdLifecycleProperties, FiniteSetTheorems, TLAPS

(***************************************************************************)
(* Rows                                                                    *)
(***************************************************************************)

(* transition_to returns a row of the table.                               *)
LEMMA TransitionType ==
  ASSUME NEW r \in Row, NEW t \in AdStatus \ {"draft"}
  PROVE  TransitionTo(r, t) \in Row
BY DEF TransitionTo, Stamped, Cleared, Row, Stamp, AdStatus, NoRow

(* transition_to sets the status it is asked for, except that it leaves    *)
(* drafts alone: no ad goes back to DRAFT.                                 *)
LEMMA TransitionStatus ==
  ASSUME NEW r \in Row, NEW t \in AdStatus \ {"draft"}
  PROVE  TransitionTo(r, t).status = t
BY DEF TransitionTo, Stamped, Cleared, Row, Stamp, AdStatus, NoRow

(* A transition the matrix allows keeps the row within the CHECK           *)
(* constraints and leaves no clock of an earlier status behind.            *)
LEMMA TransitionKeepsRowOK ==
  ASSUME NEW r \in Row, NEW t \in AdStatus \ {"draft"},
         MayTransition(r, t), RowOK(r)
  PROVE  RowOK(TransitionTo(r, t))
<1>. DEFINE n == TransitionTo(r, t)
<1>1. n.status = t /\ n.stamps = (r.stamps \ Cleared[t]) \cup Stamped[t]
  BY DEF TransitionTo
<1>2. r.status \in AdStatus \ {"deleted"}
      /\ (t = "deleted" \/ t \in ALLOWED_TRANSITIONS[r.status])
  BY DEF MayTransition
<1>3. CASE t = "deleted"
  <2>1. n.stamps = r.stamps \cup {"deleted_at"}
    BY <1>1, <1>3 DEF Cleared, Stamped
  <2>. QED
    BY <1>1, <1>3, <2>1 DEF RowOK, CheckConstraints, NoLeftoverClock, NoRow
<1>4. CASE t # "deleted"
  BY <1>1, <1>2, <1>4 DEF RowOK, CheckConstraints, NoLeftoverClock, NoRow, Cleared, Stamped, ALLOWED_TRANSITIONS, AdStatus
<1>. QED
  BY <1>3, <1>4
-----------------------------------------------------------------------------
(***************************************************************************)
(* Types                                                                   *)
(***************************************************************************)

(* The end of a transaction keeps the types of the session's variables.    *)
LEMMA EndType ==
  ASSUME TypeOK, NEW s \in Session, End(s)
  PROVE  /\ rowLock' \in [Ad -> Session \cup {None}]
         /\ userLock' \in [User -> Session \cup {None}]
         /\ op' \in [Session -> Op] /\ pc' \in [Session -> Step]
         /\ target' \in [Session -> Ad \cup {None}]
         /\ who' \in [Session -> User \cup {None}]
         /\ verdict' \in [Session -> Verdict]
         /\ picked' \in [Session -> SUBSET Ad]
         /\ done' \in [Session -> SUBSET Ad]
BY DEF TypeOK, End, Op, Step, Verdict

(* So does its beginning.                                                  *)
LEMMA BeginType ==
  ASSUME TypeOK, NEW s \in Session, NEW o \in Op, NEW p \in Step,
         NEW a \in Ad \cup {None}, NEW u \in User \cup {None},
         NEW S \in SUBSET Ad, Begin(s, o, p, a, u, S),
         UNCHANGED <<ads, standing, locks>>
  PROVE  TypeOK'
BY DEF TypeOK, Begin, ads, locks

(* transition_to changes one row of the table to a row of the table.       *)
LEMMA ShortType ==
  ASSUME TypeOK, NEW a \in Ad, NEW from,
         NEW to \in AdStatus \ {"draft"}, ShortTransition(a, from, to)
  PROVE  TypeOK'
<1>1. TransitionTo(row[a], to) \in Row
  BY TransitionType DEF TypeOK
<1>. QED
  BY <1>1 DEF TypeOK, ShortTransition, locks, session

(* Every step keeps the types.                                             *)
LEMMA StepType ==
  ASSUME TypeOK, [Next]_vars
  PROVE  TypeOK'
<1>. USE OwnerAssumption
<1>1. ASSUME NEW s \in Session, NEW a \in Ad, PassGate(s, a)
      PROVE  TypeOK'
  <2>1. PICK o \in {"submit", "reactivate"} :
          Begin(s, o, "start", a, Owner[a], {})
    BY <1>1 DEF PassGate
  <2>. QED
    BY <1>1, <2>1, BeginType DEF PassGate, Op, VerdictOps, Step
<1>2. ASSUME NEW s \in Session, NEW a \in Ad, OpenReview(s, a)
      PROVE  TypeOK'
  <2>1. PICK o \in {"approve", "admin_publish"} :
          Begin(s, o, "start", a, Owner[a], {})
    BY <1>2 DEF OpenReview
  <2>. QED
    BY <1>2, <2>1, BeginType DEF OpenReview, Op, VerdictOps, Step
<1>3. ASSUME NEW s \in Session, NEW u \in User, BeginWithdraw(s, u)
      PROVE  TypeOK'
  <2>1. Begin(s, "withdraw", "start", None, u, {})
        /\ UNCHANGED <<ads, standing, locks>>
    BY <1>3 DEF BeginWithdraw
  <2>2. "withdraw" \in Op /\ "start" \in Step /\ {} \in SUBSET Ad
    BY DEF Op, Step
  <2>. QED
    BY <2>1, <2>2, BeginType
<1>4. ASSUME NEW s \in Session, NEW u \in User, SelectDraft(s, u)
      PROVE  TypeOK'
  <2>1. PICK o \in {"create_draft", "delete_draft"} :
          Begin(s, o, "reap", None, u, {a \in AdsOf(u) : Status(a) = "draft"})
    BY <1>4 DEF SelectDraft
  <2>2. {a \in AdsOf(u) : Status(a) = "draft"} \in SUBSET Ad
    BY DEF AdsOf
  <2>. QED
    BY <1>4, <2>1, <2>2, BeginType DEF SelectDraft, Op, Step
<1>5. ASSUME NEW s \in Session, NEW cmd \in DOMAIN SweptStatus,
             SelectOverdue(s, cmd)
      PROVE  TypeOK'
  <2>. DEFINE S == {a \in Ad : Status(a) = SweptStatus[cmd] /\ overdue[a]}
  <2>1. cmd \in Op /\ S \in SUBSET Ad
    BY DEF Op
  <2>. QED
    BY <1>5, <2>1, BeginType DEF SelectOverdue, Step
<1>6. ASSUME NEW s \in Session, LockAd(s)
      PROVE  TypeOK'
  <2>1. rowLock' \in [Ad -> Session \cup {None}]
    BY <1>6 DEF LockAd, TypeOK
  <2>2. pc' \in [Session -> Step]
    BY <1>6 DEF LockAd, Goto, TypeOK, Step
  <2>. QED
    BY <1>6, <2>1, <2>2 DEF LockAd, TypeOK, ads
<1>7. ASSUME NEW s \in Session, Moderate(s)
      PROVE  TypeOK'
  <2>1. verdict' \in [Session -> Verdict] /\ pc' \in [Session -> Step]
    BY <1>7 DEF Moderate, Decide, Goto, TypeOK, Step, Verdict
  <2>. QED
    BY <1>7, <2>1 DEF Moderate, TypeOK, ads, locks
<1>8. ASSUME NEW s \in Session, LockOwner(s)
      PROVE  TypeOK'
  BY <1>8 DEF LockOwner, Goto, TypeOK, ads, Step
<1>9. ASSUME NEW s \in Session, Recount(s)
      PROVE  TypeOK'
  <2>1. PICK v \in {"pass", "refused", "quota"} : Decide(s, v)
    BY <1>9 DEF Recount
  <2>2. verdict' \in [Session -> Verdict] /\ pc' \in [Session -> Step]
    BY <2>1 DEF Decide, Goto, TypeOK, Step, Verdict
  <2>3. userLock' \in [User -> Session \cup {None}]
    BY <1>9 DEF Recount, TypeOK
  <2>. QED
    BY <1>9, <2>2, <2>3 DEF Recount, TypeOK, ads
<1>10. ASSUME NEW s \in Session, Commit(s)
       PROVE  TypeOK'
  <2>. DEFINE a == target[s]
  <2>1. \/ /\ UnderReview(op[s], row[a]) \in Row
           /\ Goal(verdict[s]) \in (AdStatus \ {"draft"})
        \/ a \notin Ad
    BY TransitionType DEF UnderReview, Goal, TypeOK, AdStatus
  <2>2. row' \in [Ad -> Row]
    BY <1>10, <2>1, TransitionType DEF Commit, TypeOK
  <2>3. overdue' \in [Ad -> BOOLEAN]
    BY <1>10 DEF Commit, TypeOK
  <2>. QED
    BY <1>10, <2>2, <2>3, EndType DEF Commit, TypeOK
<1>11. ASSUME NEW s \in Session, EraseProfile(s)
       PROVE  TypeOK'
  BY <1>11 DEF EraseProfile, Goto, TypeOK, ads, Step
<1>12. ASSUME NEW s \in Session, ListAds(s)
       PROVE  TypeOK'
  BY <1>12 DEF ListAds, Goto, TypeOK, ads, locks, Step, AdsOf
<1>13. ASSUME NEW s \in Session, NEW a \in Ad, DeleteNext(s, a)
       PROVE  TypeOK'
  <2>1. picked' \in [Session -> SUBSET Ad]
    BY <1>13 DEF DeleteNext, TypeOK
  <2>2. CASE MayTransition(row[a], "deleted")
    <3>1. done' = [done EXCEPT ![s] = @ \cup {a}]
      BY <1>13, <2>2 DEF DeleteNext
    <3>2. done' \in [Session -> SUBSET Ad]
      BY <3>1 DEF TypeOK
    <3>3. rowLock' = [rowLock EXCEPT ![a] = s]
      BY <1>13, <2>2 DEF DeleteNext
    <3>4. rowLock' \in [Ad -> Session \cup {None}]
      BY <3>3 DEF TypeOK
    <3>. QED
      BY <1>13, <2>1, <3>2, <3>4 DEF DeleteNext, TypeOK, ads
  <2>3. CASE ~MayTransition(row[a], "deleted")
    <3>1. UNCHANGED <<done, rowLock>>
      BY <1>13, <2>3 DEF DeleteNext
    <3>. QED
      BY <1>13, <2>1, <3>1 DEF DeleteNext, TypeOK, ads
  <2>. QED
    BY <2>2, <2>3
<1>14. ASSUME NEW s \in Session, CommitWithdrawal(s)
       PROVE  TypeOK'
  <2>1. \A a \in Ad : TransitionTo(row[a], "deleted") \in Row
    BY TransitionType DEF TypeOK, AdStatus
  <2>2. row' \in [Ad -> Row] /\ overdue' \in [Ad -> BOOLEAN]
    BY <1>14, <2>1 DEF CommitWithdrawal, TypeOK
  <2>3. standing' \in [User -> Standing]
    BY <1>14 DEF CommitWithdrawal, TypeOK, Standing
  <2>. QED
    BY <1>14, <2>2, <2>3, EndType DEF CommitWithdrawal, TypeOK
<1>15. Blank("erased") \in Row /\ NewDraft \in Row
  BY DEF Blank, NewDraft, Row, NoRow, AdStatus
<1>16. ASSUME NEW s \in Session, Reap(s)
       PROVE  TypeOK'
  <2>1. row' \in [Ad -> Row] /\ overdue' \in [Ad -> BOOLEAN]
    BY <1>15, <1>16 DEF Reap, Erase, TypeOK
  <2>. QED
    BY <1>16, <2>1, EndType DEF Reap, TypeOK
<1>17. ASSUME NEW s \in Session, NEW a \in Ad, CreateDraft(s, a)
       PROVE  TypeOK'
  <2>1. row' \in [Ad -> Row] /\ overdue' \in [Ad -> BOOLEAN]
    BY <1>15, <1>17 DEF CreateDraft, Replaced, Erase, TypeOK
  <2>. QED
    BY <1>17, <2>1, EndType DEF CreateDraft, Replaced, TypeOK
<1>18. ASSUME NEW s \in Session, UNCHANGED <<ads, standing>>, End(s)
       PROVE  TypeOK'
  BY <1>18, EndType DEF TypeOK, ads
<1>19. ASSUME NEW s \in Session, LockTimeoutInPublish(s)
       PROVE  TypeOK'
  <2>1. CASE End(s)
    BY <1>18, <1>19, <2>1 DEF LockTimeoutInPublish
  <2>2. CASE Decide(s, "fault") /\ UNCHANGED <<locks, op, target, who, picked, done>>
    <3>1. verdict' \in [Session -> Verdict] /\ pc' \in [Session -> Step]
      BY <2>2 DEF Decide, Goto, TypeOK, Step, Verdict
    <3>. QED
      BY <1>19, <2>2, <3>1 DEF LockTimeoutInPublish, TypeOK, ads, locks
  <2>. QED
    BY <1>19, <2>1, <2>2 DEF LockTimeoutInPublish
<1>20. ASSUME NEW s \in Session, Advance(s) \/ TimeOut(s) \/ Crash(s)
       PROVE  TypeOK'
  BY <1>6, <1>7, <1>8, <1>9, <1>10, <1>11, <1>12, <1>13, <1>14, <1>16, <1>17,
     <1>18, <1>19, <1>20
     DEF Advance, TimeOut, Crash, Refuse, OutOfKeys, LockTimeout
<1>21. ASSUME NEW a \in Ad,
              \/ ArchiveSweep(a) \/ ArchiveByOwner(a) \/ SoftDelete(a)
              \/ Reject(a) \/ SendToReview(a)
       PROVE  TypeOK'
  BY <1>21, ShortType DEF ArchiveSweep, ArchiveByOwner, SoftDelete, Reject,
     SendToReview, AdStatus
<1>22. ASSUME NEW a \in Ad, RestartClock(a) \/ TouchDraft(a) \/ Outstay(a)
       PROVE  TypeOK'
  BY <1>22 DEF RestartClock, TouchDraft, Outstay, TypeOK, locks, session
<1>23. ASSUME NEW u \in User, Bar(u)
       PROVE  TypeOK'
  BY <1>23 DEF Bar, TypeOK, ads, locks, session, Standing
<1>24. CASE UNCHANGED vars
  BY <1>24 DEF TypeOK, vars
<1>. QED
  BY <1>1, <1>2, <1>3, <1>4, <1>5, <1>20, <1>21, <1>22, <1>23, <1>24
     DEF Next, Open

(* The initial table is typed.                                             *)
LEMMA InitType == Init => TypeOK
BY DEF Init, TypeOK, Blank, Row, NoRow, Standing, Op, Step, Verdict, Stamp

(* Type correctness, which the row locks, the committed table and every    *)
(* open transaction of the model share.                                    *)
THEOREM TypeCorrect == Spec => []TypeOK
BY InitType, StepType, PTL DEF Spec
-----------------------------------------------------------------------------
(***************************************************************************)
(* Open transactions                                                       *)
(***************************************************************************)

Gone == NoRow \cup {"deleted"}

\* What a step of somebody else leaves to session t: its own variables, the
\* rows it has locked, and, of the ads whose owner it has locked, that none
\* is inserted, brought back or published.
Undisturbed(t) ==
  /\ /\ op'[t] = op[t] /\ pc'[t] = pc[t] /\ target'[t] = target[t]
     /\ who'[t] = who[t] /\ verdict'[t] = verdict[t]
     /\ picked'[t] = picked[t] /\ done'[t] = done[t]
  /\ \A a \in Ad : rowLock[a] = t /\ Status(a) # "none" =>
                     rowLock'[a] = t /\ row'[a] = row[a]
  /\ \A u \in User : userLock[u] = t => userLock'[u] = t
  /\ \A a \in Ad : userLock[Owner[a]] = t =>
       /\ Status(a) \in Gone => row'[a].status \in Gone
       /\ row'[a].status = "published" => Status(a) = "published"
  /\ \A a \in Ad : Status(a) # "none" =>
       /\ row'[a].status # "none"
       /\ row'[a].status = "draft" /\ standing'[Owner[a]] = "withdrawn" =>
            Status(a) = "draft" /\ standing[Owner[a]] = "withdrawn"

(* The published ads of a seller are finitely many.                        *)
LEMMA PublishedFinite ==
  ASSUME NEW u
  PROVE  IsFiniteSet(Published(u)) /\ IsFiniteSet(Published(u))'
BY AdsAreFinite, FS_Subset DEF Published, AdsOf

(* A step that leaves a session undisturbed keeps what the session knows.  *)
LEMMA Bystander ==
  ASSUME TypeOK, TypeOK', NEW t \in Session, SessionInv(t), Undisturbed(t)
  PROVE  SessionInv(t)'
<1>. USE OwnerAssumption
<1>1. DecidesUnderLock(t)'
  BY DEF SessionInv, DecidesUnderLock, Undisturbed, Status, Deciding, VerdictOps, TypeOK
<1>2. RoomIsReserved(t)'
  <2>1. pc'[t] = "count" => userLock'[who'[t]] = t
    BY DEF SessionInv, DecidesUnderLock, RoomIsReserved, Undisturbed, Deciding, VerdictOps, TypeOK
  <2>2. ASSUME pc'[t] = "commit", verdict'[t] = "pass"
        PROVE  /\ userLock'[who'[t]] = t
               /\ Cardinality(Published(who[t])' \ {target'[t]}) < MaxAds
    <3>1. /\ userLock[who[t]] = t /\ who[t] \in User
          /\ Cardinality(Published(who[t]) \ {target[t]}) < MaxAds
      BY <2>2 DEF SessionInv, DecidesUnderLock, RoomIsReserved, Undisturbed, Deciding, VerdictOps, TypeOK
    <3>2. Published(who[t])' \ {target'[t]} \subseteq Published(who[t]) \ {target[t]}
      BY <3>1 DEF Undisturbed, Published, AdsOf, Status
    <3>3. IsFiniteSet(Published(who[t]) \ {target[t]})
      BY PublishedFinite, FS_Subset
    <3>4. Cardinality(Published(who[t])' \ {target'[t]})
             <= Cardinality(Published(who[t]) \ {target[t]})
      BY <3>2, <3>3, FS_Subset
    <3>5. /\ Cardinality(Published(who[t])' \ {target'[t]}) \in Nat
          /\ Cardinality(Published(who[t]) \ {target[t]}) \in Nat
      BY <3>2, <3>3, FS_Subset, FS_CardinalityType
    <3>. QED
      BY <3>1, <3>4, <3>5, MaxAdsAssumption DEF Undisturbed
  <2>3. who'[t] = who[t]
    BY DEF Undisturbed
  <2>. QED
    BY <2>1, <2>2, <2>3 DEF RoomIsReserved
<1>3. MissesNoAd(t)'
  BY DEF SessionInv, MissesNoAd, Undisturbed, Status, AdsOf, Gone, TypeOK
<1>4. KeepsWhatItWrote(t)'
  BY DEF SessionInv, KeepsWhatItWrote, Undisturbed, Status, TypeOK, MayTransition, AdStatus
<1>5. DraftStuck(t)'
  BY DEF SessionInv, DecidesUnderLock, DraftStuck, Undisturbed, Status, VerdictOps, TypeOK
<1>. QED
  BY <1>1, <1>2, <1>3, <1>4, <1>5 DEF SessionInv

(* A transaction that has ended knows nothing and needs nothing.           *)
LEMMA Ended ==
  ASSUME TypeOK, NEW s \in Session, End(s)
  PROVE  SessionInv(s)'
BY DEF End, TypeOK, SessionInv, DecidesUnderLock, RoomIsReserved, MissesNoAd,
       KeepsWhatItWrote, DraftStuck, Deciding, VerdictOps

(* Steps that leave the table and the sellers alone disturb nobody.        *)
LEMMA QuietSteps ==
  ASSUME TypeOK, NEW s \in Session, NEW t \in Session \ {s},
         UNCHANGED <<row, standing>>,
         \/ /\ UNCHANGED locks
            /\ \E o \in Op, p \in Step, a \in Ad \cup {None},
                  u \in User \cup {None}, S \in SUBSET Ad : Begin(s, o, p, a, u, S)
         \/ End(s) \/ LockAd(s) \/ Moderate(s) \/ LockOwner(s) \/ Recount(s)
         \/ EraseProfile(s) \/ ListAds(s) \/ (\E a \in Ad : DeleteNext(s, a))
         \/ LockTimeoutInPublish(s),
         SessionInv(s)
  PROVE  Undisturbed(t)
<1>. USE OwnerAssumption
<1>1. CASE End(s)
  BY <1>1 DEF Undisturbed, End, TypeOK, Status
<1>2. ASSUME UNCHANGED locks, NEW o, NEW p, NEW a, NEW u, NEW S,
             Begin(s, o, p, a, u, S)
      PROVE  Undisturbed(t)
  BY <1>2 DEF Undisturbed, Begin, TypeOK, Status, locks
<1>3. CASE LockAd(s) \/ LockOwner(s) \/ EraseProfile(s) \/ ListAds(s)
  BY <1>3, NoneAssumption DEF Undisturbed, LockAd, LockOwner, EraseProfile, ListAds, Goto, TypeOK, Status, locks
<1>4. CASE Moderate(s)
  BY <1>4 DEF Undisturbed, Moderate, Decide, Goto, TypeOK, Status, locks
<1>5. CASE Recount(s)
  BY <1>5 DEF Undisturbed, Recount, Decide, Goto, TypeOK, Status, SessionInv, RoomIsReserved
<1>6. ASSUME NEW a \in Ad, DeleteNext(s, a)
      PROVE  Undisturbed(t)
  BY <1>6, NoneAssumption DEF Undisturbed, DeleteNext, TypeOK, Status
<1>7. CASE LockTimeoutInPublish(s)
  BY <1>1, <1>7 DEF Undisturbed, LockTimeoutInPublish, Decide, Goto, TypeOK, Status, locks
<1>. QED
  BY <1>1, <1>2, <1>3, <1>4, <1>5, <1>6, <1>7

(* What a request knows when it begins.                                    *)
LEMMA Begun ==
  ASSUME TypeOK, NEW s \in Session, NEW a \in Ad \cup {None},
         NEW u \in User \cup {None}, NEW S \in SUBSET Ad, NEW o \in Op,
         UNCHANGED <<row, standing>>, SessionInv(s),
         \/ /\ Begin(s, o, "start", a, u, S) /\ o \in VerdictOps
            /\ a \in Ad /\ u = Owner[a] /\ Status(a) # "none"
            /\ o = "submit" => standing[u] # "withdrawn"
         \/ Begin(s, o, "start", a, u, S) /\ o = "withdraw" /\ u \in User
         \/ Begin(s, o, "reap", a, u, S) /\ o \notin VerdictOps \cup {"withdraw"}
  PROVE  SessionInv(s)'
BY DEF Begin, TypeOK, SessionInv, DecidesUnderLock, RoomIsReserved, MissesNoAd,
       KeepsWhatItWrote, DraftStuck, Deciding, VerdictOps, Status

(* The cap counts the published ads of the owner besides the ad itself.    *)
LEMMA CapCounts ==
  ASSUME TypeOK, NEW a \in Ad, Cardinality(ActiveBesides(a)) < MaxAds
  PROVE  Cardinality(Published(Owner[a]) \ {a}) < MaxAds
<1>1. IsFiniteSet(ActiveBesides(a))
  BY AdsAreFinite, FS_Subset DEF ActiveBesides, AdsOf
<1>2. Published(Owner[a]) \ {a} \subseteq ActiveBesides(a)
  BY DEF Published, ActiveBesides
<1>3. IsFiniteSet(Published(Owner[a]) \ {a})
      /\ Cardinality(Published(Owner[a]) \ {a}) <= Cardinality(ActiveBesides(a))
  BY <1>1, <1>2, FS_Subset
<1>. QED
  BY <1>1, <1>3, FS_CardinalityType, MaxAdsAssumption

(* The steps of a request that decides about an ad.                        *)
LEMMA Deciders ==
  ASSUME TypeOK, NEW s \in Session, SessionInv(s),
         \/ LockAd(s) \/ Moderate(s) \/ LockOwner(s) \/ Recount(s)
         \/ LockTimeoutInPublish(s)
  PROVE  SessionInv(s)'
<1>. USE OwnerAssumption
<1>1. CASE LockAd(s)
  BY <1>1 DEF LockAd, Goto, ads, TypeOK, SessionInv, DecidesUnderLock,
     RoomIsReserved, MissesNoAd, KeepsWhatItWrote, DraftStuck, Deciding,
     VerdictOps, Status
<1>2. CASE Moderate(s)
  BY <1>2 DEF Moderate, Decide, Goto, ads, locks, TypeOK, SessionInv,
     DecidesUnderLock, RoomIsReserved, MissesNoAd, KeepsWhatItWrote,
     DraftStuck, Deciding, VerdictOps, Status
<1>3. CASE LockOwner(s)
  BY <1>3 DEF LockOwner, Goto, ads, TypeOK, SessionInv, DecidesUnderLock,
     RoomIsReserved, MissesNoAd, KeepsWhatItWrote, DraftStuck, Deciding,
     VerdictOps, Status
<1>4. CASE Recount(s)
  <2>. DEFINE full == Cardinality(ActiveBesides(target[s])) >= MaxAds
  <2>1. target[s] \in Ad /\ who[s] = Owner[target[s]] /\ userLock[who[s]] = s
    BY <1>4 DEF Recount, SessionInv, DecidesUnderLock, RoomIsReserved, Deciding
  <2>2. IsFiniteSet(ActiveBesides(target[s]))
    BY AdsAreFinite, FS_Subset DEF ActiveBesides, AdsOf
  <2>3. full \/ Cardinality(Published(who[s]) \ {target[s]}) < MaxAds
    BY <2>1, <2>2, CapCounts, FS_CardinalityType, MaxAdsAssumption
  <2>4. verdict'[s] = "pass" => ~full
    BY <1>4 DEF Recount, Decide, TypeOK
  <2>5. RoomIsReserved(s)'
    BY <1>4, <2>1, <2>3, <2>4 DEF Recount, Decide, Goto, ads, TypeOK,
       RoomIsReserved, Published, AdsOf, Status
  <2>. QED
    BY <1>4, <2>5 DEF Recount, Decide, Goto, ads, TypeOK, SessionInv,
       DecidesUnderLock, MissesNoAd, KeepsWhatItWrote, DraftStuck, Deciding,
       VerdictOps, Status
<1>5. CASE LockTimeoutInPublish(s)
  <2>1. CASE End(s)
    BY <2>1, Ended
  <2>2. CASE Decide(s, "fault")
    BY <1>5, <2>1, <2>2 DEF LockTimeoutInPublish, Decide, Goto, ads, locks,
       TypeOK, SessionInv, DecidesUnderLock, RoomIsReserved, MissesNoAd,
       KeepsWhatItWrote, DraftStuck, Deciding, VerdictOps, Status
  <2>. QED
    BY <1>5, <2>1, <2>2 DEF LockTimeoutInPublish
<1>. QED
  BY <1>1, <1>2, <1>3, <1>4, <1>5

(* The steps of a withdrawal.                                              *)
LEMMA Withdrawers ==
  ASSUME TypeOK, NEW s \in Session, SessionInv(s),
         \/ EraseProfile(s) \/ ListAds(s) \/ (\E a \in Ad : DeleteNext(s, a))
  PROVE  SessionInv(s)'
<1>1. CASE EraseProfile(s) \/ ListAds(s)
  BY <1>1 DEF EraseProfile, ListAds, Goto, ads, locks, TypeOK, SessionInv,
     DecidesUnderLock, RoomIsReserved, MissesNoAd, KeepsWhatItWrote, DraftStuck,
     Deciding, VerdictOps, Status, AdsOf
<1>2. ASSUME NEW a \in Ad, DeleteNext(s, a)
      PROVE  SessionInv(s)'
  <2>1. op[s] = "withdraw" /\ pc[s] = "delete" /\ Owner[a] = who[s]
    BY <1>2 DEF DeleteNext, SessionInv, MissesNoAd, AdsOf
  <2>2. Status(a) \in NoRow \cup {"deleted"} \/ MayTransition(row[a], "deleted")
    BY DEF MayTransition, Status, TypeOK, Row
  <2>3. MissesNoAd(s)'
    BY <1>2, <2>1, <2>2 DEF DeleteNext, ads, TypeOK, SessionInv, MissesNoAd,
       Status, AdsOf
  <2>4. KeepsWhatItWrote(s)'
    BY <1>2, <2>1 DEF DeleteNext, ads, TypeOK, SessionInv, KeepsWhatItWrote,
       MayTransition
  <2>. QED
    BY <1>2, <2>1, <2>3, <2>4 DEF DeleteNext, SessionInv, DecidesUnderLock,
       RoomIsReserved, DraftStuck, Deciding, VerdictOps
<1>. QED
  BY <1>1, <1>2
-----------------------------------------------------------------------------
(***************************************************************************)
(* Steps that change the table or a seller's standing                      *)
(***************************************************************************)

TableInv == RowsOK /\ QuotaKept /\ WithdrawnHidden /\ SingleDraft

(* A step after which no more ads are published keeps the quota.           *)
LEMMA FewerPublished ==
  ASSUME QuotaKept, NEW u \in User, Published(u)' \subseteq Published(u)
  PROVE  Cardinality(Published(u))' <= MaxAds
<1>1. Cardinality(Published(u)') <= Cardinality(Published(u))
  BY PublishedFinite, FS_Subset
<1>2. Cardinality(Published(u)) <= MaxAds
  BY DEF QuotaKept
<1>. QED
  BY <1>1, <1>2, PublishedFinite, FS_CardinalityType, MaxAdsAssumption

(* A table nobody writes stays as it is, if no seller leaves.              *)
LEMMA TableUnchanged ==
  ASSUME TypeOK, TableInv, UNCHANGED row,
         \A u \in User : standing'[u] = "withdrawn" => standing[u] = "withdrawn"
  PROVE  TableInv'
BY OwnerAssumption, FewerPublished DEF TableInv, RowsOK, QuotaKept, WithdrawnHidden, SingleDraft,
   Status, Published, AdsOf

(* A short transaction that publishes nothing.                             *)
LEMMA ShortStep ==
  ASSUME TypeOK, TableInv, NEW a \in Ad, NEW from,
         NEW to \in AdStatus \ {"draft", "published"},
         ShortTransition(a, from, to),
         \A f \in from : /\ f \in AdStatus \ {"deleted"}
                         /\ \/ to = "deleted"
                            \/ f # "draft" /\ to \in ALLOWED_TRANSITIONS[f]
  PROVE  TableInv' /\ \A t \in Session : Undisturbed(t)
<1>1. /\ rowLock[a] = None /\ Status(a) \in from
      /\ row' = [row EXCEPT ![a] = TransitionTo(row[a], to)]
      /\ UNCHANGED <<standing, locks, session>>
  BY DEF ShortTransition
<1>2. TransitionTo(row[a], to).status = to
  BY TransitionStatus DEF TypeOK
<1>3. RowsOK'
  <2>1. MayTransition(row[a], to)
    BY <1>1 DEF MayTransition, Status
  <2>2. RowOK(TransitionTo(row[a], to))
    BY <2>1, TransitionKeepsRowOK DEF TypeOK, TableInv, RowsOK
  <2>. QED
    BY <1>1, <2>2 DEF TableInv, RowsOK, TypeOK
<1>4. QuotaKept'
  <2>1. \A u \in User : Published(u)' \subseteq Published(u)
    BY <1>1, <1>2 DEF Published, AdsOf, Status, TypeOK
  <2>. QED
    BY <2>1, FewerPublished DEF TableInv, QuotaKept
<1>5. WithdrawnHidden'
  BY <1>1, <1>2 DEF TableInv, WithdrawnHidden, Status, TypeOK, NoRow, AdStatus
<1>6. SingleDraft'
  BY <1>1, <1>2 DEF TableInv, SingleDraft, Status, TypeOK
<1>7. ASSUME NEW t \in Session
      PROVE  Undisturbed(t)
  BY <1>1, <1>2, OwnerAssumption, NoneAssumption DEF Undisturbed, Status, TypeOK, Gone,
     NoRow, AdStatus, locks, session
<1>. QED
  BY <1>3, <1>4, <1>5, <1>6, <1>7 DEF TableInv

(* Each of the five short transactions of an ad is one.                    *)
LEMMA Shorts ==
  ASSUME TypeOK, TableInv, NEW a \in Ad,
         \/ ArchiveSweep(a) \/ ArchiveByOwner(a) \/ SoftDelete(a)
         \/ Reject(a) \/ SendToReview(a)
  PROVE  TableInv' /\ \A t \in Session : Undisturbed(t)
<1>. DEFINE Allowed(from, to) ==
       /\ to \in AdStatus \ {"draft", "published"}
       /\ \A f \in from : /\ f \in AdStatus \ {"deleted"}
                          /\ \/ to = "deleted"
                             \/ f # "draft" /\ to \in ALLOWED_TRANSITIONS[f]
<1>1. /\ Allowed({"published"}, "archived")
      /\ Allowed(AdStatus \ {"deleted"}, "deleted")
      /\ Allowed({"on_moderation", "on_moderation_failed"}, "rejected")
      /\ Allowed({"published", "archived"}, "on_moderation")
  BY DEF ALLOWED_TRANSITIONS, AdStatus
<1>2. \/ ShortTransition(a, {"published"}, "archived")
      \/ ShortTransition(a, AdStatus \ {"deleted"}, "deleted")
      \/ ShortTransition(a, {"on_moderation", "on_moderation_failed"}, "rejected")
      \/ ShortTransition(a, {"published", "archived"}, "on_moderation")
  BY DEF ArchiveSweep, ArchiveByOwner, SoftDelete, Reject, SendToReview
<1>3. CASE ShortTransition(a, {"published"}, "archived")
  BY <1>1, <1>3, ShortStep
<1>4. CASE ShortTransition(a, AdStatus \ {"deleted"}, "deleted")
  BY <1>1, <1>4, ShortStep
<1>5. CASE ShortTransition(a, {"on_moderation", "on_moderation_failed"}, "rejected")
  BY <1>1, <1>5, ShortStep
<1>6. CASE ShortTransition(a, {"published", "archived"}, "on_moderation")
  BY <1>1, <1>6, ShortStep
<1>. QED
  BY <1>2, <1>3, <1>4, <1>5, <1>6

(* Deleting rows nobody has locked.                                        *)
LEMMA Reaped ==
  ASSUME TypeOK, TableInv, NEW s \in Session, Reap(s)
  PROVE  TableInv' /\ \A t \in Session \ {s} : Undisturbed(t)
<1>1. \A a \in Ad : row'[a] = IF a \in picked[s] THEN Blank("erased") ELSE row[a]
  BY DEF Reap, Erase
<1>2. RowsOK'
  BY <1>1 DEF TableInv, RowsOK, RowOK, CheckConstraints, NoLeftoverClock, NoRow, Blank
<1>3. QuotaKept'
  <2>1. \A u \in User : Published(u)' \subseteq Published(u)
    BY <1>1 DEF Published, AdsOf, Status, Blank
  <2>. QED
    BY <2>1, FewerPublished DEF TableInv, QuotaKept
<1>4. WithdrawnHidden' /\ SingleDraft'
  BY <1>1 DEF TableInv, WithdrawnHidden, SingleDraft, Status, Blank, NoRow, Reap
<1>5. ASSUME NEW t \in Session \ {s}
      PROVE  Undisturbed(t)
  <2>1. \A a \in Ad : rowLock[a] = t => rowLock'[a] = t /\ row'[a] = row[a]
    BY <1>1, <1>5, NoneAssumption DEF Reap, End, Unlocked, TypeOK
  <2>2. \A a \in Ad : row'[a] = row[a] \/ row'[a].status = "erased"
    BY <1>1 DEF Blank
  <2>. QED
    BY <1>5, <2>1, <2>2 DEF Undisturbed, Status, TypeOK, Gone, NoRow, Reap, End
<1>. QED
  BY <1>2, <1>3, <1>4, <1>5 DEF TableInv

(* Inserting a draft in the place of every draft its owner has.            *)
LEMMA DraftCreated ==
  ASSUME TypeOK, TableInv, NEW s \in Session, NEW new \in Ad, CreateDraft(s, new)
  PROVE  TableInv' /\ \A t \in Session \ {s} : Undisturbed(t)
<1>. DEFINE S == picked[s] \cup {a \in AdsOf(who[s]) : Status(a) = "draft"}
<1>1. \A a \in Ad : row'[a] = IF a = new THEN NewDraft
                              ELSE IF a \in S THEN Blank("erased") ELSE row[a]
  BY DEF CreateDraft, Replaced, Erase, TypeOK
<1>2. RowsOK'
  BY <1>1 DEF TableInv, RowsOK, RowOK, CheckConstraints, NoLeftoverClock, NoRow, Blank, NewDraft
<1>3. QuotaKept'
  <2>1. \A u \in User : Published(u)' \subseteq Published(u)
    BY <1>1 DEF Published, AdsOf, Status, Blank, NewDraft
  <2>. QED
    BY <2>1, FewerPublished DEF TableInv, QuotaKept
<1>4. WithdrawnHidden'
  BY <1>1 DEF TableInv, WithdrawnHidden, Status, Blank, NewDraft, NoRow, CreateDraft, Replaced
<1>5. \A a \in Ad : row'[a].status = "draft" /\ a # new =>
                      Status(a) = "draft" /\ Owner[a] # who[s]
  BY <1>1 DEF Status, Blank, AdsOf
<1>6. SingleDraft'
  BY <1>5 DEF TableInv, SingleDraft, Status, CreateDraft, Replaced
<1>7. ASSUME NEW t \in Session \ {s}
      PROVE  Undisturbed(t)
  <2>1. \A a \in Ad : rowLock[a] = t /\ a # new =>
                        rowLock'[a] = t /\ row'[a] = row[a]
    BY <1>1, <1>7, NoneAssumption DEF CreateDraft, Replaced, End, Unlocked, TypeOK
  <2>2. \A a \in Ad \ {new} : row'[a] = row[a] \/ row'[a].status = "erased"
    BY <1>1 DEF Blank
  <2>3. userLock[Owner[new]] # t /\ Status(new) = "none"
    BY <1>7, NoneAssumption DEF CreateDraft, Replaced
  <2>. QED
    BY <1>7, <2>1, <2>2, <2>3 DEF Undisturbed, Status, TypeOK, Gone, NoRow, CreateDraft, Replaced, End
<1>. QED
  BY <1>2, <1>3, <1>4, <1>6, <1>7 DEF TableInv

(* The commit of a withdrawal.                                             *)
LEMMA WithdrawalCommitted ==
  ASSUME TypeOK, TableInv, NEW s \in Session, CommitWithdrawal(s),
         \A t \in Session : SessionInv(t)
  PROVE  /\ TableInv' /\ \A t \in Session \ {s} : Undisturbed(t)
         /\ \A a \in AdsOf(who[s]) : row'[a].status \in Gone
         /\ \A a \in Ad : Owner[a] # who[s] => row'[a] = row[a]
<1>1. \A a \in Ad : row'[a] = IF a \in done[s] THEN TransitionTo(row[a], "deleted") ELSE row[a]
  BY DEF CommitWithdrawal
<1>2. \A a \in Ad : TransitionTo(row[a], "deleted").status = "deleted"
  BY TransitionStatus DEF TypeOK, AdStatus
<1>3. \A a \in done[s] : /\ Owner[a] = who[s] /\ rowLock[a] = s
                         /\ MayTransition(row[a], "deleted")
  BY DEF SessionInv, KeepsWhatItWrote
<1>4. \A a \in AdsOf(who[s]) : row'[a].status \in Gone
  BY <1>1, <1>2 DEF CommitWithdrawal, SessionInv, MissesNoAd, Gone, Status, AdsOf
<1>5. RowsOK'
  <2>1. \A a \in done[s] : a \in Ad => RowOK(TransitionTo(row[a], "deleted"))
    BY <1>3, TransitionKeepsRowOK DEF TypeOK, TableInv, RowsOK, AdStatus
  <2>. QED
    BY <1>1, <2>1 DEF TableInv, RowsOK
<1>6. QuotaKept'
  <2>1. \A u \in User : Published(u)' \subseteq Published(u)
    BY <1>1, <1>2 DEF Published, AdsOf, Status
  <2>. QED
    BY <2>1, FewerPublished DEF TableInv, QuotaKept
<1>7. WithdrawnHidden'
  <2>1. ASSUME NEW a \in Ad, standing'[Owner[a]] = "withdrawn"
        PROVE  row'[a].status \in NoRow \cup {"draft", "deleted"}
    <3>1. CASE Owner[a] = who[s]
      BY <1>4, <3>1 DEF Gone, AdsOf
    <3>2. CASE Owner[a] # who[s]
      BY <1>1, <1>3, <2>1, <3>2, OwnerAssumption DEF TableInv, WithdrawnHidden, Status, CommitWithdrawal, TypeOK
    <3>. QED
      BY <3>1, <3>2
  <2>. QED
    BY <2>1 DEF WithdrawnHidden, Status
<1>8. SingleDraft'
  BY <1>1, <1>2 DEF TableInv, SingleDraft, Status
<1>9. ASSUME NEW t \in Session \ {s}
      PROVE  Undisturbed(t)
  <2>1. \A a \in Ad : row'[a].status = "draft" /\ standing'[Owner[a]] = "withdrawn"
                        => Status(a) = "draft" /\ standing[Owner[a]] = "withdrawn"
    BY <1>1, <1>2, <1>4, OwnerAssumption DEF CommitWithdrawal, AdsOf, Gone, NoRow, Status, TypeOK
  <2>2. \A a \in Ad : Status(a) # "none" => row'[a].status # "none"
    BY <1>1, <1>2 DEF Status
  <2>3. \A a \in Ad : rowLock[a] = t => rowLock'[a] = t /\ row'[a] = row[a]
    BY <1>1, <1>3, <1>9 DEF CommitWithdrawal, End
  <2>4. \A a \in Ad : /\ Status(a) \in Gone => row'[a].status \in Gone
                      /\ row'[a].status = "published" => Status(a) = "published"
    BY <1>1, <1>2 DEF Status, Gone
  <2>. QED
    BY <1>9, <2>1, <2>2, <2>3, <2>4 DEF Undisturbed, CommitWithdrawal, End, TypeOK
<1>10. \A a \in Ad : Owner[a] # who[s] => row'[a] = row[a]
  BY <1>1, <1>3
<1>. QED
  BY <1>4, <1>5, <1>6, <1>7, <1>8, <1>9, <1>10 DEF TableInv

(* Between the grant of the ad's lock and the commit of the verdict, the   *)
(* owner has not withdrawn: a withdrawal would have waited for the ad.     *)
LEMMA OwnerStays ==
  ASSUME TypeOK, WithdrawnHidden, NEW s \in Session, SessionInv(s), pc[s] \in Deciding
  PROVE  /\ target[s] \in Ad /\ who[s] = Owner[target[s]] /\ op[s] \in VerdictOps
         /\ rowLock[target[s]] = s
         /\ Status(target[s]) \in Accepts(op[s])
         /\ Status(target[s]) \notin Gone
         /\ standing[Owner[target[s]]] # "withdrawn"
<1>1. /\ target[s] \in Ad /\ who[s] = Owner[target[s]] /\ op[s] \in VerdictOps
      /\ rowLock[target[s]] = s /\ Status(target[s]) \in Accepts(op[s])
  BY DEF SessionInv, DecidesUnderLock
<1>2. /\ op[s] # "submit" => Status(target[s]) \notin {"draft"} \cup Gone
      /\ Status(target[s]) \notin Gone
  BY <1>1 DEF Accepts, VerdictOps, Gone, NoRow
<1>3. standing[Owner[target[s]]] # "withdrawn"
  BY <1>1, <1>2 DEF WithdrawnHidden, SessionInv, DraftStuck, Gone
<1>. QED
  BY <1>1, <1>2, <1>3

(* The commit of a verdict.                                                *)
LEMMA Committed ==
  ASSUME TypeOK, TableInv, NEW s \in Session, Commit(s), SessionInv(s)
  PROVE  /\ TableInv' /\ \A t \in Session \ {s} : Undisturbed(t)
         /\ \A b \in Ad \ {target[s]} : row'[b] = row[b]
         /\ row'[target[s]].status = "published" =>
              Cardinality(Published(Owner[target[s]]) \ {target[s]}) < MaxAds
              \/ Status(target[s]) = "published"
<1>. DEFINE a == target[s]
            o == op[s]
            v == verdict[s]
            r == UnderReview(o, row[a])
            n == TransitionTo(r, Goal(v))
<1>1. /\ a \in Ad /\ who[s] = Owner[a] /\ o \in VerdictOps /\ rowLock[a] = s
      /\ Status(a) \in Accepts(o) /\ Status(a) \notin Gone
      /\ standing[Owner[a]] # "withdrawn"
  BY OwnerStays DEF TableInv, Commit, Deciding
<1>2. \A b \in Ad \ {a} : row'[b] = row[b]
  BY DEF Commit, TypeOK
<1>3. CASE ~Moves(o, v, row[a])
  <2>1. UNCHANGED <<row, standing>>
    BY <1>1, <1>3 DEF Commit, TypeOK
  <2>2. TableInv'
    BY <2>1, TableUnchanged
  <2>3. \A t \in Session \ {s} : Undisturbed(t)
    BY <2>1, QuietSteps DEF Commit
  <2>. QED
    BY <1>2, <2>1, <2>2, <2>3 DEF Status
<1>4. CASE Moves(o, v, row[a])
  <2>1. row'[a] = n
    BY <1>1, <1>4 DEF Commit, TypeOK
  <2>2. Goal(v) \in {"published", "on_moderation_failed"}
        /\ (Goal(v) = "published" => v = "pass")
    BY DEF Goal
  <2>3. r \in Row /\ RowOK(r)
    <3>1. CASE o \in {"submit", "reactivate"}
      <4>1. Status(a) \in {"draft", "published", "archived"}
        BY <1>1, <3>1 DEF Accepts
      <4>2. MayTransition(row[a], "on_moderation")
        BY <4>1 DEF MayTransition, Status, ALLOWED_TRANSITIONS, AdStatus
      <4>3. row[a] \in Row /\ RowOK(row[a]) /\ "on_moderation" \in AdStatus \ {"draft"}
        BY <1>1 DEF TypeOK, TableInv, RowsOK, AdStatus
      <4>. QED
        BY <3>1, <4>2, <4>3, TransitionType, TransitionKeepsRowOK DEF UnderReview
    <3>2. CASE o \notin {"submit", "reactivate"}
      BY <1>1, <3>2 DEF UnderReview, TypeOK, TableInv, RowsOK
    <3>. QED
      BY <3>1, <3>2
  <2>4. Goal(v) \in AdStatus \ {"draft"} /\ MayTransition(r, Goal(v))
    BY <1>4, <2>2 DEF Moves, AdStatus
  <2>5. n.status = Goal(v) /\ RowOK(n)
    BY <2>3, <2>4, TransitionStatus, TransitionKeepsRowOK
  <2>6. RowsOK'
    BY <1>2, <2>1, <2>5 DEF TableInv, RowsOK
  <2>7. Goal(v) = "published" =>
          /\ userLock[Owner[a]] = s
          /\ Cardinality(Published(Owner[a]) \ {a}) < MaxAds
    BY <1>1, <2>2 DEF SessionInv, RoomIsReserved, Commit
  <2>8. ASSUME NEW u \in User
        PROVE  Cardinality(Published(u))' <= MaxAds
    <3>1. CASE u = Owner[a] /\ Goal(v) = "published"
      <4>. DEFINE P == Published(u) \ {a}
      <4>1. Published(u)' = P \cup {a}
        BY <1>1, <1>2, <2>1, <2>5, <3>1 DEF Published, AdsOf, Status
      <4>2. IsFiniteSet(P) /\ a \notin P
        BY PublishedFinite, FS_Subset
      <4>3. Cardinality(P \cup {a}) = Cardinality(P) + 1 /\ Cardinality(P) \in Nat
        BY <4>2, FS_AddElement, FS_CardinalityType
      <4>. QED
        BY <2>7, <3>1, <4>1, <4>3, MaxAdsAssumption
    <3>2. CASE ~(u = Owner[a] /\ Goal(v) = "published")
      <4>1. Published(u)' \subseteq Published(u)
        BY <1>1, <1>2, <2>1, <2>5, <3>2 DEF Published, AdsOf, Status
      <4>. QED
        BY <4>1, FewerPublished DEF TableInv
    <3>. QED
      BY <3>1, <3>2
  <2>9. WithdrawnHidden'
    BY <1>1, <1>2 DEF TableInv, WithdrawnHidden, Status, Commit
  <2>10. SingleDraft'
    BY <1>2, <2>1, <2>2, <2>5 DEF TableInv, SingleDraft, Status
  <2>11. ASSUME NEW t \in Session \ {s}
         PROVE  Undisturbed(t)
    <3>1. \A b \in Ad : rowLock[b] = t => rowLock'[b] = t /\ row'[b] = row[b]
      BY <1>1, <1>2, <2>11 DEF Commit, End
    <3>2. \A b \in Ad : userLock[Owner[b]] = t =>
            /\ Status(b) \in Gone => row'[b].status \in Gone
            /\ row'[b].status = "published" => Status(b) = "published"
      BY <1>1, <1>2, <2>1, <2>5, <2>7, <2>11 DEF Status
    <3>3. \A b \in Ad : Status(b) # "none" =>
            /\ row'[b].status # "none"
            /\ row'[b].status = "draft" => Status(b) = "draft"
      BY <1>1, <1>2, <2>1, <2>2, <2>5 DEF Status
    <3>. QED
      BY <2>11, <3>1, <3>2, <3>3 DEF Undisturbed, Commit, End, TypeOK
  <2>. QED
    BY <1>2, <2>1, <2>5, <2>6, <2>7, <2>8, <2>9, <2>10, <2>11 DEF TableInv, QuotaKept
<1>. QED
  BY <1>3, <1>4
-----------------------------------------------------------------------------
(***************************************************************************)
(* Steps of the specification                                              *)
(***************************************************************************)

\* No row is written and no seller withdraws.
LeavesTable ==
  /\ UNCHANGED row
  /\ \A u \in User : standing'[u] = "withdrawn" <=> standing[u] = "withdrawn"

(* The steps that write the table, and the others.                         *)
LEMMA StepKinds ==
  ASSUME TypeOK, [Next]_vars
  PROVE  \/ \E s \in Session :
              \/ Commit(s) \/ CommitWithdrawal(s) \/ Reap(s)
              \/ \E a \in Ad : CreateDraft(s, a)
         \/ \E a \in Ad :
              \/ ArchiveSweep(a) \/ ArchiveByOwner(a) \/ SoftDelete(a)
              \/ Reject(a) \/ SendToReview(a)
         \/ LeavesTable
<1>1. ASSUME NEW s \in Session, Open(s)
      PROVE  LeavesTable
  BY <1>1 DEF Open, PassGate, OpenReview, BeginWithdraw, SelectDraft,
     SelectOverdue, ads, LeavesTable
<1>2. ASSUME NEW s \in Session, TimeOut(s) \/ Crash(s)
      PROVE  LeavesTable
  BY <1>2 DEF TimeOut, LockTimeout, LockTimeoutInPublish, Crash, ads, LeavesTable
<1>3. ASSUME NEW s \in Session, Advance(s)
      PROVE  \/ Commit(s) \/ CommitWithdrawal(s) \/ Reap(s)
             \/ \E a \in Ad : CreateDraft(s, a)
             \/ LeavesTable
  BY <1>3 DEF Advance, LockAd, Refuse, Moderate, LockOwner, Recount,
     EraseProfile, ListAds, DeleteNext, OutOfKeys, ads, LeavesTable
<1>4. ASSUME NEW a \in Ad, RestartClock(a) \/ TouchDraft(a) \/ Outstay(a)
      PROVE  LeavesTable
  BY <1>4 DEF RestartClock, TouchDraft, Outstay, LeavesTable
<1>5. ASSUME NEW u \in User, Bar(u)
      PROVE  LeavesTable
  BY <1>5 DEF Bar, ads, LeavesTable, TypeOK
<1>6. CASE UNCHANGED vars
  BY <1>6 DEF vars, LeavesTable
<1>. QED
  BY <1>1, <1>2, <1>3, <1>4, <1>5, <1>6 DEF Next

(* Every step keeps the promises about the table.                          *)
LEMMA StepTable ==
  ASSUME TypeOK, TableInv, \A s \in Session : SessionInv(s), [Next]_vars
  PROVE  TableInv'
BY StepKinds, Committed, WithdrawalCommitted, Reaped, DraftCreated, Shorts,
   TableUnchanged DEF LeavesTable

(* Every step keeps what the open transactions know.                       *)
LEMMA StepSessions ==
  ASSUME TypeOK, TableInv, \A s \in Session : SessionInv(s), [Next]_vars
  PROVE  \A t \in Session : SessionInv(t)'
<1>1. TypeOK'
  BY StepType
<1>2. ASSUME NEW s \in Session, SessionInv(s)',
             \A t \in Session \ {s} : Undisturbed(t)
      PROVE  \A t \in Session : SessionInv(t)'
  BY <1>1, <1>2, Bystander
<1>3. ASSUME \A t \in Session : Undisturbed(t)
      PROVE  \A t \in Session : SessionInv(t)'
  BY <1>1, <1>3, Bystander
<1>4. ASSUME NEW s \in Session, Open(s)
      PROVE  \A t \in Session : SessionInv(t)'
  <2>1. /\ UNCHANGED <<row, standing, locks>>
        /\ \E o \in Op, p \in Step, a \in Ad \cup {None}, u \in User \cup {None},
              S \in SUBSET Ad :
             /\ Begin(s, o, p, a, u, S)
             /\ \/ /\ p = "start" /\ o \in VerdictOps
                   /\ a \in Ad /\ u = Owner[a] /\ Status(a) # "none"
                   /\ o = "submit" => standing[u] # "withdrawn"
                \/ p = "start" /\ o = "withdraw" /\ u \in User
                \/ p = "reap" /\ o \notin VerdictOps \cup {"withdraw"}
    <3>1. ASSUME NEW a \in Ad, PassGate(s, a)
          PROVE  <2>1!2
      <4>1. PICK o \in {"submit", "reactivate"} : Begin(s, o, "start", a, Owner[a], {})
        BY <3>1 DEF PassGate
      <4>2. o \in Op /\ o \in VerdictOps /\ "start" \in Step /\ {} \in SUBSET Ad
            /\ Owner[a] \in User
        BY OwnerAssumption DEF Op, VerdictOps, Step
      <4>3. Status(a) # "none" /\ standing[Owner[a]] # "withdrawn"
        BY <3>1 DEF PassGate
      <4>. QED
        BY <4>1, <4>2, <4>3
    <3>2. ASSUME NEW a \in Ad, OpenReview(s, a)
          PROVE  <2>1!2
      <4>1. PICK o \in {"approve", "admin_publish"} : Begin(s, o, "start", a, Owner[a], {})
        BY <3>2 DEF OpenReview
      <4>2. o \in Op /\ o \in VerdictOps /\ "start" \in Step /\ {} \in SUBSET Ad
            /\ Owner[a] \in User /\ o # "submit"
        BY OwnerAssumption DEF Op, VerdictOps, Step
      <4>. QED
        BY <3>2, <4>1, <4>2 DEF OpenReview
    <3>3. ASSUME NEW u \in User, BeginWithdraw(s, u)
          PROVE  <2>1!2
      <4>1. "withdraw" \in Op /\ "start" \in Step /\ {} \in SUBSET Ad
        BY DEF Op, Step
      <4>. QED
        BY <3>3, <4>1 DEF BeginWithdraw
    <3>4. ASSUME NEW u \in User, SelectDraft(s, u)
          PROVE  <2>1!2
      <4>1. PICK o \in {"create_draft", "delete_draft"} :
              Begin(s, o, "reap", None, u, {a \in AdsOf(u) : Status(a) = "draft"})
        BY <3>4 DEF SelectDraft
      <4>2. /\ o \in Op /\ o \notin VerdictOps \cup {"withdraw"} /\ "reap" \in Step
            /\ {a \in AdsOf(u) : Status(a) = "draft"} \in SUBSET Ad
        BY DEF Op, VerdictOps, Step, AdsOf
      <4>. QED
        BY <4>1, <4>2
    <3>5. ASSUME NEW cmd \in DOMAIN SweptStatus, SelectOverdue(s, cmd)
          PROVE  <2>1!2
      <4>. DEFINE S == {a \in Ad : Status(a) = SweptStatus[cmd] /\ overdue[a]}
      <4>1. /\ cmd \in Op /\ cmd \notin VerdictOps \cup {"withdraw"}
            /\ "reap" \in Step /\ S \in SUBSET Ad
        BY DEF Op, VerdictOps, Step, SweptStatus
      <4>2. Begin(s, cmd, "reap", None, None, S)
        BY <3>5 DEF SelectOverdue
      <4>. QED
        BY <4>1, <4>2
    <3>6. UNCHANGED <<row, standing, locks>>
      BY <1>4 DEF Open, PassGate, OpenReview, BeginWithdraw, SelectDraft, SelectOverdue, ads
    <3>. QED
      BY <1>4, <3>1, <3>2, <3>3, <3>4, <3>5, <3>6 DEF Open
  <2>2. \A t \in Session \ {s} : Undisturbed(t)
    BY <2>1, QuietSteps
  <2>3. SessionInv(s)'
    BY <2>1, Begun
  <2>. QED
    BY <1>2, <2>2, <2>3
<1>5. ASSUME NEW s \in Session, UNCHANGED <<row, standing>>,
             \/ End(s) \/ LockAd(s) \/ Moderate(s) \/ LockOwner(s) \/ Recount(s)
             \/ EraseProfile(s) \/ ListAds(s) \/ (\E a \in Ad : DeleteNext(s, a))
             \/ LockTimeoutInPublish(s)
      PROVE  \A t \in Session : SessionInv(t)'
  <2>1. \A t \in Session \ {s} : Undisturbed(t)
    BY <1>5, QuietSteps
  <2>2. SessionInv(s)'
    BY <1>5, Ended, Deciders, Withdrawers
  <2>. QED
    BY <1>2, <2>1, <2>2
<1>6. ASSUME NEW s \in Session, TimeOut(s) \/ Crash(s)
      PROVE  \A t \in Session : SessionInv(t)'
  BY <1>5, <1>6 DEF TimeOut, LockTimeout, LockTimeoutInPublish, Crash, ads
<1>7. ASSUME NEW s \in Session,
             \/ Commit(s) \/ CommitWithdrawal(s) \/ Reap(s)
             \/ \E a \in Ad : CreateDraft(s, a)
      PROVE  \A t \in Session : SessionInv(t)'
  <2>1. End(s)
    BY <1>7 DEF Commit, CommitWithdrawal, Reap, CreateDraft, Replaced
  <2>2. \A t \in Session \ {s} : Undisturbed(t)
    BY <1>7, Committed, WithdrawalCommitted, Reaped, DraftCreated
  <2>. QED
    BY <1>2, <2>1, <2>2, Ended
<1>8. ASSUME NEW s \in Session, Advance(s)
      PROVE  \A t \in Session : SessionInv(t)'
  BY <1>5, <1>7, <1>8 DEF Advance, LockAd, Refuse, Moderate, LockOwner, Recount,
     EraseProfile, ListAds, DeleteNext, OutOfKeys, ads
<1>9. ASSUME NEW a \in Ad,
             \/ ArchiveSweep(a) \/ ArchiveByOwner(a) \/ SoftDelete(a)
             \/ Reject(a) \/ SendToReview(a)
      PROVE  \A t \in Session : SessionInv(t)'
  BY <1>3, <1>9, Shorts
<1>10. CASE \/ \E a \in Ad : RestartClock(a) \/ TouchDraft(a) \/ Outstay(a)
            \/ \E u \in User : Bar(u)
            \/ UNCHANGED vars
  <2>1. UNCHANGED <<row, locks, session>>
        /\ \A u \in User : standing'[u] = "withdrawn" => standing[u] = "withdrawn"
    BY <1>10 DEF RestartClock, TouchDraft, Outstay, Bar, ads, vars, locks, session, TypeOK
  <2>. QED
    BY <1>3, <2>1, OwnerAssumption DEF Undisturbed, Status, locks, session
<1>. QED
  BY <1>4, <1>6, <1>8, <1>9, <1>10 DEF Next
-----------------------------------------------------------------------------
(***************************************************************************)
(* Locks                                                                   *)
(***************************************************************************)

\* What a step of s does to the locks: it gives all of its own up and ends, or
\* goes on and takes none but for itself.
Holds(s) ==
  /\ \A t \in Session \ {s} : pc'[t] = pc[t]
  /\ \A a \in Ad : rowLock'[a] \in {rowLock[a], s, None}
  /\ \A u \in User : userLock'[u] \in {userLock[u], s, None}
  /\ \/ pc'[s] # "idle"
     \/ /\ \A a \in Ad : rowLock'[a] # s
        /\ \A u \in User : userLock'[u] # s

(* An end gives all locks up.                                              *)
LEMMA EndHolds == ASSUME TypeOK, NEW s \in Session, End(s) PROVE Holds(s)
BY NoneAssumption DEF End, Holds, TypeOK

(* A request that goes on locks for itself.                                *)
LEMMA AdvanceHolds ==
  ASSUME TypeOK, NEW s \in Session, Open(s) \/ Advance(s) \/ TimeOut(s) \/ Crash(s)
  PROVE  Holds(s)
<1>1. CASE Open(s)
  BY <1>1 DEF Open, PassGate, OpenReview, BeginWithdraw, SelectDraft, SelectOverdue,
     Begin, locks, Holds, TypeOK
<1>2. CASE \/ Refuse(s) \/ Commit(s) \/ CommitWithdrawal(s) \/ Reap(s) \/ OutOfKeys(s)
           \/ \E a \in Ad : CreateDraft(s, a)
  BY <1>2, EndHolds DEF Refuse, Commit, CommitWithdrawal, Reap, OutOfKeys, CreateDraft
<1>3. CASE LockAd(s) \/ Moderate(s) \/ LockOwner(s) \/ Recount(s)
  BY <1>3 DEF LockAd, Moderate, LockOwner, Recount, Decide, Goto, locks, Holds, TypeOK
<1>4. CASE EraseProfile(s) \/ ListAds(s) \/ \E a \in Ad : DeleteNext(s, a)
  BY <1>4 DEF EraseProfile, ListAds, DeleteNext, Goto, locks, Holds, TypeOK
<1>5. CASE LockTimeout(s) \/ Crash(s)
  BY <1>5, EndHolds DEF LockTimeout, Crash
<1>6. CASE LockTimeoutInPublish(s)
  BY <1>6, EndHolds DEF LockTimeoutInPublish, Decide, Goto, locks, Holds, TypeOK
<1>. QED
  BY <1>1, <1>2, <1>3, <1>4, <1>5, <1>6 DEF Advance, TimeOut

(* Every step leaves each lock with somebody who will give it up.          *)
LEMMA StepLocks ==
  ASSUME TypeOK, LocksHaveHolders, [Next]_vars
  PROVE  LocksHaveHolders'
<1>1. ASSUME NEW s \in Session, Holds(s)
      PROVE  LocksHaveHolders'
  BY <1>1, NoneAssumption DEF Holds, LocksHaveHolders, TypeOK
<1>2. ASSUME NEW a \in Ad,
             \/ ArchiveSweep(a) \/ ArchiveByOwner(a) \/ SoftDelete(a) \/ Reject(a)
             \/ SendToReview(a) \/ RestartClock(a) \/ TouchDraft(a) \/ Outstay(a)
      PROVE  LocksHaveHolders'
  BY <1>2 DEF ArchiveSweep, ArchiveByOwner, SoftDelete, Reject, SendToReview,
     RestartClock, TouchDraft, Outstay, ShortTransition, locks, session, LocksHaveHolders
<1>3. ASSUME NEW u \in User, Bar(u)
      PROVE  LocksHaveHolders'
  BY <1>3 DEF Bar, locks, session, LocksHaveHolders
<1>4. CASE UNCHANGED vars
  BY <1>4 DEF vars, LocksHaveHolders
<1>. QED
  BY <1>1, <1>2, <1>3, <1>4, AdvanceHolds DEF Next

(***************************************************************************)
(* Theorems of the specification                                           *)
(***************************************************************************)

(* The empty table satisfies the inductive invariant.                      *)
LEMMA InitInvariant == Init => IInv
<1>. SUFFICES ASSUME Init
              PROVE  IInv
  OBVIOUS
<1>1. TypeOK
  BY InitType
<1>2. RowsOK
  BY DEF Init, RowsOK, RowOK, CheckConstraints, NoLeftoverClock, NoRow, Blank
<1>3. ASSUME NEW u \in User
      PROVE  Cardinality(Published(u)) <= MaxAds
  <2>1. Published(u) = {}
    BY DEF Init, Published, AdsOf, Status, Blank
  <2>. QED
    BY <2>1, FS_EmptySet, MaxAdsAssumption
<1>4. WithdrawnHidden /\ SingleDraft
  BY DEF Init, WithdrawnHidden, SingleDraft, Status, Blank, NoRow
<1>5. \A s \in Session : SessionInv(s)
  BY DEF Init, SessionInv, DecidesUnderLock, RoomIsReserved, MissesNoAd,
     KeepsWhatItWrote, DraftStuck, Deciding, VerdictOps
<1>6. LocksHaveHolders
  BY DEF Init, LocksHaveHolders
<1>. QED
  BY <1>1, <1>2, <1>3, <1>4, <1>5, <1>6 DEF IInv, QuotaKept

(* Every step keeps it.                                                    *)
LEMMA StepInvariant == IInv /\ [Next]_vars => IInv'
BY StepType, StepTable, StepSessions, StepLocks DEF IInv, TableInv

(* The inductive invariant holds in every reachable state: besides the     *)
(* promises below, what each transaction has read is still so when it      *)
(* commits.                                                                *)
THEOREM Invariance == Spec => []IInv
BY InitInvariant, StepInvariant, PTL DEF Spec

(* No interleaving of requests, moderators, sweeps and withdrawals breaks  *)
(* a CHECK constraint or leaves the clock of an earlier status behind.     *)
THEOREM RowsStayOK == Spec => []RowsOK
<1>1. IInv => RowsOK
  BY DEF IInv
<1>. QED
  BY <1>1, Invariance, PTL

(* However many publications race, no seller exceeds max_ads_per_user:     *)
(* the count under the owner's lock is the race-safe guard.                *)
THEOREM QuotaIsKept == Spec => []QuotaKept
<1>1. IInv => QuotaKept
  BY DEF IInv
<1>. QED
  BY <1>1, Invariance, PTL

(* A committed withdrawal leaves no ad of the seller in circulation, and   *)
(* no request that passed its gate before brings one back.                 *)
THEOREM WithdrawalHides == Spec => []WithdrawnHidden
<1>1. IInv => WithdrawnHidden
  BY DEF IInv
<1>. QED
  BY <1>1, Invariance, PTL

(* A seller never has two drafts.                                          *)
THEOREM OneDraft == Spec => []SingleDraft
<1>1. IInv => SingleDraft
  BY DEF IInv
<1>. QED
  BY <1>1, Invariance, PTL

\* A session can take its next step, or is in a wait that lock_timeout ends.
LEMMA GoesOnOrTimesOut ==
  ASSUME IInv, NEW s \in Session, pc[s] # "idle"
  PROVE  MayGoOn(s) \/ MayTimeOut(s)
<1>. USE DEF MayGoOn, MayTimeOut, Waits
<1>1. pc[s] \in Step \ {"idle"}
  BY DEF IInv, TypeOK
<1>2. CASE pc[s] = "start"
  <2>1. op[s] \in VerdictOps \cup {"withdraw"}
    BY <1>2 DEF IInv, SessionInv, MissesNoAd
  <2>. QED
    BY <1>2, <2>1 DEF VerdictOps
<1>3. CASE pc[s] = "publish"
  BY <1>3
<1>4. CASE pc[s] = "commit"
  BY <1>4
<1>5. CASE pc[s] = "delete"
  BY <1>5
<1>6. CASE pc[s] = "reap"
  BY <1>6 DEF Unlocked
<1>7. CASE pc[s] \in {"moderate", "count", "list"}
  BY <1>7
<1>. QED
  BY <1>1, <1>2, <1>3, <1>4, <1>5, <1>6, <1>7 DEF Step

(* No request waits for ever, and no request, timeout or crash leaves a    *)
(* lock behind: who has begun can go on or is in a wait that ends, and so  *)
(* is the holder of every lock, although locks are taken in two orders.    *)
THEOREM NobodyIsStuck == Spec => []NobodyWaitsForEver
<1>1. IInv => NobodyWaitsForEver
  BY GoesOnOrTimesOut DEF NobodyWaitsForEver, IInv
<1>. QED
  BY <1>1, Invariance, PTL

-----------------------------------------------------------------------------
(***************************************************************************)
(* How one row moves in one step                                           *)
(***************************************************************************)

\* Nothing, a hard deletion, an insertion, a transition the matrix allows, or
\* two of them: to the review queue and on to its verdict.
RowMoves(a) ==
  \/ row'[a] = row[a]
  \/ row'[a] = Blank("erased")
  \/ Status(a) = "none" /\ row'[a] = NewDraft
  \/ \E to \in AdStatus \ {"draft"} :
        \/ MayTransition(row[a], to) /\ row'[a] = TransitionTo(row[a], to)
        \/ /\ MayTransition(row[a], "on_moderation")
           /\ Status(a) \in {"draft", "published", "archived"}
           /\ row'[a] = TransitionTo(TransitionTo(row[a], "on_moderation"), to)

(* Every step moves every row in one of these ways.                        *)
LEMMA StepRows ==
  ASSUME IInv, [Next]_vars, NEW a \in Ad
  PROVE  RowMoves(a)
<1>1. ASSUME NEW s \in Session, Commit(s)
      PROVE  RowMoves(a)
  <2>. DEFINE r == UnderReview(op[s], row[a])
  <2>1. CASE a # target[s] \/ ~Moves(op[s], verdict[s], row[target[s]])
    BY <1>1, <2>1 DEF Commit, IInv, TypeOK, RowMoves
  <2>2. CASE a = target[s] /\ Moves(op[s], verdict[s], row[target[s]])
    <3>1. row'[a] = TransitionTo(r, Goal(verdict[s]))
      BY <1>1, <2>2 DEF Commit, IInv, TypeOK
    <3>2. Goal(verdict[s]) \in AdStatus \ {"draft"} /\ MayTransition(r, Goal(verdict[s]))
      BY <2>2 DEF Moves, Goal, AdStatus
    <3>3. CASE op[s] \in {"submit", "reactivate"}
      <4>1. Status(a) \in {"draft", "published", "archived"}
        BY <1>1, <2>2, <3>3 DEF IInv, SessionInv, DecidesUnderLock, Deciding,
           Commit, Accepts
      <4>2. MayTransition(row[a], "on_moderation")
        BY <4>1 DEF MayTransition, Status, ALLOWED_TRANSITIONS, AdStatus
      <4>. QED
        BY <3>1, <3>2, <3>3, <4>1, <4>2 DEF UnderReview, RowMoves
    <3>4. CASE op[s] \notin {"submit", "reactivate"}
      BY <3>1, <3>2, <3>4 DEF UnderReview, RowMoves
    <3>. QED
      BY <3>3, <3>4
  <2>. QED
    BY <2>1, <2>2
<1>2. ASSUME NEW s \in Session, CommitWithdrawal(s)
      PROVE  RowMoves(a)
  <2>1. a \in done[s] => MayTransition(row[a], "deleted")
    BY DEF IInv, SessionInv, KeepsWhatItWrote
  <2>2. "deleted" \in AdStatus \ {"draft"}
    BY DEF AdStatus
  <2>. QED
    BY <1>2, <2>1, <2>2 DEF CommitWithdrawal, RowMoves
<1>3. ASSUME NEW s \in Session, Reap(s)
      PROVE  RowMoves(a)
  BY <1>3 DEF Reap, Erase, RowMoves
<1>4. ASSUME NEW s \in Session, NEW new \in Ad, CreateDraft(s, new)
      PROVE  RowMoves(a)
  BY <1>4 DEF CreateDraft, Replaced, Erase, RowMoves, IInv, TypeOK
<1>5. ASSUME NEW b \in Ad, NEW from,
             NEW to \in AdStatus \ {"draft"}, ShortTransition(b, from, to),
             \A f \in from : f \in AdStatus \ {"deleted"}
                             /\ (to = "deleted" \/ to \in ALLOWED_TRANSITIONS[f])
      PROVE  RowMoves(a)
  BY <1>5 DEF ShortTransition, RowMoves, MayTransition, Status, IInv, TypeOK
<1>6. ASSUME NEW b \in Ad, ArchiveSweep(b) \/ ArchiveByOwner(b)
      PROVE  RowMoves(a)
  BY <1>5, <1>6 DEF ArchiveSweep, ArchiveByOwner, ALLOWED_TRANSITIONS, AdStatus
<1>7. ASSUME NEW b \in Ad, SoftDelete(b)
      PROVE  RowMoves(a)
  <2>1. ShortTransition(b, AdStatus \ {"deleted"}, "deleted")
        /\ "deleted" \in AdStatus \ {"draft"}
    BY <1>7 DEF SoftDelete, AdStatus
  <2>. QED
    BY <1>5, <2>1
<1>8. ASSUME NEW b \in Ad, Reject(b)
      PROVE  RowMoves(a)
  BY <1>5, <1>8 DEF Reject, ALLOWED_TRANSITIONS, AdStatus
<1>9. ASSUME NEW b \in Ad, SendToReview(b)
      PROVE  RowMoves(a)
  BY <1>5, <1>9 DEF SendToReview, ALLOWED_TRANSITIONS, AdStatus
<1>10. CASE LeavesTable
  BY <1>10 DEF LeavesTable, RowMoves
<1>. QED
  BY <1>1, <1>2, <1>3, <1>4, <1>6, <1>7, <1>8, <1>9, <1>10, StepKinds DEF IInv

\* An ad that failed, was rejected or was deleted is never in circulation
\* again: neither a stale request nor a late verdict revives it.
LEMMA NoStepBack ==
  ASSUME IInv, [Next]_vars, NEW a \in Ad
  PROVE  NoWayBack(a)
<1>1. RowMoves(a)
  BY StepRows
<1>2. row[a] \in Row
  BY DEF IInv, TypeOK
<1>3. ASSUME NEW to \in AdStatus \ {"draft"}, MayTransition(row[a], to),
             row'[a] = TransitionTo(row[a], to)
      PROVE  NoWayBack(a)
  <2>1. row'[a].status = to
    BY <1>2, <1>3, TransitionStatus
  <2>. QED
    BY <1>3, <2>1 DEF NoWayBack, MayTransition, ALLOWED_TRANSITIONS, Status, AdStatus
<1>. QED
  BY <1>1, <1>3 DEF RowMoves, NoWayBack, Status, Blank

\* The first publication instant of an ad survives as long as its row.
LEMMA AnchorSurvives ==
  ASSUME IInv, [Next]_vars, NEW a \in Ad
  PROVE  AnchorStays(a)
<1>1. \A r, t : t \in AdStatus \ {"draft"} /\ "original_published_at" \in r.stamps
        => "original_published_at" \in TransitionTo(r, t).stamps
  BY DEF TransitionTo, Cleared, Stamped, AdStatus
<1>2. RowMoves(a)
  BY StepRows
<1>3. Status(a) = "none" => "original_published_at" \notin row[a].stamps
  BY DEF Status, IInv, RowsOK, RowOK, NoLeftoverClock, NoRow
<1>4. "on_moderation" \in AdStatus \ {"draft"}
  BY DEF AdStatus
<1>. QED
  BY <1>1, <1>2, <1>3, <1>4 DEF RowMoves, Blank, AnchorStays

(* What has happened to an ad stays, whichever requests, sweeps and        *)
(* withdrawals meet over it: final states, and the first publication.      *)
THEOREM HistoryHolds == Spec => HistoryKept
<1>1. IInv /\ [Next]_vars => [\A a \in Ad : NoWayBack(a) /\ AnchorStays(a)]_vars
  BY NoStepBack, AnchorSurvives
<1>. QED
  BY <1>1, Invariance, PTL DEF Spec, HistoryKept

-----------------------------------------------------------------------------
(***************************************************************************)
(* The board                                                               *)
(***************************************************************************)

(* Every step is a step of the board or changes nothing on it.             *)
LEMMA BoardStep ==
  ASSUME IInv, [Next]_vars
  PROVE  [Board!BoardNext]_(Board!bvars)
<1>. DEFINE board == {a \in Ad : Status(a) = "published"}
            gone == {u \in User : standing[u] = "withdrawn"}
<1>. USE OwnerAssumption DEF IInv
<1>1. ASSUME NEW S \in SUBSET Ad, board' = board \ S, gone' = gone
      PROVE  Board!BoardNext
  BY <1>1 DEF Board!BoardNext, Board!TakeDown
<1>2. ASSUME board' \subseteq board, gone' = gone
      PROVE  Board!BoardNext
  <2>1. board' = board \ (board \ board') /\ board \ board' \in SUBSET Ad
    BY <1>2
  <2>. QED
    BY <1>1, <1>2, <2>1
<1>3. ASSUME NEW s \in Session, Commit(s)
      PROVE  Board!BoardNext
  <2>. DEFINE a == target[s]
  <2>1. /\ a \in Ad /\ Owner[a] \in User /\ standing[Owner[a]] # "withdrawn"
        /\ gone' = gone
    BY <1>3, OwnerStays DEF Commit, Deciding
  <2>2. /\ \A b \in Ad \ {a} : row'[b] = row[b]
        /\ row'[a].status = "published" =>
              Cardinality(Published(Owner[a]) \ {a}) < MaxAds
              \/ Status(a) = "published"
    BY <1>3, Committed DEF TableInv
  <2>3. CASE row'[a].status = "published" /\ Status(a) # "published"
    <3>1. board' = board \cup {a} /\ a \notin board
      BY <2>1, <2>2, <2>3 DEF Status
    <3>2. {b \in board : Owner[b] = Owner[a]} = Published(Owner[a]) \ {a}
      BY <2>3 DEF Published, AdsOf, Status
    <3>3. Cardinality({b \in board : Owner[b] = Owner[a]}) < MaxAds
      BY <2>2, <2>3, <3>2
    <3>4. Board!PutUp(a)
      BY <2>1, <3>1, <3>3 DEF Board!PutUp, Cardinality, Board!Cardinality
    <3>. QED
      BY <2>1, <3>4 DEF Board!BoardNext
  <2>4. CASE ~(row'[a].status = "published" /\ Status(a) # "published")
    <3>1. board' \subseteq board
      BY <2>1, <2>2, <2>4 DEF Status
    <3>. QED
      BY <1>2, <2>1, <3>1
  <2>. QED
    BY <2>3, <2>4
<1>4. ASSUME NEW s \in Session, CommitWithdrawal(s)
      PROVE  Board!BoardNext
  <2>1. /\ \A a \in AdsOf(who[s]) : row'[a].status \in Gone
        /\ \A a \in Ad : Owner[a] # who[s] => row'[a] = row[a]
    BY <1>4, WithdrawalCommitted DEF TableInv
  <2>2. board' = {a \in board : Owner[a] # who[s]}
    BY <2>1 DEF Status, AdsOf, Gone, NoRow
  <2>3. who[s] \in User
    BY <1>4 DEF CommitWithdrawal, SessionInv, MissesNoAd
  <2>4. gone' = gone \cup {who[s]}
    BY <1>4, <2>3 DEF CommitWithdrawal, TypeOK
  <2>. QED
    BY <2>2, <2>3, <2>4 DEF Board!Leave, Board!BoardNext
<1>5. ASSUME NEW s \in Session, Reap(s)
      PROVE  Board!BoardNext
  <2>1. board' \subseteq board /\ gone' = gone
    BY <1>5 DEF Reap, Erase, Blank, Status
  <2>. QED
    BY <1>2, <2>1
<1>6. ASSUME NEW s \in Session, NEW new \in Ad, CreateDraft(s, new)
      PROVE  Board!BoardNext
  <2>1. \A a \in Ad : row'[a] = row[a] \/ row'[a].status \in {"erased", "draft"}
    BY <1>6 DEF CreateDraft, Replaced, Erase, Blank, NewDraft, TypeOK
  <2>2. board' \subseteq board /\ gone' = gone
    BY <1>6, <2>1 DEF CreateDraft, Replaced, Status
  <2>. QED
    BY <1>2, <2>2
<1>7. ASSUME NEW a \in Ad,
             \/ ArchiveSweep(a) \/ ArchiveByOwner(a) \/ SoftDelete(a)
             \/ Reject(a) \/ SendToReview(a)
      PROVE  Board!BoardNext
  <2>1. PICK to \in AdStatus \ {"draft", "published"} :
          row' = [row EXCEPT ![a] = TransitionTo(row[a], to)] /\ UNCHANGED standing
    BY <1>7 DEF ArchiveSweep, ArchiveByOwner, SoftDelete, Reject, SendToReview,
       ShortTransition, AdStatus
  <2>2. row'[a].status # "published" /\ \A b \in Ad \ {a} : row'[b] = row[b]
    BY <2>1, TransitionStatus DEF TypeOK
  <2>3. board' \subseteq board /\ gone' = gone
    BY <2>1, <2>2 DEF Status
  <2>. QED
    BY <1>2, <2>3
<1>8. CASE LeavesTable
  <2>1. board' = board /\ gone' = gone
    BY <1>8 DEF LeavesTable, Status
  <2>. QED
    BY <2>1 DEF Board!bvars
<1>. QED
  BY <1>3, <1>4, <1>5, <1>6, <1>7, <1>8, StepKinds

(* The ads service implements the public board: whatever the interleaving, *)
(* buyers see ads appear one by one, within the quota of a seller who has  *)
(* not left, and all ads of a leaving seller vanish in one step.           *)
THEOREM BoardImplemented == Spec => ImplementsBoard
<1>1. Init => Board!BoardInit
  BY OwnerAssumption DEF Init, Board!BoardInit, Status, Blank
<1>2. IInv /\ [Next]_vars => [Board!BoardNext]_(Board!bvars)
  BY BoardStep
<1>. QED
  BY <1>1, <1>2, Invariance, PTL DEF Spec, ImplementsBoard, Board!BoardSpec
(* On a public board the quota holds and the gone have no ads: what         *)
(* ImplementsBoard promises is worth having.                                *)
THEOREM BoardKeepsItsWord == Board!BoardSpec => []Board!BoardHolds
<1>. DEFINE Of(b, u) == {a \in b : Owner[a] = u}
            Worthy(b, g) == /\ b \subseteq Ad
                           /\ \A u \in User : Cardinality(Of(b, u)) <= MaxAds
                           /\ \A a \in b : Owner[a] \notin g
<1>1. ASSUME NEW b, NEW g, NEW c, NEW h, Worthy(b, g), NEW a \in Ad,
             Owner[a] \notin g, Cardinality(Of(b, Owner[a])) < MaxAds, a \notin b,
             c = b \cup {a}, h = g
      PROVE  Worthy(c, h)
  <2>1. ASSUME NEW u \in User PROVE Cardinality(Of(c, u)) <= MaxAds
    <3>1. IsFiniteSet(Of(b, u))
      <4>1. Of(b, u) \subseteq Ad  BY <1>1
      <4>. QED  BY <4>1, AdsAreFinite, FS_Subset
    <3>2. CASE u = Owner[a]
      <4>1. Of(c, u) = Of(b, u) \cup {a} /\ a \notin Of(b, u)  BY <1>1, <3>2
      <4>. HIDE DEF Of
      <4>2. Cardinality(Of(c, u)) = Cardinality(Of(b, u)) + 1
        BY <3>1, <4>1, FS_AddElement
      <4>3. Cardinality(Of(b, u)) \in Nat  BY <3>1, FS_CardinalityType
      <4>. QED  BY <1>1, <3>2, <4>2, <4>3, MaxAdsAssumption
    <3>3. CASE u # Owner[a]
      <4>1. Of(c, u) = Of(b, u)  BY <1>1, <3>3
      <4>. QED  BY <1>1, <4>1
    <3>. QED  BY <3>2, <3>3
  <2>. QED  BY <1>1, <2>1
<1>2. ASSUME NEW b, NEW g, NEW c, NEW h, Worthy(b, g), c \subseteq b,
             \A a \in c : Owner[a] \notin h
      PROVE  Worthy(c, h)
  <2>1. ASSUME NEW u \in User PROVE Cardinality(Of(c, u)) <= MaxAds
    <3>1. Of(c, u) \subseteq Of(b, u) /\ Of(b, u) \subseteq Ad  BY <1>2
    <3>2. Cardinality(Of(b, u)) <= MaxAds  BY <1>2
    <3>. HIDE DEF Of
    <3>3. IsFiniteSet(Of(b, u))  BY <3>1, AdsAreFinite, FS_Subset
    <3>4. IsFiniteSet(Of(c, u)) /\ Cardinality(Of(c, u)) <= Cardinality(Of(b, u))
      BY <3>1, <3>3, FS_Subset
    <3>5. Cardinality(Of(c, u)) \in Nat /\ Cardinality(Of(b, u)) \in Nat
      BY <3>3, <3>4, FS_CardinalityType
    <3>. QED  BY <3>2, <3>4, <3>5, MaxAdsAssumption
  <2>. QED  BY <1>2, <2>1
<1>. DEFINE b == {a \in Ad : Status(a) = "published"}
            g == {u \in User : standing[u] = "withdrawn"}
<1>3. Board!BoardHolds <=> Worthy(b, g)
  BY DEF Board!BoardHolds, Cardinality, Board!Cardinality
<1>4. Board!BoardInit => Worthy(b, g)
  <2>. SUFFICES ASSUME b = {}, g = {} PROVE Worthy(b, g)
    BY DEF Board!BoardInit
  <2>1. ASSUME NEW u \in User PROVE Cardinality(Of(b, u)) <= MaxAds
    <3>1. Of(b, u) = {}  OBVIOUS
    <3>. QED  BY <3>1, FS_EmptySet, MaxAdsAssumption
  <2>. QED  BY <2>1
<1>5. Worthy(b, g) /\ [Board!BoardNext]_(Board!bvars) => Worthy(b', g')
  <2>. SUFFICES ASSUME Worthy(b, g), [Board!BoardNext]_(Board!bvars)
                PROVE  Worthy(b', g')
    OBVIOUS
    <2>1. ASSUME NEW a \in Ad, Board!PutUp(a) PROVE Worthy(b', g')
    <3>1. /\ Owner[a] \notin g /\ Cardinality(Of(b, Owner[a])) < MaxAds /\ a \notin b
          /\ b' = b \cup {a} /\ g' = g
      BY <2>1 DEF Board!PutUp, Cardinality, Board!Cardinality
    <3>. HIDE DEF Worthy, Of, b, g
    <3>. QED  BY <3>1, <1>1
  <2>2. ASSUME NEW S \in SUBSET Ad, Board!TakeDown(S) PROVE Worthy(b', g')
    <3>1. b' = b \ S /\ g' = g  BY <2>2 DEF Board!TakeDown
    <3>2. \A a \in b : Owner[a] \notin g  OBVIOUS
    <3>. HIDE DEF Worthy, Of, b, g
    <3>. QED  BY <3>1, <3>2, <1>2
  <2>3. ASSUME NEW u \in User, Board!Leave(u) PROVE Worthy(b', g')
    <3>1. b' = {a \in b : Owner[a] # u} /\ g' = g \cup {u}  BY <2>3 DEF Board!Leave
    <3>2. \A a \in b : Owner[a] \notin g  OBVIOUS
    <3>. HIDE DEF Worthy, Of, b, g
    <3>. QED  BY <3>1, <3>2, <1>2
  <2>4. CASE UNCHANGED Board!bvars
    BY <2>4 DEF Board!bvars
  <2>. QED  BY <2>1, <2>2, <2>3, <2>4 DEF Board!BoardNext
<1>6. Worthy(b', g') <=> Board!BoardHolds'
  BY DEF Board!BoardHolds, Cardinality, Board!Cardinality
<1>. HIDE DEF Worthy, b, g
<1>. QED
  BY <1>3, <1>4, <1>5, <1>6, PTL DEF Board!BoardSpec
=============================================================================
