---------------------------- MODULE ModerationDesk ----------------------------
(***************************************************************************)
(* The requests that work on ads and sellers of the same site at once:     *)
(* moderators on the review page, the bulk endpoint, the bulk actions and  *)
(* the change form of the admin site; sellers who edit their ads; the      *)
(* change of an exchange rate and the command that recomputes prices.      *)
(*                                                                         *)
(* Each request is a session of PostgreSQL at READ COMMITTED.  A row it    *)
(* has locked is in its `work' until it commits, and its audit rows and    *)
(* bans are pending as long.  A locking SELECT and an UPDATE wait for the  *)
(* row and then look at the committed one; other reads do not wait.        *)
(***************************************************************************)
EXTENDS AdRow, Naturals, FiniteSets, FiniteSetsExt, Functions

CONSTANTS
  User, Ad,    \* accounts; primary keys of ads
  Owner,       \* [Ad -> User]
  Privileged,  \* staff and superusers
  Super,       \* superusers
  MaxAds,      \* ModerationCriteria.max_ads_per_user
  Session,     \* requests
  Starts,      \* the situations to look at: [ads, score, req]
  MaxFaults,   \* bound: calls of an unreachable cache
  None

ASSUME DeskOwners == Owner \in [Ad -> User] /\ Ad \subseteq Nat
ASSUME DeskStaff == Super \subseteq Privileged /\ Privileged \subseteq User
ASSUME DeskBounds == MaxAds \in Nat /\ MaxFaults \in Nat
ASSUME DeskFinite == IsFiniteSet(Ad) /\ IsFiniteSet(User) /\ IsFiniteSet(Session)
ASSUME DeskNone == None \notin Session /\ None \notin Nat

VARIABLES
  ads,         \* [Ad -> AdRec], the committed rows
  banned,      \* SUBSET User, committed
  priority,    \* [Ad -> AdPriorityLevel or None], committed
  audit,       \* rows of ModeratorActionLog: <<action, ad or account, session>>
  rate,        \* the committed exchange rate, numbered from 0
  cached,      \* the rate in the shared cache, or None
  rowLock,     \* [Ad -> Session or None]
  userLock,    \* [User -> Session or None]
  req,         \* [Session -> Req], what it was asked
  ses,         \* [Session -> Ses], how far it is
  byHand,      \* history: ads whose content or publication a form entered, or
               \* that a form asked to be drafts: its content stays, the rest not
  overwritten, \* history: ads on which a form put what it had loaded earlier
  repriced,    \* history: [Ad -> Nat], the latest rate a recomputation used
  lapsed,      \* history: has the cache held a rate that was no more the rate
  faults

desk == <<ads, banned, priority, audit, byHand, overwritten, repriced>>
locks == <<rowLock, userLock>>
money == <<rate, cached, lapsed>>
vars == <<desk, money, locks, req, ses, faults>>

\* text: does it meet the criteria; norm: the amount and the rate that
\* price_normalized_eur was computed from, or None.
AdRec == [row : Row, text : {"fit", "unfit"}, amount : Nat,
          norm : (Nat \X Nat) \cup {None}]

\* way: the surface the request came by; by: who sent it; to: the new content
\* or status of a form or an edit.
Req == [way : {"view", "api", "bulk", "form", "seller", "command", "rates"},
        deed : {"approve", "reject", "flag", "delete", "ban", "edit", "save",
                "recompute", "set"},
        by : User \cup {None}, ads : SUBSET Ad,
        to : {"nothing", "fit", "unfit", "price", "reactivate"} \cup AdStatus]

\* What each surface offers: the review page, the change form and the edit page
\* are of one ad.
Offered(r) ==
  /\ CASE r.way = "view" -> r.deed \in {"approve", "reject", "ban"}
       [] r.way = "api" -> r.deed \in {"approve", "reject", "flag"}
       [] r.way = "bulk" -> r.deed \in {"approve", "reject", "delete", "ban"}
       [] r.way = "form" -> r.deed = "save"
       [] r.way = "seller" -> r.deed = "edit"
       [] r.way = "command" -> r.deed = "recompute"
       [] r.way = "rates" -> r.deed = "set"
  /\ r.way \in {"view", "form", "seller"} => \E a \in Ad : r.ads = {a}

AdPriorityLevel == {"low", "medium", "high"}

\* A row as the program leaves it: its CHECK constraints hold, what is public
\* has met the criteria, and the normalized price is that of the price; and no
\* seller has more ads published than the cap allows.
Sound(r) ==
  /\ r \in AdRec /\ CheckConstraints(r.row)
  /\ r.row.status = "published" => r.text = "fit"
  /\ r.norm = None \/ r.norm[1] = r.amount

ASSUME DeskStarts ==
  \A start \in Starts :
    /\ start.ads \in [Ad -> AdRec] /\ \A a \in Ad : Sound(start.ads[a])
    /\ \A u \in User : Cardinality({a \in Ad : /\ Owner[a] = u
                         /\ start.ads[a].row.status = "published"}) <= MaxAds
    /\ start.req \in [Session -> Req] /\ \A s \in Session : Offered(start.req[s])
    /\ start.score \in [Ad -> AdPriorityLevel \cup {None}]

At == {"start", "lock", "work", "judge", "owner", "count", "rate", "query", "fill",
       "apply", "aim", "peek", "save", "stamp", "route", "commit", "end"}

\* What is written beside the rows: scores, and audit rows.
Remark == AdPriorityLevel \cup {"fail", "publish", "reject", "delete", "ban"}

\* aim: accounts an UPDATE has still to visit; rate: the normalizer's memo;
\* seen: the instance a form loaded; count: what this transaction adds to the
\* number that is reported, total: what those before it have.
Ses == [at : At, todo : SUBSET Ad, held : SUBSET Ad, work : [Ad -> AdRec \cup {None}],
        aim : SUBSET User, notes : SUBSET (Remark \X (Ad \cup User) \X Session),
        bans : SUBSET User, rate : Nat \cup {None}, seen : AdRec \cup {None},
        count : Nat, total : Nat]

Fresh == [at |-> "start", todo |-> {}, held |-> {}, work |-> [a \in Ad |-> None],
           aim |-> {}, notes |-> {}, bans |-> {}, rate |-> None, seen |-> None,
           count |-> 0, total |-> 0]

Init ==
  /\ \E start \in Starts : ads = start.ads /\ req = start.req /\ priority = start.score
  /\ banned = {} /\ audit = {} /\ byHand = {} /\ overwritten = {}
  /\ repriced = [a \in Ad |-> 0]
  /\ rate = 0 /\ cached = None /\ lapsed = "no"
  /\ rowLock = [a \in Ad |-> None] /\ userLock = [u \in User |-> None]
  /\ ses = [s \in Session |-> Fresh]
  /\ faults = 0

-----------------------------------------------------------------------------
(* Helpers *)

Pc(s) == ses[s].at
Goto(s, p) == ses' = [ses EXCEPT ![s].at = p]
Deed(s) == req[s].deed
Way(s) == req[s].way

\* The ad at hand, of those in hand: in the order of the primary keys.
Here(s) == Min(ses[s].held)
Mine(s) == ses[s].work[Here(s)]

\* A row as session s sees it.
Seen(s, a) == IF rowLock[a] = s THEN ses[s].work[a] ELSE ads[a]

\* s is done with the ad at hand, whose row is now `r'.
After(s) == IF ses[s].held = {Here(s)} THEN "commit" ELSE "work"
Leave(s, r, notes, n) ==
  ses' = [ses EXCEPT ![s].work[Here(s)] = r, ![s].notes = @ \cup notes,
                     ![s].count = @ + n, ![s].held = @ \ {Here(s)},
                     ![s].at = After(s)]
Skip(s) == Leave(s, Mine(s), {}, 0)

Note(action, x, s) == {<<action, x, s>>}
Moved(r, to) == [r EXCEPT !.row = TransitionTo(@, to)]

Queued == {"on_moderation", "on_moderation_failed"}

\* Only the banned words of a text bring the score to 50: what the seller has
\* done adds up to 40 at most.
Levels(r) == IF r.text = "fit" THEN {"low"} ELSE AdPriorityLevel

\* The signal of a save of row r: an ad that is queued with no score gets one.
Scores(s, a, r) ==
  IF r.row.status = "on_moderation" /\ priority[a] = None
  THEN {{<<level, a, s>>} : level \in Levels(r)} ELSE {{}}

Release(s) ==
  /\ rowLock' = [a \in Ad |-> IF rowLock[a] = s THEN None ELSE rowLock[a]]
  /\ userLock' = [u \in User |-> IF userLock[u] = s THEN None ELSE userLock[u]]

\* A transaction of s is over, n more are counted: the next one has the ads
\* `left', or there is the answer.
Over(s, n, left) ==
  /\ ses' = [ses EXCEPT ![s] =
               [Fresh EXCEPT !.todo = left, !.rate = ses[s].rate,
                             !.total = ses[s].total + n,
                             !.at = IF left = {} THEN "end" ELSE "lock"]]
  /\ Release(s)

\* The request ends in an error.
Quit(s) == ses' = [ses EXCEPT ![s] = [Fresh EXCEPT !.at = "end"]] /\ Release(s)

-----------------------------------------------------------------------------
(* Finding and locking the ads *)

\* The status a locking SELECT asks for.
Eligible(s, r) ==
  /\ Way(s) \in {"view", "bulk"} /\ Deed(s) \in {"approve", "reject"} =>
       r.row.status \in Queued
  /\ Deed(s) = "delete" => r.row.status # "deleted"
  /\ Deed(s) = "recompute" => r.row.status # "draft"

\* RECOMPUTE_NORMALIZED_PRICES: the advisory lock of a whole recomputation.
Sweeping(s) ==
  /\ Deed(s) = "recompute"
  /\ \E t \in Session \ {s} : Deed(t) = "recompute" /\ Pc(t) \notin {"start", "end"}

\* A bulk action selects its ads, an edit asks for the seller's account, and
\* the others go for the rows at once.
Begin(s) ==
  /\ Pc(s) = "start" /\ ~Sweeping(s)
  /\ LET found == {a \in req[s].ads : Eligible(s, ads[a])} IN
     CASE Way(s) = "bulk" /\ Deed(s) # "ban" ->
            ses' = [ses EXCEPT ![s].todo = found,
                               ![s].at = IF found = {} THEN "end" ELSE "lock"]
       [] Way(s) = "bulk" /\ Deed(s) = "ban" -> Goto(s, "aim")
       [] Way(s) = "form" ->
            ses' = [ses EXCEPT ![s].at = "peek",
                               ![s].seen = ads[CHOOSE a \in req[s].ads : TRUE]]
       [] Way(s) = "rates" -> Goto(s, "save")
       [] Way(s) = "seller" /\ req[s].by \in banned -> Goto(s, "end")
       [] OTHER ->
            ses' = [ses EXCEPT ![s].todo = req[s].ads,
                               ![s].at = IF req[s].ads = {} THEN "end" ELSE "lock"]
  /\ UNCHANGED <<desk, money, locks, req, faults>>

\* SELECT ... FOR UPDATE on the next row: the status is looked at again once
\* the lock is granted.
Lock(s) ==
  LET a == Min(ses[s].todo)
      rest == ses[s].todo \ {a}
      more == Way(s) = "bulk" /\ rest # {}
  IN /\ Pc(s) = "lock" /\ rowLock[a] = None
     /\ IF Eligible(s, ads[a])
        THEN /\ rowLock' = [rowLock EXCEPT ![a] = s]
             /\ ses' = [ses EXCEPT ![s].todo = rest, ![s].held = @ \cup {a},
                                   ![s].work[a] = ads[a],
                                   ![s].at = IF more THEN "lock" ELSE "work"]
        ELSE /\ UNCHANGED rowLock
             /\ ses' = [ses EXCEPT ![s].todo = rest,
                                   ![s].at = IF more THEN "lock"
                                             ELSE IF ses[s].held # {} THEN "work"
                                             ELSE "commit"]
     /\ UNCHANGED <<desk, money, userLock, req, faults>>

Active(s, a) ==
  {b \in Ad \ {a} : Owner[b] = Owner[a]
                    /\ Seen(s, b).row.status \in {"published", "on_moderation"}}

Full(s, a) == Cardinality(Active(s, a)) >= MaxAds

-----------------------------------------------------------------------------
(* The verdicts *)

\* set_moderation_failed, or what the matrix makes of it.
Fail(s) ==
  IF MayTransition(Mine(s).row, "on_moderation_failed")
  THEN Leave(s, Moved(Mine(s), "on_moderation_failed"), Note("fail", Here(s), s), 0)
  ELSE Skip(s)

\* approve_ad goes on from an ad that is queued.
Approve(s) ==
  /\ Pc(s) = "work" /\ Deed(s) = "approve"
  /\ IF Mine(s).row.status \in Queued THEN Goto(s, "judge") ELSE Skip(s)
  /\ UNCHANGED <<desk, money, locks, req, faults>>

\* auto_moderate: the text as it is now, and a first look at the cap.
Judge(s) ==
  /\ Pc(s) = "judge"
  /\ IF Mine(s).text = "fit" /\ ~Full(s, Here(s)) THEN Goto(s, "owner") ELSE Fail(s)
  /\ UNCHANGED <<desk, money, locks, req, faults>>

\* set_published and ban_user_for_ad lock the owner's row.
LockOwner(s) ==
  LET u == Owner[Here(s)] IN
  /\ Pc(s) = "owner" /\ userLock[u] \in {None, s}
  /\ userLock' = [userLock EXCEPT ![u] = s]
  /\ Goto(s, "count")
  /\ UNCHANGED <<desk, money, rowLock, req, faults>>

\* The count under the owner's lock, and the transition.  What raises gives the
\* savepoint up, with the lock: unless an ad before it took the lock already.
Publish(s) ==
  LET a == Here(s)
      u == Owner[a]
      passes == ~Full(s, a) /\ MayTransition(Mine(s).row, "published")
      earlier == \E b \in Ad : Owner[b] = u /\ <<"publish", b, s>> \in ses[s].notes
  IN /\ Pc(s) = "count" /\ Deed(s) # "ban"
     /\ IF passes
        THEN Leave(s, Moved(Mine(s), "published"), Note("publish", a, s), 1)
        ELSE IF Way(s) = "form" THEN Skip(s) ELSE Fail(s)
     /\ userLock' = IF passes \/ earlier THEN userLock
                    ELSE [userLock EXCEPT ![u] = None]
     /\ UNCHANGED <<desk, money, rowLock, req, faults>>

\* reject_ad: an ad that is rejected is passed over, and counted; the matrix
\* refuses any other that is not queued.
Reject(s) ==
  /\ Pc(s) = "work" /\ Deed(s) = "reject"
  /\ CASE Mine(s).row.status = "rejected" -> Leave(s, Mine(s), {}, 1)
       [] MayTransition(Mine(s).row, "rejected") ->
            Leave(s, Moved(Mine(s), "rejected"), Note("reject", Here(s), s), 1)
       [] OTHER -> Skip(s)
  /\ UNCHANGED <<desk, money, locks, req, faults>>

\* FLAG of the bulk endpoint, whatever the status of the ad.
Flag(s) ==
  /\ Pc(s) = "work" /\ Deed(s) = "flag"
  /\ \E level \in Levels(Mine(s)) : Leave(s, Mine(s), {<<level, Here(s), s>>}, 1)
  /\ UNCHANGED <<desk, money, locks, req, faults>>

SoftDelete(s) ==
  /\ Pc(s) = "work" /\ Deed(s) = "delete"
  /\ Leave(s, Moved(Mine(s), "deleted"), Note("delete", Here(s), s), 1)
  /\ UNCHANGED <<desk, money, locks, req, faults>>

-----------------------------------------------------------------------------
(* Bans *)

\* _resolve_ban_targets: never oneself, and the privileged for superusers only.
Permitted(s) ==
  User \ ({req[s].by} \cup (IF req[s].by \in Super THEN {} ELSE Privileged))

ToOwner(s) ==
  /\ Pc(s) = "work" /\ Deed(s) = "ban" /\ Goto(s, "owner")
  /\ UNCHANGED <<desk, money, locks, req, faults>>

\* ban_user_for_ad, with the owner's row locked.
BanOwner(s) ==
  LET u == Owner[Here(s)] IN
  /\ Pc(s) = "count" /\ Deed(s) = "ban"
  /\ IF u \in Permitted(s) \ banned
     THEN ses' = [ses EXCEPT ![s].bans = {u}, ![s].notes = Note("ban", u, s),
                             ![s].count = 1, ![s].held = {}, ![s].at = "commit"]
     ELSE Skip(s)
  /\ UNCHANGED <<desk, money, locks, req, faults>>

\* bulk_ban_users: the audit rows of all whom the scope lets through now.
Aim(s) ==
  LET found == {Owner[a] : a \in req[s].ads} \cap (Permitted(s) \ banned) IN
  /\ Pc(s) = "aim" /\ ses[s].notes = {}
  /\ ses' = [ses EXCEPT ![s].aim = found,
                        ![s].notes = UNION {Note("ban", u, s) : u \in found},
                        ![s].at = IF found = {} THEN "commit" ELSE "aim"]
  /\ UNCHANGED <<desk, money, locks, req, faults>>

Visited(s, u) == IF ses[s].aim = {u} THEN "commit" ELSE "aim"

\* Mutant: the UPDATE goes by the keys that were read.
BanByKey(s) ==
  /\ Pc(s) = "aim"
  /\ \E u \in ses[s].aim :
       /\ userLock[u] = None
       /\ userLock' = [userLock EXCEPT ![u] = s]
       /\ ses' = [ses EXCEPT ![s].aim = @ \ {u}, ![s].at = Visited(s, u),
                             ![s].bans = @ \cup {u}, ![s].count = @ + 1]
  /\ UNCHANGED <<desk, money, rowLock, req, faults>>

\* One row of the UPDATE, in any order: a row somebody holds is waited for, and
\* is_banned = FALSE asked again.
BanNext(s) ==
  /\ Pc(s) = "aim"
  /\ \E u \in ses[s].aim :
       /\ userLock[u] = None
       /\ IF u \in banned
          THEN /\ ses' = [ses EXCEPT ![s].aim = @ \ {u}, ![s].at = Visited(s, u)]
               /\ UNCHANGED userLock
          ELSE /\ ses' = [ses EXCEPT ![s].aim = @ \ {u}, ![s].at = Visited(s, u),
                                     ![s].bans = @ \cup {u}, ![s].count = @ + 1]
               /\ userLock' = [userLock EXCEPT ![u] = s]
  /\ UNCHANGED <<desk, money, rowLock, req, faults>>

-----------------------------------------------------------------------------
(* Prices *)

Norm(s, amount) == IF ses[s].rate = None THEN None ELSE <<amount, ses[s].rate>>

Changed(s, r) ==
  LET to == req[s].to
      amount == IF to = "price" THEN r.amount + 1 ELSE r.amount
  IN [r EXCEPT !.text = IF to \in {"fit", "unfit"} THEN to ELSE @,
               !.amount = amount, !.norm = Norm(s, amount)]

\* What sends an edit through submit_ad.
Resubmits(s, r) ==
  \/ r.row.status = "archived" /\ req[s].to = "reactivate"
  \/ r.row.status = "published" /\ Changed(s, r).text # r.text

Refuses(s, r) ==
  IF Resubmits(s, r) THEN req[s].by \in banned
  ELSE r.row.status \notin {"draft", "on_moderation", "published"}

\* _get_current_rate: the normalizer's own memo, the shared cache, the table.
\* An edit that is refused -- by the status, or by submit_ad, which asks for the
\* account once more -- gets that far no more.
NeedRate(s) ==
  /\ Pc(s) = "work" /\ Deed(s) \in {"edit", "recompute"}
  /\ IF Deed(s) = "edit" /\ Refuses(s, Mine(s)) THEN Skip(s)
     ELSE Goto(s, IF ses[s].rate = None THEN "rate" ELSE "apply")
  /\ UNCHANGED <<desk, money, locks, req, faults>>

CacheGet(s) ==
  /\ Pc(s) = "rate"
  /\ IF cached = None THEN Goto(s, "query")
     ELSE ses' = [ses EXCEPT ![s].rate = cached, ![s].at = "apply"]
  /\ UNCHANGED <<desk, money, locks, req, faults>>

Query(s) ==
  /\ Pc(s) = "query"
  /\ ses' = [ses EXCEPT ![s].rate = rate, ![s].at = "fill"]
  /\ UNCHANGED <<desk, money, locks, req, faults>>

Lapsed == lapsed' = IF cached' # None /\ cached' < rate' THEN "yes" ELSE lapsed

CacheSet(s) ==
  /\ Pc(s) = "fill" /\ cached' = ses[s].rate /\ UNCHANGED rate /\ Lapsed
  /\ Goto(s, "apply")
  /\ UNCHANGED <<desk, locks, req, faults>>

\* The cache is unreachable: an edit goes on with no normalized price, the
\* command ends with the batches it has committed.
NoCache(s) ==
  /\ Pc(s) \in {"rate", "fill"} /\ faults < MaxFaults /\ faults' = faults + 1
  /\ IF Deed(s) = "edit"
     THEN /\ ses' = [ses EXCEPT ![s].rate = None, ![s].at = "apply"]
          /\ UNCHANGED locks
     ELSE Quit(s)
  /\ UNCHANGED <<desk, money, req>>

Expire ==
  /\ cached # None /\ cached' = None
  /\ UNCHANGED <<desk, rate, lapsed, locks, req, ses, faults>>

Recompute(s) ==
  /\ Pc(s) = "apply" /\ Deed(s) = "recompute"
  /\ Leave(s, [Mine(s) EXCEPT !.norm = Norm(s, Mine(s).amount)], {}, 0)
  /\ UNCHANGED <<desk, money, locks, req, faults>>

\* The save of a rate deletes the cached one before its transaction commits,
\* and passes over a cache it cannot reach.
SaveRate(s) ==
  /\ Pc(s) = "save" /\ Way(s) = "rates"
  /\ \/ cached' = None /\ UNCHANGED faults
     \/ faults < MaxFaults /\ faults' = faults + 1 /\ UNCHANGED cached
  /\ Goto(s, "commit")
  /\ UNCHANGED <<desk, rate, lapsed, locks, req>>

CommitRate(s) ==
  /\ Pc(s) = "commit" /\ Way(s) = "rates"
  /\ rate' = rate + 1 /\ UNCHANGED cached /\ Lapsed
  /\ Goto(s, "end")
  /\ UNCHANGED <<desk, locks, req, faults>>

-----------------------------------------------------------------------------
(* A seller's edit *)

\* apply_edit_payload: the ad is submitted again, or saved as it is.
Edit(s) ==
  LET r == Changed(s, Mine(s)) IN
  /\ Pc(s) = "apply" /\ Deed(s) = "edit"
  /\ IF Resubmits(s, Mine(s))
     THEN \E score \in Scores(s, Here(s), Moved(r, "on_moderation")) :
            ses' = [ses EXCEPT ![s].at = "judge", ![s].notes = score,
                               ![s].work[Here(s)] = Moved(r, "on_moderation")]
     ELSE \E score \in Scores(s, Here(s), r) : Leave(s, r, score, 0)
  /\ UNCHANGED <<desk, money, locks, req, faults>>

-----------------------------------------------------------------------------
(* The change form *)

TheAd(s) == CHOOSE a \in req[s].ads : TRUE
NewStatus(s) == req[s].to \in AdStatus /\ req[s].to # ses[s].seen.row.status

\* clean() keeps DELETED, and accepts neither REJECTED nor a failed ad.
Unclean(s) ==
  LET saw == ses[s].seen.row.status
      to == IF NewStatus(s) THEN req[s].to ELSE saw
  IN to \in {"rejected", "on_moderation_failed"} \/ (saw = "deleted" /\ to # saw)

\* The current status is read, without a lock, when the form changes it.
Peek(s) ==
  /\ Pc(s) = "peek"
  /\ CASE Unclean(s) -> Goto(s, "end")
       [] ~Unclean(s) /\ ~NewStatus(s) -> Goto(s, "save")
       [] OTHER -> ses' = [ses EXCEPT ![s].at = "stamp",
                             ![s].seen.row.status = ads[TheAd(s)].row.status]
  /\ UNCHANGED <<desk, money, locks, req, faults>>

\* What obj.save() writes: every column of the instance, and the cleaned fields:
\* a timestamp the new status asks for, a text or a price nothing recomputes.
Typed(s) ==
  LET r == ses[s].seen
      stamp == CASE req[s].to = "published" -> {"published_at"}
                 [] req[s].to = "archived" -> {"archived_at"}
                 [] req[s].to = "deleted" -> {"deleted_at"}
                 [] OTHER -> {}
  IN [r EXCEPT !.row.stamps = IF Pc(s) = "stamp" THEN @ \cup stamp ELSE @,
               !.text = IF req[s].to \in {"fit", "unfit"} THEN req[s].to ELSE @,
               !.amount = IF req[s].to = "price" THEN @ + 1 ELSE @]

\* The UPDATE waits for the row; a CHECK constraint may refuse it.
SaveForm(s) ==
  LET a == TheAd(s) IN
  /\ Pc(s) \in {"save", "stamp"} /\ Way(s) = "form" /\ rowLock[a] = None
  /\ IF CheckConstraints(Typed(s).row)
     THEN /\ rowLock' = [rowLock EXCEPT ![a] = s]
          /\ \E score \in Scores(s, a, Typed(s)) :
               ses' = [ses EXCEPT ![s].work[a] = Typed(s), ![s].held = {a},
                         ![s].notes = score,
                         ![s].at = IF @ = "stamp" THEN "route" ELSE "commit"]
     ELSE Goto(s, "end") /\ UNCHANGED rowLock
  /\ UNCHANGED <<desk, money, userLock, req, faults>>

\* _apply_status_change; a refusal is a message, and the save stands.
Route(s) ==
  LET r == Mine(s)
      to == req[s].to
  IN /\ Pc(s) = "route"
     /\ CASE r.row.status = to -> Skip(s)
          [] r.row.status # to /\ to = "published" -> Goto(s, "owner")
          [] r.row.status # to /\ to # "published" /\ MayTransition(r.row, to) ->
               \E score \in Scores(s, Here(s), Moved(r, to)) :
                 Leave(s, Moved(r, to),
                       IF to = "deleted" THEN Note("delete", Here(s), s)
                                         ELSE score, 0)
          [] OTHER -> Skip(s)
     /\ UNCHANGED <<desk, money, locks, req, faults>>

-----------------------------------------------------------------------------
(* The ends of a transaction *)

\* Audit and analytics rows refer to the seller, and their deferred foreign keys
\* wait for a seller's row that is locked FOR UPDATE; an UPDATE's lock is none.
ForUpdate(u, s) ==
  /\ userLock[u] \notin {None, s}
  /\ ~(Deed(userLock[u]) = "ban" /\ Way(userLock[u]) = "bulk")

RefersTo(s) ==
  {Owner[a] : a \in {b \in Ad : rowLock[b] = s /\ ses[s].work[b].row # ads[b].row}}
    \cup {u \in User : <<"ban", u, s>> \in ses[s].notes}

AwaitsOwner(s) == \E u \in RefersTo(s) : ForUpdate(u, s)

Commit(s) ==
  /\ Pc(s) = "commit" /\ Way(s) # "rates" /\ ~AwaitsOwner(s)
  /\ ads' = [a \in Ad |-> IF rowLock[a] = s THEN ses[s].work[a] ELSE ads[a]]
  /\ LET flags == {e \in ses[s].notes : e[1] \in AdPriorityLevel} IN
     /\ priority' = [a \in Ad |-> IF \E e \in flags : e[2] = a
                                 THEN (CHOOSE e \in flags : e[2] = a)[1] ELSE priority[a]]
     /\ audit' = audit \cup (ses[s].notes \ flags)
  /\ banned' = banned \cup ses[s].bans
  /\ byHand' = IF Way(s) = "form" /\ req[s].to \in {"fit", "unfit", "price", "published", "draft"}
               THEN byHand \cup req[s].ads ELSE byHand
  /\ overwritten' = IF Way(s) = "form" /\ ses[s].seen # ads[TheAd(s)]
                    THEN overwritten \cup req[s].ads ELSE overwritten
  /\ repriced' = [a \in Ad |-> IF /\ Deed(s) = "recompute" /\ rowLock[a] = s
                                  /\ ses[s].rate > repriced[a]
                               THEN ses[s].rate ELSE repriced[a]]
  /\ Over(s, ses[s].count, ses[s].todo)
  /\ UNCHANGED <<money, req, faults>>

\* Mutant: only the wait for an ad is bounded.
WaitsForAd(s) == Pc(s) = "lock" /\ rowLock[Min(ses[s].todo)] \notin {None, s}

\* The waits that lock_timeout and the detector of deadlocks bound.
Waits(s) ==
  \/ Pc(s) = "start" /\ Sweeping(s)
  \/ Pc(s) = "lock" /\ rowLock[Min(ses[s].todo)] \notin {None, s}
  \/ Pc(s) \in {"save", "stamp"} /\ Way(s) = "form" /\ rowLock[TheAd(s)] # None
  \/ Pc(s) = "owner" /\ userLock[Owner[Here(s)]] \notin {None, s}
  \/ Pc(s) = "aim" /\ \E u \in ses[s].aim : userLock[u] # None
  \/ Pc(s) = "commit" /\ Way(s) # "rates" /\ AwaitsOwner(s)

\* A wait ends in an error: inside set_published auto_moderate makes it a failed
\* ad, the bulk endpoint goes on with the next ad, and any other request ends.
GiveUp(s) ==
  /\ Waits(s)
  /\ CASE Pc(s) = "owner" /\ Deed(s) \in {"approve", "edit"} ->
            Fail(s) /\ UNCHANGED locks
       [] Pc(s) # "owner" /\ Way(s) = "api" ->
            Over(s, 0, IF Pc(s) = "lock" THEN ses[s].todo \ {Min(ses[s].todo)}
                                         ELSE ses[s].todo)
       [] OTHER -> Quit(s)
  /\ UNCHANGED <<desk, money, req, faults>>

-----------------------------------------------------------------------------
Go(s) ==
  \/ Begin(s) \/ Lock(s) \/ Approve(s) \/ Judge(s) \/ LockOwner(s) \/ Publish(s)
  \/ Reject(s) \/ Flag(s) \/ SoftDelete(s) \/ ToOwner(s) \/ BanOwner(s) \/ Aim(s) \/ BanNext(s)
  \/ NeedRate(s) \/ CacheGet(s) \/ Query(s) \/ CacheSet(s) \/ Recompute(s)
  \/ SaveRate(s) \/ CommitRate(s) \/ Edit(s) \/ Peek(s) \/ SaveForm(s) \/ Route(s)
  \/ Commit(s) \/ GiveUp(s)

Next ==
  \/ Expire
  \/ \E s \in Session : Go(s) \/ NoCache(s)

Spec == Init /\ [][Next]_vars

FairSpec == Spec /\ WF_vars(\E s \in Session : Go(s))
=============================================================================
