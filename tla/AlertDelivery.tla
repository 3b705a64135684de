---------------------------- MODULE AlertDelivery ----------------------------
(***************************************************************************)
(* Alerts of saved searches, on two ways that know of each other only      *)
(* through the table of notifications: the immediate alert, which a web    *)
(* process sends from a thread pool after the commit that published an ad, *)
(* and the daily digest, a command of its own.                             *)
(*                                                                         *)
(* A row of saved_search_notifications is an attempt; its delivered_at is  *)
(* the receipt, written after Telegram accepted the message.  A send and   *)
(* its receipt are two steps, and a crash, a kill or an error may come     *)
(* between.  Telegram may also have accepted a message whose answer is     *)
(* lost.  IMMEDIATE_ALERTS_ENABLED is on.                                  *)
(***************************************************************************)
EXTENDS AlertMatching

CONSTANTS
  User, Search,
  OwnerOf,      \* [Search -> User]
  Filters,      \* names of the filters a search may be given
  Terms,        \* [Filters -> record], what they ask for
  FirstFilter,  \* [Search -> Filters]
  NoChat,       \* the users without a chat_id
  Dead,         \* those who blocked the bot
  Slot,         \* the batches the pool has room for: _MAX_IN_FLIGHT_BATCHES
  Threads,      \* _MAX_DELIVERY_THREADS
  Limit,        \* _DIGEST_AD_LIMIT, and the [:10] of one search
  Run,          \* digests that may be under way at once
  MaxEvents,    \* bound: failures of Telegram, the database and processes,
                \* and edits of searches, ads and accounts
  MaxSaves      \* bound: commits that trigger an immediate alert

ASSUME Sizes == /\ Threads \in Nat /\ Limit \in Nat
                /\ MaxEvents \in Nat /\ MaxSaves \in Nat
ASSUME Finite == IsFiniteSet(Slot) /\ IsFiniteSet(Run) /\ IsFiniteSet(Ad)
ASSUME NoneIsNoRun == None \notin Run
ASSUME Owners == OwnerOf \in [Search -> User]
ASSUME FirstFilters == /\ FirstFilter \in [Search -> Filters]
                       /\ \A f \in Filters : IsFilter(Terms[f])

VARIABLES
  shown,     \* SUBSET Ad, published by a seller who is not blocked
  search,    \* [Search -> {"new", "on", "off", "gone"}], "new": not saved yet
  filter,    \* [Search -> Filters]
  barred,    \* SUBSET User, in a blocking account state
  attempts,  \* SUBSET Pair, the rows of saved_search_notifications
  receipts,  \* SUBSET Pair, those with a delivered_at
  hook,      \* Hook, the on_commit callback of the web process
  batch,     \* [Slot -> Batch], what the pool was given
  inFlight,  \* _in_flight_batches
  pool,      \* {"up", "down"}, the executor
  run,       \* [Run -> Digest]
  lock,      \* Run or None, ALERT_DELIVERY_TASK
  copies,    \* [Pair -> Nat], history: messages the user got for the pair
  unseen,    \* [Pair -> Nat], history: those no receipt will tell of
  events, saves

rows == <<attempts, receipts>>
site == <<shown, search, filter, barred>>
web == <<hook, batch, inFlight, pool, saves>>
daily == <<run, lock>>
ghosts == <<copies, unseen>>
vars == <<shown, search, filter, barred, attempts, receipts,
          hook, batch, inFlight, pool, saves, run, lock, copies, unseen, events>>

Pair == Search \X Ad
UserOf(p) == OwnerOf[p[1]]

Hook == [stage : {"idle", "record", "dispatch"}, todo : SUBSET Pair,
         payloads : SUBSET Pair]
Batch == [stage : {"free", "queued", "running"}, first : SUBSET Pair,
          retry : SUBSET Pair, accepted : SUBSET Pair]
Digest == [stage : {"idle", "collect", "send", "mark", "escaped", "ok", "error",
                     "broken"},
           searches : SUBSET Search, asked : [Search -> Filters],
           rows : SUBSET Pair, users : SUBSET User,
           retry : SUBSET User, got : SUBSET User]

NoHook == [stage |-> "idle", todo |-> {}, payloads |-> {}]
NoBatch == [stage |-> "free", first |-> {}, retry |-> {}, accepted |-> {}]
NoDigest == [stage |-> "idle", searches |-> {}, asked |-> FirstFilter,
             rows |-> {}, users |-> {}, retry |-> {}, got |-> {}]

Init ==
  /\ shown = Ad /\ barred = {}
  /\ search \in [Search -> {"new", "on"}] /\ filter = FirstFilter
  /\ attempts = {} /\ receipts = {}
  /\ hook = NoHook /\ batch = [i \in Slot |-> NoBatch]
  /\ inFlight = 0 /\ pool = "up" /\ saves = 0
  /\ run = [r \in Run |-> NoDigest] /\ lock = None
  /\ copies = [p \in Pair |-> 0] /\ unseen = [p \in Pair |-> 0]
  /\ events = 0

\* find_matching_saved_searches and _collect_alerts ask alike who may get it.
Audible(s) == search[s] = "on" /\ OwnerOf[s] \notin barred

Event == events < MaxEvents /\ events' = events + 1

\* The history of a pair ends with its search.
Tell(history, ps) ==
  [p \in Pair |-> history[p] + IF p \in ps /\ search[p[1]] # "gone" THEN 1 ELSE 0]

-----------------------------------------------------------------------------
(* Sending, on both ways: what becomes of the messages of the pairs ps.    *)

Accepted(ps) ==
  /\ copies' = Tell(copies, ps)
  /\ UNCHANGED <<unseen, events>>

\* An error that Telegram means, or one that hides an accepted message.
Failed(ps) ==
  /\ Event
  /\ \/ UNCHANGED ghosts
     \/ copies' = Tell(copies, ps) /\ unseen' = Tell(unseen, ps)

Refused == UNCHANGED <<ghosts, events>>

\* One UPDATE ... WHERE delivered_at IS NULL.  A row that has its receipt is
\* what the duplicate detector logs; the row of a deleted search is gone.
mark_delivered(p) ==
  /\ receipts' = receipts \cup ({p} \cap attempts)
  /\ unseen' = IF p \in receipts THEN Tell(unseen, {p}) ELSE unseen
  /\ UNCHANGED <<attempts, copies>>

-----------------------------------------------------------------------------
(* What people do to searches, ads and accounts meanwhile. *)

Show(a) == Event /\ shown' = shown \cup {a} /\ UNCHANGED <<search, filter, barred>>
Hide(a) == Event /\ shown' = shown \ {a} /\ UNCHANGED <<search, filter, barred>>

\* create_saved_search, with the filter of the form.
create_saved_search(s) ==
  /\ search[s] = "new" /\ search' = [search EXCEPT ![s] = "on"]
  /\ Event /\ UNCHANGED <<shown, filter, barred>>

Saved(s) == search[s] \in {"on", "off"}

\* toggle_saved_search, and the buttons and the deep link of the bot, which
\* lock the row and ask that its owner pressed them (_resolve_owned).
SwitchTo(s, active) ==
  /\ Saved(s) /\ search' = [search EXCEPT ![s] = active]
  /\ Event /\ UNCHANGED <<shown, filter, barred>>
resolve_unsubscribe(s, presser) == presser = OwnerOf[s] /\ SwitchTo(s, "off")
resolve_reenable(s, presser) == presser = OwnerOf[s] /\ SwitchTo(s, "on")

update_saved_search(s, f) ==
  /\ Saved(s) /\ filter' = [filter EXCEPT ![s] = f]
  /\ Event /\ UNCHANGED <<shown, search, barred>>

\* The account of u enters or leaves a blocking state.
Bar(u) == Event /\ barred' = barred \cup {u} /\ UNCHANGED <<shown, search, filter>>
Unbar(u) == Event /\ barred' = barred \ {u} /\ UNCHANGED <<shown, search, filter>>

Edit ==
  /\ \/ \E a \in Ad : Show(a) \/ Hide(a)
     \/ \E s \in Search, u \in User :
          resolve_unsubscribe(s, u) \/ resolve_reenable(s, u)
     \/ \E s \in Search : create_saved_search(s)
     \/ \E s \in Search, f \in Filters : update_saved_search(s, f)
     \/ \E u \in User : Bar(u) \/ Unbar(u)
  /\ UNCHANGED <<rows, web, daily, ghosts>>

\* The rows of a deleted search go with it (on_delete=CASCADE).
delete_saved_search(s) ==
  /\ Saved(s) /\ search' = [search EXCEPT ![s] = "gone"]
  /\ attempts' = {p \in attempts : p[1] # s}
  /\ receipts' = {p \in receipts : p[1] # s}
  /\ copies' = [p \in Pair |-> IF p[1] = s THEN 0 ELSE copies[p]]
  /\ unseen' = [p \in Pair |-> IF p[1] = s THEN 0 ELSE unseen[p]]
  /\ Event /\ UNCHANGED <<shown, filter, barred, web, daily>>

-----------------------------------------------------------------------------
(* The immediate alert: the web process. *)

find_matching_saved_searches(a) ==
  {s \in Search : /\ Audible(s) /\ <<s, a>> \notin receipts
                  /\ AdMatchesSavedSearch(a, Terms[filter[s]])}

build_payloads(a) ==
  {<<s, a>> : s \in {t \in find_matching_saved_searches(a) :
                       OwnerOf[t] \notin NoChat}}

\* deliver_immediate_alerts(a), after a commit that saved a published ad.
DeliverImmediateAlerts(a) ==
  /\ hook.stage = "idle" /\ a \in shown /\ build_payloads(a) # {}
  /\ saves < MaxSaves /\ saves' = saves + 1
  /\ hook' = [stage |-> "record", todo |-> build_payloads(a),
              payloads |-> build_payloads(a)]
  /\ UNCHANGED <<rows, site, batch, inFlight, pool, daily, ghosts, events>>

\* record_notifications and the save of last_notified_at, in autocommit.  A
\* search deleted meanwhile makes either raise.
RecordNotification(p) ==
  /\ hook.stage = "record" /\ p \in hook.todo
  /\ \/ /\ search[p[1]] = "gone"
        /\ hook' = NoHook /\ UNCHANGED attempts
     \/ /\ search[p[1]] # "gone" /\ attempts' = attempts \cup {p}
        /\ hook' = [hook EXCEPT !.todo = @ \ {p},
                     !.stage = IF hook.todo = {p} THEN "dispatch" ELSE @]
  /\ UNCHANGED <<receipts, site, batch, inFlight, pool, saves, daily, ghosts,
                 events>>

\* Shed a batch too many; submit raises when the executor is shut down.
Dispatch ==
  /\ hook.stage = "dispatch" /\ hook' = NoHook
  /\ IF inFlight >= Cardinality(Slot) \/ pool = "down"
       THEN UNCHANGED <<batch, inFlight>>
       ELSE \E i \in Slot :
              /\ batch[i].stage = "free"
              /\ batch' = [batch EXCEPT ![i] = [stage |-> "queued",
                   first |-> hook.payloads, retry |-> {}, accepted |-> {}]]
              /\ inFlight' = inFlight + 1
  /\ UNCHANGED <<rows, site, pool, saves, daily, ghosts, events>>

HookStep == Dispatch \/ \E p \in Pair : RecordNotification(p)

Running == {i \in Slot : batch[i].stage = "running"}

StartBatch(i) ==
  /\ batch[i].stage = "queued" /\ Cardinality(Running) < Threads
  /\ batch' = [batch EXCEPT ![i].stage = "running"]
  /\ UNCHANGED <<rows, site, hook, inFlight, pool, saves, daily, ghosts, events>>

\* One message of batch i moves from the set `from` to the set `to`.
Move(i, p, from, to) ==
  LET Moved(set, name) == (IF from = name THEN set \ {p} ELSE set)
                          \cup (IF to = name THEN {p} ELSE {})
  IN batch' = [batch EXCEPT ![i] =
       [stage |-> "running", first |-> Moved(@.first, "first"),
        retry |-> Moved(@.retry, "retry"), accepted |-> Moved(@.accepted, "accepted")]]

\* _send: the first attempt, then one retry of a transient failure.
Send(i, p) ==
  /\ batch[i].stage = "running"
  /\ \E from \in {"first", "retry"} :
       /\ p \in batch[i][from]
       /\ \/ UserOf(p) \in Dead /\ Refused /\ Move(i, p, from, "dropped")
          \/ UserOf(p) \notin Dead /\ Accepted({p}) /\ Move(i, p, from, "accepted")
          \/ UserOf(p) \notin Dead /\ Failed({p}) /\ Move(i, p, from, "dropped")
          \/ /\ UserOf(p) \notin Dead /\ from = "first" /\ Failed({p})
             /\ Move(i, p, from, "retry")
  /\ UNCHANGED <<rows, site, hook, inFlight, pool, saves, daily>>

\* _mark_delivered; an error of the database is swallowed by gather.
Receipt(i, p) ==
  /\ batch[i].stage = "running" /\ p \in batch[i].accepted
  /\ Move(i, p, "accepted", "done")
  /\ \/ mark_delivered(p) /\ UNCHANGED events
     \/ Event /\ unseen' = Tell(unseen, {p}) /\ UNCHANGED <<rows, copies>>
  /\ UNCHANGED <<site, hook, inFlight, pool, saves, daily>>

\* Mutant: the done-callback forgets its slot.
finished_unreleased(i) ==
  /\ batch[i] = [NoBatch EXCEPT !.stage = "running"]
  /\ batch' = [batch EXCEPT ![i] = NoBatch]
  /\ UNCHANGED <<inFlight, rows, site, hook, pool, saves, daily, ghosts, events>>

\* _on_send_finished, of a batch with nothing left to send or to mark.
SendFinished(i) ==
  /\ batch[i] = [NoBatch EXCEPT !.stage = "running"]
  /\ batch' = [batch EXCEPT ![i] = NoBatch] /\ inFlight' = inFlight - 1
  /\ UNCHANGED <<rows, site, hook, pool, saves, daily, ghosts, events>>

PoolStep(i) == \/ StartBatch(i) \/ SendFinished(i)
               \/ \E p \in Pair : Send(i, p) \/ Receipt(i, p)

Queued == {i \in Slot : batch[i].stage = "queued"}

\* gunicorn's worker_exit: shutdown(wait=False, cancel_futures=True).  The
\* threads are joined before the process ends and another takes its place.
worker_exit ==
  /\ pool = "up" /\ Event /\ pool' = "down"
  /\ batch' = [i \in Slot |-> IF i \in Queued THEN NoBatch ELSE batch[i]]
  /\ inFlight' = inFlight - Cardinality(Queued)
  /\ UNCHANGED <<rows, site, hook, saves, daily, ghosts>>

Restart ==
  /\ pool = "down" /\ hook = NoHook /\ Running = {} /\ pool' = "up"
  /\ UNCHANGED <<rows, site, hook, batch, inFlight, saves, daily, ghosts, events>>

\* The web process dies, and with it what it held in memory.
Crash ==
  /\ Event /\ hook' = NoHook /\ batch' = [i \in Slot |-> NoBatch]
  /\ inFlight' = 0 /\ pool' = "up"
  /\ unseen' = [p \in Pair |-> unseen[p] +
       Cardinality({i \in Slot : p \in batch[i].accepted /\ search[p[1]] # "gone"})]
  /\ UNCHANGED <<rows, site, saves, daily, copies>>

-----------------------------------------------------------------------------
(* The daily digest: send_alerts. *)

Stage(r, stage) == run' = [run EXCEPT ![r].stage = stage]

\* The transaction that collects and persists, under the advisory lock.
BeginDigest(r) ==
  /\ run[r].stage \in {"idle", "ok", "error", "broken"} /\ lock = None
  /\ lock' = r
  /\ run' = [run EXCEPT ![r] = [NoDigest EXCEPT !.stage = "collect",
       !.searches = {s \in Search : Audible(s)}, !.asked = filter]]
  /\ UNCHANGED <<rows, site, web, ghosts, events>>

Bucket(r, u) == {p[2] : p \in {q \in run[r].rows : UserOf(q) = u}}

\* Mutant: an attempt counts as a delivery.
MatchingUntried(s, f) == {a \in AdsOfSearch(Terms[f], shown) : <<s, a>> \notin attempts}

\* _apply_member_filters, before its cap.
Matching(s, f) == {a \in AdsOfSearch(Terms[f], shown) : <<s, a>> \notin receipts}

\* _collect_alerts, one search: at most Limit ads of the search, of which
\* the digest of its owner takes those it has no room left for.
CollectMember(r, s) ==
  /\ run[r].stage = "collect" /\ s \in run[r].searches
  /\ \E few \in SelectDigestAds({}, Matching(s, run[r].asked[s]), Limit) :
       \E ads \in SelectDigestAds(Bucket(r, OwnerOf[s]), few, Limit) :
         run' = [run EXCEPT ![r].rows = @ \cup {<<s, a>> : a \in ads},
                            ![r].searches = @ \ {s}]
  /\ UNCHANGED <<rows, site, web, lock, ghosts, events>>

\* _persist_alerts and the commit; a search deleted meanwhile aborts it.
PersistAlerts(r) ==
  /\ run[r].stage = "collect" /\ run[r].searches = {} /\ lock' = None
  /\ IF \E p \in run[r].rows : search[p[1]] = "gone"
       THEN UNCHANGED attempts
            /\ run' = [run EXCEPT ![r] = [NoDigest EXCEPT !.stage = "broken"]]
       ELSE attempts' = attempts \cup run[r].rows
            /\ run' = [run EXCEPT ![r] = [@ EXCEPT !.stage = "send",
                 !.asked = FirstFilter, !.users = {UserOf(p) : p \in run[r].rows}]]
  /\ UNCHANGED <<receipts, site, web, ghosts, events>>

PairsOf(r, u) == {p \in run[r].rows : UserOf(p) = u}

Leave(r, u) == [run[r] EXCEPT !.users = @ \ {u}, !.retry = {}]
Become(r, digest) == run' = [run EXCEPT ![r] = digest]

\* _send_user_digests, one user: the first attempt or the retry.  An error of
\* Telegram that no clause names ends the loop, and users_sent with it.
SendUserDigest(r, u) ==
  /\ run[r].stage = "send"
  /\ IF run[r].retry = {} THEN u \in run[r].users ELSE u \in run[r].retry
  /\ \/ u \in NoChat \cup Dead /\ Refused /\ Become(r, Leave(r, u))
     \/ /\ u \notin NoChat \cup Dead /\ Accepted(PairsOf(r, u))
        /\ Become(r, [Leave(r, u) EXCEPT !.got = @ \cup {u}])
     \/ /\ u \notin NoChat \cup Dead /\ Failed(PairsOf(r, u))
        /\ \/ Become(r, Leave(r, u))
           \/ /\ run[r].retry = {}
              /\ Become(r, [Leave(r, u) EXCEPT !.retry = {u}])
           \/ /\ run[r].retry = {}
              /\ Become(r, [Leave(r, u) EXCEPT !.stage = "escaped", !.users = {}])
  /\ UNCHANGED <<rows, site, web, lock>>

DigestsSent(r) ==
  /\ run[r].stage = "send" /\ run[r].users \cup run[r].retry = {}
  /\ Stage(r, "mark")
  /\ UNCHANGED <<rows, site, web, lock, ghosts, events>>

\* Accepted digests whose receipts are not written yet.
Unmarked(r) == {p \in run[r].rows : UserOf(p) \in run[r].got}

\* Mutant: the rows of users who got nothing are marked too.
MarkAnyNext(r, p) ==
  /\ run[r].stage \in {"mark", "escaped"} /\ p \in run[r].rows
  /\ mark_delivered(p)
  /\ run' = [run EXCEPT ![r].rows = @ \ {p}]
  /\ UNCHANGED <<site, web, lock, events>>

MarkNext(r, p) ==
  /\ run[r].stage \in {"mark", "escaped"} /\ p \in Unmarked(r)
  /\ mark_delivered(p)
  /\ run' = [run EXCEPT ![r].rows = @ \ {p}]
  /\ UNCHANGED <<site, web, lock, events>>

\* CommandError when users were attempted and users_sent is 0.
ExitCode(r) ==
  IF run[r].stage = "escaped" \/ (run[r].rows # {} /\ run[r].got = {})
    THEN "error" ELSE "ok"

EndDigest(r) ==
  /\ run[r].stage \in {"mark", "escaped"} /\ Unmarked(r) = {}
  /\ Become(r, [NoDigest EXCEPT !.stage = ExitCode(r), !.got = run[r].got])
  /\ UNCHANGED <<rows, site, web, lock, ghosts, events>>

\* An exception of the database, or the scheduler's kill of the command.
KillDigest(r) ==
  /\ run[r].stage \in {"collect", "send", "mark", "escaped"} /\ Event
  /\ Become(r, [NoDigest EXCEPT !.stage = "broken"])
  /\ lock' = IF lock = r THEN None ELSE lock
  /\ unseen' = Tell(unseen, Unmarked(r))
  /\ UNCHANGED <<rows, site, web, copies>>

DigestStep(r) ==
  \/ BeginDigest(r) \/ PersistAlerts(r) \/ DigestsSent(r) \/ EndDigest(r)
  \/ \E s \in Search : CollectMember(r, s)
  \/ \E u \in User : SendUserDigest(r, u)
  \/ \E p \in Pair : MarkNext(r, p)

-----------------------------------------------------------------------------
Next ==
  \/ Edit \/ worker_exit \/ Restart \/ Crash
  \/ \E s \in Search : delete_saved_search(s)
  \/ \E a \in Ad : DeliverImmediateAlerts(a)
  \/ HookStep
  \/ \E i \in Slot : PoolStep(i)
  \/ \E r \in Run : DigestStep(r) \/ KillDigest(r)

Spec == Init /\ [][Next]_vars

\* The scheduler starts a digest every day, and what runs goes on.
FairSpec == /\ Spec
            /\ WF_vars(HookStep)
            /\ \A i \in Slot : WF_vars(PoolStep(i))
            /\ \A r \in Run : WF_vars(DigestStep(r))
=============================================================================
