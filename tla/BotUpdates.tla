----------------------------- MODULE BotUpdates -----------------------------
(***************************************************************************)
(* What happens to an update between Telegram and the bot's handlers.      *)
(* The bot polls; a poll acknowledges what the one before it delivered,    *)
(* and every update becomes a task of its own.  A task passes the          *)
(* deduplication, the account gate and then the steps of its handler,      *)
(* which interleave with those of the other tasks at every await.  Calls   *)
(* to Telegram fail: the errors handler replays a call that failed for     *)
(* the moment, and the rest of the handler is lost with it.                *)
(*                                                                         *)
(* The person and a second buyer write to the bot; the updates are         *)
(* numbered in the order they were sent, and a setting is the number of    *)
(* the update that made it.                                                *)
(***************************************************************************)
EXTENDS Integers, Sequences, FiniteSets

CONSTANTS
  Updates,    \* bound: updates sent
  AtOnce,     \* bound: updates on their way at once
  Starts,     \* bound: what is sent, in order, by whom, and asked to or not
  Limit,      \* requests a window admits
  Period,     \* ticks a window lasts
  MaxReplays, \* 5, replays of a failed call
  LastMonth,  \* bound: the month the calendar stops at
  MaxTicks, MaxFaults, MaxChanges, MaxOthers  \* bounds

Kind == {"post", "contact", "stranger", "help", "ask", "text", "alert", "language"}

Channel == {"mail", "desk"}

Update == 1 .. Updates
Month == 0 .. LastMonth

ASSUME Bounds == /\ {Updates, AtOnce, Limit, Period, MaxReplays} \subseteq Nat \ {0}
                 /\ {LastMonth, MaxTicks, MaxFaults, MaxChanges, MaxOthers} \subseteq Nat
                 /\ Starts \subseteq [kind : [Update -> Kind \cup {"none"}],
                                      account : {"none", "open"},
                                      fsm : {"idle", "awaiting"},
                                      listed : SUBSET Channel]

VARIABLES
  sent, given, acked, \* updates sent, delivered and acknowledged, counted
  kind,     \* what each update is
  listed,   \* SUBSET Channel, the channels the desk has a recipient for
  calendar, \* [utc, local], the month in UTC and that in TIME_ZONE, which leads
  task,     \* [Update -> Task]
  seen,     \* SUBSET Update, the deduplication keys
  fsm,      \* the dialog with the support desk: "idle", "awaiting"
  window,   \* [Window -> [count, left]], the rate limits
  account,  \* in Account
  tickets,  \* SUBSET [month, number, made, mine]: the reference, the local month
            \* of created_at, and whether the ticket is the person's
  setting,  \* [Setting -> Update \cup {0}], the update that made it
  button,   \* [Setting -> Update \cup {0}], the one the keyboard shows
  fate,     \* history: [Update -> {"", "over", "cut", "lost"}]
  done,     \* history: [Update -> Nat], rows written for it
  told,     \* history: [Update -> Nat], messages to the seller or the desk
  hits,     \* history: [Window -> [0 .. Period - 1 -> Nat]], admitted, by age
  invites,  \* history: prompts for a support message
  odd,      \* history: what went wrong or overlapped, with its update
  ticks, faults, changes, others

outside == <<kind, listed, calendar>>
wire == <<sent, given, acked, outside>>
cache == <<seen, window, hits>>
rows == <<account, tickets, setting>>
history == <<done, told, odd>>
spent == <<ticks, faults, changes, others>>
vars == <<wire, task, cache, fsm, rows, button, fate, history, invites, spent>>

Window == {"buyer", "second", "seller", "start", "support"}
Account == {"none", "open", "noconsent", "restricted", "declined", "inactive",
            "banned", "erased"}
Setting == {"alert", "language"}

Call == {"spinner", "answer", "refuse", "tell", "edit"}
Step == Call \cup {"dedup", "gate", "replay", "draft", "budget", "seller", "consent",
                  "await", "check", "ticket", "mail", "desk", "idle", "write"}

\* todo: the steps the task still has to make; saw: the dialog's state when
\* the update came in; call: the call to be replayed.
Task == [todo : Seq(Step), saw : {"idle", "awaiting"}, call : Call \cup {""},
         tries : 0 .. MaxReplays]
Off == [todo |-> <<>>, saw |-> "idle", call |-> "", tries |-> 0]
Quiet == [count |-> 0, left |-> 0]

Fault == faults < MaxFaults /\ faults' = faults + 1
NoFault == UNCHANGED faults
Bounded == UNCHANGED <<ticks, changes, others>>

Init ==
  /\ \E start \in Starts :
       /\ kind = start.kind /\ account = start.account /\ fsm = start.fsm
       /\ listed = start.listed
       /\ invites = IF start.fsm = "awaiting" THEN 1 ELSE 0
  /\ sent = 0 /\ given = 0 /\ acked = 0 /\ calendar = [utc |-> 0, local |-> 0]
  /\ task = [u \in Update |-> Off] /\ seen = {}
  /\ window = [w \in Window |-> Quiet] /\ tickets = {}
  /\ setting = [s \in Setting |-> 0] /\ button = setting
  /\ fate = [u \in Update |-> ""] /\ done = [u \in Update |-> 0] /\ told = done
  /\ hits = [w \in Window |-> [a \in 0 .. Period - 1 |-> 0]]
  /\ odd = {} /\ ticks = 0 /\ faults = 0 /\ changes = 0 /\ others = 0

-----------------------------------------------------------------------------
(* Telegram and the poll. *)

PostSteps == <<"draft", "answer">>
ContactSteps == <<"budget", "seller", "tell", "answer">>
HelpSteps == <<"budget", "answer">>
AskSteps == <<"spinner", "consent", "budget", "await", "answer">>
TextSteps == <<"check", "ticket", "mail", "desk", "answer", "idle">>
AlertSteps == <<"write", "edit", "answer">>
LanguageSteps == <<"write", "edit", "answer">>

Handler == [post |-> PostSteps, contact |-> ContactSteps, stranger |-> ContactSteps,
            help |-> HelpSteps, ask |-> AskSteps, text |-> TextSteps,
            alert |-> AlertSteps, language |-> LanguageSteps]

\* The outer middlewares, which come before the handler is chosen.
Middlewares == <<"dedup", "gate">>

Underway(u) == task[u].todo # <<>>

Send ==
  /\ sent < Updates /\ kind[sent + 1] # "none" /\ sent' = sent + 1
  /\ Cardinality({u \in 1 .. sent : fate[u] = ""}) < AtOnce
  /\ UNCHANGED <<outside, given, acked, task, cache, fsm, rows, button, fate, history,
                 invites, spent>>

\* getUpdates: the offset acknowledges the last batch, the answer is the next.
Poll ==
  /\ sent # acked /\ acked' = given /\ given' = sent
  /\ task' = [u \in Update |-> IF u \in given + 1 .. sent
                               THEN [Off EXCEPT !.todo = Middlewares] ELSE task[u]]
  /\ UNCHANGED <<sent, outside, cache, fsm, rows, button, fate, history, invites, spent>>

\* The process dies, or is stopped: what it was at is gone, and what it had not
\* acknowledged will be delivered again.
Crash ==
  /\ Fault /\ given # 0 /\ given' = acked /\ task' = [u \in Update |-> Off]
  /\ fate' = [u \in Update |-> IF u <= acked /\ Underway(u) THEN "lost" ELSE fate[u]]
  /\ odd' = odd \cup {<<"crash", u>> : u \in 1 .. given}
  /\ UNCHANGED <<sent, acked, outside, cache, fsm, rows, button, done, told, invites,
                 ticks, changes, others>>

-----------------------------------------------------------------------------
(* Steps of a task. *)

Doing(u, step) == Underway(u) /\ Head(task[u].todo) = step

\* What was decided about an update delivered twice stays.
Settle(u, f) == fate' = [fate EXCEPT ![u] = IF @ = "" THEN f ELSE @]

Continue(u, rest) ==
  IF rest = <<>>
  THEN task' = [task EXCEPT ![u] = Off] /\ Settle(u, "over")
  ELSE task' = [task EXCEPT ![u].todo = rest] /\ UNCHANGED fate
Go(u) == Continue(u, Tail(task[u].todo))
Leave(u, f) == task' = [task EXCEPT ![u] = Off] /\ Settle(u, f)

\* The handler answers why not, and returns.
Refuse(u) == Continue(u, IF kind[u] = "text" THEN <<"refuse", "idle">> ELSE <<"refuse">>)

Count(f, u) == [f EXCEPT ![u] = IF @ < 2 THEN @ + 1 ELSE @]

\* UpdateIdDedupMiddleware: the key is written before the update is handled; a
\* key that is there already suppresses it.  Without the cache all pass.
NeverSuppressed(u) == FALSE  \* Mutant: cache.add's result is not looked at
Suppressed(u) == u \in seen

\* The other tasks that may get in the way of this one.
Topic(k) == IF k \in {"ask", "text"} THEN "desk" ELSE k
Overlaps(u) == \E v \in Update \ {u} : Underway(v) /\ Topic(kind[v]) = Topic(kind[u])

Enter(u, flags) ==
  /\ task' = [task EXCEPT ![u].todo = Tail(@), ![u].saw = fsm]
  /\ odd' = odd \cup flags \cup IF Overlaps(u) THEN {<<"overlap", Topic(kind[u])>>} ELSE {}
  /\ UNCHANGED fate

Dedup(u) ==
  /\ Doing(u, "dedup")
  /\ \/ /\ Suppressed(u) /\ Leave(u, "lost") /\ UNCHANGED <<seen, odd>> /\ NoFault
     \/ /\ ~Suppressed(u) /\ seen' = seen \cup {u} /\ Enter(u, {}) /\ NoFault
     \/ /\ Fault /\ Enter(u, {<<"blind", u>>}) /\ UNCHANGED seen
  /\ UNCHANGED <<wire, window, hits, fsm, rows, button, done, told, invites>> /\ Bounded

-----------------------------------------------------------------------------
(* AccountStateMiddleware. *)

Author(u) == IF kind[u] = "stranger" THEN "none" ELSE account

\* The way out left to a deactivated account: the desk.  The state of the
\* dialog is read here once more.
CarveOut(u) == kind[u] = "ask" \/ (kind[u] = "text" /\ fsm = "awaiting")

\* What a person who declined the consent may still send.
ContactLink(u) == kind[u] \in {"contact", "help"}

MayInteract(u) ==
  CASE Author(u) \in {"banned", "erased"} -> FALSE
    [] Author(u) = "inactive" -> CarveOut(u)
    [] Author(u) = "declined" -> ContactLink(u)
    [] OTHER -> TRUE

MayPublish(u) == Author(u) \notin {"restricted", "noconsent"}

\* Without an account /post passes the gate, and its handler refuses.
Registered(u) == Author(u) # "none"

\* A text nobody waited for when it came in has no handler.
Routed(u) == kind[u] = "text" => task[u].saw = "awaiting"

Gate(u) ==
  /\ Doing(u, "gate")
  /\ CASE ~MayInteract(u) -> Continue(u, <<"refuse">>)
       [] MayInteract(u) /\ kind[u] = "post" /\ ~(MayPublish(u) /\ Registered(u)) -> Refuse(u)
       [] MayInteract(u) /\ ~Routed(u) -> Leave(u, "over")
       [] OTHER -> Continue(u, Handler[kind[u]])
  /\ UNCHANGED <<wire, cache, fsm, rows, button, history, invites, spent>>

-----------------------------------------------------------------------------
(* Windows.  The first request opens one; after Period ticks it is gone. *)

AdmitsOneMore(w) == window[w].count <= Limit  \* Mutant: an off-by-one
Admits(w) == window[w].count < Limit

Bumped(r) == IF r.left = 0 THEN [count |-> 1, left |-> Period]
              ELSE [r EXCEPT !.count = IF @ <= Limit THEN @ + 1 ELSE @]
Bump(w) == [window EXCEPT ![w] = Bumped(@)]

WindowOf(u) ==
  CASE kind[u] = "contact" -> "buyer"
    [] kind[u] = "stranger" -> "second"
    [] kind[u] = "help" -> "start"
    [] kind[u] = "ask" -> "support"

Admitted(w) == hits' = [hits EXCEPT ![w][0] = @ + 1]

\* bump_rate_limit_window: count, then compare; without the cache all pass.
Guarded(u, w, passed, refused) ==
  \/ /\ window' = Bump(w) /\ NoFault /\ UNCHANGED odd
     /\ IF Admits(w) THEN passed /\ Admitted(w) ELSE refused /\ UNCHANGED hits
  \/ /\ Fault /\ passed /\ Admitted(w) /\ odd' = odd \cup {<<"loose", w>>}
     /\ UNCHANGED window

Budget(u) ==
  /\ Doing(u, "budget") /\ Guarded(u, WindowOf(u), Go(u), Refuse(u))
  /\ UNCHANGED <<wire, seen, fsm, rows, button, done, told, invites>> /\ Bounded

\* Bound: time passes where a window that is open is looked at next, as nothing
\* else sees it.
Tick ==
  /\ ticks < MaxTicks /\ ticks' = ticks + 1
  /\ \E w \in Window : window[w].left # 0
  /\ \E u \in Update : Doing(u, "budget") \/ Doing(u, "seller")
  /\ window' = [w \in Window |-> IF window[w].left <= 1 THEN Quiet
                                 ELSE [window[w] EXCEPT !.left = @ - 1]]
  /\ hits' = [w \in Window |-> [a \in 0 .. Period - 1 |-> IF a = 0 THEN 0 ELSE hits[w][a - 1]]]
  /\ UNCHANGED <<wire, task, seen, fsm, rows, button, fate, history, invites,
                 faults, changes, others>>

\* Redis comes back empty.
Flush ==
  /\ Fault /\ seen' = {} /\ fsm' = "idle" /\ window' = [w \in Window |-> Quiet]
  /\ odd' = odd \cup {<<"blind", u>> : u \in seen} \cup {<<"loose", w>> : w \in Window}
  /\ UNCHANGED <<wire, task, hits, rows, button, fate, done, told, invites,
                 ticks, changes, others>>

-----------------------------------------------------------------------------
(* Calls to Telegram. *)

Delivered(u, c) ==
  /\ told' = IF c = "tell" THEN Count(told, u) ELSE told
  /\ button' = IF c = "edit" THEN [button EXCEPT ![kind[u]] = u] ELSE button
Undelivered == UNCHANGED <<told, button>>

\* An answer that is late: the call was accepted, and will be made again.
TimesOut(u, c) == Delivered(u, c) /\ odd' = odd \cup {<<"unsure", u>>}

ToTelegram(u) ==
  /\ \E c \in Call :
       /\ Doing(u, c)
       /\ \/ Delivered(u, c) /\ Go(u) /\ NoFault /\ UNCHANGED odd
          \/ /\ Fault /\ (TimesOut(u, c) \/ (Undelivered /\ UNCHANGED odd))
             /\ task' = [task EXCEPT ![u].todo = <<"replay">>, ![u].call = c,
                                     ![u].tries = MaxReplays]
             /\ UNCHANGED fate
          \/ Fault /\ Undelivered /\ Leave(u, "cut") /\ UNCHANGED odd
  /\ UNCHANGED <<wire, cache, fsm, rows, done, invites>> /\ Bounded

RefreshedTries(n) == IF n = 1 THEN MaxReplays ELSE n - 1  \* Mutant: a new 429 renews the budget
TriesLeft(n) == n - 1

\* retry_transient: the call alone is made again, a bounded number of times;
\* the handler that made it does not go on.
Replay(u) ==
  /\ Doing(u, "replay")
  /\ \/ Delivered(u, task[u].call) /\ Leave(u, "cut") /\ UNCHANGED odd
     \/ Undelivered /\ Leave(u, "cut") /\ UNCHANGED odd
     \/ /\ TriesLeft(task[u].tries) # 0 /\ Undelivered /\ UNCHANGED <<odd, fate>>
        /\ task' = [task EXCEPT ![u].tries = TriesLeft(@)]
  /\ UNCHANGED <<wire, cache, fsm, rows, done, invites, spent>>

-----------------------------------------------------------------------------
(* The handlers. *)

Written(u) == done' = Count(done, u)

\* create_draft_ad; the dialog it begins is AdDialog's.
Draft(u) ==
  /\ Doing(u, "draft") /\ Written(u) /\ Go(u)
  /\ UNCHANGED <<wire, cache, fsm, rows, button, told, odd, invites, spent>>

\* handle_contact_orm: the event is written for an ad or a seller out of reach
\* too, and not for a contact over the seller's budget.
Unavailable(u) ==
  /\ Doing(u, "seller") /\ Written(u) /\ Refuse(u)
  /\ UNCHANGED <<wire, cache, fsm, rows, button, told, odd, invites, spent>>

Contact(u) ==
  /\ Doing(u, "seller")
  /\ Guarded(u, "seller", Written(u) /\ Go(u), Refuse(u) /\ UNCHANGED done)
  /\ UNCHANGED <<wire, seen, fsm, rows, button, told, invites>> /\ Bounded

\* can_store_personal_data: a deactivated account may.
MayStore == account \in {"open", "restricted", "inactive"}

Consent(u) ==
  /\ Doing(u, "consent") /\ IF MayStore THEN Go(u) ELSE Refuse(u)
  /\ UNCHANGED <<wire, cache, fsm, rows, button, history, invites, spent>>

Await(u) ==
  /\ Doing(u, "await") /\ fsm' = "awaiting" /\ invites' = invites + 1 /\ Go(u)
  /\ UNCHANGED <<wire, cache, rows, button, history, spent>>

\* handle_support_orm looks at the account, and then inserts.
Check(u) ==
  /\ Doing(u, "check") /\ IF MayStore THEN Go(u) ELSE Refuse(u)
  /\ UNCHANGED <<wire, cache, fsm, rows, button, history, invites, spent>>

\* SupportTicket.save: the month in UTC, and the number of tickets plus one that
\* were made in that month by the local calendar.
Counted(month) == Cardinality({t \in tickets : t.made = month})
Reference == [month |-> calendar.utc, number |-> Counted(calendar.utc) + 1]

Taken == \E t \in tickets : t.month = Reference.month /\ t.number = Reference.number
Clashed == odd' = odd \cup {<<"clash", calendar.utc>>} /\ UNCHANGED tickets

\* Until midnight in UTC a ticket of the new local month is not counted.
Late == calendar.local # calendar.utc
Inserted(mine) ==
  /\ tickets' = tickets \cup {[month |-> Reference.month, number |-> Reference.number,
                               made |-> calendar.local, mine |-> mine]}
  /\ odd' = odd \cup IF Late THEN {<<"late", calendar.utc>>} ELSE {}

Ticket(u) ==
  /\ Doing(u, "ticket")
  /\ IF Taken THEN Clashed /\ Leave(u, "cut") /\ UNCHANGED done
     ELSE Inserted(TRUE) /\ Go(u) /\ Written(u)
  /\ UNCHANGED <<wire, cache, fsm, account, setting, button, told, invites, spent>>

\* Letter and messages to the desk, when there is a recipient: a failure is
\* logged, and that is all; but one of the cache the recipients are read from is
\* not caught.
Notify(u, channel) ==
  \/ channel \in listed /\ told' = Count(told, u) /\ Go(u) /\ NoFault
  \/ channel \notin listed /\ UNCHANGED told /\ Go(u) /\ NoFault
  \/ Fault /\ UNCHANGED told /\ (Go(u) \/ Leave(u, "cut"))

MailDesk(u) ==
  /\ Doing(u, "mail") /\ Notify(u, "mail")
  /\ UNCHANGED <<wire, cache, fsm, rows, button, done, odd, invites>> /\ Bounded

TellDesk(u) ==
  /\ Doing(u, "desk") /\ Notify(u, "desk")
  /\ UNCHANGED <<wire, cache, fsm, rows, button, done, odd, invites>> /\ Bounded

Relax(u) ==
  /\ Doing(u, "idle") /\ fsm' = "idle" /\ Go(u)
  /\ UNCHANGED <<wire, cache, rows, button, history, invites, spent>>

\* _resolve_owned under its row lock, and the update of the language.
Gone(u) == kind[u] = "alert" /\ account \in {"none", "erased"}

Write(u) ==
  /\ Doing(u, "write") /\ ~Gone(u) /\ Written(u) /\ Go(u)
  /\ setting' = [setting EXCEPT ![kind[u]] = u]
  /\ UNCHANGED <<wire, cache, fsm, account, tickets, button, told, odd, invites, spent>>

NotWritten(u) ==
  /\ Doing(u, "write") /\ Refuse(u)
  /\ (Gone(u) /\ NoFault) \/ (kind[u] = "alert" /\ Fault)
  /\ UNCHANGED <<wire, cache, fsm, rows, button, history, invites>> /\ Bounded

-----------------------------------------------------------------------------
(* The site and the other users. *)

LookedAt(steps) ==
  \E u \in Update : Underway(u) /\ Author(u) = account /\ Head(task[u].todo) \in steps

\* A withdrawal deletes the tickets of the person.  Bound: it comes where it is
\* seen next.
Withdraw ==
  /\ changes < MaxChanges /\ changes' = changes + 1
  /\ account \in {"open", "restricted"} /\ account' = "erased"
  /\ tickets # {} \/ LookedAt({"gate", "consent", "check", "ticket", "write"})
  /\ tickets' = {t \in tickets : ~t.mine}
  /\ odd' = odd \cup {<<"raced", u>> : u \in {v \in Update : Doing(v, "ticket")}}
            \cup {<<"deleted", t.made>> : t \in tickets \ tickets'}
  /\ UNCHANGED <<wire, task, cache, fsm, setting, button, fate, done, told, invites,
                 ticks, faults, others>>

\* Moderators, and the forms of the site, move the account.
Moves(a) == CASE a = "open" -> {"restricted", "declined", "inactive", "banned"}
              [] a \in {"noconsent", "declined", "inactive", "erased", "banned", "restricted"} -> {"open"}
              [] OTHER -> {"noconsent"}

\* Bound: the account moves where it is looked at next.
MoveAccount ==
  /\ changes < MaxChanges /\ changes' = changes + 1 /\ account' \in Moves(account)
  /\ LookedAt({"gate", "consent", "check", "write"})
  /\ UNCHANGED <<wire, task, cache, fsm, tickets, setting, button, fate, history, invites,
                 ticks, faults, others>>

\* Bound: the others come after the person, as before they cannot be told apart.
OtherTicket ==
  /\ tickets # {}
  /\ others < MaxOthers /\ others' = others + 1
  /\ IF Taken THEN Clashed ELSE Inserted(FALSE)
  /\ UNCHANGED <<wire, task, cache, fsm, account, setting, button, fate, done, told, invites,
                 ticks, faults, changes>>

\* The local month turns an hour or two before that in UTC.  Bound: where a
\* ticket is written next, as nothing else sees it.
MonthTurns ==
  /\ calendar' = IF Late THEN [calendar EXCEPT !.utc = calendar.local]
                 ELSE [calendar EXCEPT !.local = @ + 1]
  /\ calendar'.local <= LastMonth /\ \E u \in Update : Doing(u, "ticket")
  /\ UNCHANGED <<sent, given, acked, kind, listed, task, cache, fsm, rows, button, fate,
                 history, invites, spent>>

-----------------------------------------------------------------------------

Run(u) ==
  \/ Dedup(u) \/ Gate(u) \/ Budget(u) \/ ToTelegram(u) \/ Replay(u)
  \/ Draft(u) \/ Unavailable(u) \/ Contact(u) \/ Consent(u) \/ Await(u)
  \/ Check(u) \/ Ticket(u) \/ MailDesk(u) \/ TellDesk(u) \/ Relax(u)
  \/ Write(u) \/ NotWritten(u)

Next ==
  \/ Send \/ Poll \/ Crash \/ Tick \/ Flush
  \/ Withdraw \/ MoveAccount \/ OtherTicket \/ MonthTurns
  \/ \E u \in Update : Run(u)

Spec == Init /\ [][Next]_vars

\* The event loop does not rest while a task or the poll can go on, and the bot
\* is started again after a crash.
FairSpec == Spec /\ WF_vars(Poll \/ \E u \in Update : Run(u))

=============================================================================
