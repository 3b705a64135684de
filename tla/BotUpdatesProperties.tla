------------------------ MODULE BotUpdatesProperties ------------------------
(***************************************************************************)
(* What the path of an update guarantees, and what it takes to lose it.    *)
(***************************************************************************)
EXTENDS BotUpdates, Functions

Went(flag, u) == <<flag, u>> \in odd
Crashed == \E u \in Update : Went("crash", u)
Topical(topic) == {u \in Update : Topic(kind[u]) = topic}
CutShort(topic) == \E u \in Topical(topic) : fate[u] \in {"cut", "lost"}
Resting(topic) == \A u \in Topical(topic) : ~Underway(u)
Plain(topic) == ~Crashed /\ ~CutShort(topic) /\ ~Went("overlap", topic)

(* A row is written twice for one update only if the process died over it  *)
(* and the cache could not tell (update_id_dedup.py, __call__).            *)
EffectsOnce == \A u \in Update : done[u] > 1 => Went("blind", u) /\ Went("crash", u)

(* The seller hears of a contact once, but for a replay after an answer    *)
(* that came too late (retry.py, retry_transient).                         *)
NoDoubleTalk ==
  \A u \in Update : kind[u] \in {"contact", "stranger"} /\ told[u] > 1 =>
     Went("unsure", u) \/ (Went("blind", u) /\ Went("crash", u))

(* A ticket whose handler came to its end reached the desk, unless every   *)
(* channel that has a recipient failed (support.py,                        *)
(* handle_support_message).                                                *)
ToSilence == IF listed = Channel THEN 2 ELSE IF listed = {} THEN 0 ELSE 1
DeskIsTold ==
  \A u \in Topical("desk") :
     done[u] = 1 /\ fate[u] = "over" /\ told[u] = 0 => faults >= ToSilence

(* Whatever the moments of the requests, less than two windows' worth is   *)
(* admitted in any stretch of one period (cache.py,                        *)
(* bump_rate_limit_window).                                                *)
BoundedRate ==
  \A w \in Window : ~Went("loose", w) =>
     SumFunction(hits[w]) < 2 * Limit

(* Nothing Telegram was told to forget is forgotten: it is handled, or it  *)
(* is known to be lost, and then the process died over it.                 *)
NothingForgotten ==
  \A u \in Update :
     /\ u <= given /\ ~Underway(u) => fate[u] # ""
     /\ fate[u] = "lost" => Went("crash", u) \/ Went("blind", u)

(* Every ticket of the person was asked for, one for each prompt, unless   *)
(* two updates overlapped or a handler was cut before it ended the dialog  *)
(* (support.py, handle_support_message).                                   *)
TicketsAreAsked ==
  Plain("desk") => Cardinality({u \in Update : kind[u] = "text" /\ done[u] > 0}) <= invites

(* The references of a month clash only after one of its tickets has been  *)
(* deleted, or made when the local month was over and that of UTC was not  *)
(* (core/models.py, SupportTicket.save).                                   *)
ReferencesKnown ==
  \A m \in Month : Went("clash", m) => Went("deleted", m) \/ Went("late", m)

(* A withdrawal leaves no ticket behind but one that was being written     *)
(* (support.py, handle_support_orm).                                       *)
TicketsErased == account = "erased" /\ (\E t \in tickets : t.mine) => \E u \in Update : Went("raced", u)

(* A setting is that of the last update that wrote one, and the keyboard   *)
(* shows it (services/alerts.py, _resolve_owned; language.py).             *)
SettingIsLatest ==
  \A s \in Setting : Plain(s) =>
     /\ \A u \in Update : kind[u] = s /\ done[u] > 0 => u <= setting[s]
     /\ Resting(s) => button[s] = setting[s]

(* The guarantees together.                                                *)
BotInv ==
  /\ EffectsOnce /\ NoDoubleTalk /\ DeskIsTold /\ BoundedRate /\ NothingForgotten
  /\ TicketsAreAsked /\ ReferencesKnown /\ TicketsErased /\ SettingIsLatest

-----------------------------------------------------------------------------
(* What makes the guarantees inductive. *)

\* The step an update is at.
At(u) == IF Underway(u) THEN Head(task[u].todo) ELSE "off"

\* What a task may still have before it.
Rests == [
  post |-> {PostSteps}, help |-> {HelpSteps},
  contact |-> {ContactSteps, <<"seller", "tell", "answer">>, <<"tell", "answer">>},
  stranger |-> {ContactSteps, <<"seller", "tell", "answer">>, <<"tell", "answer">>},
  ask |-> {AskSteps, <<"consent", "budget", "await", "answer">>, <<"budget", "await", "answer">>,
           <<"await", "answer">>},
  text |-> {TextSteps, <<"ticket", "mail", "desk", "answer", "idle">>,
            <<"mail", "desk", "answer", "idle">>, <<"desk", "answer", "idle">>,
            <<"answer", "idle">>, <<"refuse", "idle">>, <<"idle">>},
  alert |-> {AlertSteps, <<"edit", "answer">>},
  language |-> {LanguageSteps, <<"edit", "answer">>},
  none |-> {}]
Rest(k) == Rests[k] \cup {<<>>, Middlewares, <<"gate">>, <<"refuse">>, <<"replay">>}
                   \cup IF k \in {"text", "none"} THEN {} ELSE {<<"answer">>}

BotTypeOK ==
  /\ sent \in 0 .. Updates /\ given \in 0 .. sent /\ acked \in 0 .. given
  /\ kind \in [Update -> Kind \cup {"none"}] /\ \A u \in Update : u <= sent => kind[u] # "none"
  /\ task \in [Update -> Task]
  /\ \A u \in Update : task[u].todo \in Rest(kind[u]) /\ (Underway(u) => u <= given)
  /\ seen \subseteq Update /\ fsm \in {"idle", "awaiting"} /\ account \in Account
  /\ window \in [Window -> [count : 0 .. Limit + 1, left : 0 .. Period]]
  /\ hits \in [Window -> [0 .. Period - 1 -> Nat]]
  /\ listed \subseteq Channel
  /\ calendar \in [utc : Month, local : Month]
  /\ tickets \subseteq [month : Month, number : Nat, made : Month, mine : BOOLEAN]
  /\ setting \in [Setting -> 0 .. Updates] /\ button \in [Setting -> 0 .. Updates]
  /\ fate \in [Update -> {"", "over", "cut", "lost"}]
  /\ done \in [Update -> 0 .. 2] /\ told \in [Update -> 0 .. 2]
  /\ invites \in Nat /\ faults \in Nat

\* The steps at which nothing has been written yet.
Ahead == {"gate", "draft", "budget", "seller", "check", "ticket", "write", "spinner",
          "consent", "await"}
Sure(u) == ~(Went("blind", u) /\ Went("crash", u))

\* A fault is behind whatever went wrong, and two behind two.
Blamed(u) ==
  /\ Went("crash", u) \/ Went("blind", u) => faults >= 1
  /\ Went("crash", u) /\ Went("blind", u) => faults >= 2

\* Nothing has been done about an update that is yet to be handled.
Fresh(u) ==
  ~Went("crash", u) /\ (At(u) = "dedup" \/ u > given) =>
     done[u] = 0 /\ told[u] = 0 /\ fate[u] = "" /\ u \notin seen

\* The key tells what has been handled, and will be delivered again.
Keyed(u) ==
  ~Went("blind", u) /\ (\/ done[u] > 0 \/ told[u] > 0 \/ At(u) \notin {"off", "dedup"}
                       \/ (fate[u] # "" /\ (u > acked \/ At(u) = "dedup"))) => u \in seen

\* What is past the key for a second time passed it blindly.
Again(u) == fate[u] # "" /\ At(u) \notin {"off", "dedup"} => ~Sure(u)

Settles(u) ==
  /\ u <= given /\ At(u) = "off" => fate[u] # ""
  /\ fate[u] = "lost" => Went("crash", u) \/ Went("blind", u)

Effect(u) ==
  /\ kind[u] = "ask" => done[u] = 0
  /\ Sure(u) => done[u] <= 1 /\ (At(u) \in Ahead => done[u] = 0)

\* The message is with the seller only when its step is over.
Heard(u) ==
  kind[u] \in {"contact", "stranger"} /\ Sure(u) /\ ~Went("unsure", u) =>
     /\ told[u] <= 1
     /\ At(u) \in Ahead \cup {"tell"} => told[u] = 0
     /\ At(u) = "replay" /\ task[u].call = "tell" => told[u] = 0

\* A ticket the desk does not know of is on its way, or its channels failed.
DeskHears(u) ==
  kind[u] = "text" /\ done[u] = 1 /\ told[u] = 0 /\ faults < ToSilence =>
     /\ fate[u] # "over"
     /\ \/ At(u) \in {"off", "dedup", "mail"}
        \/ At(u) = "desk" /\ (faults = 1 \/ "mail" \notin listed)

\* A replay has a call to make, of a handler that makes it.
Replays(u) ==
  /\ At(u) = "replay" => task[u].call \in Call /\ task[u].tries > 0
  /\ At(u) = "replay" /\ task[u].call = "tell" => kind[u] \in {"contact", "stranger"}
  /\ At(u) = "replay" /\ task[u].call = "edit" => kind[u] \in Setting
  /\ At(u) \in {"check", "ticket"} => task[u].saw = "awaiting"

OneUpdate(u) ==
  /\ Blamed(u) /\ Fresh(u) /\ Keyed(u) /\ Again(u) /\ Settles(u)
  /\ Effect(u) /\ Heard(u) /\ DeskHears(u) /\ Replays(u)

\* On a topic where nothing went wrong the updates take turns.
InTurn(topic) ==
  Plain(topic) =>
    \A u, v \in Topical(topic) : u < v /\ v <= given /\ At(v) # "dedup" => At(u) = "off"

\* The keyboard is one step behind.
Shown(s) ==
  Plain(s) =>
    /\ \A u \in Topical(s) : /\ done[u] > 0 => u <= setting[s]
                             /\ At(u) = "edit" => setting[s] = u
    /\ button[s] = setting[s] \/ \E u \in Topical(s) : At(u) \in {"edit", "replay"}

\* A prompt is for one ticket: that of the dialog it opened.
TicketsOfTexts == {u \in Update : kind[u] = "text" /\ done[u] > 0}
Answering(u) == kind[u] = "text" /\ At(u) \in {"mail", "desk", "answer", "idle", "replay"}
Prompted ==
  Plain("desk") =>
    LET n == Cardinality(TicketsOfTexts) IN
    /\ n <= invites
    /\ fsm = "awaiting" /\ (\A u \in Update : ~Answering(u)) => n < invites
    /\ \A u \in Topical("desk") : kind[u] = "text" /\ At(u) \in {"gate", "check", "ticket"}
                                 /\ task[u].saw = "awaiting" => n < invites

\* Until one is deleted or late, the numbers of a month's tickets are among those
\* the count has given.
Numbered ==
  /\ IsFiniteSet(tickets)
  /\ \A m \in Month :
       Went("deleted", m) \/ Went("late", m)
       \/ \A t \in tickets : t.month = m => t.number <= Counted(m)

\* After a withdrawal nobody writes, unless it was at it already.
Withdrawn ==
  account = "erased" => \/ \E u \in Update : Went("raced", u)
                        \/ (\A t \in tickets : ~t.mine) /\ \A u \in Update : At(u) # "ticket"

\* A window opens with a request and counts at least what it admits; what was
\* admitted before it opened is less than a window's worth.
Upto(h, n) == SumFunction([a \in 0 .. n |-> h[a]])
Opened(w) == Period - window[w].left
WindowKnown(w) ==
  ~Went("loose", w) =>
    IF window[w].left = 0
    THEN window[w].count = 0 /\ hits[w][0] = 0 /\ Upto(hits[w], Period - 1) < Limit
    ELSE /\ hits[w][Opened(w)] > 0
         /\ Upto(hits[w], Opened(w)) <= Limit
         /\ Upto(hits[w], Opened(w)) <= window[w].count
         /\ Upto(hits[w], Period - 1) < Limit + Upto(hits[w], Opened(w))

(* The inductive invariant: each update, each topic and each window is as   *)
(* described, and the tickets are accounted for.                            *)
BotIInv ==
  /\ BotTypeOK /\ \A u \in Update : OneUpdate(u)
  /\ \A topic \in {"desk", "alert", "language"} : InTurn(topic)
  /\ \A s \in Setting : Shown(s)
  /\ Prompted /\ Numbered /\ ReferencesKnown /\ Withdrawn
  /\ \A w \in Window : WindowKnown(w)

(* The bot catches up with what was sent: no refusal, error, replay or      *)
(* restart leaves one open (main.py, configure_dispatcher; retry.py).       *)
AllSettled == \A u \in 1 .. sent : fate[u] # ""
BotAnswers == ~AllSettled ~> AllSettled
=============================================================================
