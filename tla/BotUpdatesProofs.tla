--------------------------- MODULE BotUpdatesProofs ---------------------------
(***************************************************************************)
(* Proofs about the path of an update, for any number of updates, of       *)
(* faults and of ticks, any limit and any period.                          *)
(***************************************************************************)
EXTENDS BotUpdatesProperties, SumFacts, FiniteSetTheorems, TLAPS

-----------------------------------------------------------------------------
(* What a task has before it. *)

\* From which step a task goes on to which, for each kind of update.
Edges(k) ==
  {<<"dedup", "gate">>, <<"gate", "off">>, <<"refuse", "off">>, <<"replay", "off">>} \cup
  CASE k = "post" -> {<<"draft", "answer">>, <<"answer", "off">>}
    [] k \in {"contact", "stranger"} -> {<<"budget", "seller">>, <<"seller", "tell">>,
                                        <<"tell", "answer">>, <<"answer", "off">>}
    [] k = "help" -> {<<"budget", "answer">>, <<"answer", "off">>}
    [] k = "ask" -> {<<"spinner", "consent">>, <<"consent", "budget">>, <<"budget", "await">>,
                     <<"await", "answer">>, <<"answer", "off">>}
    [] k = "text" -> {<<"check", "ticket">>, <<"ticket", "mail">>, <<"mail", "desk">>,
                      <<"desk", "answer">>, <<"answer", "idle">>, <<"refuse", "idle">>, <<"idle", "off">>}
    [] k \in Setting -> {<<"write", "edit">>, <<"edit", "answer">>, <<"answer", "off">>}

Onto(s) == <<Head(s), IF Tail(s) = <<>> THEN "off" ELSE Head(Tail(s))>>

\* A rest is made of steps, what follows its first step is a rest of the same
\* handler, and that step leads where the table says.
LEMMA RestsGoOn ==
  ASSUME NEW k \in Kind, NEW s \in Rest(k), s # <<>>
  PROVE  s \in Seq(Step) /\ Head(s) \in Step /\ Tail(s) \in Rest(k) /\ Onto(s) \in Edges(k)
<1> DEFINE Fine(r) ==
      r \in Seq(Step) /\ Head(r) \in Step /\ Tail(r) \in Rest(k) /\ Onto(r) \in Edges(k)
<1> DEFINE Common == {<<>>, Middlewares, <<"gate">>, <<"refuse">>, <<"replay">>}
<1>1. \A r \in {<<"dedup", "gate">>, <<"gate">>, <<"refuse">>, <<"replay">>} : Fine(r)
  <2>1. Fine(<<"dedup", "gate">>)  BY DEF Step, Call, Rest, Rests, Middlewares, Onto, Edges
  <2>2. Fine(<<"gate">>)  BY DEF Step, Call, Rest, Rests, Middlewares, Onto, Edges
  <2>3. Fine(<<"refuse">>)  BY DEF Step, Call, Rest, Rests, Middlewares, Onto, Edges
  <2>4. Fine(<<"replay">>)  BY DEF Step, Call, Rest, Rests, Middlewares, Onto, Edges
  <2> QED BY <2>1, <2>2, <2>3, <2>4
<1>2. CASE k = "post"
  <2>1. Fine(<<"draft", "answer">>)
    BY <1>2 DEF Step, Call, Rest, Rests, PostSteps, Onto, Edges, Setting
  <2>2. Fine(<<"answer">>)  BY <1>2 DEF Step, Call, Rest, Rests, PostSteps, Onto, Edges, Setting
  <2>3. s \in Common \cup
         {<<"draft", "answer">>, <<"answer">>}
    BY <1>2 DEF Rest, Rests, PostSteps
  <2> QED BY <1>1, <2>1, <2>2, <2>3 DEF Middlewares
<1>3. CASE k \in {"contact", "stranger"}
  <2>1. Fine(<<"budget", "seller", "tell", "answer">>)
    BY <1>3 DEF Step, Call, Rest, Rests, ContactSteps, Onto, Edges, Setting
  <2>2. Fine(<<"seller", "tell", "answer">>)
    BY <1>3 DEF Step, Call, Rest, Rests, ContactSteps, Onto, Edges, Setting
  <2>3. Fine(<<"tell", "answer">>)
    BY <1>3 DEF Step, Call, Rest, Rests, ContactSteps, Onto, Edges, Setting
  <2>4. Fine(<<"answer">>)  BY <1>3 DEF Step, Call, Rest, Rests, ContactSteps, Onto, Edges, Setting
  <2>5. s \in Common \cup
         {<<"budget", "seller", "tell", "answer">>, <<"seller", "tell", "answer">>,
          <<"tell", "answer">>, <<"answer">>}
    BY <1>3 DEF Rest, Rests, ContactSteps
  <2> QED BY <1>1, <2>1, <2>2, <2>3, <2>4, <2>5 DEF Middlewares
<1>4. CASE k = "help"
  <2>1. Fine(<<"budget", "answer">>)
    BY <1>4 DEF Step, Call, Rest, Rests, HelpSteps, Onto, Edges, Setting
  <2>2. Fine(<<"answer">>)  BY <1>4 DEF Step, Call, Rest, Rests, HelpSteps, Onto, Edges, Setting
  <2>3. s \in Common \cup
         {<<"budget", "answer">>, <<"answer">>}
    BY <1>4 DEF Rest, Rests, HelpSteps
  <2> QED BY <1>1, <2>1, <2>2, <2>3 DEF Middlewares
<1>5. CASE k = "ask"
  <2>1. Fine(<<"spinner", "consent", "budget", "await", "answer">>)
    BY <1>5 DEF Step, Call, Rest, Rests, AskSteps, Onto, Edges, Setting
  <2>2. Fine(<<"consent", "budget", "await", "answer">>)
    BY <1>5 DEF Step, Call, Rest, Rests, AskSteps, Onto, Edges, Setting
  <2>3. Fine(<<"budget", "await", "answer">>)
    BY <1>5 DEF Step, Call, Rest, Rests, AskSteps, Onto, Edges, Setting
  <2>4. Fine(<<"await", "answer">>)
    BY <1>5 DEF Step, Call, Rest, Rests, AskSteps, Onto, Edges, Setting
  <2>5. Fine(<<"answer">>)  BY <1>5 DEF Step, Call, Rest, Rests, AskSteps, Onto, Edges, Setting
  <2>6. s \in Common \cup
         {<<"spinner", "consent", "budget", "await", "answer">>,
          <<"consent", "budget", "await", "answer">>, <<"budget", "await", "answer">>,
          <<"await", "answer">>, <<"answer">>}
    BY <1>5 DEF Rest, Rests, AskSteps
  <2> QED BY <1>1, <2>1, <2>2, <2>3, <2>4, <2>5, <2>6 DEF Middlewares
<1>6. CASE k = "text"
  <2>1. Fine(<<"check", "ticket", "mail", "desk", "answer", "idle">>)
    BY <1>6 DEF Step, Call, Rest, Rests, TextSteps, Onto, Edges, Setting
  <2>2. Fine(<<"ticket", "mail", "desk", "answer", "idle">>)
    BY <1>6 DEF Step, Call, Rest, Rests, TextSteps, Onto, Edges, Setting
  <2>3. Fine(<<"mail", "desk", "answer", "idle">>)
    BY <1>6 DEF Step, Call, Rest, Rests, TextSteps, Onto, Edges, Setting
  <2>4. Fine(<<"desk", "answer", "idle">>)
    BY <1>6 DEF Step, Call, Rest, Rests, TextSteps, Onto, Edges, Setting
  <2>5. Fine(<<"answer", "idle">>)
    BY <1>6 DEF Step, Call, Rest, Rests, TextSteps, Onto, Edges, Setting
  <2>6. Fine(<<"idle">>)  BY <1>6 DEF Step, Call, Rest, Rests, TextSteps, Onto, Edges, Setting
  <2>7. Fine(<<"refuse", "idle">>)
    BY <1>6 DEF Step, Call, Rest, Rests, TextSteps, Onto, Edges, Setting
  <2>8. s \in Common \cup
         {<<"check", "ticket", "mail", "desk", "answer", "idle">>,
          <<"ticket", "mail", "desk", "answer", "idle">>, <<"mail", "desk", "answer", "idle">>,
          <<"desk", "answer", "idle">>, <<"answer", "idle">>, <<"idle">>, <<"refuse", "idle">>}
    BY <1>6 DEF Rest, Rests, TextSteps
  <2> QED BY <1>1, <2>1, <2>2, <2>3, <2>4, <2>5, <2>6, <2>7, <2>8 DEF Middlewares
<1>7. CASE k \in {"alert", "language"}
  <2>1. Fine(<<"write", "edit", "answer">>)
    BY <1>7 DEF Step, Call, Rest, Rests, AlertSteps, LanguageSteps, Onto, Edges, Setting
  <2>2. Fine(<<"edit", "answer">>)
    BY <1>7 DEF Step, Call, Rest, Rests, AlertSteps, LanguageSteps, Onto, Edges, Setting
  <2>3. Fine(<<"answer">>)
    BY <1>7 DEF Step, Call, Rest, Rests, AlertSteps, LanguageSteps, Onto, Edges, Setting
  <2>4. s \in Common \cup
         {<<"write", "edit", "answer">>, <<"edit", "answer">>, <<"answer">>}
    BY <1>7 DEF Rest, Rests, AlertSteps, LanguageSteps
  <2> QED BY <1>1, <2>1, <2>2, <2>3, <2>4 DEF Middlewares
<1> QED BY <1>2, <1>3, <1>4, <1>5, <1>6, <1>7 DEF Kind

\* What a handler has before it is one of its rests, and so is a refusal.
LEMMA HandlersAreRests ==
  ASSUME NEW k \in Kind
  PROVE  /\ Handler[k] \in Rest(k) /\ Handler[k] # <<>>
         /\ <<"refuse">> \in Rest(k) /\ <<"replay">> \in Rest(k) /\ <<>> \in Rest(k)
         /\ k = "text" => <<"refuse", "idle">> \in Rest(k)
<1>1. /\ k = "post" => Handler[k] = PostSteps
      /\ k \in {"contact", "stranger"} => Handler[k] = ContactSteps
      /\ k = "help" => Handler[k] = HelpSteps
      /\ k = "ask" => Handler[k] = AskSteps
      /\ k = "text" => Handler[k] = TextSteps
      /\ k = "alert" => Handler[k] = AlertSteps
      /\ k = "language" => Handler[k] = LanguageSteps
  BY DEF Handler
<1>2. PostSteps # <<>> /\ PostSteps \in Rest("post")  BY DEF Rest, Rests, PostSteps
<1>3. ContactSteps # <<>> /\ ContactSteps \in Rest("contact") /\ ContactSteps \in Rest("stranger")
  BY DEF Rest, Rests, ContactSteps
<1>4. HelpSteps # <<>> /\ HelpSteps \in Rest("help")  BY DEF Rest, Rests, HelpSteps
<1>5. AskSteps # <<>> /\ AskSteps \in Rest("ask")  BY DEF Rest, Rests, AskSteps
<1>6. TextSteps # <<>> /\ TextSteps \in Rest("text")  BY DEF Rest, Rests, TextSteps
<1>7. AlertSteps # <<>> /\ AlertSteps \in Rest("alert")  BY DEF Rest, Rests, AlertSteps
<1>8. LanguageSteps # <<>> /\ LanguageSteps \in Rest("language")  BY DEF Rest, Rests, LanguageSteps
<1>9. Handler[k] \in Rest(k) /\ Handler[k] # <<>>
  BY <1>1, <1>2, <1>3, <1>4, <1>5, <1>6, <1>7, <1>8 DEF Kind
<1>10. k = "text" => <<"refuse", "idle">> \in Rest(k)  BY DEF Rest, Rests
<1> QED BY <1>9, <1>10 DEF Rest

\* The first step of each handler.
LEMMA Beginnings ==
  /\ Head(Handler["post"]) = "draft" /\ Head(Handler["ask"]) = "spinner"
  /\ Head(Handler["contact"]) = "budget" /\ Head(Handler["stranger"]) = "budget"
  /\ Head(Handler["help"]) = "budget" /\ Head(Handler["text"]) = "check"
  /\ Head(Handler["alert"]) = "write" /\ Head(Handler["language"]) = "write"
BY DEF Handler, PostSteps, ContactSteps, HelpSteps, AskSteps, TextSteps, AlertSteps, LanguageSteps

LEMMA WireIsCounted ==
  ASSUME BotTypeOK
  PROVE  /\ sent \in Nat /\ given \in Nat /\ acked \in Nat
         /\ acked <= given /\ given <= sent /\ sent <= Updates
         /\ \A u \in Update : u \in Nat /\ u >= 1 /\ u <= Updates
<1>1. Updates \in Nat  BY Bounds
<1>2. sent \in 0 .. Updates /\ given \in 0 .. sent /\ acked \in 0 .. given  BY DEF BotTypeOK
<1>3. sent \in Nat /\ given \in Nat /\ acked \in Nat  BY <1>1, <1>2
<1> QED BY <1>1, <1>2, <1>3 DEF Update

\* What is on its way was sent, and is at a step.
LEMMA WaysHaveSteps ==
  ASSUME BotTypeOK, NEW u \in Update
  PROVE  /\ Underway(u) <=> At(u) # "off"
         /\ At(u) # "off" => kind[u] \in Kind /\ At(u) \in Step /\ u <= given
<1>1. task[u].todo \in Rest(kind[u]) /\ (Underway(u) => u <= given)  BY DEF BotTypeOK
<1>2. Underway(u) => kind[u] \in Kind
  <2>1. sent \in Nat /\ given \in Nat /\ given <= sent /\ u \in Nat  BY WireIsCounted
  <2>2. Underway(u) => u <= sent  BY <1>1, <2>1
  <2>3. kind[u] \in Kind \cup {"none"} /\ (u <= sent => kind[u] # "none")  BY DEF BotTypeOK
  <2> QED BY <2>2, <2>3
<1>3. Underway(u) => Head(task[u].todo) \in Step  BY <1>1, <1>2, RestsGoOn DEF Underway
<1>4. "off" \notin Step  BY DEF Step, Call
<1> QED BY <1>1, <1>2, <1>3, <1>4 DEF At

-----------------------------------------------------------------------------
(* A step of one update. *)

\* u comes from the step x to the step y; the others stay where they are.
Comes(u, x, y) ==
  /\ At(u) = x /\ At(u)' = y
  /\ \A v \in Update \ {u} : At(v)' = At(v) /\ task'[v] = task[v] /\ fate'[v] = fate[v]
  /\ task' \in [Update -> Task] /\ task'[u].todo \in Rest(kind[u])
  /\ fate' \in [Update -> {"", "over", "cut", "lost"}]
  /\ y # "off" => fate'[u] = fate[u] /\ task'[u].saw = task[u].saw
  /\ y = "off" => /\ fate'[u] # "" /\ (fate[u] # "" => fate'[u] = fate[u])
                  /\ fate'[u] = "lost" => fate[u] = "lost"

LEMMA OffIsOff == Off \in Task /\ Off.todo = <<>>
<1>1. MaxReplays \in Nat  BY Bounds
<1>2. Off \in Task  BY <1>1 DEF Off, Task
<1>3. Off.todo = <<>>  BY DEF Off
<1> QED BY <1>2, <1>3

LEMMA ContinueComes ==
  ASSUME BotTypeOK, NEW u \in Update, Underway(u), NEW r \in Rest(kind[u]), Continue(u, r)
  PROVE  /\ Comes(u, At(u), IF r = <<>> THEN "off" ELSE Head(r))
         /\ r = <<>> => fate' = [fate EXCEPT ![u] = IF @ = "" THEN "over" ELSE @]
<1>1. kind[u] \in Kind  BY WaysHaveSteps
<1>2. r # <<>> => r \in Seq(Step) /\ Head(r) \in Step  BY <1>1, RestsGoOn
<1>3. task \in [Update -> Task] /\ fate \in [Update -> {"", "over", "cut", "lost"}]  BY DEF BotTypeOK
<1>5. CASE r = <<>>
  <2>1. task' = [task EXCEPT ![u] = Off] /\ fate' = [fate EXCEPT ![u] = IF @ = "" THEN "over" ELSE @]
    BY <1>5 DEF Continue, Settle
  <2>2. Off \in Task  BY OffIsOff
  <2>3. task' \in [Update -> Task] /\ task'[u] = Off  BY <1>3, <2>1, <2>2
  <2>4. \A v \in Update \ {u} : task'[v] = task[v] /\ fate'[v] = fate[v]  BY <1>3, <2>1
  <2>5. fate' \in [Update -> {"", "over", "cut", "lost"}] /\ fate'[u] = IF fate[u] = "" THEN "over" ELSE fate[u]
    BY <1>3, <2>1
  <2>6. task'[u].todo = <<>> /\ At(u)' = "off"
    <3>1. task'[u].todo = <<>>  BY <2>2, <2>3, OffIsOff
    <3> QED BY <3>1 DEF At, Underway
  <2>7. \A v \in Update \ {u} : At(v)' = At(v)  BY <2>4 DEF At, Underway
  <2> QED BY <1>5, <2>1, <2>3, <2>4, <2>5, <2>6, <2>7 DEF Comes
<1>6. CASE r # <<>>
  <2>1. task' = [task EXCEPT ![u].todo = r] /\ fate' = fate  BY <1>6 DEF Continue
  <2>2. task[u] \in Task  BY <1>3
  <2>3. [task[u] EXCEPT !.todo = r] \in Task  BY <1>2, <1>6, <2>2 DEF Task
  <2>4. task' \in [Update -> Task] /\ task'[u] = [task[u] EXCEPT !.todo = r]  BY <1>3, <2>1, <2>3
  <2>5. task'[u].todo = r /\ task'[u].saw = task[u].saw  BY <2>2, <2>4 DEF Task
  <2>6. \A v \in Update \ {u} : task'[v] = task[v]  BY <1>3, <2>1
  <2>7. At(u)' = Head(r)  BY <1>6, <2>5 DEF At, Underway
  <2>8. \A v \in Update \ {u} : At(v)' = At(v)  BY <2>6 DEF At, Underway
  <2>9. Head(r) # "off"  BY <1>2, <1>6 DEF Step, Call
  <2> QED BY <1>3, <1>6, <2>1, <2>4, <2>5, <2>6, <2>7, <2>8, <2>9 DEF Comes
<1> QED BY <1>5, <1>6

LEMMA GoComes ==
  ASSUME BotTypeOK, NEW u \in Update, Underway(u), Go(u)
  PROVE  \E y : Comes(u, At(u), y) /\ <<At(u), y>> \in Edges(kind[u])
<1> DEFINE s == task[u].todo
<1>1. kind[u] \in Kind /\ s \in Rest(kind[u]) /\ s # <<>>  BY WaysHaveSteps DEF BotTypeOK, Underway
<1>2. Tail(s) \in Rest(kind[u]) /\ Onto(s) \in Edges(kind[u])  BY <1>1, RestsGoOn
<1>3. Comes(u, At(u), IF Tail(s) = <<>> THEN "off" ELSE Head(Tail(s)))
  BY <1>2, ContinueComes DEF Go
<1>4. At(u) = Head(s)  BY DEF At
<1> QED BY <1>2, <1>3, <1>4 DEF Onto

LEMMA RefuseComes ==
  ASSUME BotTypeOK, NEW u \in Update, Underway(u), Refuse(u)
  PROVE  Comes(u, At(u), "refuse")
<1>1. kind[u] \in Kind  BY WaysHaveSteps
<1> DEFINE r == IF kind[u] = "text" THEN <<"refuse", "idle">> ELSE <<"refuse">>
<1>2. r \in Rest(kind[u]) /\ r # <<>> /\ Head(r) = "refuse"  BY <1>1, HandlersAreRests
<1>3. Continue(u, r)  BY DEF Refuse
<1>4. Comes(u, At(u), IF r = <<>> THEN "off" ELSE Head(r))
  <2> HIDE DEF r
  <2> QED BY <1>2, <1>3, ContinueComes
<1> QED BY <1>2, <1>4

LEMMA LeaveComes ==
  ASSUME BotTypeOK, NEW u \in Update, Underway(u), NEW f \in {"over", "cut"}, Leave(u, f)
  PROVE  Comes(u, At(u), "off")
<1>1. task \in [Update -> Task] /\ fate \in [Update -> {"", "over", "cut", "lost"}]  BY DEF BotTypeOK
<1>2. task' = [task EXCEPT ![u] = Off] /\ fate' = [fate EXCEPT ![u] = IF @ = "" THEN f ELSE @]
  BY DEF Leave, Settle
<1>3. Off \in Task  BY OffIsOff
<1>4. task' \in [Update -> Task] /\ task'[u] = Off  BY <1>1, <1>2, <1>3
<1>5. \A v \in Update \ {u} : task'[v] = task[v] /\ fate'[v] = fate[v]  BY <1>1, <1>2
<1>6. fate' \in [Update -> {"", "over", "cut", "lost"}] /\ fate'[u] = IF fate[u] = "" THEN f ELSE fate[u]
  BY <1>1, <1>2
<1>7. task'[u].todo = <<>> /\ At(u)' = "off"
  <2>1. task'[u].todo = <<>>  BY <1>4, OffIsOff
  <2> QED BY <2>1 DEF At, Underway
<1>8. \A v \in Update \ {u} : At(v)' = At(v)  BY <1>5 DEF At, Underway
<1>9. <<>> \in Rest(kind[u])  BY DEF Rest
<1> QED BY <1>4, <1>5, <1>6, <1>7, <1>8, <1>9 DEF Comes

-----------------------------------------------------------------------------
(* What a step leaves as it was. *)

DataTypes ==
  /\ seen \subseteq Update /\ fsm \in {"idle", "awaiting"} /\ account \in Account
  /\ window \in [Window -> [count : 0 .. Limit + 1, left : 0 .. Period]]
  /\ hits \in [Window -> [0 .. Period - 1 -> Nat]]
  /\ listed \subseteq Channel /\ calendar \in [utc : Month, local : Month]
  /\ tickets \subseteq [month : Month, number : Nat, made : Month, mine : BOOLEAN]
  /\ setting \in [Setting -> 0 .. Updates] /\ button \in [Setting -> 0 .. Updates]
  /\ done \in [Update -> 0 .. 2] /\ told \in [Update -> 0 .. 2]
  /\ invites \in Nat /\ faults \in Nat

\* The flags whose subject is an update and on which the guarantees rest.
SameFlags(v) == \A f \in {"crash", "blind", "unsure"} : Went(f, v)' <=> Went(f, v)

\* u goes on, past the key; of the others nothing changes.
Passes(u, x, y) ==
  /\ Comes(u, x, y) /\ x \notin {"off", "dedup"} /\ y # "dedup"
  /\ UNCHANGED <<sent, given, acked, kind, listed, calendar, seen>>
  /\ \A v \in Update \ {u} : done'[v] = done[v] /\ told'[v] = told[v] /\ SameFlags(v)
  /\ \A f \in {"crash", "blind"} : Went(f, u)' <=> Went(f, u)
  /\ Went("unsure", u) => Went("unsure", u)'
  /\ odd \subseteq odd' /\ faults <= faults'

LEMMA OthersStand ==
  ASSUME NEW v \in Update, OneUpdate(v), SameFlags(v), UNCHANGED <<given, acked, kind, listed>>,
         v \in seen' <=> v \in seen, At(v)' = At(v), task'[v] = task[v], fate'[v] = fate[v],
         done'[v] = done[v], told'[v] = told[v], faults \in Nat, faults' \in Nat, faults <= faults'
  PROVE  OneUpdate(v)'
<1>1. /\ Went("crash", v)' <=> Went("crash", v)
      /\ Went("blind", v)' <=> Went("blind", v)
      /\ Went("unsure", v)' <=> Went("unsure", v)
  BY DEF SameFlags
<1>2. Blamed(v)'  BY <1>1 DEF OneUpdate, Blamed
<1>3. Fresh(v)' /\ Keyed(v)' /\ Again(v)' /\ Settles(v)'
  BY <1>1 DEF OneUpdate, Fresh, Keyed, Again, Settles, Sure
<1>4. Effect(v)' /\ Heard(v)'  BY <1>1 DEF OneUpdate, Effect, Heard, Sure
<1>5. DeskHears(v)'
  <2>1. ToSilence' = ToSilence /\ ToSilence \in 0 .. 2  BY DEF ToSilence
  <2>2. faults' < ToSilence' => faults < ToSilence /\ (faults = 1 => faults' = 1)  BY <2>1
  <2> QED BY <2>2 DEF OneUpdate, DeskHears
<1>6. Replays(v)'  BY DEF OneUpdate, Replays
<1> QED BY <1>2, <1>3, <1>4, <1>5, <1>6 DEF OneUpdate

\* On a topic where nothing has gone wrong nothing had.
LEMMA PlainBefore ==
  ASSUME NEW topic, kind' = kind, odd \subseteq odd',
         \A v \in Update : fate[v] \in {"cut", "lost"} => fate'[v] \in {"cut", "lost"},
         Plain(topic)'
  PROVE  Plain(topic)
<1>1. ~Crashed  BY DEF Plain, Crashed, Went
<1>2. ~CutShort(topic)  BY DEF Plain, CutShort, Topical
<1>3. ~Went("overlap", topic)  BY DEF Plain, Went
<1> QED BY <1>1, <1>2, <1>3 DEF Plain

LEMMA PassingIsPlain ==
  ASSUME NEW u \in Update, NEW x, NEW y, Passes(u, x, y), NEW topic, Plain(topic)'
  PROVE  Plain(topic)
<1>1. \A v \in Update : fate[v] \in {"cut", "lost"} => fate'[v] \in {"cut", "lost"}
  <2>1. \A v \in Update \ {u} : fate'[v] = fate[v]  BY DEF Passes, Comes
  <2>2. fate[u] # "" => fate'[u] = fate[u]  BY DEF Passes, Comes
  <2> QED BY <2>1, <2>2
<1> QED BY <1>1, PlainBefore DEF Passes

LEMMA PassingKeepsTypes ==
  ASSUME BotTypeOK, NEW u \in Update, NEW x, NEW y, Passes(u, x, y), DataTypes'
  PROVE  BotTypeOK'
<1>1. \A v \in Update : task'[v].todo \in Rest(kind[v])
  BY DEF BotTypeOK, Passes, Comes
<1>2. Underway(u)  BY WaysHaveSteps DEF Passes, Comes
<1>3. \A v \in Update : Underway(v)' => v <= given
  BY <1>2 DEF BotTypeOK, Passes, Comes, Underway
<1>4. /\ task' \in [Update -> Task] /\ fate' \in [Update -> {"", "over", "cut", "lost"}]
      /\ sent' = sent /\ given' = given /\ acked' = acked /\ kind' = kind
  BY DEF Passes, Comes
<1> QED BY <1>1, <1>3, <1>4 DEF BotTypeOK, DataTypes

\* All that need be shown of the update that goes on is what it did.
LEMMA PassingKeeps ==
  ASSUME BotIInv, NEW u \in Update, NEW x, NEW y, Passes(u, x, y), DataTypes',
         Effect(u)', Heard(u)', DeskHears(u)', Replays(u)'
  PROVE  /\ BotTypeOK' /\ \A v \in Update : OneUpdate(v)'
         /\ \A topic \in {"desk", "alert", "language"} : InTurn(topic)'
<1>0. BotTypeOK /\ \A v \in Update : OneUpdate(v)  BY DEF BotIInv
<1>1. BotTypeOK'  BY <1>0, PassingKeepsTypes
<1>2. faults \in Nat /\ faults' \in Nat /\ faults <= faults'  BY <1>0, <1>1 DEF BotTypeOK, Passes
<1>3. ASSUME NEW v \in Update \ {u} PROVE OneUpdate(v)'
  <2>1. /\ SameFlags(v) /\ given' = given /\ acked' = acked /\ kind' = kind /\ seen' = seen
        /\ listed' = listed
        /\ At(v)' = At(v) /\ task'[v] = task[v] /\ fate'[v] = fate[v]
        /\ done'[v] = done[v] /\ told'[v] = told[v]
    BY DEF Passes, Comes
  <2> QED BY <1>0, <1>2, <2>1, OthersStand
<1>4. OneUpdate(u)'
  <2>1. /\ given' = given /\ acked' = acked /\ kind' = kind /\ seen' = seen
        /\ Went("crash", u)' <=> Went("crash", u)
        /\ Went("blind", u)' <=> Went("blind", u)
    BY DEF Passes
  <2>2. At(u) \notin {"off", "dedup"} /\ At(u)' # "dedup"  BY DEF Passes, Comes
  <2>3. ~(u > given)
    <3>1. u <= given /\ u \in Nat /\ given \in Nat  BY <1>0, <2>2, WaysHaveSteps, WireIsCounted
    <3> QED BY <3>1
  <2>4. Blamed(u)'  BY <1>0, <1>2, <2>1 DEF OneUpdate, Blamed
  <2>5. Fresh(u)'  BY <2>1, <2>2, <2>3 DEF Fresh
  <2>6. ~Went("blind", u) => u \in seen  BY <1>0, <2>2 DEF OneUpdate, Keyed
  <2>7. Keyed(u)'  BY <2>1, <2>6 DEF Keyed
  <2>8. At(u)' # "off" => fate'[u] = fate[u]  BY DEF Passes, Comes
  <2>9. Again(u)'  BY <1>0, <2>1, <2>2, <2>8 DEF OneUpdate, Again, Sure
  <2>10. At(u)' = "off" => fate'[u] # "" /\ (fate'[u] = "lost" => fate[u] = "lost")
    BY DEF Passes, Comes
  <2>11. Settles(u)'  BY <1>0, <2>1, <2>8, <2>10 DEF OneUpdate, Settles
  <2> QED BY <2>4, <2>5, <2>7, <2>9, <2>11 DEF OneUpdate
<1>5. ASSUME NEW topic \in {"desk", "alert", "language"}, Plain(topic)',
             NEW v \in Topical(topic), NEW w \in Topical(topic), v < w,
             w <= given', At(w)' # "dedup"
      PROVE  At(v)' = "off"
  <2>1. InTurn(topic) /\ Plain(topic)  BY <1>5, PassingIsPlain DEF BotIInv
  <2>2. v \in Update /\ w \in Update  BY DEF Topical
  <2>3. w <= given /\ At(w) # "dedup"  BY <1>5, <2>2 DEF Passes, Comes
  <2>4. At(v) = "off"  BY <1>5, <2>1, <2>3 DEF InTurn
  <2> QED BY <2>2, <2>4 DEF Passes, Comes
<1>6. \A topic : Topical(topic)' = Topical(topic)  BY DEF Topical, Passes
<1>7. \A topic \in {"desk", "alert", "language"} : InTurn(topic)'  BY <1>5, <1>6 DEF InTurn
<1> QED BY <1>1, <1>3, <1>4, <1>7

\* A step that writes no row and sends no message.
LEMMA SilentKeeps ==
  ASSUME BotIInv, NEW u \in Update, NEW x, NEW y, Passes(u, x, y), faults' \in Nat,
         done'[u] = done[u], told'[u] = told[u],
         x \notin {"mail", "desk"}, y # "replay",
         y \in Ahead \cup {"tell"} => x \in Ahead,
         y \in {"check", "ticket"} => task[u].saw = "awaiting"
  PROVE  Effect(u)' /\ Heard(u)' /\ DeskHears(u)' /\ Replays(u)'
<1>1. /\ kind' = kind /\ At(u) = x /\ At(u)' = y /\ x \notin {"off", "dedup"}
      /\ Went("crash", u)' <=> Went("crash", u)
      /\ Went("blind", u)' <=> Went("blind", u)
      /\ Went("unsure", u) => Went("unsure", u)'
      /\ y # "off" => task'[u].saw = task[u].saw
      /\ faults <= faults'
  BY DEF Passes, Comes
<1>2. OneUpdate(u) /\ faults \in Nat  BY DEF BotIInv, BotTypeOK
<1>3. Effect(u)'  BY <1>1, <1>2 DEF OneUpdate, Effect, Sure
<1>4. Heard(u)'  BY <1>1, <1>2 DEF OneUpdate, Heard, Sure
<1>5. ~(kind[u] = "text" /\ done[u] = 1 /\ told[u] = 0 /\ faults < ToSilence)
  BY <1>1, <1>2 DEF OneUpdate, DeskHears
<1>6. DeskHears(u)'
  <2>1. ToSilence' = ToSilence /\ ToSilence \in 0 .. 2  BY DEF ToSilence, Passes
  <2> QED BY <1>1, <1>2, <1>5, <2>1 DEF DeskHears
<1>7. Replays(u)'  BY <1>1 DEF Replays
<1> QED BY <1>3, <1>4, <1>6, <1>7

\* A step that writes the row.
LEMMA WritingKeeps ==
  ASSUME BotIInv, NEW u \in Update, NEW x, NEW y, Passes(u, x, y), faults' \in Nat,
         Written(u), told'[u] = told[u],
         x \in Ahead, y \notin Ahead \cup {"replay"}, kind[u] = "text" => y = "mail",
         kind[u] # "ask"
  PROVE  Effect(u)' /\ Heard(u)' /\ DeskHears(u)' /\ Replays(u)'
<1>1. /\ kind' = kind /\ At(u) = x /\ At(u)' = y /\ x \notin {"off", "dedup"}
      /\ Went("crash", u)' <=> Went("crash", u)
      /\ Went("blind", u)' <=> Went("blind", u)
      /\ Went("unsure", u) => Went("unsure", u)'
      /\ y # "off" => fate'[u] = fate[u]
      /\ faults <= faults'
  BY DEF Passes, Comes
<1>2. OneUpdate(u) /\ faults \in Nat /\ done \in [Update -> 0 .. 2]  BY DEF BotIInv, BotTypeOK
<1>3. done'[u] = IF done[u] < 2 THEN done[u] + 1 ELSE done[u]  BY <1>2 DEF Written, Count
<1>4. Sure(u) => done[u] = 0  BY <1>1, <1>2 DEF OneUpdate, Effect
<1>5. Effect(u)'  BY <1>1, <1>3, <1>4 DEF Effect, Sure
<1>6. Heard(u)'  BY <1>1, <1>2 DEF OneUpdate, Heard, Sure
<1>7. ToSilence' = ToSilence /\ ToSilence \in 0 .. 2  BY DEF ToSilence, Passes
<1>8. faults' < ToSilence' => fate[u] = ""
  <2>1. faults' < ToSilence' => Sure(u)  BY <1>1, <1>2, <1>7 DEF OneUpdate, Blamed, Sure
  <2> QED BY <1>1, <1>2, <2>1 DEF OneUpdate, Again
<1>9. DeskHears(u)'  BY <1>1, <1>8 DEF DeskHears
<1>10. Replays(u)'  BY <1>1 DEF Replays, Ahead
<1> QED BY <1>5, <1>6, <1>9, <1>10

LEMMA ShownStands ==
  ASSUME BotIInv, NEW u \in Update, NEW x, NEW y, Passes(u, x, y), NEW s \in Setting,
         setting' = setting, button' = button, \A v \in Topical(s) : done'[v] = done[v],
         x \notin {"edit", "replay"}, y # "edit"
  PROVE  Shown(s)'
<1>1. ASSUME Plain(s)' PROVE Shown(s) /\ Plain(s)  BY <1>1, PassingIsPlain DEF BotIInv
<1>2. Topical(s)' = Topical(s)  BY DEF Topical, Passes
<1>3. ASSUME NEW v \in Topical(s)
      PROVE  /\ At(v)' = "edit" => At(v) = "edit"
             /\ At(v) \in {"edit", "replay"} => At(v)' \in {"edit", "replay"}
  BY DEF Topical, Passes, Comes
<1> QED BY <1>1, <1>2, <1>3 DEF Shown

LEMMA PromptedStands ==
  ASSUME BotIInv, NEW u \in Update, NEW x, NEW y, Passes(u, x, y),
         invites' = invites, fsm' = fsm, \A v \in Update : kind[v] = "text" => done'[v] = done[v],
         kind[u] = "text" =>
           /\ x \in {"mail", "desk", "answer", "idle", "replay"} =>
                y \in {"mail", "desk", "answer", "idle", "replay"}
           /\ y \in {"gate", "check", "ticket"} => x \in {"gate", "check", "ticket"}
  PROVE  Prompted'
<1>1. ASSUME Plain("desk")' PROVE Prompted /\ Plain("desk")  BY <1>1, PassingIsPlain DEF BotIInv
<1>2. kind' = kind /\ Topical("desk")' = Topical("desk")  BY DEF Topical, Passes
<1>3. TicketsOfTexts' = TicketsOfTexts  BY <1>2 DEF TicketsOfTexts
<1>4. \A v \in Update : Answering(v) => Answering(v)'
  BY <1>2 DEF Answering, Passes, Comes
<1>5. \A v \in Update : /\ kind[v] = "text" /\ At(v)' \in {"gate", "check", "ticket"}
                        /\ task'[v].saw = "awaiting"
                        => At(v) \in {"gate", "check", "ticket"} /\ task[v].saw = "awaiting"
  BY DEF Passes, Comes
<1>6. Topical("desk") \subseteq Update  BY DEF Topical
<1> DEFINE n == Cardinality(TicketsOfTexts)
<1>7. n' = n  BY <1>3
<1>8. ASSUME Plain("desk")'
      PROVE  /\ n <= invites
             /\ fsm = "awaiting" /\ (\A v \in Update : ~Answering(v)) => n < invites
             /\ \A v \in Topical("desk") : kind[v] = "text" /\ At(v) \in {"gate", "check", "ticket"}
                                           /\ task[v].saw = "awaiting" => n < invites
  BY <1>1, <1>8 DEF Prompted
<1> QED
  <2> HIDE DEF n
  <2>1. ASSUME Plain("desk")'
        PROVE  /\ n' <= invites'
               /\ fsm' = "awaiting" /\ (\A v \in Update : ~Answering(v)') => n' < invites'
               /\ \A v \in Topical("desk")' : kind'[v] = "text" /\ At(v)' \in {"gate", "check", "ticket"}
                                             /\ task'[v].saw = "awaiting" => n' < invites'
    BY <1>2, <1>4, <1>5, <1>6, <1>7, <1>8, <2>1
  <2> QED BY <2>1 DEF Prompted, n

LEMMA NumbersStand ==
  ASSUME BotIInv, tickets' = tickets, odd \subseteq odd',
         \A m \in Month : Went("clash", m)' => Went("clash", m)
  PROVE  Numbered' /\ ReferencesKnown'
<1>1. Numbered /\ ReferencesKnown  BY DEF BotIInv
<1>2. \A f, m : Went(f, m) => Went(f, m)'  BY DEF Went
<1>3. \A m : Counted(m)' = Counted(m)  BY DEF Counted
<1>4. Numbered'  BY <1>1, <1>2, <1>3 DEF Numbered
<1>5. ReferencesKnown'  BY <1>1, <1>2 DEF ReferencesKnown
<1> QED BY <1>4, <1>5

LEMMA WithdrawnStands ==
  ASSUME BotIInv, NEW u \in Update, NEW x, NEW y, Passes(u, x, y),
         account' = account, tickets' = tickets, y = "ticket" => account # "erased"
  PROVE  Withdrawn'
<1>1. Withdrawn  BY DEF BotIInv
<1>2. (\E v \in Update : Went("raced", v)) => \E v \in Update : Went("raced", v)'
  BY DEF Went, Passes
<1>3. account = "erased" /\ (\A v \in Update : At(v) # "ticket") => \A v \in Update : At(v)' # "ticket"
  BY DEF Passes, Comes
<1> QED BY <1>1, <1>2, <1>3 DEF Withdrawn

LEMMA WindowsStand ==
  ASSUME BotIInv, window' = window, hits' = hits, odd \subseteq odd'
  PROVE  \A w \in Window : WindowKnown(w)'
<1>1. \A w \in Window : WindowKnown(w)  BY DEF BotIInv
<1>2. \A w \in Window : Went("loose", w) => Went("loose", w)'  BY DEF Went
<1> QED BY <1>1, <1>2 DEF WindowKnown, Upto, Opened

-----------------------------------------------------------------------------
(* The steps, one by one. *)

\* On the topic of a setting are the updates that make it.
LEMMA TopicOfSetting ==
  ASSUME NEW s \in Setting, NEW v \in Topical(s)
  PROVE  v \in Update /\ kind[v] = s
BY DEF Topical, Topic, Setting

\* A step that raises no flag the guarantees rest on passes.
LEMMA PassesIf ==
  ASSUME NEW u \in Update, NEW x, NEW y, Comes(u, x, y), x \notin {"off", "dedup"}, y # "dedup",
         UNCHANGED <<sent, given, acked, kind, listed, calendar, seen>>,
         \A v \in Update \ {u} : done'[v] = done[v] /\ told'[v] = told[v],
         odd \subseteq odd', faults <= faults',
         \A f \in {"crash", "blind"}, v \in Update : <<f, v>> \in odd' => <<f, v>> \in odd,
         \A v \in Update \ {u} : <<"unsure", v>> \in odd' => <<"unsure", v>> \in odd
  PROVE  Passes(u, x, y)
<1>1. \A v \in Update \ {u} : SameFlags(v)  BY DEF SameFlags, Went
<1>2. \A f \in {"crash", "blind"} : Went(f, u)' <=> Went(f, u)  BY DEF Went
<1>3. Went("unsure", u) => Went("unsure", u)'  BY DEF Went
<1> QED BY <1>1, <1>2, <1>3 DEF Passes

\* A step that only leads somewhere else, and may have passed a window.
LEMMA MeteredKeeps ==
  ASSUME BotIInv, NEW u \in Update, NEW x, NEW y, Comes(u, x, y),
         UNCHANGED <<sent, given, acked, kind, listed, calendar, seen, fsm, account, tickets,
                     setting, button, done, told, invites>>,
         faults' \in Nat, faults <= faults', odd \subseteq odd',
         \A f \in {"crash", "blind", "unsure", "clash"}, v \in Month \cup Update :
           <<f, v>> \in odd' => <<f, v>> \in odd,
         window' \in [Window -> [count : 0 .. Limit + 1, left : 0 .. Period]],
         hits' \in [Window -> [0 .. Period - 1 -> Nat]],
         \A w \in Window : WindowKnown(w)',
         x \notin {"off", "dedup", "mail", "desk", "edit", "replay", "answer", "idle"},
         y \notin {"dedup", "edit", "replay"},
         y \in Ahead \cup {"tell"} => x \in Ahead,
         y = "check" => x = "gate" /\ task[u].saw = "awaiting",
         y = "ticket" => x = "check" /\ account # "erased",
         y # "gate"
  PROVE  BotIInv'
<1>1. Passes(u, x, y)  BY PassesIf
<1>2. DataTypes'  BY DEF BotIInv, BotTypeOK, DataTypes
<1>3. y \in {"check", "ticket"} => task[u].saw = "awaiting"
  <2>1. Replays(u)  BY DEF BotIInv, OneUpdate
  <2> QED BY <2>1 DEF Replays, Comes
<1>4. Effect(u)' /\ Heard(u)' /\ DeskHears(u)' /\ Replays(u)'  BY <1>1, <1>3, SilentKeeps
<1>5. /\ BotTypeOK' /\ \A v \in Update : OneUpdate(v)'
      /\ \A topic \in {"desk", "alert", "language"} : InTurn(topic)'
  BY <1>1, <1>2, <1>4, PassingKeeps
<1>6. \A s \in Setting : Shown(s)'  BY <1>1, ShownStands
<1>7. Prompted'  BY <1>1, PromptedStands
<1>8. Numbered' /\ ReferencesKnown'  BY NumbersStand DEF Went
<1>9. Withdrawn'  BY <1>1, WithdrawnStands
<1> QED BY <1>5, <1>6, <1>7, <1>8, <1>9 DEF BotIInv

\* A step that only leads somewhere else.
LEMMA QuietKeeps ==
  ASSUME BotIInv, NEW u \in Update, NEW x, NEW y, Comes(u, x, y),
         UNCHANGED <<sent, given, acked, kind, listed, calendar, seen, window, hits, fsm, account, tickets,
                     setting, button, done, told, invites, odd>>,
         faults' \in Nat, faults <= faults',
         x \notin {"off", "dedup", "mail", "desk", "edit", "replay", "answer", "idle"},
         y \notin {"dedup", "edit", "replay"},
         y \in Ahead \cup {"tell"} => x \in Ahead,
         y = "check" => x = "gate" /\ task[u].saw = "awaiting",
         y = "ticket" => x = "check" /\ account # "erased",
         y # "gate"
  PROVE  BotIInv'
<1>1. \A w \in Window : WindowKnown(w)'  BY WindowsStand
<1>2. /\ window \in [Window -> [count : 0 .. Limit + 1, left : 0 .. Period]]
      /\ hits \in [Window -> [0 .. Period - 1 -> Nat]]
  BY DEF BotIInv, BotTypeOK
<1> QED BY <1>1, <1>2, MeteredKeeps

LEMMA DoingIsAt ==
  ASSUME NEW u, NEW x, Doing(u, x)
  PROVE  Underway(u) /\ At(u) = x
BY DEF Doing, At

LEMMA GateKeeps == ASSUME BotIInv, NEW u \in Update, Gate(u) PROVE BotIInv'
<1>1. BotTypeOK /\ Underway(u) /\ At(u) = "gate"  BY DoingIsAt DEF BotIInv, Gate
<1>2. kind[u] \in Kind /\ faults \in Nat  BY <1>1, WaysHaveSteps DEF BotTypeOK
<1>3. /\ UNCHANGED <<sent, given, acked, kind, listed, calendar, seen, window, hits, fsm, account, tickets,
                     setting, button, done, told, invites, odd>>
      /\ faults' = faults
  BY DEF Gate, wire, outside, cache, rows, history, spent
<1>4. CASE Continue(u, <<"refuse">>) \/ Refuse(u) \/ Leave(u, "over")
  <2>1. PICK y \in {"refuse", "off"} : Comes(u, "gate", y)
    <3>1. <<"refuse">> \in Rest(kind[u]) /\ <<"refuse">> # <<>> /\ Head(<<"refuse">>) = "refuse"
      BY <1>2, HandlersAreRests
    <3>2. CASE Continue(u, <<"refuse">>)  BY <1>1, <3>1, <3>2, ContinueComes
    <3>3. CASE Refuse(u)  BY <1>1, <3>3, RefuseComes
    <3>4. CASE Leave(u, "over")  BY <1>1, <3>4, LeaveComes
    <3> QED BY <1>4, <3>2, <3>3, <3>4
  <2> QED BY <1>2, <1>3, <2>1, QuietKeeps DEF Ahead
<1>5. CASE Routed(u) /\ Continue(u, Handler[kind[u]])
  <2> DEFINE y == Head(Handler[kind[u]])
  <2>1. Handler[kind[u]] \in Rest(kind[u]) /\ Handler[kind[u]] # <<>>  BY <1>2, HandlersAreRests
  <2>2. Comes(u, "gate", y)  BY <1>1, <1>5, <2>1, ContinueComes
  <2>3. y \in {"draft", "spinner", "budget", "write"} \/ (y = "check" /\ kind[u] = "text")
    BY <1>2, Beginnings DEF Kind
  <2>4. y = "check" => task[u].saw = "awaiting"
    <3>1. y = "check" => kind[u] = "text"  BY <2>3
    <3> QED BY <1>5, <3>1 DEF Routed
  <2> HIDE DEF y
  <2> QED BY <1>2, <1>3, <2>2, <2>3, <2>4, QuietKeeps DEF Ahead
<1> QED BY <1>4, <1>5 DEF Gate

LEMMA ConsentKeeps == ASSUME BotIInv, NEW u \in Update, Consent(u) PROVE BotIInv'
<1>1. BotTypeOK /\ Underway(u) /\ At(u) = "consent"  BY DoingIsAt DEF BotIInv, Consent
<1>2. kind[u] \in Kind /\ faults \in Nat  BY <1>1, WaysHaveSteps DEF BotTypeOK
<1>3. /\ UNCHANGED <<sent, given, acked, kind, listed, calendar, seen, window, hits, fsm, account, tickets,
                     setting, button, done, told, invites, odd>>
      /\ faults' = faults
  BY DEF Consent, wire, outside, cache, rows, history, spent
<1>4. PICK y \in {"budget", "refuse"} : Comes(u, "consent", y)
  <2>1. CASE Go(u)
    <3>1. PICK y : Comes(u, "consent", y) /\ <<"consent", y>> \in Edges(kind[u])
      BY <1>1, <2>1, GoComes
    <3> QED BY <1>2, <3>1 DEF Edges, Kind, Setting
  <2>2. CASE Refuse(u)  BY <1>1, <2>2, RefuseComes
  <2> QED BY <2>1, <2>2 DEF Consent
<1> QED BY <1>2, <1>3, <1>4, QuietKeeps DEF Ahead

LEMMA CheckKeeps == ASSUME BotIInv, NEW u \in Update, Check(u) PROVE BotIInv'
<1>1. BotTypeOK /\ Underway(u) /\ At(u) = "check"  BY DoingIsAt DEF BotIInv, Check
<1>2. kind[u] \in Kind /\ faults \in Nat  BY <1>1, WaysHaveSteps DEF BotTypeOK
<1>3. /\ UNCHANGED <<sent, given, acked, kind, listed, calendar, seen, window, hits, fsm, account, tickets,
                     setting, button, done, told, invites, odd>>
      /\ faults' = faults
  BY DEF Check, wire, outside, cache, rows, history, spent
<1>4. CASE MayStore /\ Go(u)
  <2>1. PICK y : Comes(u, "check", y) /\ <<"check", y>> \in Edges(kind[u])
    BY <1>1, <1>4, GoComes
  <2>2. y = "ticket"  BY <1>2, <2>1 DEF Edges, Kind, Setting
  <2>3. account # "erased"  BY <1>4 DEF MayStore
  <2> QED BY <1>2, <1>3, <2>1, <2>2, <2>3, QuietKeeps DEF Ahead
<1>5. CASE Refuse(u)
  <2>1. Comes(u, "check", "refuse")  BY <1>1, <1>5, RefuseComes
  <2> QED BY <1>2, <1>3, <2>1, QuietKeeps DEF Ahead
<1> QED BY <1>4, <1>5 DEF Check

LEMMA NotWrittenKeeps == ASSUME BotIInv, NEW u \in Update, NotWritten(u) PROVE BotIInv'
<1>1. BotTypeOK /\ Underway(u) /\ At(u) = "write"  BY DoingIsAt DEF BotIInv, NotWritten
<1>2. faults \in Nat  BY <1>1 DEF BotTypeOK
<1>3. /\ UNCHANGED <<sent, given, acked, kind, listed, calendar, seen, window, hits, fsm, account, tickets,
                     setting, button, done, told, invites, odd>>
      /\ faults' \in Nat /\ faults <= faults'
  BY <1>2 DEF NotWritten, wire, outside, cache, rows, history, NoFault, Fault
<1>4. Comes(u, "write", "refuse")  BY <1>1, RefuseComes DEF NotWritten
<1> QED BY <1>3, <1>4, QuietKeeps DEF Ahead

\* Who is at a step that only some handlers make.
LEMMA AtSteps ==
  ASSUME BotTypeOK, NEW u \in Update, Underway(u)
  PROVE  /\ At(u) = "seller" => kind[u] \in {"contact", "stranger"}
         /\ At(u) \in {"ticket", "mail", "desk", "idle", "check"} => kind[u] = "text"
         /\ At(u) \in {"write", "edit"} => kind[u] \in Setting
         /\ At(u) = "tell" => kind[u] \in {"contact", "stranger"}
         /\ At(u) = "budget" => kind[u] \in {"contact", "stranger", "help", "ask"}
         /\ At(u) = "spinner" => kind[u] = "ask"
<1> DEFINE s == task[u].todo
<1>1. kind[u] \in Kind /\ s \in Rest(kind[u]) /\ s # <<>>  BY WaysHaveSteps DEF BotTypeOK, Underway
<1>2. PICK y : <<At(u), y>> \in Edges(kind[u])  BY <1>1, RestsGoOn DEF Onto, At, Underway
<1> QED BY <1>1, <1>2 DEF Edges, Kind, Setting

LEMMA TicketsAreCounted ==
  /\ TicketsOfTexts \subseteq Update
  /\ IsFiniteSet(TicketsOfTexts) /\ Cardinality(TicketsOfTexts) \in Nat
<1>1. IsFiniteSet(Update)
  <2>1. Updates \in Nat  BY Bounds
  <2> QED BY <2>1, FS_Interval DEF Update
<1>2. TicketsOfTexts \subseteq Update  BY DEF TicketsOfTexts
<1> QED BY <1>1, <1>2, FS_Subset, FS_CardinalityType

\* A step that writes a row which is neither a ticket nor a setting.
LEMMA EventKeeps ==
  ASSUME BotIInv, NEW u \in Update, NEW x \in {"draft", "seller"}, NEW y \in {"answer", "tell", "refuse"},
         Comes(u, x, y), Written(u), kind[u] \in {"post", "contact", "stranger"},
         UNCHANGED <<sent, given, acked, kind, listed, calendar, seen, fsm, account, tickets,
                     setting, button, told, invites>>,
         faults' \in Nat, faults <= faults', odd \subseteq odd',
         \A f \in {"crash", "blind", "unsure", "clash"}, v \in Month \cup Update :
           <<f, v>> \in odd' => <<f, v>> \in odd,
         window' \in [Window -> [count : 0 .. Limit + 1, left : 0 .. Period]],
         hits' \in [Window -> [0 .. Period - 1 -> Nat]],
         \A w \in Window : WindowKnown(w)',
         x = "draft" => y = "answer"
  PROVE  BotIInv'
<1>1. done \in [Update -> 0 .. 2]  BY DEF BotIInv, BotTypeOK
<1>2. /\ done' \in [Update -> 0 .. 2]
      /\ \A v \in Update \ {u} : done'[v] = done[v]
  BY <1>1 DEF Written, Count
<1>3. Passes(u, x, y)  BY <1>2, PassesIf
<1>4. DataTypes'  BY <1>2 DEF BotIInv, BotTypeOK, DataTypes
<1>5. Effect(u)' /\ Heard(u)' /\ DeskHears(u)' /\ Replays(u)'
  BY <1>3, WritingKeeps DEF Ahead
<1>6. /\ BotTypeOK' /\ \A v \in Update : OneUpdate(v)'
      /\ \A topic \in {"desk", "alert", "language"} : InTurn(topic)'
  BY <1>3, <1>4, <1>5, PassingKeeps
<1>7. ASSUME NEW s \in Setting PROVE Shown(s)'
  <2>1. \A v \in Topical(s) : done'[v] = done[v]  BY <1>2, TopicOfSetting DEF Setting
  <2> QED BY <1>3, <2>1, ShownStands
<1>8. Prompted'
  <2>1. \A v \in Update : kind[v] = "text" => done'[v] = done[v]  BY <1>2
  <2> QED BY <1>3, <2>1, PromptedStands
<1>9. Numbered' /\ ReferencesKnown'  BY NumbersStand DEF Went
<1>10. Withdrawn'  BY <1>3, WithdrawnStands
<1> QED BY <1>6, <1>7, <1>8, <1>9, <1>10 DEF BotIInv

LEMMA DraftKeeps == ASSUME BotIInv, NEW u \in Update, Draft(u) PROVE BotIInv'
<1>1. BotTypeOK /\ Underway(u) /\ At(u) = "draft"  BY DoingIsAt DEF BotIInv, Draft
<1>2. kind[u] \in Kind  BY <1>1, WaysHaveSteps
<1>3. /\ UNCHANGED <<sent, given, acked, kind, listed, calendar, seen, window, hits, fsm, account, tickets,
                     setting, button, told, invites, odd, faults>>
      /\ Written(u)
  BY DEF Draft, wire, outside, cache, rows, spent
<1>4. PICK y : Comes(u, "draft", y) /\ <<"draft", y>> \in Edges(kind[u])  BY <1>1, GoComes DEF Draft
<1>5. kind[u] = "post" /\ y = "answer"  BY <1>2, <1>4 DEF Edges, Kind, Setting
<1>6. \A w \in Window : WindowKnown(w)'  BY <1>3, WindowsStand
<1>7. /\ faults \in Nat /\ window \in [Window -> [count : 0 .. Limit + 1, left : 0 .. Period]]
      /\ hits \in [Window -> [0 .. Period - 1 -> Nat]]
  BY <1>1 DEF BotTypeOK
<1>8. faults' \in Nat /\ faults <= faults' /\ odd \subseteq odd'  BY <1>3, <1>7
<1> QED BY <1>3, <1>4, <1>5, <1>6, <1>7, <1>8, EventKeeps

LEMMA UnavailableKeeps == ASSUME BotIInv, NEW u \in Update, Unavailable(u) PROVE BotIInv'
<1>1. BotTypeOK /\ Underway(u) /\ At(u) = "seller"  BY DoingIsAt DEF BotIInv, Unavailable
<1>2. kind[u] \in Kind /\ Head(task[u].todo) = "seller"
  BY <1>1, WaysHaveSteps DEF At
<1>3. /\ UNCHANGED <<sent, given, acked, kind, listed, calendar, seen, window, hits, fsm, account, tickets,
                     setting, button, told, invites, odd, faults>>
      /\ Written(u)
  BY DEF Unavailable, wire, outside, cache, rows, spent
<1>4. Comes(u, "seller", "refuse")  BY <1>1, RefuseComes DEF Unavailable
<1>5. kind[u] \in {"contact", "stranger"}  BY <1>1, AtSteps
<1>6. \A w \in Window : WindowKnown(w)'  BY <1>3, WindowsStand
<1>7. /\ faults \in Nat /\ window \in [Window -> [count : 0 .. Limit + 1, left : 0 .. Period]]
      /\ hits \in [Window -> [0 .. Period - 1 -> Nat]]
  BY <1>1 DEF BotTypeOK
<1>8. faults' \in Nat /\ faults <= faults' /\ odd \subseteq odd'  BY <1>3, <1>7
<1> QED BY <1>3, <1>4, <1>5, <1>6, <1>7, <1>8, EventKeeps

LEMMA AwaitKeeps == ASSUME BotIInv, NEW u \in Update, Await(u) PROVE BotIInv'
<1>1. BotTypeOK /\ Underway(u) /\ At(u) = "await"  BY DoingIsAt DEF BotIInv, Await
<1>2. kind[u] \in Kind /\ faults \in Nat /\ invites \in Nat  BY <1>1, WaysHaveSteps DEF BotTypeOK
<1>3. /\ UNCHANGED <<sent, given, acked, kind, listed, calendar, seen, window, hits, account, tickets,
                     setting, button, done, told, odd, faults>>
      /\ fsm' = "awaiting" /\ invites' = invites + 1
  BY DEF Await, wire, outside, cache, rows, history, spent
<1>4. PICK y : Comes(u, "await", y) /\ <<"await", y>> \in Edges(kind[u])  BY <1>1, GoComes DEF Await
<1>5. kind[u] = "ask" /\ y = "answer"  BY <1>2, <1>4 DEF Edges, Kind, Setting
<1>6. faults' \in Nat /\ faults <= faults' /\ odd \subseteq odd'  BY <1>2, <1>3
<1>7. Passes(u, "await", y)  BY <1>3, <1>4, <1>5, <1>6, PassesIf
<1>8. DataTypes'
  <2>1. DataTypes  BY <1>1 DEF BotTypeOK, DataTypes
  <2>2. invites' \in Nat /\ fsm' \in {"idle", "awaiting"}  BY <1>2, <1>3
  <2> QED BY <1>3, <2>1, <2>2 DEF DataTypes
<1>9. Effect(u)' /\ Heard(u)' /\ DeskHears(u)' /\ Replays(u)'
  BY <1>3, <1>5, <1>6, <1>7, SilentKeeps DEF Ahead
<1>10. /\ BotTypeOK' /\ \A v \in Update : OneUpdate(v)'
       /\ \A topic \in {"desk", "alert", "language"} : InTurn(topic)'
  BY <1>7, <1>8, <1>9, PassingKeeps
<1>11. \A s \in Setting : Shown(s)'  BY <1>3, <1>5, <1>7, ShownStands
<1>12. Prompted'
  <2> DEFINE n == Cardinality(TicketsOfTexts)
  <2>1. n' = n  BY <1>3 DEF TicketsOfTexts
  <2>2. Plain("desk")' => n <= invites
    <3>1. Plain("desk")' => Plain("desk")  BY <1>7, PassingIsPlain
    <3> QED BY <3>1 DEF BotIInv, Prompted
  <2>3. n \in Nat  BY TicketsAreCounted
  <2> HIDE DEF n
  <2>4. Plain("desk")' => n' < invites'  BY <1>2, <1>3, <2>1, <2>2, <2>3
  <2>5. Plain("desk")' => n' <= invites'  BY <1>2, <1>3, <2>1, <2>2, <2>3
  <2> QED BY <2>4, <2>5 DEF Prompted, n
<1>13. Numbered' /\ ReferencesKnown'  BY <1>3, <1>6, NumbersStand DEF Went
<1>14. Withdrawn'  BY <1>3, <1>5, <1>7, WithdrawnStands
<1>15. \A w \in Window : WindowKnown(w)'  BY <1>3, <1>6, WindowsStand
<1> QED BY <1>10, <1>11, <1>12, <1>13, <1>14, <1>15 DEF BotIInv

LEMMA RelaxKeeps == ASSUME BotIInv, NEW u \in Update, Relax(u) PROVE BotIInv'
<1>1. BotTypeOK /\ Underway(u) /\ At(u) = "idle"  BY DoingIsAt DEF BotIInv, Relax
<1>2. kind[u] \in Kind /\ faults \in Nat /\ invites \in Nat  BY <1>1, WaysHaveSteps DEF BotTypeOK
<1>3. /\ UNCHANGED <<sent, given, acked, kind, listed, calendar, seen, window, hits, account, tickets,
                     setting, button, done, told, invites, odd, faults>>
      /\ fsm' = "idle"
  BY DEF Relax, wire, outside, cache, rows, history, spent
<1>4. PICK y : Comes(u, "idle", y) /\ <<"idle", y>> \in Edges(kind[u])  BY <1>1, GoComes DEF Relax
<1>5. kind[u] = "text" /\ y = "off"  BY <1>2, <1>4 DEF Edges, Kind, Setting
<1>6. faults' \in Nat /\ faults <= faults' /\ odd \subseteq odd'  BY <1>2, <1>3
<1>7. Passes(u, "idle", y)  BY <1>3, <1>4, <1>5, <1>6, PassesIf
<1>8. DataTypes'
  <2>1. DataTypes  BY <1>1 DEF BotTypeOK, DataTypes
  <2>2. invites' \in Nat /\ fsm' \in {"idle", "awaiting"}  BY <1>2, <1>3
  <2> QED BY <1>3, <2>1, <2>2 DEF DataTypes
<1>9. Effect(u)' /\ Heard(u)' /\ DeskHears(u)' /\ Replays(u)'
  BY <1>3, <1>5, <1>6, <1>7, SilentKeeps DEF Ahead
<1>10. /\ BotTypeOK' /\ \A v \in Update : OneUpdate(v)'
       /\ \A topic \in {"desk", "alert", "language"} : InTurn(topic)'
  BY <1>7, <1>8, <1>9, PassingKeeps
<1>11. \A s \in Setting : Shown(s)'  BY <1>3, <1>5, <1>7, ShownStands
<1>12. Prompted'
  <2> DEFINE n == Cardinality(TicketsOfTexts)
  <2>1. n' = n  BY <1>3 DEF TicketsOfTexts
  <2>2. \A v \in Topical("desk")' : /\ v \in Topical("desk")
                                    /\ kind'[v] = kind[v]
                                    /\ At(v)' \in {"gate", "check", "ticket"} /\ task'[v].saw = "awaiting"
                                       => At(v) \in {"gate", "check", "ticket"} /\ task[v].saw = "awaiting"
    BY <1>3, <1>4, <1>5 DEF Comes, Topical
  <2>3. ASSUME Plain("desk")'
        PROVE  /\ n <= invites
               /\ \A v \in Topical("desk") : kind[v] = "text" /\ At(v) \in {"gate", "check", "ticket"}
                                             /\ task[v].saw = "awaiting" => n < invites
    <3>1. Plain("desk")  BY <1>7, <2>3, PassingIsPlain
    <3> QED BY <3>1 DEF BotIInv, Prompted
  <2> HIDE DEF n
  <2>4. ASSUME Plain("desk")'
        PROVE  /\ n' <= invites'
               /\ \A v \in Topical("desk")' : kind'[v] = "text" /\ At(v)' \in {"gate", "check", "ticket"}
                                             /\ task'[v].saw = "awaiting" => n' < invites'
    BY <1>3, <2>1, <2>2, <2>3, <2>4
  <2> QED BY <1>3, <2>4 DEF Prompted, n
<1>13. Numbered' /\ ReferencesKnown'  BY <1>3, <1>6, NumbersStand DEF Went
<1>14. Withdrawn'  BY <1>3, <1>5, <1>7, WithdrawnStands
<1>15. \A w \in Window : WindowKnown(w)'  BY <1>3, <1>6, WindowsStand
<1> QED BY <1>10, <1>11, <1>12, <1>13, <1>14, <1>15 DEF BotIInv

-----------------------------------------------------------------------------
(* Windows. *)

Hits == [0 .. Period - 1 -> Nat]

LEMMA UptoIsNat ==
  ASSUME NEW h \in Hits, NEW n \in 0 .. Period - 1
  PROVE  /\ [a \in 0 .. n |-> h[a]] \in [0 .. n -> Nat] /\ IsFiniteSet(0 .. n)
         /\ Upto(h, n) \in Nat
<1>1. Period \in Nat /\ n \in Nat  BY Bounds
<1>2. [a \in 0 .. n |-> h[a]] \in [0 .. n -> Nat]  BY <1>1 DEF Hits
<1>3. IsFiniteSet(0 .. n)  BY <1>1, FS_Interval
<1> QED BY <1>2, <1>3, SumIsNat DEF Upto

\* All that is remembered.
LEMMA UptoAll ==
  ASSUME NEW h \in Hits
  PROVE  Upto(h, Period - 1) = SumFunction(h)
<1>1. h = [a \in 0 .. Period - 1 |-> h[a]]  BY DEF Hits
<1> QED BY <1>1 DEF Upto

LEMMA UptoFirst ==
  ASSUME NEW h \in Hits
  PROVE  Upto(h, 0) = h[0]
<1>1. Period \in Nat /\ Period > 0  BY Bounds
<1> DEFINE f == [a \in 0 .. 0 |-> h[a]]
           g == [y \in (0 .. 0) \ {0} |-> f[y]]
<1>2. f \in [0 .. 0 -> Nat] /\ IsFiniteSet(0 .. 0)
  <2>1. 0 \in 0 .. Period - 1  BY <1>1
  <2> QED BY <2>1, UptoIsNat
<1>3. 0 \in 0 .. 0 /\ (0 .. 0) \ {0} = {} /\ f[0] = h[0]  OBVIOUS
<1>4. SumFunction(f) = f[0] + SumFunction(g)
  <2> HIDE DEF f
  <2> QED BY <1>2, <1>3, SumOfMore
<1>5. SumFunction(g) = 0
  <2>1. g \in [{} -> Nat] /\ \A x \in {} : g[x] = 0  BY <1>3
  <2>2. IsFiniteSet({})  BY FS_EmptySet
  <2> HIDE DEF g
  <2> QED BY <2>1, <2>2, SumOfNothing
<1>6. h[0] \in Nat  BY <1>1 DEF Hits
<1> QED BY <1>3, <1>4, <1>5, <1>6 DEF Upto

LEMMA UptoNext ==
  ASSUME NEW h \in Hits, NEW n \in 0 .. Period - 2
  PROVE  Upto(h, n + 1) = Upto(h, n) + h[n + 1]
<1>1. Period \in Nat /\ n \in Nat  BY Bounds
<1>2. n \in 0 .. Period - 1 /\ n + 1 \in 0 .. Period - 1  BY <1>1
<1> DEFINE f == [a \in 0 .. n + 1 |-> h[a]]
           g == [y \in (0 .. n + 1) \ {n + 1} |-> f[y]]
<1>3. f \in [0 .. n + 1 -> Nat] /\ IsFiniteSet(0 .. n + 1)  BY <1>2, UptoIsNat
<1>4. (0 .. n + 1) \ {n + 1} = 0 .. n  BY <1>1
<1>5. g = [a \in 0 .. n |-> h[a]]  BY <1>1, <1>4
<1>6. n + 1 \in 0 .. n + 1 /\ f[n + 1] = h[n + 1]  BY <1>1
<1>7. SumFunction(f) = f[n + 1] + SumFunction(g)
  <2> DEFINE S == 0 .. n + 1
             x == n + 1
  <2>1. f \in [S -> Nat] /\ IsFiniteSet(S) /\ x \in S  BY <1>3, <1>6
  <2>2. SumFunction(f) = f[x] + SumFunction([y \in S \ {x} |-> f[y]])
    <3> HIDE DEF f, S, x
    <3> QED BY <2>1, SumOfMore
  <2> QED BY <2>2
<1>8. Upto(h, n + 1) = h[n + 1] + Upto(h, n)  BY <1>5, <1>6, <1>7 DEF Upto
<1>9. h[n + 1] \in Nat /\ Upto(h, n) \in Nat  BY <1>2, UptoIsNat DEF Hits
<1> QED BY <1>8, <1>9

\* One more is admitted now.
LEMMA UptoBumped ==
  ASSUME NEW h \in Hits, NEW g \in Hits, g = [h EXCEPT ![0] = @ + 1], NEW n \in 0 .. Period - 1
  PROVE  Upto(g, n) = Upto(h, n) + 1
<1>1. Period \in Nat /\ n \in Nat /\ Period > 0  BY Bounds
<1> DEFINE f == [a \in 0 .. n |-> h[a]]
           e == [a \in 0 .. n |-> g[a]]
<1>2. f \in [0 .. n -> Nat] /\ e \in [0 .. n -> Nat] /\ IsFiniteSet(0 .. n)  BY UptoIsNat
<1>3. 0 \in 0 .. n /\ e[0] = f[0] + 1 /\ \A y \in (0 .. n) \ {0} : e[y] = f[y]
  BY <1>1 DEF Hits
<1>4. SumFunction(e) = SumFunction(f) + 1
  <2> HIDE DEF e, f
  <2> QED BY <1>2, <1>3, SumGrows
<1> QED BY <1>4 DEF Upto

\* A tick makes everything older.
LEMMA UptoShifted ==
  ASSUME NEW h \in Hits, NEW g \in Hits, NEW n \in 0 .. Period - 2,
         g[0] = 0, \A a \in 1 .. n + 1 : g[a] = h[a - 1]
  PROVE  Upto(g, n + 1) = Upto(h, n)
<1>1. Period \in Nat /\ n \in Nat  BY Bounds
<1>2. n \in 0 .. Period - 1 /\ n + 1 \in 0 .. Period - 1  BY <1>1
<1> DEFINE f == [a \in 0 .. n |-> h[a]]
           e == [a \in 0 .. n + 1 |-> g[a]]
           r == [y \in (0 .. n + 1) \ {0} |-> e[y]]
           b == [a \in 0 .. n |-> a + 1]
<1>3. /\ f \in [0 .. n -> Nat] /\ IsFiniteSet(0 .. n)
      /\ e \in [0 .. n + 1 -> Nat] /\ IsFiniteSet(0 .. n + 1)
  BY <1>2, UptoIsNat
<1>4. (0 .. n + 1) \ {0} = 1 .. n + 1 /\ 0 \in 0 .. n + 1 /\ e[0] = 0  BY <1>1
<1>5. r \in [1 .. n + 1 -> Nat]  BY <1>3, <1>4
<1>6. IsFiniteSet(1 .. n + 1)  BY <1>1, FS_Interval
<1>7. b \in Bijection(0 .. n, 1 .. n + 1)
  <2>1. b \in [0 .. n -> 1 .. n + 1]  BY <1>1
  <2>2. \A x, y \in 0 .. n : b[x] = b[y] => x = y  BY <1>1
  <2>3. ASSUME NEW t \in 1 .. n + 1 PROVE \E x \in 0 .. n : b[x] = t
    <3>1. t - 1 \in 0 .. n /\ b[t - 1] = t  BY <1>1
    <3> QED BY <3>1
  <2> HIDE DEF b
  <2> QED BY <2>1, <2>2, <2>3 DEF Bijection, Injection, Surjection, IsInjective
<1>8. \A x \in 0 .. n : r[b[x]] = f[x]
  <2> SUFFICES ASSUME NEW x \in 0 .. n PROVE r[b[x]] = f[x]  OBVIOUS
  <2>1. b[x] = x + 1 /\ x + 1 \in 1 .. n + 1 /\ f[x] = h[x] /\ (x + 1) - 1 = x  BY <1>1
  <2>2. r[x + 1] = g[x + 1]  BY <1>1, <1>4, <2>1
  <2>3. g[x + 1] = h[(x + 1) - 1]  BY <2>1
  <2> HIDE DEF b, r, f
  <2> QED BY <2>1, <2>2, <2>3
<1>9. SumFunction(r) = SumFunction(f)
  <2> DEFINE S == 0 .. n
             T == 1 .. n + 1
  <2>1. /\ f \in [S -> Nat] /\ IsFiniteSet(S) /\ r \in [T -> Nat] /\ IsFiniteSet(T)
        /\ b \in Bijection(S, T) /\ \A x \in S : r[b[x]] = f[x]
    <3> HIDE DEF b, r, f
    <3> QED BY <1>3, <1>5, <1>6, <1>7, <1>8
  <2> HIDE DEF b, r, f, S, T
  <2> QED BY <2>1, SumMoved
<1>10. SumFunction(e) = e[0] + SumFunction(r)
  <2> DEFINE S == 0 .. n + 1
  <2>1. e \in [S -> Nat] /\ IsFiniteSet(S) /\ 0 \in S
    <3> HIDE DEF e
    <3> QED BY <1>3, <1>4
  <2>2. SumFunction(e) = e[0] + SumFunction([y \in S \ {0} |-> e[y]])
    <3> HIDE DEF e, S
    <3> QED BY <2>1, SumOfMore
  <2> HIDE DEF e
  <2> QED BY <2>2
<1>11. SumFunction(f) \in Nat
  <2> HIDE DEF f
  <2> QED BY <1>3, SumIsNat
<1>12. SumFunction(e) = SumFunction(f)
  <2> HIDE DEF e, r, f
  <2> QED BY <1>4, <1>9, <1>10, <1>11
<1> QED BY <1>12 DEF Upto

\* Of the windows nobody looks at nothing changes.
LEMMA OtherWindows ==
  ASSUME BotIInv, NEW w \in Window, window'[w] = window[w], hits'[w] = hits[w], odd \subseteq odd'
  PROVE  WindowKnown(w)'
<1>1. WindowKnown(w)  BY DEF BotIInv
<1>2. Went("loose", w) => Went("loose", w)'  BY DEF Went
<1> QED BY <1>1, <1>2 DEF WindowKnown, Upto, Opened

\* A request is counted, and let through while the window admits one more.
LEMMA CountedIsKnown ==
  ASSUME BotIInv, NEW w \in Window, window' = Bump(w), odd \subseteq odd',
         IF Admits(w) THEN Admitted(w) ELSE hits' = hits
  PROVE  /\ window' \in [Window -> [count : 0 .. Limit + 1, left : 0 .. Period]]
         /\ hits' \in [Window -> Hits]
         /\ \A v \in Window : WindowKnown(v)'
<1> DEFINE r == window[w]
<1>1. /\ window \in [Window -> [count : 0 .. Limit + 1, left : 0 .. Period]]
      /\ hits \in [Window -> Hits]
  BY DEF BotIInv, BotTypeOK, Hits
<1>2. Limit \in Nat /\ Limit > 0 /\ Period \in Nat /\ Period > 0  BY Bounds
<1>3. r.count \in 0 .. Limit + 1 /\ r.left \in 0 .. Period  BY <1>1
<1>4. PICK n : n = Bumped(r)  OBVIOUS
<1>5. window' = [window EXCEPT ![w] = n]  BY <1>4 DEF Bump
<1>6. /\ n.count = IF r.left = 0 THEN 1 ELSE IF r.count <= Limit THEN r.count + 1 ELSE r.count
      /\ n.left = IF r.left = 0 THEN Period ELSE r.left
      /\ n \in [count : 0 .. Limit + 1, left : 0 .. Period]
  <2>1. r \in [count : 0 .. Limit + 1, left : 0 .. Period]  BY <1>1
  <2>2. CASE r.left = 0
    <3>1. n = [count |-> 1, left |-> Period]  BY <1>4, <2>2 DEF Bumped
    <3> QED BY <1>2, <2>2, <3>1
  <2>3. CASE r.left # 0
    <3>1. PICK c : c = IF r.count <= Limit THEN r.count + 1 ELSE r.count  OBVIOUS
    <3>2. n = [r EXCEPT !.count = c]  BY <1>4, <2>3, <3>1 DEF Bumped
    <3>3. c \in 0 .. Limit + 1  BY <1>2, <1>3, <3>1
    <3> QED BY <2>1, <2>3, <3>1, <3>2, <3>3
  <2> QED BY <2>2, <2>3
<1>7. window' \in [Window -> [count : 0 .. Limit + 1, left : 0 .. Period]] /\ window'[w] = n
  BY <1>1, <1>5, <1>6
<1>8. /\ hits' \in [Window -> Hits]
      /\ hits'[w] = IF Admits(w) THEN [hits[w] EXCEPT ![0] = @ + 1] ELSE hits[w]
  <2>1. [hits[w] EXCEPT ![0] = @ + 1] \in Hits  BY <1>1, <1>2 DEF Hits
  <2>2. CASE Admits(w)
    <3>1. hits' = [hits EXCEPT ![w] = [hits[w] EXCEPT ![0] = @ + 1]]  BY <2>2 DEF Admitted
    <3> QED BY <1>1, <2>1, <2>2, <3>1
  <2>3. CASE ~Admits(w)  BY <1>1, <2>3
  <2> QED BY <2>2, <2>3
<1>9. ASSUME NEW v \in Window \ {w} PROVE WindowKnown(v)'
  <2>1. window'[v] = window[v]  BY <1>1, <1>5
  <2>2. hits'[v] = hits[v]  BY <1>1 DEF Admitted
  <2> QED BY <2>1, <2>2, OtherWindows
<1>10. ASSUME ~Went("loose", w)' PROVE WindowKnown(w)'
  <2> DEFINE h == hits[w]
             g == hits'[w]
             all == Upto(h, Period - 1)
             age == Period - n.left
  <2>1. WindowKnown(w) /\ ~Went("loose", w)  BY <1>10 DEF BotIInv, Went
  <2>2. h \in Hits /\ g \in Hits  BY <1>1, <1>8
  <2>3. 0 \in 0 .. Period - 1 /\ Period - 1 \in 0 .. Period - 1  BY <1>2
  <2>4. all \in Nat /\ h[0] \in Nat  BY <2>2, <2>3, UptoIsNat DEF Hits
  <2>5. n.left # 0 /\ age \in 0 .. Period - 1  BY <1>2, <1>3, <1>6
  <2>6. Admits(w) <=> r.count < Limit  BY DEF Admits
  <2>7. SUFFICES /\ g[age] > 0 /\ Upto(g, age) <= Limit /\ Upto(g, age) <= n.count
                 /\ Upto(g, Period - 1) < Limit + Upto(g, age)
    BY <1>7, <2>5 DEF WindowKnown, Opened
  <2>8. CASE r.left = 0
    <3>1. r.count = 0 /\ h[0] = 0 /\ all < Limit  BY <2>1, <2>8 DEF WindowKnown
    <3>2. Admits(w) /\ age = 0 /\ n.count = 1  BY <1>2, <1>6, <2>6, <2>8, <3>1
    <3>3. g = [h EXCEPT ![0] = @ + 1]  BY <1>8, <3>2
    <3>4. g[0] = 1  BY <2>2, <2>3, <3>1, <3>3 DEF Hits
    <3>5. Upto(g, 0) = 1  BY <2>2, <3>4, UptoFirst
    <3>6. Upto(g, Period - 1) = all + 1  BY <2>2, <2>3, <3>3, UptoBumped
    <3> HIDE DEF all, g
    <3> QED BY <1>2, <2>4, <3>1, <3>2, <3>4, <3>5, <3>6
  <2>9. CASE r.left # 0
    <3>1. n.left = r.left /\ age = Opened(w)  BY <1>6, <2>9 DEF Opened
    <3>2. h[age] > 0 /\ Upto(h, age) <= Limit /\ Upto(h, age) <= r.count /\ all < Limit + Upto(h, age)
      BY <2>1, <2>9, <3>1 DEF WindowKnown
    <3>3. Upto(h, age) \in Nat /\ h[age] \in Nat  BY <2>2, <2>5, UptoIsNat DEF Hits
    <3>4. CASE Admits(w)
      <4>1. g = [h EXCEPT ![0] = @ + 1]  BY <1>8, <3>4
      <4>2. Upto(g, age) = Upto(h, age) + 1 /\ Upto(g, Period - 1) = all + 1
        BY <2>2, <2>3, <2>5, <4>1, UptoBumped
      <4>3. g[age] = IF age = 0 THEN h[age] + 1 ELSE h[age]  BY <2>2, <2>5, <4>1 DEF Hits
      <4>4. n.count = r.count + 1 /\ r.count < Limit  BY <1>2, <1>3, <1>6, <2>6, <2>9, <3>4
      <4> HIDE DEF all, g, age, h
      <4> QED BY <1>2, <1>3, <2>4, <3>2, <3>3, <4>2, <4>3, <4>4
    <3>5. CASE ~Admits(w)
      <4>1. g = h  BY <1>8, <3>5
      <4>2. n.count >= r.count  BY <1>2, <1>3, <1>6, <2>9
      <4>3. n.count \in Nat /\ r.count \in Nat  BY <1>2, <1>3, <1>6
      <4> HIDE DEF all, g, age, h, r
      <4>4. Upto(h, age) <= n.count  BY <3>2, <3>3, <4>2, <4>3
      <4>5. Upto(h, Period - 1) < Limit + Upto(h, age)  BY <3>2 DEF all
      <4> QED BY <3>2, <4>1, <4>4, <4>5
    <3> QED BY <3>4, <3>5
  <2> QED BY <2>8, <2>9
<1>11. WindowKnown(w)'
  <2>1. CASE Went("loose", w)'  BY <2>1 DEF WindowKnown
  <2> QED BY <2>1, <1>10
<1> QED BY <1>7, <1>8, <1>9, <1>11

\* Without the cache a request is let through, and nobody counts it.
LEMMA LooseIsKnown ==
  ASSUME BotIInv, NEW w \in Window, window' = window, Admitted(w), odd' = odd \cup {<<"loose", w>>}
  PROVE  /\ window' \in [Window -> [count : 0 .. Limit + 1, left : 0 .. Period]]
         /\ hits' \in [Window -> Hits]
         /\ \A v \in Window : WindowKnown(v)'
<1>1. /\ window \in [Window -> [count : 0 .. Limit + 1, left : 0 .. Period]]
      /\ hits \in [Window -> Hits]
  BY DEF BotIInv, BotTypeOK, Hits
<1>2. Period \in Nat /\ Period > 0  BY Bounds
<1>3. [hits[w] EXCEPT ![0] = @ + 1] \in Hits  BY <1>1, <1>2 DEF Hits
<1>4. hits' = [hits EXCEPT ![w] = [hits[w] EXCEPT ![0] = @ + 1]]  BY DEF Admitted
<1>5. hits' \in [Window -> Hits] /\ \A v \in Window \ {w} : hits'[v] = hits[v]
  BY <1>1, <1>3, <1>4
<1>6. \A v \in Window \ {w} : WindowKnown(v)'  BY <1>5, OtherWindows
<1>7. WindowKnown(w)'
  <2>1. Went("loose", w)'  BY DEF Went
  <2> QED BY <2>1 DEF WindowKnown
<1> QED BY <1>1, <1>5, <1>6, <1>7

LEMMA BudgetKeeps == ASSUME BotIInv, NEW u \in Update, Budget(u) PROVE BotIInv'
<1>1. BotTypeOK /\ Underway(u) /\ At(u) = "budget"  BY DoingIsAt DEF BotIInv, Budget
<1>2. kind[u] \in {"contact", "stranger", "help", "ask"} /\ faults \in Nat
  BY <1>1, AtSteps DEF BotTypeOK
<1>3. UNCHANGED <<sent, given, acked, kind, listed, calendar, seen, fsm, account, tickets,
                  setting, button, done, told, invites>>
  BY DEF Budget, wire, outside, rows
<1>4. PICK w \in Window : w = WindowOf(u)  BY <1>2 DEF WindowOf, Window
<1>5. PICK y \in {"seller", "answer", "await", "refuse"} : Comes(u, "budget", y)
  <2>1. CASE Go(u)
    <3>1. PICK y : Comes(u, "budget", y) /\ <<"budget", y>> \in Edges(kind[u])
      BY <1>1, <2>1, GoComes
    <3> QED BY <1>2, <3>1 DEF Edges
  <2>2. CASE Refuse(u)  BY <1>1, <2>2, RefuseComes
  <2> QED BY <2>1, <2>2 DEF Budget, Guarded
<1>6. CASE window' = Bump(w) /\ faults' = faults /\ odd' = odd
           /\ IF Admits(w) THEN Admitted(w) ELSE hits' = hits
  <2>1. /\ window' \in [Window -> [count : 0 .. Limit + 1, left : 0 .. Period]]
        /\ hits' \in [Window -> [0 .. Period - 1 -> Nat]]
        /\ \A v \in Window : WindowKnown(v)'
    BY <1>6, CountedIsKnown DEF Hits
  <2>2. faults' \in Nat /\ faults <= faults' /\ odd \subseteq odd'  BY <1>2, <1>6
  <2>3. \A f \in {"crash", "blind", "unsure", "clash"}, v \in Month \cup Update :
          <<f, v>> \in odd' => <<f, v>> \in odd
    BY <1>6
  <2> QED BY <1>3, <1>5, <2>1, <2>2, <2>3, MeteredKeeps DEF Ahead
<1>7. CASE window' = window /\ Fault /\ Admitted(w) /\ odd' = odd \cup {<<"loose", w>>}
  <2>1. /\ window' \in [Window -> [count : 0 .. Limit + 1, left : 0 .. Period]]
        /\ hits' \in [Window -> [0 .. Period - 1 -> Nat]]
        /\ \A v \in Window : WindowKnown(v)'
    BY <1>7, LooseIsKnown DEF Hits
  <2>2. faults' \in Nat /\ faults <= faults'  BY <1>2, <1>7 DEF Fault
  <2>3. \A f \in {"crash", "blind", "unsure", "clash"}, v \in Month \cup Update :
          <<f, v>> \in odd' => <<f, v>> \in odd
    BY <1>7
  <2>4. odd \subseteq odd'  BY <1>7
  <2> QED BY <1>3, <1>5, <2>1, <2>2, <2>3, <2>4, MeteredKeeps DEF Ahead
<1> QED BY <1>4, <1>6, <1>7 DEF Budget, Guarded, NoFault

LEMMA ContactKeeps == ASSUME BotIInv, NEW u \in Update, Contact(u) PROVE BotIInv'
<1>1. BotTypeOK /\ Underway(u) /\ At(u) = "seller"  BY DoingIsAt DEF BotIInv, Contact
<1>2. kind[u] \in {"contact", "stranger"} /\ faults \in Nat  BY <1>1, AtSteps DEF BotTypeOK
<1>3. UNCHANGED <<sent, given, acked, kind, listed, calendar, seen, fsm, account, tickets,
                  setting, button, told, invites>>
  BY DEF Contact, wire, outside, rows
<1>4. PICK w \in Window : w = "seller"  BY DEF Window
<1>5. \/ Comes(u, "seller", "tell") /\ Written(u)
      \/ Comes(u, "seller", "refuse") /\ done' = done
  <2>1. CASE Go(u) /\ Written(u)
    <3>1. PICK y : Comes(u, "seller", y) /\ <<"seller", y>> \in Edges(kind[u])
      BY <1>1, <2>1, GoComes
    <3>2. y = "tell"  BY <1>2, <3>1 DEF Edges
    <3> QED BY <2>1, <3>1, <3>2
  <2>2. CASE Refuse(u) /\ done' = done  BY <1>1, <2>2, RefuseComes
  <2> QED BY <2>1, <2>2 DEF Contact, Guarded
<1>6. /\ window' \in [Window -> [count : 0 .. Limit + 1, left : 0 .. Period]]
      /\ hits' \in [Window -> [0 .. Period - 1 -> Nat]]
      /\ \A v \in Window : WindowKnown(v)'
      /\ faults' \in Nat /\ faults <= faults' /\ odd \subseteq odd'
      /\ \A f \in {"crash", "blind", "unsure", "clash"}, v \in Month \cup Update :
           <<f, v>> \in odd' => <<f, v>> \in odd
  <2>1. CASE window' = Bump(w) /\ faults' = faults /\ odd' = odd
             /\ IF Admits(w) THEN Admitted(w) ELSE hits' = hits
    <3>1. odd \subseteq odd'  BY <2>1
    <3> QED BY <1>2, <2>1, <3>1, CountedIsKnown DEF Hits
  <2>2. CASE window' = window /\ Fault /\ Admitted(w) /\ odd' = odd \cup {<<"loose", w>>}
    <3>1. faults' \in Nat /\ faults <= faults'  BY <1>2, <2>2 DEF Fault
    <3>2. \A f \in {"crash", "blind", "unsure", "clash"}, v \in Month \cup Update :
            <<f, v>> \in odd' => <<f, v>> \in odd
      BY <2>2
    <3> QED BY <2>2, <3>1, <3>2, LooseIsKnown DEF Hits
  <2> QED BY <1>4, <2>1, <2>2 DEF Contact, Guarded, NoFault
<1>7. CASE Comes(u, "seller", "tell") /\ Written(u)
  BY <1>2, <1>3, <1>6, <1>7, EventKeeps
<1>8. CASE Comes(u, "seller", "refuse") /\ done' = done
  BY <1>3, <1>6, <1>8, MeteredKeeps DEF Ahead
<1> QED BY <1>5, <1>7, <1>8

LEMMA WriteKeeps == ASSUME BotIInv, NEW u \in Update, Write(u) PROVE BotIInv'
<1>1. BotTypeOK /\ Underway(u) /\ At(u) = "write"  BY DoingIsAt DEF BotIInv, Write
<1>2. kind[u] \in Kind /\ kind[u] \in Setting  BY <1>1, WaysHaveSteps, AtSteps
<1>3. /\ UNCHANGED <<sent, given, acked, kind, listed, calendar, seen, window, hits, fsm, account, tickets,
                     button, told, invites, odd, faults>>
      /\ Written(u) /\ setting' = [setting EXCEPT ![kind[u]] = u]
  BY DEF Write, wire, outside, cache, spent
<1>4. PICK y : Comes(u, "write", y) /\ <<"write", y>> \in Edges(kind[u])  BY <1>1, GoComes DEF Write
<1>5. y = "edit"  BY <1>2, <1>4 DEF Edges, Setting
<1>6. /\ done \in [Update -> 0 .. 2] /\ setting \in [Setting -> 0 .. Updates] /\ faults \in Nat
      /\ u \in 0 .. Updates
  <2>1. u \in 0 .. Updates  BY Bounds DEF Update
  <2> QED BY <1>1, <2>1 DEF BotTypeOK
<1>7. /\ done' \in [Update -> 0 .. 2]
      /\ \A v \in Update \ {u} : done'[v] = done[v]
  BY <1>3, <1>6 DEF Written, Count
<1>8. faults' \in Nat /\ faults <= faults' /\ odd \subseteq odd'  BY <1>3, <1>6
<1>9. Passes(u, "write", y)  BY <1>3, <1>4, <1>5, <1>7, <1>8, PassesIf
<1>10. DataTypes'
  <2>1. setting' \in [Setting -> 0 .. Updates]  BY <1>2, <1>3, <1>6
  <2> QED BY <1>1, <1>3, <1>7, <2>1 DEF BotTypeOK, DataTypes
<1>11. Effect(u)' /\ Heard(u)' /\ DeskHears(u)' /\ Replays(u)'
  BY <1>2, <1>3, <1>5, <1>8, <1>9, WritingKeeps DEF Ahead, Setting
<1>12. /\ BotTypeOK' /\ \A v \in Update : OneUpdate(v)'
       /\ \A topic \in {"desk", "alert", "language"} : InTurn(topic)'
  BY <1>9, <1>10, <1>11, PassingKeeps
<1>13. ASSUME NEW s \in Setting PROVE Shown(s)'
  <2>1. CASE s # kind[u]
    <3>1. Topical(s)' = Topical(s)  BY <1>3 DEF Topical
    <3>2. \A v \in Topical(s) : v # u /\ v \in Update  BY <2>1, TopicOfSetting
    <3>3. \A v \in Topical(s) : done'[v] = done[v] /\ At(v)' = At(v)
      BY <1>4, <1>7, <3>2 DEF Comes
    <3>4. setting'[s] = setting[s]  BY <1>2, <1>3, <1>6, <2>1
    <3>5. Plain(s)' => Plain(s) /\ Shown(s)  BY <1>9, PassingIsPlain DEF BotIInv
    <3> QED BY <1>3, <3>1, <3>3, <3>4, <3>5 DEF Shown
  <2>2. CASE s = kind[u]
    <3>1. Topical(s)' = Topical(s)  BY <1>3 DEF Topical
    <3>2. u \in Topical(s)  BY <1>2, <2>2 DEF Topical, Topic, Setting
    <3>3. setting'[s] = u  BY <1>3, <1>6, <2>2
    <3>4. ASSUME Plain(s)', NEW v \in Topical(s), done'[v] > 0 PROVE v <= u
      <4>1. SUFFICES ASSUME v > u PROVE FALSE  BY WireIsCounted, <1>1 DEF Topical
      <4>2. v \in Update /\ Plain(s)  BY <1>9, <3>4, PassingIsPlain DEF Topical
      <4>3. done[v] > 0  BY <1>7, <3>4, <4>1, <4>2, WireIsCounted, <1>1
      <4>4. ~Went("crash", v) /\ OneUpdate(v) /\ InTurn(s)
        BY <4>2 DEF Plain, Crashed, BotIInv, Setting
      <4>5. At(v) # "dedup" /\ ~(v > given)
        <5>1. done[v] # 0  BY <4>3
        <5> QED BY <4>4, <5>1 DEF OneUpdate, Fresh
      <4>6. v <= given  BY <1>1, <4>2, <4>5, WireIsCounted
      <4>7. u < v  BY <1>1, <4>1, <4>2, WireIsCounted
      <4>8. At(u) = "off"  BY <3>2, <4>2, <4>4, <4>5, <4>6, <4>7 DEF InTurn
      <4> QED BY <1>1, <4>8
    <3>5. ASSUME Plain(s)', NEW v \in Topical(s), At(v)' = "edit" PROVE v = u
      <4>1. SUFFICES ASSUME v # u PROVE FALSE  OBVIOUS
      <4>2. v \in Update /\ Plain(s) /\ InTurn(s)
        BY <1>9, <3>4, <3>5, PassingIsPlain DEF Topical, BotIInv, Setting
      <4>3. At(v) = "edit"  BY <1>4, <3>5, <4>1, <4>2 DEF Comes
      <4>4. u <= given /\ v <= given  BY <1>1, <4>2, <4>3, WaysHaveSteps
      <4>5. u < v \/ v < u  BY <1>1, <4>1, <4>2, WireIsCounted
      <4> QED BY <1>1, <3>2, <4>2, <4>3, <4>4, <4>5 DEF InTurn
    <3>6. At(u)' = "edit"  BY <1>4, <1>5 DEF Comes
    <3> QED BY <3>1, <3>2, <3>3, <3>4, <3>5, <3>6 DEF Shown
  <2> QED BY <2>1, <2>2
<1>14. Prompted'
  <2>1. \A v \in Update : kind[v] = "text" => done'[v] = done[v]  BY <1>2, <1>7 DEF Setting
  <2>2. kind[u] # "text"  BY <1>2 DEF Setting
  <2> QED BY <1>3, <1>9, <2>1, <2>2, PromptedStands
<1>15. Numbered' /\ ReferencesKnown'  BY <1>3, <1>8, NumbersStand DEF Went
<1>16. Withdrawn'  BY <1>3, <1>5, <1>9, WithdrawnStands
<1>17. \A w \in Window : WindowKnown(w)'  BY <1>3, <1>8, WindowsStand
<1> QED BY <1>12, <1>13, <1>14, <1>15, <1>16, <1>17 DEF BotIInv

\* A handler that is cut leaves its topic in disorder.
LEMMA CutIsNotPlain ==
  ASSUME BotIInv, NEW u \in Update, At(u) \notin {"off", "dedup"}, Leave(u, "cut"),
         kind' = kind, odd \subseteq odd'
  PROVE  ~Plain(Topic(kind[u]))'
<1>1. fate \in [Update -> {"", "over", "cut", "lost"}] /\ Again(u)
  BY DEF BotIInv, BotTypeOK, OneUpdate
<1>2. u \in Topical(Topic(kind[u]))'  BY DEF Topical
<1>3. CASE fate[u] = ""
  <2>1. fate'[u] = "cut"  BY <1>1, <1>3 DEF Leave, Settle
  <2> QED BY <1>2, <2>1 DEF Plain, CutShort
<1>4. CASE fate[u] # ""
  <2>1. Went("crash", u)'  BY <1>1, <1>4 DEF Again, Sure, Went
  <2> QED BY <2>1 DEF Plain, Crashed
<1> QED BY <1>3, <1>4

\* What the desk is told, and on which channel it is not.
LEMMA DeskStepKeeps ==
  ASSUME BotIInv, NEW u \in Update, NEW x \in Channel, Doing(u, x), Notify(u, x),
         UNCHANGED <<sent, given, acked, kind, listed, calendar, seen, window, hits, fsm, account, tickets,
                     setting, button, done, odd, invites>>
  PROVE  BotIInv'
<1>1. BotTypeOK /\ Underway(u) /\ At(u) = x /\ x \in {"mail", "desk"}
  BY DoingIsAt DEF BotIInv, Channel
<1>2. kind[u] \in Kind /\ kind[u] = "text"  BY <1>1, WaysHaveSteps, AtSteps
<1>3. PICK y \in {IF x = "mail" THEN "desk" ELSE "answer", "off"} :
        Comes(u, x, y) /\ (y = "off" => Leave(u, "cut"))
  <2>1. CASE Go(u)
    <3>1. PICK y : Comes(u, x, y) /\ <<x, y>> \in Edges(kind[u])  BY <1>1, <2>1, GoComes
    <3>2. y = IF x = "mail" THEN "desk" ELSE "answer"  BY <1>1, <1>2, <3>1 DEF Edges, Setting
    <3> QED BY <3>1, <3>2
  <2>2. CASE Leave(u, "cut")  BY <1>1, <2>2, LeaveComes
  <2> QED BY <2>1, <2>2 DEF Notify
<1>4. y \in {"desk", "answer", "off"} /\ (x = "mail" => y \in {"desk", "off"}) /\ (x = "desk" => y # "desk")
  BY <1>1, <1>3
<1>5. told \in [Update -> 0 .. 2] /\ faults \in Nat  BY <1>1 DEF BotTypeOK
<1>6. /\ told' \in [Update -> 0 .. 2] /\ faults' \in Nat /\ faults <= faults'
      /\ \A v \in Update \ {u} : told'[v] = told[v]
      /\ \/ told'[u] > 0 /\ faults' = faults
         \/ told'[u] = told[u] /\ faults' = faults /\ x \notin listed
         \/ told'[u] = told[u] /\ faults' = faults + 1
  <2>1. CASE told' = Count(told, u) /\ NoFault  BY <1>5, <2>1 DEF Count, NoFault
  <2>2. CASE x \notin listed /\ UNCHANGED told /\ NoFault  BY <1>5, <2>2 DEF NoFault
  <2>3. CASE Fault /\ UNCHANGED told  BY <1>5, <2>3 DEF Fault
  <2> QED BY <2>1, <2>2, <2>3 DEF Notify
<1>7. Passes(u, x, y)  BY <1>1, <1>3, <1>4, <1>6, PassesIf
<1>8. DataTypes'  BY <1>1, <1>6 DEF BotTypeOK, DataTypes
<1>9. /\ At(u)' = y /\ (fate'[u] = "over" => fate[u] = "over")
      /\ Went("crash", u)' <=> Went("crash", u)
      /\ Went("blind", u)' <=> Went("blind", u)
  <2>1. y # "off" => fate'[u] = fate[u]  BY <1>3 DEF Comes
  <2>2. y = "off" => fate'[u] = IF fate[u] = "" THEN "cut" ELSE fate[u]
    BY <1>1, <1>3 DEF Leave, Settle, BotTypeOK
  <2> QED BY <1>3, <2>1, <2>2 DEF Comes, Went
<1>10. OneUpdate(u)  BY DEF BotIInv
<1>11. Effect(u)'  BY <1>4, <1>9, <1>10 DEF OneUpdate, Effect, Sure, Ahead
<1>12. Heard(u)'  BY <1>2 DEF Heard
<1>13. DeskHears(u)'
  <2>1. ToSilence' = ToSilence /\ ToSilence \in 0 .. 2  BY DEF ToSilence
  <2>2. ASSUME done[u] = 1, told'[u] = 0, faults' < ToSilence'
        PROVE  /\ fate'[u] # "over"
               /\ y = "off" \/ (y = "desk" /\ (faults' = 1 \/ "mail" \notin listed))
    <3>1. told[u] = 0 /\ faults < ToSilence  BY <1>5, <1>6, <2>1, <2>2
    <3>2. fate[u] # "over" /\ (x = "desk" => faults = 1 \/ "mail" \notin listed)
      BY <1>1, <1>2, <1>10, <2>2, <3>1 DEF OneUpdate, DeskHears
    <3>3. faults' = faults + 1 => ToSilence = 2 /\ faults = 0 /\ faults' = 1
      BY <1>5, <2>1, <2>2
    <3>4. faults = 1 \/ faults' = 1 => listed = {"mail", "desk"}
      <4>1. faults = 1 \/ faults' = 1 => ToSilence = 2  BY <1>5, <1>6, <2>1, <2>2, <3>1
      <4> QED BY <4>1 DEF ToSilence, Channel
    <3>5. listed # {}  BY <1>5, <3>1 DEF ToSilence
    <3>6. listed \subseteq {"mail", "desk"}  BY <1>1 DEF BotTypeOK, Channel
    <3>7. ASSUME x = "desk" PROVE FALSE
      <4>1. faults' # faults + 1
        <5>1. SUFFICES ASSUME faults' = faults + 1 PROVE FALSE  OBVIOUS
        <5>2. faults = 0 /\ "mail" \in listed  BY <3>3, <3>4, <5>1
        <5> QED BY <3>2, <3>7, <5>2
      <4>2. "desk" \notin listed  BY <1>6, <2>2, <3>7, <4>1
      <4>3. "mail" \notin listed  BY <3>2, <3>4, <3>7, <4>2
      <4> QED BY <3>5, <3>6, <4>2, <4>3
    <3>8. x = "mail"  BY <1>1, <3>7
    <3> QED BY <1>4, <1>6, <1>9, <2>2, <3>2, <3>3, <3>8
  <2> QED BY <1>9, <2>2 DEF DeskHears
<1>14. Replays(u)'  BY <1>4, <1>9 DEF Replays
<1>15. /\ BotTypeOK' /\ \A v \in Update : OneUpdate(v)'
       /\ \A topic \in {"desk", "alert", "language"} : InTurn(topic)'
  BY <1>7, <1>8, <1>11, <1>12, <1>13, <1>14, PassingKeeps
<1>16. \A s \in Setting : Shown(s)'  BY <1>1, <1>4, <1>7, ShownStands
<1>17. Prompted'
  <2>1. CASE y # "off"  BY <1>4, <1>7, <2>1, PromptedStands
  <2>2. CASE y = "off"
    <3>1. ~Plain(Topic(kind[u]))'  BY <1>1, <1>3, <2>2, CutIsNotPlain
    <3> QED BY <1>2, <3>1 DEF Prompted, Topic
  <2> QED BY <2>1, <2>2
<1>18. Numbered' /\ ReferencesKnown'  BY NumbersStand DEF Went
<1>19. Withdrawn'  BY <1>4, <1>7, WithdrawnStands
<1>20. \A w \in Window : WindowKnown(w)'  BY WindowsStand
<1> QED BY <1>15, <1>16, <1>17, <1>18, <1>19, <1>20 DEF BotIInv

LEMMA MailDeskKeeps == ASSUME BotIInv, NEW u \in Update, MailDesk(u) PROVE BotIInv'
BY DeskStepKeeps DEF MailDesk, wire, outside, cache, rows, Channel

LEMMA TellDeskKeeps == ASSUME BotIInv, NEW u \in Update, TellDesk(u) PROVE BotIInv'
BY DeskStepKeeps DEF TellDesk, wire, outside, cache, rows, Channel

-----------------------------------------------------------------------------
(* The tickets and the calendar. *)

TicketSet == [month : Month, number : Nat, made : Month, mine : BOOLEAN]

LEMMA CountsAreNumbers ==
  ASSUME Numbered, NEW m
  PROVE  IsFiniteSet({t \in tickets : t.made = m}) /\ Counted(m) \in Nat
<1>1. IsFiniteSet(tickets) /\ {t \in tickets : t.made = m} \subseteq tickets  BY DEF Numbered
<1> QED BY <1>1, FS_Subset, FS_CardinalityType DEF Counted

\* A reference is taken only when a ticket of the month was deleted or late.
LEMMA ClashIsKnown ==
  ASSUME BotIInv, Taken, Clashed
  PROVE  Numbered' /\ ReferencesKnown'
<1>1. BotTypeOK /\ Numbered /\ ReferencesKnown  BY DEF BotIInv
<1>2. PICK m \in Month : m = calendar.utc  BY <1>1 DEF BotTypeOK
<1>3. Went("deleted", m) \/ Went("late", m)
  <2>1. SUFFICES ASSUME ~Went("deleted", m), ~Went("late", m) PROVE FALSE  OBVIOUS
  <2>2. PICK t \in tickets : t.month = m /\ t.number = Counted(m) + 1
    BY <1>2 DEF Taken, Reference
  <2>3. t.number <= Counted(m)  BY <1>1, <2>1, <2>2 DEF Numbered
  <2>4. Counted(m) \in Nat  BY <1>1, CountsAreNumbers
  <2> QED BY <2>2, <2>3, <2>4
<1>4. tickets' = tickets /\ odd' = odd \cup {<<"clash", m>>}  BY <1>2 DEF Clashed
<1>5. \A f, k : Went(f, k) => Went(f, k)'  BY <1>4 DEF Went
<1>6. \A k : Went("clash", k)' => Went("clash", k) \/ k = m  BY <1>4 DEF Went
<1>7. \A k : Counted(k)' = Counted(k)  BY <1>4 DEF Counted
<1>8. Numbered'  BY <1>1, <1>4, <1>5, <1>7 DEF Numbered
<1>9. ReferencesKnown'  BY <1>1, <1>3, <1>5, <1>6 DEF ReferencesKnown
<1> QED BY <1>8, <1>9

\* The count gives the next number of a month whose tickets are all counted.
LEMMA InsertedIsNumbered ==
  ASSUME BotIInv, NEW mine \in BOOLEAN, ~Taken, Inserted(mine)
  PROVE  tickets' \subseteq TicketSet /\ Numbered' /\ ReferencesKnown'
<1>1. BotTypeOK /\ Numbered /\ ReferencesKnown  BY DEF BotIInv
<1>2. PICK m \in Month, d \in Month : m = calendar.utc /\ d = calendar.local
  BY <1>1 DEF BotTypeOK
<1>3. PICK n : n = [month |-> m, number |-> Counted(m) + 1, made |-> d, mine |-> mine]  OBVIOUS
<1>4. /\ n \in TicketSet /\ n.month = m /\ n.number = Counted(m) + 1 /\ n.made = d
      /\ tickets \subseteq TicketSet
  <2>1. Counted(m) + 1 \in Nat
    <3>1. Counted(m) \in Nat  BY <1>1, CountsAreNumbers
    <3> QED BY <3>1
  <2> QED BY <1>1, <1>3, <2>1 DEF TicketSet, BotTypeOK
<1>5. tickets' = tickets \cup {n}  BY <1>2, <1>3 DEF Inserted, Reference
<1>6. n \notin tickets  BY <1>2, <1>4 DEF Taken, Reference
<1>7. odd' = odd \cup IF d # m THEN {<<"late", m>>} ELSE {}  BY <1>2 DEF Inserted, Late
<1>8. \A f, k : Went(f, k) => Went(f, k)'  BY <1>7 DEF Went
<1>9. ASSUME NEW k \in Month
      PROVE  Counted(k) \in Nat /\ Counted(k)' = IF k = d THEN Counted(k) + 1 ELSE Counted(k)
  <2> DEFINE S == {t \in tickets : t.made = k}
  <2>1. IsFiniteSet(S) /\ Counted(k) = Cardinality(S) /\ Counted(k) \in Nat
    BY <1>1, CountsAreNumbers DEF Counted
  <2>2. Counted(k)' = Cardinality(S')  BY DEF Counted
  <2>3. S' = IF k = d THEN S \cup {n} ELSE S  BY <1>4, <1>5
  <2>4. n \notin S  BY <1>6
  <2> HIDE DEF S
  <2> QED BY <2>1, <2>2, <2>3, <2>4, FS_AddElement
<1>10. ASSUME NEW k \in Month, ~Went("deleted", k)', ~Went("late", k)',
              NEW t \in tickets', t.month = k
       PROVE  t.number <= Counted(k)'
  <2>1. CASE t \in tickets
    <3>1. t.number <= Counted(k)  BY <1>1, <1>8, <1>10, <2>1 DEF Numbered
    <3>2. t.number \in Nat  BY <1>4, <2>1 DEF TicketSet
    <3> QED BY <1>9, <3>1, <3>2
  <2>2. CASE t = n
    <3>1. k = m  BY <1>4, <1>10, <2>2
    <3>2. d = m  BY <1>7, <1>10, <3>1 DEF Went
    <3> QED BY <1>4, <1>9, <2>2, <3>1, <3>2
  <2> QED BY <1>5, <2>1, <2>2
<1>11. IsFiniteSet(tickets')  BY <1>1, <1>5, FS_AddElement DEF Numbered
<1>12. Numbered'  BY <1>10, <1>11 DEF Numbered
<1>13. ReferencesKnown'
  <2>1. \A k : Went("clash", k)' => Went("clash", k)  BY <1>7 DEF Went
  <2> QED BY <1>1, <1>8, <2>1 DEF ReferencesKnown
<1> QED BY <1>4, <1>5, <1>12, <1>13

\* Two texts are never both on their way to a ticket.
LEMMA OneText ==
  ASSUME BotIInv, NEW u \in Topical("desk"), NEW v \in Topical("desk"), u # v, Plain("desk"),
         At(u) \notin {"off", "dedup"}
  PROVE  At(v) \in {"off", "dedup"}
<1>1. BotTypeOK /\ InTurn("desk") /\ u \in Update /\ v \in Update  BY DEF BotIInv, Topical
<1>2. u <= given /\ (At(v) # "off" => v <= given)  BY <1>1, WaysHaveSteps
<1>3. u < v \/ v < u  BY <1>1, WireIsCounted
<1> QED BY <1>1, <1>2, <1>3 DEF InTurn

LEMMA TicketKeeps == ASSUME BotIInv, NEW u \in Update, Ticket(u) PROVE BotIInv'
<1>1. BotTypeOK /\ Underway(u) /\ At(u) = "ticket"  BY DoingIsAt DEF BotIInv, Ticket
<1>2. kind[u] \in Kind /\ kind[u] = "text"  BY <1>1, WaysHaveSteps, AtSteps
<1>3. /\ UNCHANGED <<sent, given, acked, kind, listed, calendar, seen, window, hits, fsm, account, setting,
                     button, told, invites, faults>>
  BY DEF Ticket, wire, outside, cache, spent
<1>4. /\ done \in [Update -> 0 .. 2] /\ faults \in Nat /\ OneUpdate(u)
  BY <1>1 DEF BotTypeOK, BotIInv
<1>5. u \in Topical("desk")  BY <1>2 DEF Topical, Topic
<1>6. CASE Taken
  <2>1. /\ Leave(u, "cut") /\ Clashed /\ odd' = odd \cup {<<"clash", calendar.utc>>}
        /\ tickets' = tickets /\ done' = done
    BY <1>6 DEF Ticket, Clashed
  <2>2. Comes(u, "ticket", "off")  BY <1>1, <2>1, LeaveComes
  <2>3. faults' \in Nat /\ faults <= faults' /\ odd \subseteq odd'  BY <1>3, <1>4, <2>1
  <2>4. Passes(u, "ticket", "off")  BY <1>3, <2>1, <2>2, <2>3, PassesIf
  <2>5. DataTypes'  BY <1>1, <1>3, <2>1 DEF BotTypeOK, DataTypes
  <2>6. Effect(u)' /\ Heard(u)' /\ DeskHears(u)' /\ Replays(u)'
    BY <1>3, <2>1, <2>3, <2>4, SilentKeeps DEF Ahead
  <2>7. /\ BotTypeOK' /\ \A v \in Update : OneUpdate(v)'
        /\ \A topic \in {"desk", "alert", "language"} : InTurn(topic)'
    BY <2>4, <2>5, <2>6, PassingKeeps
  <2>8. \A s \in Setting : Shown(s)'  BY <1>3, <2>1, <2>4, ShownStands
  <2>9. Prompted'  BY <1>3, <2>1, <2>4, PromptedStands
  <2>10. Numbered' /\ ReferencesKnown'  BY <1>6, <2>1, ClashIsKnown
  <2>11. Withdrawn'  BY <1>3, <2>1, <2>4, WithdrawnStands
  <2>12. \A w \in Window : WindowKnown(w)'  BY <1>3, <2>3, WindowsStand
  <2> QED BY <2>7, <2>8, <2>9, <2>10, <2>11, <2>12 DEF BotIInv
<1>7. CASE ~Taken
  <2>1. /\ Go(u) /\ Written(u) /\ Inserted(TRUE)
        /\ odd' = odd \cup IF Late THEN {<<"late", calendar.utc>>} ELSE {}
    BY <1>7 DEF Ticket, Inserted
  <2>2. PICK y : Comes(u, "ticket", y) /\ <<"ticket", y>> \in Edges(kind[u])  BY <1>1, <2>1, GoComes
  <2>3. y = "mail"  BY <1>2, <2>2 DEF Edges, Setting
  <2>4. faults' \in Nat /\ faults <= faults' /\ odd \subseteq odd'  BY <1>3, <1>4, <2>1
  <2>5. /\ done' \in [Update -> 0 .. 2]
        /\ \A v \in Update \ {u} : done'[v] = done[v]
        /\ done'[u] = IF done[u] < 2 THEN done[u] + 1 ELSE done[u]
    BY <1>4, <2>1 DEF Written, Count
  <2>6. Passes(u, "ticket", "mail")  BY <1>3, <2>1, <2>2, <2>3, <2>4, <2>5, PassesIf
  <2>7. DataTypes'
    <3>1. tickets' \subseteq TicketSet  BY <1>7, <2>1, InsertedIsNumbered
    <3> QED BY <1>1, <1>3, <2>5, <3>1 DEF BotTypeOK, DataTypes, TicketSet
  <2>8. Effect(u)' /\ Heard(u)' /\ DeskHears(u)' /\ Replays(u)'
    BY <1>2, <1>3, <2>1, <2>4, <2>6, WritingKeeps DEF Ahead
  <2>9. /\ BotTypeOK' /\ \A v \in Update : OneUpdate(v)'
        /\ \A topic \in {"desk", "alert", "language"} : InTurn(topic)'
    BY <2>6, <2>7, <2>8, PassingKeeps
  <2>10. ASSUME NEW s \in Setting PROVE Shown(s)'
    <3>1. \A v \in Topical(s) : done'[v] = done[v]  BY <1>2, <2>5, TopicOfSetting DEF Setting
    <3> QED BY <1>3, <2>6, <3>1, ShownStands
  <2>11. Prompted'
    <3> DEFINE T == TicketsOfTexts
    <3>1. ASSUME Plain("desk")'
          PROVE  /\ Cardinality(T') <= invites'
                 /\ ~(\A v \in Update : ~Answering(v)')
                 /\ \A v \in Topical("desk")' : kind'[v] = "text" => At(v)' \notin {"gate", "check", "ticket"}
      <4>1. Plain("desk") /\ Prompted  BY <2>6, <3>1, PassingIsPlain DEF BotIInv
      <4>2. ~Went("crash", u)  BY <4>1 DEF Plain, Crashed
      <4>3. done[u] = 0  BY <1>1, <1>4, <4>2 DEF OneUpdate, Effect, Sure, Ahead
      <4>4. T' = T \cup {u} /\ u \notin T
        BY <1>2, <1>3, <2>5, <4>3 DEF TicketsOfTexts
      <4>5. Cardinality(T) < invites
        <5>1. task[u].saw = "awaiting"  BY <1>1, <1>4 DEF OneUpdate, Replays
        <5> QED BY <1>1, <1>2, <1>5, <4>1, <5>1 DEF Prompted
      <4>6. IsFiniteSet(T) /\ Cardinality(T) \in Nat  BY TicketsAreCounted
      <4>7. Cardinality(T') = Cardinality(T) + 1
        <5> HIDE DEF T
        <5> QED BY <4>4, <4>6, FS_AddElement
      <4>8. invites' = invites /\ invites \in Nat  BY <1>1, <1>3 DEF BotTypeOK
      <4>9. Answering(u)'  BY <1>2, <1>3, <2>2, <2>3 DEF Answering, Comes
      <4>10. ASSUME NEW v \in Topical("desk")', At(v)' \in {"gate", "check", "ticket"} PROVE FALSE
        <5>1. v \in Topical("desk") /\ v \in Update  BY <1>3 DEF Topical
        <5>2. v # u  BY <2>2, <2>3, <4>10 DEF Comes
        <5>3. At(v)' = At(v)  BY <2>2, <5>1, <5>2 DEF Comes
        <5>4. At(v) \in {"off", "dedup"}  BY <1>1, <1>5, <4>1, <5>1, <5>2, OneText
        <5> QED BY <4>10, <5>3, <5>4
      <4>11. Cardinality(T') <= invites'
        <5> HIDE DEF T
        <5> QED BY <4>5, <4>6, <4>7, <4>8
      <4> QED BY <4>9, <4>10, <4>11
    <3> QED BY <3>1 DEF Prompted, T
  <2>12. Numbered' /\ ReferencesKnown'  BY <1>7, <2>1, InsertedIsNumbered
  <2>13. Withdrawn'
    <3>1. account = "erased" => \E v \in Update : Went("raced", v)
      BY <1>1 DEF BotIInv, Withdrawn
    <3> QED BY <1>3, <2>1, <3>1 DEF Withdrawn, Went
  <2>14. \A w \in Window : WindowKnown(w)'  BY <1>3, <2>4, WindowsStand
  <2> QED BY <2>9, <2>10, <2>11, <2>12, <2>13, <2>14 DEF BotIInv
<1> QED BY <1>6, <1>7

-----------------------------------------------------------------------------
(* Calls to Telegram. *)

Untold == told' = told /\ button' = button

\* A call is made, for the first time or again: the handler goes on, the call
\* is to be replayed, or the handler is cut and its topic is not plain.
LEMMA CallKeeps ==
  ASSUME BotIInv, NEW u \in Update, NEW x, NEW y, NEW c \in Call,
         x = c \/ (x = "replay" /\ task[u].call = c), Comes(u, x, y),
         UNCHANGED <<sent, given, acked, kind, listed, calendar, seen, window, hits, fsm, account, tickets,
                     setting, done, invites>>,
         faults' \in Nat, faults <= faults',
         odd \subseteq odd', odd' \subseteq odd \cup {<<"unsure", u>>},
         Delivered(u, c) \/ Untold,
         \/ x = c /\ <<c, y>> \in Edges(kind[u]) /\ Delivered(u, c)
         \/ /\ y = "replay" /\ task'[u].call = c /\ task'[u].tries > 0
            /\ Untold \/ Went("unsure", u)'
         \/ y = "off" /\ ~Plain(Topic(kind[u]))'
  PROVE  BotIInv'
<1>1. BotTypeOK /\ OneUpdate(u) /\ At(u) = x /\ At(u)' = y  BY DEF BotIInv, Comes
<1>2. x \notin {"off", "dedup", "mail", "desk"}  BY DEF Call
<1>3. Underway(u) /\ kind[u] \in Kind  BY <1>1, <1>2, WaysHaveSteps
<1>4. c = "tell" => kind[u] \in {"contact", "stranger"}
  BY <1>1, <1>3, AtSteps DEF OneUpdate, Replays
<1>5. c = "edit" => kind[u] \in Setting
  <2>1. x = "edit" => kind[u] \in Setting  BY <1>1, <1>3, AtSteps
  <2>2. x = "replay" /\ c = "edit" => kind[u] \in Setting  BY <1>1 DEF OneUpdate, Replays
  <2> QED BY <2>1, <2>2
<1>6. x = c /\ <<c, y>> \in Edges(kind[u]) =>
        /\ y \in {"consent", "off", "answer", "idle"}
        /\ y = "consent" => c = "spinner" /\ kind[u] = "ask"
        /\ y = "off" => c = "refuse" \/ (c = "answer" /\ kind[u] # "text")
        /\ y = "idle" => kind[u] = "text"
        /\ c = "edit" => y = "answer"
        /\ c = "tell" => y = "answer"
  BY <1>3 DEF Edges, Kind, Setting, Call
<1>7. y \in {"consent", "off", "answer", "idle", "replay"} /\ (y = "consent" => x = "spinner" /\ kind[u] = "ask")
  BY <1>6
<1>8. \A f \in {"crash", "blind"}, v \in Update : <<f, v>> \in odd' => <<f, v>> \in odd  OBVIOUS
<1>9. \A v \in Update \ {u} : <<"unsure", v>> \in odd' => <<"unsure", v>> \in odd  OBVIOUS
<1>10. /\ told \in [Update -> 0 .. 2] /\ faults \in Nat
       /\ button \in [Setting -> 0 .. Updates] /\ u \in 0 .. Updates
  <2>1. u \in 0 .. Updates  BY Bounds DEF Update
  <2> QED BY <1>1, <2>1 DEF BotTypeOK
<1>11. /\ told' \in [Update -> 0 .. 2]
       /\ \A v \in Update \ {u} : told'[v] = told[v]
       /\ c # "tell" => told' = told
       /\ told'[u] # told[u] => told'[u] = told[u] + 1 /\ ~Untold
  BY <1>10 DEF Delivered, Untold, Count
<1>12. /\ button' \in [Setting -> 0 .. Updates]
       /\ c # "edit" => button' = button
       /\ \A s \in Setting : s # kind[u] => button'[s] = button[s]
       /\ button'[kind[u]] # button[kind[u]] => c = "edit" /\ button'[kind[u]] = u
  BY <1>5, <1>10 DEF Delivered, Untold
<1>13. Passes(u, x, y)  BY <1>2, <1>7, <1>8, <1>9, <1>11, PassesIf
<1>14. DataTypes'  BY <1>1, <1>11, <1>12 DEF BotTypeOK, DataTypes
<1>15. /\ Went("crash", u)' <=> Went("crash", u)
       /\ Went("blind", u)' <=> Went("blind", u)
       /\ Went("unsure", u) => Went("unsure", u)'
  BY <1>13 DEF Passes
<1>16. Effect(u)'  BY <1>1, <1>7, <1>15 DEF OneUpdate, Effect, Sure, Ahead
<1>17. Heard(u)'
  <2>1. SUFFICES ASSUME kind[u] \in {"contact", "stranger"}, Sure(u), ~Went("unsure", u)'
                 PROVE  /\ told'[u] <= 1 /\ y \notin Ahead \cup {"tell"}
                        /\ y = "replay" /\ task'[u].call = "tell" => told'[u] = 0
    BY <1>1, <1>15 DEF Heard, Sure
  <2>2. told[u] <= 1 /\ (c = "tell" => told[u] = 0)
    BY <1>1, <1>15, <2>1 DEF OneUpdate, Heard
  <2>3. told'[u] <= 1  BY <1>10, <1>11, <2>2
  <2>4. y \notin Ahead \cup {"tell"}  BY <1>7, <2>1 DEF Ahead
  <2>5. ASSUME y = "replay", task'[u].call = "tell" PROVE told'[u] = 0
    <3>1. Untold /\ c = "tell"  BY <1>6, <2>1, <2>5
    <3> QED BY <2>2, <3>1 DEF Untold
  <2> QED BY <2>3, <2>4, <2>5
<1>18. DeskHears(u)'
  <2>1. ~(kind[u] = "text" /\ done[u] = 1 /\ told[u] = 0 /\ faults < ToSilence)
    BY <1>1, <1>2 DEF OneUpdate, DeskHears
  <2>2. kind[u] = "text" => told' = told  BY <1>4, <1>11
  <2>3. ToSilence' = ToSilence /\ ToSilence \in 0 .. 2  BY DEF ToSilence
  <2>4. faults' < ToSilence' => faults < ToSilence  BY <1>10, <2>3
  <2> QED BY <2>1, <2>2, <2>4 DEF DeskHears
<1>19. Replays(u)'
  <2>1. y = "replay" => task'[u].call = c /\ task'[u].tries > 0  BY <1>6
  <2> QED BY <1>1, <1>4, <1>5, <1>7, <2>1 DEF Replays
<1>20. /\ BotTypeOK' /\ \A v \in Update : OneUpdate(v)'
       /\ \A topic \in {"desk", "alert", "language"} : InTurn(topic)'
  BY <1>13, <1>14, <1>16, <1>17, <1>18, <1>19, PassingKeeps
<1>21. ASSUME NEW s \in Setting PROVE Shown(s)'
  <2>1. SUFFICES ASSUME Plain(s)' PROVE Shown(s)'  BY DEF Shown
  <2>2. Topical(s)' = Topical(s)  BY DEF Topical
  <2>3. Shown(s) /\ Plain(s)  BY <1>13, <2>1, PassingIsPlain DEF BotIInv
  <2>4. CASE kind[u] # s
    <3>1. \A v \in Topical(s) : At(v)' = At(v)  BY <2>4, TopicOfSetting DEF Comes
    <3>2. button'[s] = button[s]  BY <1>12, <2>4
    <3> QED BY <2>2, <2>3, <3>1, <3>2 DEF Shown
  <2>5. CASE kind[u] = s
    <3>1. Topic(kind[u]) = s /\ u \in Topical(s)  BY <2>5 DEF Topic, Topical, Setting
    <3>2. \A v \in Topical(s) : At(v)' = "edit" => At(v) = "edit"
      BY <1>7 DEF Topical, Comes
    <3>3. \A v \in Topical(s) : v # u => At(v)' = At(v)  BY DEF Topical, Comes
    <3>4. ASSUME y # "replay"
          PROVE  x = c /\ Delivered(u, c) /\ <<c, y>> \in Edges(kind[u])
      BY <2>1, <3>1, <3>4
    <3>5. button'[s] = setting[s] \/ \E v \in Topical(s) : At(v)' \in {"edit", "replay"}
      <4>1. CASE y = "replay"  BY <1>1, <3>1, <4>1
      <4>2. CASE y # "replay" /\ c = "edit"
        <5>1. setting[s] = u  BY <1>1, <2>3, <3>1, <3>4, <4>2 DEF Shown
        <5>2. button'[s] = u  BY <1>10, <2>5, <3>4, <4>2 DEF Delivered
        <5> QED BY <5>1, <5>2
      <4>3. CASE y # "replay" /\ c # "edit"
        <5>1. x \notin {"edit", "replay"}  BY <3>4, <4>3 DEF Call
        <5>2. button'[s] = button[s]  BY <1>12, <4>3
        <5>3. ASSUME NEW v \in Topical(s), At(v) \in {"edit", "replay"} PROVE At(v)' = At(v)
          BY <1>1, <3>3, <5>1, <5>3
        <5> QED BY <2>3, <5>2, <5>3 DEF Shown
      <4> QED BY <4>1, <4>2, <4>3
    <3> QED BY <2>2, <2>3, <3>2, <3>5 DEF Shown
  <2> QED BY <2>4, <2>5
<1>22. Prompted'
  <2>1. CASE Plain("desk")' /\ kind[u] = "text"
    <3>1. Topic(kind[u]) = "desk"  BY <2>1 DEF Topic
    <3>2. y # "off" \/ x = "refuse"  BY <1>6, <2>1, <3>1
    <3>3. /\ x \in {"mail", "desk", "answer", "idle", "replay"} =>
               y \in {"mail", "desk", "answer", "idle", "replay"}
          /\ y \notin {"gate", "check", "ticket"}
      BY <1>7, <2>1, <3>2
    <3> QED BY <1>13, <3>3, PromptedStands
  <2>2. CASE kind[u] # "text"  BY <1>13, <2>2, PromptedStands
  <2>3. CASE ~Plain("desk")'  BY <2>3 DEF Prompted
  <2> QED BY <2>1, <2>2, <2>3
<1>23. Numbered' /\ ReferencesKnown'
  <2>1. \A m \in Month : Went("clash", m)' => Went("clash", m)  BY DEF Went
  <2> QED BY <2>1, NumbersStand
<1>24. Withdrawn'  BY <1>7, <1>13, WithdrawnStands
<1>25. \A w \in Window : WindowKnown(w)'  BY WindowsStand
<1> QED BY <1>20, <1>21, <1>22, <1>23, <1>24, <1>25 DEF BotIInv

LEMMA ToTelegramKeeps == ASSUME BotIInv, NEW u \in Update, ToTelegram(u) PROVE BotIInv'
<1>1. PICK c \in Call :
        /\ Doing(u, c)
        /\ \/ Delivered(u, c) /\ Go(u) /\ NoFault /\ UNCHANGED odd
           \/ /\ Fault /\ (TimesOut(u, c) \/ (Undelivered /\ UNCHANGED odd))
              /\ task' = [task EXCEPT ![u].todo = <<"replay">>, ![u].call = c,
                                      ![u].tries = MaxReplays]
              /\ UNCHANGED fate
           \/ Fault /\ Undelivered /\ Leave(u, "cut") /\ UNCHANGED odd
  BY DEF ToTelegram
<1>2. BotTypeOK /\ Underway(u) /\ At(u) = c /\ faults \in Nat
  BY <1>1, DoingIsAt DEF BotIInv, BotTypeOK
<1>3. UNCHANGED <<sent, given, acked, kind, listed, calendar, seen, window, hits, fsm, account, tickets,
                  setting, done, invites>>
  BY DEF ToTelegram, wire, outside, cache, rows, Delivered
<1>4. kind[u] \in Kind  BY <1>2, WaysHaveSteps
<1>5. CASE Delivered(u, c) /\ Go(u) /\ NoFault /\ UNCHANGED odd
  <2>1. PICK y : Comes(u, c, y) /\ <<c, y>> \in Edges(kind[u])  BY <1>2, <1>5, GoComes
  <2>2. faults' \in Nat /\ faults <= faults'  BY <1>2, <1>5 DEF NoFault
  <2> QED BY <1>3, <1>5, <2>1, <2>2, CallKeeps
<1>6. CASE /\ Fault /\ (TimesOut(u, c) \/ (Undelivered /\ UNCHANGED odd))
           /\ task' = [task EXCEPT ![u].todo = <<"replay">>, ![u].call = c,
                                   ![u].tries = MaxReplays]
           /\ UNCHANGED fate
  <2>1. task \in [Update -> Task]  BY <1>2 DEF BotTypeOK
  <2>2. MaxReplays \in Nat /\ <<"replay">> \in Seq(Step)  BY Bounds DEF Step
  <2>3. PICK t : t = [task[u] EXCEPT !.todo = <<"replay">>, !.call = c, !.tries = MaxReplays]
    OBVIOUS
  <2>4. t \in Task /\ t.todo = <<"replay">> /\ t.call = c /\ t.saw = task[u].saw /\ t.tries = MaxReplays
    <3>1. task[u] \in Task  BY <2>1
    <3>2. MaxReplays \in 0 .. MaxReplays  BY <2>2
    <3> QED BY <2>2, <2>3, <3>1, <3>2 DEF Task
  <2>5. task' = [task EXCEPT ![u] = t]  BY <1>6, <2>1, <2>3
  <2>6. task' \in [Update -> Task] /\ task'[u] = t /\ \A v \in Update \ {u} : task'[v] = task[v]
    BY <2>1, <2>4, <2>5
  <2>7. At(u)' = "replay"
    <3>1. task'[u].todo = <<"replay">>  BY <2>4, <2>6
    <3> QED BY <3>1 DEF At, Underway
  <2>8. \A v \in Update \ {u} : At(v)' = At(v)  BY <2>6 DEF At, Underway
  <2>9. <<"replay">> \in Rest(kind[u])  BY DEF Rest
  <2>10. Comes(u, c, "replay")
    BY <1>2, <1>6, <2>4, <2>6, <2>7, <2>8, <2>9 DEF Comes, BotTypeOK
  <2>11. faults' \in Nat /\ faults <= faults'  BY <1>2, <1>6 DEF Fault
  <2>12. /\ odd \subseteq odd' /\ odd' \subseteq odd \cup {<<"unsure", u>>}
         /\ (Delivered(u, c) /\ Went("unsure", u)') \/ Untold
    BY <1>6 DEF TimesOut, Undelivered, Untold, Went
  <2>13. task'[u].call = c /\ task'[u].tries > 0
    <3>1. MaxReplays > 0  BY Bounds
    <3> QED BY <2>4, <2>6, <3>1
  <2> QED BY <1>3, <2>10, <2>11, <2>12, <2>13, CallKeeps
<1>7. CASE Fault /\ Undelivered /\ Leave(u, "cut") /\ UNCHANGED odd
  <2>1. Comes(u, c, "off")  BY <1>2, <1>7, LeaveComes
  <2>2. faults' \in Nat /\ faults <= faults'  BY <1>2, <1>7 DEF Fault
  <2>3. ~Plain(Topic(kind[u]))'  BY <1>2, <1>3, <1>7, CutIsNotPlain DEF Call
  <2> QED BY <1>3, <1>7, <2>1, <2>2, <2>3, CallKeeps DEF Undelivered, Untold
<1> QED BY <1>1, <1>5, <1>6, <1>7

LEMMA ReplayKeeps == ASSUME BotIInv, NEW u \in Update, Replay(u) PROVE BotIInv'
<1>1. BotTypeOK /\ Underway(u) /\ At(u) = "replay" /\ faults \in Nat
  BY DoingIsAt DEF BotIInv, BotTypeOK, Replay
<1>2. PICK c \in Call : task[u].call = c  BY <1>1 DEF BotIInv, OneUpdate, Replays
<1>3. /\ UNCHANGED <<sent, given, acked, kind, listed, calendar, seen, window, hits, fsm, account, tickets,
                     setting, done, invites, faults, odd>>
      /\ Delivered(u, c) \/ Untold
  BY <1>2 DEF Replay, wire, outside, cache, rows, spent, Delivered, Undelivered, Untold
<1>4. faults' \in Nat /\ faults <= faults' /\ odd \subseteq odd'  BY <1>1, <1>3
<1>5. CASE Leave(u, "cut")
  <2>1. Comes(u, "replay", "off")  BY <1>1, <1>5, LeaveComes
  <2>2. ~Plain(Topic(kind[u]))'  BY <1>1, <1>3, <1>4, <1>5, CutIsNotPlain
  <2> QED BY <1>2, <1>3, <1>4, <2>1, <2>2, CallKeeps
<1>6. CASE /\ TriesLeft(task[u].tries) # 0 /\ Undelivered /\ UNCHANGED fate
           /\ task' = [task EXCEPT ![u].tries = TriesLeft(@)]
  <2>1. task \in [Update -> Task]  BY <1>1 DEF BotTypeOK
  <2>2. PICK t : t = [task[u] EXCEPT !.tries = TriesLeft(task[u].tries)]  OBVIOUS
  <2>3. task[u].tries \in 0 .. MaxReplays /\ MaxReplays \in Nat  BY <2>1, Bounds DEF Task
  <2>4. task[u].tries > 0  BY <1>1 DEF BotIInv, OneUpdate, Replays
  <2>5. /\ t \in Task /\ t.todo = task[u].todo /\ t.call = c /\ t.saw = task[u].saw
        /\ t.tries = task[u].tries - 1
    <3>1. task[u] \in Task  BY <2>1
    <3>2. TriesLeft(task[u].tries) \in 0 .. MaxReplays  BY <2>3, <2>4 DEF TriesLeft
    <3> QED BY <1>2, <2>2, <3>1, <3>2 DEF Task, TriesLeft
  <2>6. task' = [task EXCEPT ![u] = t]  BY <1>6, <2>1, <2>2
  <2>7. task' \in [Update -> Task] /\ task'[u] = t /\ \A v \in Update \ {u} : task'[v] = task[v]
    BY <2>1, <2>5, <2>6
  <2>8. \A v \in Update : At(v)' = At(v)
    <3>1. \A v \in Update : task'[v].todo = task[v].todo  BY <2>5, <2>7
    <3> QED BY <3>1 DEF At, Underway
  <2>9. task'[u].todo \in Rest(kind[u])  BY <1>1, <2>5, <2>7 DEF BotTypeOK
  <2>10. Comes(u, "replay", "replay")
    BY <1>1, <1>6, <2>5, <2>7, <2>8, <2>9 DEF Comes, BotTypeOK
  <2>11. task'[u].call = c /\ task'[u].tries > 0
    <3>1. task[u].tries - 1 # 0  BY <1>6 DEF TriesLeft
    <3> QED BY <2>3, <2>4, <2>5, <2>7, <3>1
  <2> QED BY <1>2, <1>3, <1>4, <1>6, <2>10, <2>11, CallKeeps DEF Undelivered, Untold
<1> QED BY <1>5, <1>6 DEF Replay

-----------------------------------------------------------------------------
(* The poll, the clock, the cache and the site. *)

\* What goes on elsewhere is not about the updates that are on their way.
LEMMA ElsewhereKeeps ==
  ASSUME BotIInv,
         UNCHANGED <<given, acked, kind, listed, task, seen, fsm, setting, button, fate, done, told,
                     invites, faults>>,
         odd \subseteq odd',
         \A f \in {"crash", "blind", "unsure"}, v \in Update : <<f, v>> \in odd' => <<f, v>> \in odd
  PROVE  /\ \A u \in Update : OneUpdate(u)'
         /\ \A topic \in {"desk", "alert", "language"} : InTurn(topic)'
         /\ \A s \in Setting : Shown(s)'
         /\ Prompted'
<1>1. ASSUME NEW v \in Update PROVE SameFlags(v) /\ At(v)' = At(v) /\ OneUpdate(v)
  BY DEF SameFlags, Went, At, Underway, BotIInv
<1>2. faults \in Nat  BY DEF BotIInv, BotTypeOK
<1>3. \A u \in Update : OneUpdate(u)'  BY <1>1, <1>2, OthersStand
<1>4. \A topic : Topical(topic)' = Topical(topic) /\ Topical(topic) \subseteq Update  BY DEF Topical
<1>5. \A topic : Plain(topic)' => Plain(topic)  BY PlainBefore
<1>6. \A topic \in {"desk", "alert", "language"} : InTurn(topic)'
  BY <1>1, <1>4, <1>5 DEF InTurn, BotIInv
<1>7. ASSUME NEW s \in Setting PROVE Shown(s)'
  <2>1. Shown(s)  BY DEF BotIInv
  <2> QED BY <1>1, <1>4, <1>5, <2>1 DEF Shown
<1>8. Prompted'
  <2>1. \A v \in Update : Answering(v)' <=> Answering(v)  BY <1>1 DEF Answering
  <2>2. TicketsOfTexts' = TicketsOfTexts  BY DEF TicketsOfTexts
  <2>3. Prompted  BY DEF BotIInv
  <2> QED BY <1>1, <1>4, <1>5, <2>1, <2>2, <2>3 DEF Prompted
<1> QED BY <1>3, <1>6, <1>7, <1>8

LEMMA WithdrawnAside ==
  ASSUME BotIInv, UNCHANGED <<account, tickets>>, odd \subseteq odd',
         \A u \in Update : At(u)' = "ticket" => At(u) = "ticket"
  PROVE  Withdrawn'
BY DEF BotIInv, Withdrawn, Went

LEMMA SendKeeps == ASSUME BotIInv, Send PROVE BotIInv'
<1>1. BotTypeOK  BY DEF BotIInv
<1>2. UNCHANGED <<kind, listed, calendar, given, acked, task, seen, window, hits, fsm, account, tickets, setting,
                  button, fate, done, told, odd, invites, faults>>
  BY DEF Send, outside, cache, rows, history, spent
<1>3. sent < Updates /\ kind[sent + 1] # "none" /\ sent' = sent + 1  BY DEF Send
<1>4. BotTypeOK'
  <2>1. sent \in Nat /\ given \in 0 .. sent /\ Updates \in Nat  BY <1>1, WireIsCounted, Bounds DEF BotTypeOK
  <2>2. sent' \in 0 .. Updates /\ given' \in 0 .. sent'  BY <1>2, <1>3, <2>1
  <2>3. \A u \in Update : u <= sent' => kind'[u] # "none"
    <3>1. \A u \in Update : u <= sent + 1 => u <= sent \/ u = sent + 1  BY <1>1, <2>1, WireIsCounted
    <3> QED BY <1>1, <1>2, <1>3, <3>1 DEF BotTypeOK
  <2>4. \A u \in Update : task'[u].todo \in Rest(kind'[u]) /\ (Underway(u)' => u <= given')
    BY <1>1, <1>2 DEF BotTypeOK, Underway
  <2> QED BY <1>1, <1>2, <2>2, <2>3, <2>4 DEF BotTypeOK
<1>5. /\ \A u \in Update : OneUpdate(u)'
      /\ \A topic \in {"desk", "alert", "language"} : InTurn(topic)'
      /\ \A s \in Setting : Shown(s)'
      /\ Prompted'
  BY <1>2, ElsewhereKeeps
<1>6. Numbered' /\ ReferencesKnown'  BY <1>2, NumbersStand DEF Went
<1>7. Withdrawn'  BY <1>2, WithdrawnAside DEF At, Underway
<1>8. \A w \in Window : WindowKnown(w)'  BY <1>2, WindowsStand
<1> QED BY <1>4, <1>5, <1>6, <1>7, <1>8 DEF BotIInv

\* The types of what the site changes, when nothing else does.
LEMMA TypesElsewhere ==
  ASSUME BotTypeOK, UNCHANGED <<sent, given, acked, kind, task, fate>>, DataTypes'
  PROVE  BotTypeOK'
<1>1. \A u \in Update : task'[u].todo \in Rest(kind'[u]) /\ (Underway(u)' => u <= given')
  BY DEF BotTypeOK, Underway
<1> QED BY <1>1 DEF BotTypeOK, DataTypes

LEMMA MoveAccountKeeps == ASSUME BotIInv, MoveAccount PROVE BotIInv'
<1>1. BotTypeOK  BY DEF BotIInv
<1>2. UNCHANGED <<sent, given, acked, kind, listed, calendar, task, seen, window, hits, fsm, tickets, setting,
                  button, fate, done, told, odd, invites, faults>>
  BY DEF MoveAccount, wire, outside, cache, history
<1>3. account' \in Account /\ account' # "erased"
  BY <1>1 DEF MoveAccount, Moves, BotTypeOK, Account
<1>4. DataTypes'  BY <1>1, <1>2, <1>3 DEF BotTypeOK, DataTypes
<1>5. BotTypeOK'  BY <1>1, <1>2, <1>4, TypesElsewhere
<1>6. /\ \A u \in Update : OneUpdate(u)'
      /\ \A topic \in {"desk", "alert", "language"} : InTurn(topic)'
      /\ \A s \in Setting : Shown(s)'
      /\ Prompted'
  BY <1>2, ElsewhereKeeps
<1>7. Numbered' /\ ReferencesKnown'  BY <1>2, NumbersStand DEF Went
<1>8. Withdrawn'  BY <1>3 DEF Withdrawn
<1>9. \A w \in Window : WindowKnown(w)'  BY <1>2, WindowsStand
<1> QED BY <1>5, <1>6, <1>7, <1>8, <1>9 DEF BotIInv

LEMMA WithdrawKeeps == ASSUME BotIInv, Withdraw PROVE BotIInv'
<1>1. BotTypeOK  BY DEF BotIInv
<1>2. UNCHANGED <<sent, given, acked, kind, listed, calendar, task, seen, window, hits, fsm, setting,
                  button, fate, done, told, invites, faults>>
  BY DEF Withdraw, wire, outside, cache
<1>3. /\ account' = "erased" /\ tickets' = {t \in tickets : ~t.mine}
      /\ odd' = odd \cup {<<"raced", u>> : u \in {v \in Update : Doing(v, "ticket")}}
                \cup {<<"deleted", t.made>> : t \in tickets \ tickets'}
  BY DEF Withdraw
<1>4. odd \subseteq odd'  BY <1>3
<1>5. \A f \in {"crash", "blind", "unsure", "clash"}, v \in Month \cup Update :
        <<f, v>> \in odd' => <<f, v>> \in odd
  BY <1>3
<1>6. DataTypes'  BY <1>1, <1>2, <1>3 DEF BotTypeOK, DataTypes, Account
<1>7. BotTypeOK'  BY <1>1, <1>2, <1>6, TypesElsewhere
<1>8. /\ \A u \in Update : OneUpdate(u)'
      /\ \A topic \in {"desk", "alert", "language"} : InTurn(topic)'
      /\ \A s \in Setting : Shown(s)'
      /\ Prompted'
  BY <1>2, <1>4, <1>5, ElsewhereKeeps
<1>9. Numbered'
  <2>1. Numbered  BY DEF BotIInv
  <2>2. IsFiniteSet(tickets')  BY <1>3, <2>1, FS_Subset DEF Numbered
  <2>3. ASSUME NEW m \in Month, ~Went("deleted", m)', ~Went("late", m)',
               NEW t \in tickets', t.month = m
        PROVE  t.number <= Counted(m)'
    <3>1. \A r \in tickets : r.made = m => r \in tickets'  BY <1>3, <2>3 DEF Went
    <3>2. {r \in tickets' : r.made = m} = {r \in tickets : r.made = m}  BY <1>3, <3>1
    <3>3. Counted(m)' = Counted(m)  BY <3>2 DEF Counted
    <3>4. ~Went("deleted", m) /\ ~Went("late", m)  BY <1>4, <2>3 DEF Went
    <3> QED BY <1>3, <2>1, <2>3, <3>3, <3>4 DEF Numbered
  <2> QED BY <2>2, <2>3 DEF Numbered
<1>10. ReferencesKnown'  BY <1>4, <1>5 DEF BotIInv, ReferencesKnown, Went
<1>11. Withdrawn'
  <2>1. ASSUME NEW u \in Update, At(u)' = "ticket" PROVE Went("raced", u)'
    <3>1. At(u) = "ticket"  BY <1>2, <2>1 DEF At, Underway
    <3>2. Doing(u, "ticket")
      <4>1. Underway(u)  BY <1>1, <3>1, WaysHaveSteps
      <4> QED BY <3>1, <4>1 DEF At, Doing
    <3> QED BY <1>3, <3>2 DEF Went
  <2> QED BY <1>3, <2>1 DEF Withdrawn
<1>12. \A w \in Window : WindowKnown(w)'  BY <1>2, <1>4, WindowsStand
<1> QED BY <1>7, <1>8, <1>9, <1>10, <1>11, <1>12 DEF BotIInv

LEMMA OtherTicketKeeps == ASSUME BotIInv, OtherTicket PROVE BotIInv'
<1>1. BotTypeOK  BY DEF BotIInv
<1>2. UNCHANGED <<sent, given, acked, kind, listed, calendar, task, seen, window, hits, fsm, account, setting,
                  button, fate, done, told, invites, faults>>
  BY DEF OtherTicket, wire, outside, cache
<1>3. \/ Taken /\ Clashed
      \/ ~Taken /\ Inserted(FALSE)
  BY DEF OtherTicket
<1>4. odd \subseteq odd'  BY <1>3 DEF Clashed, Inserted
<1>5. \A f \in {"crash", "blind", "unsure"}, v \in Update : <<f, v>> \in odd' => <<f, v>> \in odd
  BY <1>3 DEF Clashed, Inserted
<1>6. \A t \in tickets' : t \in tickets \/ ~t.mine  BY <1>3 DEF Clashed, Inserted
<1>7. DataTypes'
  <2>1. tickets' \subseteq TicketSet
    <3>1. CASE Taken /\ Clashed  BY <1>1, <3>1 DEF Clashed, TicketSet, BotTypeOK
    <3>2. CASE ~Taken /\ Inserted(FALSE)  BY <3>2, InsertedIsNumbered
    <3> QED BY <1>3, <3>1, <3>2
  <2> QED BY <1>1, <1>2, <2>1 DEF BotTypeOK, DataTypes, TicketSet
<1>8. BotTypeOK'  BY <1>1, <1>2, <1>7, TypesElsewhere
<1>9. /\ \A u \in Update : OneUpdate(u)'
      /\ \A topic \in {"desk", "alert", "language"} : InTurn(topic)'
      /\ \A s \in Setting : Shown(s)'
      /\ Prompted'
  BY <1>2, <1>4, <1>5, ElsewhereKeeps
<1>10. Numbered' /\ ReferencesKnown'  BY <1>3, ClashIsKnown, InsertedIsNumbered
<1>11. Withdrawn'
  BY <1>2, <1>4, <1>6 DEF BotIInv, Withdrawn, Went, At, Underway
<1>12. \A w \in Window : WindowKnown(w)'  BY <1>2, <1>4, WindowsStand
<1> QED BY <1>8, <1>9, <1>10, <1>11, <1>12 DEF BotIInv

LEMMA MonthTurnsKeeps == ASSUME BotIInv, MonthTurns PROVE BotIInv'
<1>1. BotTypeOK  BY DEF BotIInv
<1>2. UNCHANGED <<sent, given, acked, kind, listed, task, seen, window, hits, fsm, account, tickets,
                  setting, button, fate, done, told, odd, invites, faults>>
  BY DEF MonthTurns, cache, rows, history, spent
<1>3. calendar' \in [utc : Month, local : Month]
  <2>1. calendar \in [utc : Month, local : Month] /\ calendar'.local <= LastMonth
    BY <1>1 DEF BotTypeOK, MonthTurns
  <2>2. CASE Late  BY <2>1, <2>2 DEF MonthTurns
  <2>3. CASE ~Late
    <3>1. calendar' = [calendar EXCEPT !.local = calendar.local + 1]  BY <2>3 DEF MonthTurns
    <3>2. calendar'.local = calendar.local + 1  BY <2>1, <3>1
    <3>3. LastMonth \in Nat /\ calendar.local \in 0 .. LastMonth  BY <2>1, Bounds DEF Month
    <3>4. calendar.local + 1 \in Month  BY <2>1, <3>2, <3>3 DEF Month
    <3> QED BY <2>1, <3>1, <3>4
  <2> QED BY <2>2, <2>3
<1>4. DataTypes'  BY <1>1, <1>2, <1>3 DEF BotTypeOK, DataTypes
<1>5. BotTypeOK'  BY <1>1, <1>2, <1>4, TypesElsewhere
<1>6. /\ \A u \in Update : OneUpdate(u)'
      /\ \A topic \in {"desk", "alert", "language"} : InTurn(topic)'
      /\ \A s \in Setting : Shown(s)'
      /\ Prompted'
  BY <1>2, ElsewhereKeeps
<1>7. Numbered' /\ ReferencesKnown'  BY <1>2, NumbersStand DEF Went
<1>8. Withdrawn'  BY <1>2, WithdrawnAside DEF At, Underway
<1>9. \A w \in Window : WindowKnown(w)'  BY <1>2, WindowsStand
<1> QED BY <1>5, <1>6, <1>7, <1>8, <1>9 DEF BotIInv

\* With a tick the oldest requests are forgotten.
LEMMA UptoAged ==
  ASSUME NEW h \in Hits, NEW g \in Hits,
         g = [a \in 0 .. Period - 1 |-> IF a = 0 THEN 0 ELSE h[a - 1]]
  PROVE  /\ Upto(g, Period - 1) \in Nat /\ h[Period - 1] \in Nat
         /\ Upto(h, Period - 1) = Upto(g, Period - 1) + h[Period - 1]
<1>1. Period \in Nat /\ Period > 0  BY Bounds
<1>2. Period - 1 \in 0 .. Period - 1 /\ 0 \in 0 .. Period - 1  BY <1>1
<1>3. Upto(g, Period - 1) \in Nat /\ h[Period - 1] \in Nat  BY <1>2, UptoIsNat DEF Hits
<1>4. g[0] = 0  BY <1>2
<1>5. CASE Period = 1
  <2>1. Upto(g, 0) = 0 /\ Upto(h, 0) = h[0]  BY <1>4, UptoFirst
  <2> QED BY <1>3, <1>5, <2>1
<1>6. CASE Period # 1
  <2> DEFINE n == Period - 2
  <2>1. n \in 0 .. Period - 2 /\ n + 1 = Period - 1  BY <1>1, <1>6
  <2>2. \A a \in 1 .. n + 1 : g[a] = h[a - 1]  BY <1>1, <2>1
  <2> HIDE DEF n
  <2>3. Upto(g, n + 1) = Upto(h, n)  BY <1>4, <2>1, <2>2, UptoShifted
  <2>4. Upto(h, n + 1) = Upto(h, n) + h[n + 1]  BY <2>1, UptoNext
  <2> QED BY <1>3, <2>1, <2>3, <2>4
<1> QED BY <1>3, <1>5, <1>6

LEMMA TickKeeps == ASSUME BotIInv, Tick PROVE BotIInv'
<1>1. BotTypeOK  BY DEF BotIInv
<1>2. UNCHANGED <<sent, given, acked, kind, listed, calendar, task, seen, fsm, account, tickets, setting,
                  button, fate, done, told, odd, invites, faults>>
  BY DEF Tick, wire, outside, rows, history
<1>3. /\ window' = [w \in Window |-> IF window[w].left <= 1 THEN Quiet
                                     ELSE [window[w] EXCEPT !.left = @ - 1]]
      /\ hits' = [w \in Window |-> [a \in 0 .. Period - 1 |-> IF a = 0 THEN 0 ELSE hits[w][a - 1]]]
  BY DEF Tick
<1>4. Period \in Nat /\ Period > 0 /\ Limit \in Nat /\ Limit > 0  BY Bounds
<1>5. ASSUME NEW w \in Window
      PROVE  /\ window'[w] \in [count : 0 .. Limit + 1, left : 0 .. Period]
             /\ hits[w] \in Hits /\ hits'[w] \in Hits /\ WindowKnown(w)'
  <2> DEFINE r == window[w]
             h == hits[w]
             g == hits'[w]
  <2>1. r \in [count : 0 .. Limit + 1, left : 0 .. Period] /\ h \in Hits
    BY <1>1 DEF BotTypeOK, Hits
  <2>2. g = [a \in 0 .. Period - 1 |-> IF a = 0 THEN 0 ELSE h[a - 1]]  BY <1>3
  <2>3. g \in Hits
    <3>1. \A a \in 0 .. Period - 1 : a # 0 => a - 1 \in 0 .. Period - 1  BY <1>4
    <3> HIDE DEF g, h
    <3>2. \A a \in 0 .. Period - 1 : (IF a = 0 THEN 0 ELSE h[a - 1]) \in Nat
      BY <2>1, <3>1 DEF Hits
    <3> QED BY <2>2, <3>2 DEF Hits
  <2>4. window'[w] = IF r.left <= 1 THEN Quiet ELSE [r EXCEPT !.left = @ - 1]  BY <1>3
  <2>5. window'[w] \in [count : 0 .. Limit + 1, left : 0 .. Period]
    BY <1>4, <2>1, <2>4 DEF Quiet
  <2> DEFINE all == Upto(h, Period - 1)
             kept == Upto(g, Period - 1)
  <2>6. kept \in Nat /\ h[Period - 1] \in Nat /\ all = kept + h[Period - 1]
    BY <2>1, <2>2, <2>3, UptoAged
  <2>7. ASSUME ~Went("loose", w)' PROVE WindowKnown(w)'
    <3>1. ~Went("loose", w) /\ WindowKnown(w)  BY <1>2, <2>7 DEF Went, BotIInv
    <3>2. CASE r.left <= 1
      <4>1. window'[w].left = 0 /\ window'[w].count = 0  BY <2>4, <3>2 DEF Quiet
      <4>2. g[0] = 0  BY <1>4, <2>2
      <4>3. CASE r.left = 0
        <5>1. all < Limit  BY <3>1, <4>3 DEF WindowKnown
        <5>2. kept < Limit
          <6> HIDE DEF all, kept
          <6> QED BY <1>4, <2>6, <5>1
        <5> QED BY <4>1, <4>2, <5>2 DEF WindowKnown, Upto
      <4>4. CASE r.left = 1
        <5>1. Opened(w) = Period - 1  BY <4>4 DEF Opened
        <5>2. h[Period - 1] > 0 /\ all <= Limit  BY <3>1, <4>4, <5>1 DEF WindowKnown
        <5>3. kept < Limit
          <6> HIDE DEF all, kept
          <6> QED BY <1>4, <2>6, <5>2
        <5> QED BY <4>1, <4>2, <5>3 DEF WindowKnown, Upto
      <4> QED BY <2>1, <3>2, <4>3, <4>4
    <3>3. CASE r.left > 1
      <4> DEFINE o == Opened(w)
      <4>1. o \in 0 .. Period - 2 /\ o + 1 \in 1 .. Period - 1  BY <1>4, <2>1, <3>3 DEF Opened
      <4>2. window'[w].left = r.left - 1 /\ window'[w].count = r.count
        BY <2>1, <2>4, <3>3
      <4>3. Opened(w)' = o + 1  BY <1>4, <2>1, <4>2 DEF Opened
      <4>4. /\ h[o] > 0 /\ Upto(h, o) <= Limit /\ Upto(h, o) <= r.count
            /\ all < Limit + Upto(h, o)
        BY <3>1, <3>3 DEF WindowKnown
      <4> HIDE DEF o
      <4>5. g[o + 1] = h[o]
        <5>1. o + 1 \in 0 .. Period - 1 /\ o + 1 # 0 /\ (o + 1) - 1 = o  BY <1>4, <4>1
        <5> QED BY <2>2, <5>1
      <4>6. Upto(g, o + 1) = Upto(h, o)
        <5>1. \A a \in 1 .. o + 1 : g[a] = h[a - 1]  BY <1>4, <2>2, <4>1
        <5>2. g[0] = 0  BY <1>4, <2>2
        <5> HIDE DEF g, h
        <5> QED BY <2>1, <2>3, <4>1, <5>1, <5>2, UptoShifted
      <4>7. Upto(h, o) \in Nat
        <5>1. o \in 0 .. Period - 1  BY <1>4, <4>1
        <5> QED BY <2>1, <5>1, UptoIsNat
      <4>8. kept < Limit + Upto(g, o + 1)
        <5> DEFINE q == Upto(h, o)
        <5>1. q \in Nat /\ all < Limit + q /\ Upto(g, o + 1) = q  BY <4>4, <4>6, <4>7
        <5> HIDE DEF all, kept, q
        <5> QED BY <1>4, <2>6, <5>1
      <4>9. window'[w].left # 0  BY <2>1, <3>3, <4>2
      <4>10. /\ g[o + 1] > 0 /\ Upto(g, o + 1) <= Limit /\ Upto(g, o + 1) <= window'[w].count
             /\ kept < Limit + Upto(g, o + 1)
        BY <4>2, <4>4, <4>5, <4>6, <4>8
      <4> QED BY <4>3, <4>9, <4>10 DEF WindowKnown, Upto
    <3> QED BY <2>1, <3>2, <3>3
  <2>8. WindowKnown(w)'  BY <2>7 DEF WindowKnown
  <2> QED BY <2>1, <2>3, <2>5, <2>8
<1>6. /\ window' \in [Window -> [count : 0 .. Limit + 1, left : 0 .. Period]]
      /\ hits' \in [Window -> [0 .. Period - 1 -> Nat]]
  <2>1. window' = [w \in Window |-> window'[w]] /\ hits' = [w \in Window |-> hits'[w]]  BY <1>3
  <2> QED BY <1>5, <2>1 DEF Hits
<1>7. DataTypes'  BY <1>1, <1>2, <1>6 DEF BotTypeOK, DataTypes
<1>8. BotTypeOK'  BY <1>1, <1>2, <1>7, TypesElsewhere
<1>9. /\ \A u \in Update : OneUpdate(u)'
      /\ \A topic \in {"desk", "alert", "language"} : InTurn(topic)'
      /\ \A s \in Setting : Shown(s)'
      /\ Prompted'
  BY <1>2, ElsewhereKeeps
<1>10. Numbered' /\ ReferencesKnown'  BY <1>2, NumbersStand DEF Went
<1>11. Withdrawn'  BY <1>2, WithdrawnAside DEF At, Underway
<1> QED BY <1>5, <1>8, <1>9, <1>10, <1>11 DEF BotIInv

LEMMA CrashKeeps == ASSUME BotIInv, Crash PROVE BotIInv'
<1>1. BotTypeOK /\ \A u \in Update : OneUpdate(u)  BY DEF BotIInv
<1>2. UNCHANGED <<sent, acked, kind, listed, calendar, seen, window, hits, fsm, account, tickets, setting,
                  button, done, told, invites>>
  BY DEF Crash, outside, cache, rows
<1>3. /\ given # 0 /\ given' = acked /\ task' = [u \in Update |-> Off] /\ faults' = faults + 1
      /\ fate' = [u \in Update |-> IF u <= acked /\ Underway(u) THEN "lost" ELSE fate[u]]
      /\ odd' = odd \cup {<<"crash", u>> : u \in 1 .. given}
  BY DEF Crash, Fault
<1>4. /\ sent \in Nat /\ given \in Nat /\ acked \in Nat
      /\ acked <= given /\ given <= sent /\ sent <= Updates
      /\ \A u \in Update : u \in Nat /\ u >= 1 /\ u <= Updates
  BY <1>1, WireIsCounted
<1>5. faults \in Nat  BY <1>1 DEF BotTypeOK
<1>6. odd \subseteq odd'  BY <1>3
<1>7. \A f \in {"blind", "unsure", "clash", "deleted"}, v \in Month \cup Update :
        Went(f, v)' <=> Went(f, v)
  BY <1>3 DEF Went
<1>8. ASSUME NEW u \in Update PROVE At(u)' = "off" /\ ~Underway(u)' /\ task'[u].todo = <<>>
  <2>1. task'[u].todo = <<>>  BY <1>3, OffIsOff
  <2> QED BY <2>1 DEF At, Underway
<1>9. BotTypeOK'
  <2>1. task' \in [Update -> Task]  BY <1>3, OffIsOff
  <2>2. fate' \in [Update -> {"", "over", "cut", "lost"}]  BY <1>1, <1>3 DEF BotTypeOK
  <2>3. given' \in 0 .. sent' /\ acked' \in 0 .. given' /\ faults' \in Nat
    BY <1>2, <1>3, <1>4, <1>5
  <2>4. \A u \in Update : task'[u].todo \in Rest(kind'[u]) /\ (Underway(u)' => u <= given')
    BY <1>8 DEF Rest
  <2> QED BY <1>1, <1>2, <2>1, <2>2, <2>3, <2>4 DEF BotTypeOK
<1>10. ASSUME NEW u \in Update PROVE OneUpdate(u)'
  <2>1. /\ Went("crash", u)' <=> (Went("crash", u) \/ u <= given)
        /\ Went("blind", u)' <=> Went("blind", u)
        /\ Went("unsure", u)' <=> Went("unsure", u)
    BY <1>3, <1>4, <1>7 DEF Went
  <2>2. fate'[u] = IF u <= acked /\ Underway(u) THEN "lost" ELSE fate[u]  BY <1>3
  <2>3. u \in Nat  BY <1>4
  <2>4. Underway(u) <=> At(u) # "off"  BY <1>1, WaysHaveSteps
  <2>5. Blamed(u)'  BY <1>1, <1>3, <1>5, <2>1 DEF OneUpdate, Blamed
  <2>6. Fresh(u)'
    <3>1. ~Went("crash", u)' => u > given /\ u > acked  BY <1>4, <2>1, <2>3
    <3>2. u > acked => fate'[u] = fate[u]  BY <1>4, <2>2, <2>3
    <3>3. ASSUME ~Went("crash", u)'
          PROVE  done'[u] = 0 /\ told'[u] = 0 /\ fate'[u] = "" /\ u \notin seen'
      BY <1>1, <1>2, <2>1, <3>1, <3>2, <3>3 DEF OneUpdate, Fresh
    <3> QED BY <3>3 DEF Fresh
  <2>7. Keyed(u)'
    <3>1. u > acked' => fate'[u] = fate[u] /\ u > acked  BY <1>2, <1>4, <2>2, <2>3
    <3> QED BY <1>1, <1>2, <1>8, <2>1, <3>1 DEF OneUpdate, Keyed
  <2>8. Again(u)'  BY <1>8 DEF Again
  <2>9. Settles(u)'
    <3>1. u <= acked => u <= given  BY <1>4, <2>3
    <3>2. u <= acked => fate'[u] # ""  BY <1>1, <2>2, <2>4, <3>1 DEF OneUpdate, Settles
    <3>3. fate'[u] = "lost" => Went("crash", u)' \/ Went("blind", u)'
      BY <1>1, <2>1, <2>2, <3>1 DEF OneUpdate, Settles
    <3> QED BY <1>3, <3>2, <3>3 DEF Settles
  <2>10. Effect(u)'  BY <1>1, <1>2, <1>8, <2>1 DEF OneUpdate, Effect, Sure, Ahead
  <2>11. Heard(u)'  BY <1>1, <1>2, <1>8, <2>1 DEF OneUpdate, Heard, Sure, Ahead
  <2>12. DeskHears(u)'
    <3>1. ToSilence' = ToSilence /\ ToSilence \in 0 .. 2  BY <1>2 DEF ToSilence
    <3>2. faults' < ToSilence' => faults < ToSilence  BY <1>3, <1>5, <3>1
    <3> QED BY <1>1, <1>2, <1>8, <2>2, <3>2 DEF OneUpdate, DeskHears
  <2>13. Replays(u)'  BY <1>8 DEF Replays
  <2> QED BY <2>5, <2>6, <2>7, <2>8, <2>9, <2>10, <2>11, <2>12, <2>13 DEF OneUpdate
<1>11. Crashed'
  <2>1. 1 \in Update /\ 1 \in 1 .. given
    <3>1. Updates \in Nat /\ Updates > 0  BY Bounds
    <3> QED BY <1>3, <1>4, <3>1 DEF Update
  <2>2. Went("crash", 1)'  BY <1>3, <2>1 DEF Went
  <2> QED BY <2>1, <2>2 DEF Crashed
<1>12. /\ \A topic \in {"desk", "alert", "language"} : InTurn(topic)'
       /\ \A s \in Setting : Shown(s)'
       /\ Prompted'
  BY <1>11 DEF InTurn, Shown, Prompted, Plain
<1>13. Numbered' /\ ReferencesKnown'  BY <1>2, <1>6, <1>7, NumbersStand
<1>14. Withdrawn'  BY <1>2, <1>6, <1>8, WithdrawnAside
<1>15. \A w \in Window : WindowKnown(w)'  BY <1>2, <1>6, WindowsStand
<1> QED BY <1>9, <1>10, <1>12, <1>13, <1>14, <1>15 DEF BotIInv

LEMMA PollKeeps == ASSUME BotIInv, Poll PROVE BotIInv'
<1>1. BotTypeOK /\ \A u \in Update : OneUpdate(u)  BY DEF BotIInv
<1>2. UNCHANGED <<sent, kind, listed, calendar, seen, window, hits, fsm, account, tickets, setting,
                  button, fate, done, told, odd, invites, faults>>
  BY DEF Poll, outside, cache, rows, history, spent
<1>3. /\ acked' = given /\ given' = sent
      /\ task' = [u \in Update |-> IF u \in given + 1 .. sent
                                   THEN [Off EXCEPT !.todo = Middlewares] ELSE task[u]]
  BY DEF Poll
<1>4. /\ sent \in Nat /\ given \in Nat /\ acked \in Nat
      /\ acked <= given /\ given <= sent /\ sent <= Updates
      /\ \A u \in Update : u \in Nat /\ u >= 1 /\ u <= Updates
  BY <1>1, WireIsCounted
<1> DEFINE New == given + 1 .. sent
<1>5. ASSUME NEW u \in Update
      PROVE  IF u \in New
             THEN /\ At(u) = "off" /\ At(u)' = "dedup" /\ task'[u].todo = Middlewares
                  /\ u > given /\ u <= sent /\ task'[u] \in Task
             ELSE /\ At(u)' = At(u) /\ task'[u] = task[u] /\ (u <= given \/ u > sent)
  <2>1. CASE u \in New
    <3>1. u > given /\ u <= sent  BY <1>4, <2>1
    <3>2. ~(u <= given)  BY <1>4, <3>1
    <3>3. At(u) = "off"  BY <1>1, <3>2, WaysHaveSteps
    <3>4. task'[u] = [Off EXCEPT !.todo = Middlewares]  BY <1>3, <2>1
    <3>5. Middlewares \in Seq(Step) /\ Middlewares # <<>> /\ Head(Middlewares) = "dedup"
      BY DEF Middlewares, Step, Call
    <3>6. task'[u] \in Task /\ task'[u].todo = Middlewares
      <4> HIDE DEF New
      <4> QED BY <3>4, <3>5, OffIsOff DEF Task
    <3>7. At(u)' = "dedup"  BY <3>5, <3>6 DEF At, Underway
    <3> QED BY <2>1, <3>1, <3>3, <3>6, <3>7
  <2>2. CASE u \notin New
    <3>1. task'[u] = task[u]  BY <1>3, <2>2
    <3>2. u <= given \/ u > sent  BY <1>4, <2>2
    <3> HIDE DEF New
    <3> QED BY <2>2, <3>1, <3>2 DEF At, Underway
  <2> QED BY <2>1, <2>2
<1> HIDE DEF New
<1>6. BotTypeOK'
  <2>1. task' \in [Update -> Task]
    <3>1. \A u \in Update : task'[u] \in Task  BY <1>1, <1>5 DEF BotTypeOK
    <3>2. task' = [u \in Update |-> task'[u]]  BY <1>3
    <3> QED BY <3>1, <3>2
  <2>2. given' \in 0 .. sent' /\ acked' \in 0 .. given'  BY <1>2, <1>3, <1>4
  <2>3. ASSUME NEW u \in Update PROVE task'[u].todo \in Rest(kind'[u]) /\ (Underway(u)' => u <= given')
    <3>1. task'[u].todo \in Rest(kind'[u])  BY <1>1, <1>2, <1>5 DEF BotTypeOK, Rest
    <3>2. ASSUME Underway(u)' PROVE u <= sent
      <4>1. CASE u \in New  BY <1>5, <4>1
      <4>2. CASE u \notin New
        <5>1. Underway(u)  BY <1>5, <3>2, <4>2 DEF Underway
        <5>2. u <= given  BY <1>1, <5>1 DEF BotTypeOK
        <5> QED BY <1>4, <5>2
      <4> QED BY <4>1, <4>2
    <3> QED BY <1>3, <3>1, <3>2
  <2> QED BY <1>1, <1>2, <2>1, <2>2, <2>3 DEF BotTypeOK
<1>7. ASSUME NEW u \in Update PROVE OneUpdate(u)'
  <2>1. /\ u \in Nat /\ (Went("crash", u)' <=> Went("crash", u))
        /\ (Went("blind", u)' <=> Went("blind", u)) /\ (Went("unsure", u)' <=> Went("unsure", u))
        /\ (Sure(u)' <=> Sure(u))
    BY <1>2, <1>4 DEF Went, Sure
  <2>2. \/ At(u) = "off" /\ At(u)' = "dedup" /\ u > given /\ u <= sent
        \/ At(u)' = At(u) /\ task'[u] = task[u] /\ (u <= given \/ u > sent)
    BY <1>5
  <2>3. /\ u > acked' => u > acked
        /\ u > given' => u > given
    BY <1>3, <1>4
  <2>4. Blamed(u)'  BY <1>1, <1>2, <2>1 DEF OneUpdate, Blamed
  <2>5. Fresh(u)'  BY <1>1, <1>2, <2>1, <2>2, <2>3 DEF OneUpdate, Fresh
  <2>6. Keyed(u)'
    <3>1. At(u)' = "dedup" => At(u) = "dedup" \/ u > acked  BY <1>4, <2>1, <2>2
    <3>2. At(u)' \notin {"off", "dedup"} => At(u) \notin {"off", "dedup"}  BY <2>2
    <3> QED BY <1>1, <1>2, <2>1, <2>3, <3>1, <3>2 DEF OneUpdate, Keyed
  <2>7. Again(u)'  BY <1>1, <1>2, <2>1, <2>2 DEF OneUpdate, Again
  <2>8. Settles(u)'
    <3>1. u <= given' /\ At(u)' = "off" => u <= given /\ At(u) = "off"
      BY <1>3, <1>4, <2>1, <2>2
    <3> QED BY <1>1, <1>2, <2>1, <3>1 DEF OneUpdate, Settles
  <2>9. Effect(u)'  BY <1>1, <1>2, <2>1, <2>2 DEF OneUpdate, Effect, Ahead
  <2>10. Heard(u)'  BY <1>1, <1>2, <2>1, <2>2 DEF OneUpdate, Heard, Ahead
  <2>11. DeskHears(u)'
    <3>1. ToSilence' = ToSilence  BY <1>2 DEF ToSilence
    <3> QED BY <1>1, <1>2, <2>1, <2>2, <3>1 DEF OneUpdate, DeskHears
  <2>12. Replays(u)'  BY <1>1, <1>2, <2>1, <2>2 DEF OneUpdate, Replays
  <2> QED BY <2>4, <2>5, <2>6, <2>7, <2>8, <2>9, <2>10, <2>11, <2>12 DEF OneUpdate
<1>8. ASSUME NEW topic
      PROVE  Topical(topic)' = Topical(topic) /\ (Plain(topic)' <=> Plain(topic))
             /\ Topical(topic) \subseteq Update
  BY <1>2 DEF Topical, Plain, Crashed, CutShort, Went
<1>9. ASSUME NEW topic \in {"desk", "alert", "language"} PROVE InTurn(topic)'
  <2>1. ASSUME Plain(topic), NEW u \in Topical(topic), NEW v \in Topical(topic), u < v,
               v <= given', At(v)' # "dedup"
        PROVE  At(u)' = "off"
    <3>1. u \in Update /\ v \in Update  BY <1>8
    <3>2. v <= given /\ At(v) # "dedup"  BY <1>3, <1>4, <1>5, <2>1, <3>1
    <3>3. At(u) = "off"  BY <1>9, <2>1, <3>2 DEF BotIInv, InTurn
    <3>4. ~(u > given)  BY <1>4, <2>1, <3>1, <3>2
    <3> QED BY <1>5, <3>1, <3>3, <3>4
  <2> QED BY <1>8, <2>1 DEF InTurn
<1>10. ASSUME NEW s \in Setting PROVE Shown(s)'
  <2>1. Shown(s)  BY DEF BotIInv
  <2>2. \A u \in Topical(s) : /\ At(u)' = "edit" => At(u) = "edit"
                              /\ At(u) \in {"edit", "replay"} => At(u)' \in {"edit", "replay"}
    BY <1>5, <1>8
  <2> QED BY <1>2, <1>8, <2>1, <2>2 DEF Shown
<1>11. Prompted'
  <2>1. \A u \in Update : Answering(u)' <=> Answering(u)  BY <1>2, <1>5 DEF Answering
  <2>2. \A u \in Update : At(u)' \in {"gate", "check", "ticket"} =>
          At(u)' = At(u) /\ task'[u] = task[u]
    BY <1>5
  <2>3. TicketsOfTexts' = TicketsOfTexts  BY <1>2 DEF TicketsOfTexts
  <2>4. Prompted  BY DEF BotIInv
  <2> QED BY <1>2, <1>8, <2>1, <2>2, <2>3, <2>4 DEF Prompted
<1>12. Numbered' /\ ReferencesKnown'  BY <1>2, NumbersStand DEF Went
<1>13. Withdrawn'
  <2>1. \A u \in Update : At(u)' = "ticket" => At(u) = "ticket"  BY <1>5
  <2> QED BY <1>2, <2>1, WithdrawnAside
<1>14. \A w \in Window : WindowKnown(w)'  BY <1>2, WindowsStand
<1> QED BY <1>6, <1>7, <1>9, <1>10, <1>11, <1>12, <1>13, <1>14 DEF BotIInv

LEMMA FlushKeeps == ASSUME BotIInv, Flush PROVE BotIInv'
<1>1. BotTypeOK /\ \A u \in Update : OneUpdate(u)  BY DEF BotIInv
<1>2. UNCHANGED <<sent, given, acked, kind, listed, calendar, task, hits, account, tickets, setting,
                  button, fate, done, told, invites>>
  BY DEF Flush, wire, outside, rows
<1>3. /\ seen' = {} /\ fsm' = "idle" /\ window' = [w \in Window |-> Quiet] /\ faults' = faults + 1
      /\ odd' = odd \cup {<<"blind", u>> : u \in seen} \cup {<<"loose", w>> : w \in Window}
  BY DEF Flush, Fault
<1>4. faults \in Nat  BY <1>1 DEF BotTypeOK
<1>5. odd \subseteq odd'  BY <1>3
<1>6. \A v : \A f \in {"crash", "unsure", "clash", "overlap"} : Went(f, v)' <=> Went(f, v)
  BY <1>3 DEF Went
<1>7. \A u : Went("blind", u)' <=> (Went("blind", u) \/ u \in seen)  BY <1>3 DEF Went
<1>8. \A u \in Update : At(u)' = At(u)  BY <1>2 DEF At, Underway
<1>9. BotTypeOK'
  <2>1. Period \in Nat /\ Limit \in Nat  BY Bounds
  <2>2. Quiet \in [count : 0 .. Limit + 1, left : 0 .. Period]  BY <2>1 DEF Quiet
  <2>3. window' \in [Window -> [count : 0 .. Limit + 1, left : 0 .. Period]]  BY <1>3, <2>2
  <2>4. faults' \in Nat /\ seen' \subseteq Update /\ fsm' \in {"idle", "awaiting"}  BY <1>3, <1>4
  <2>5. DataTypes'  BY <1>1, <1>2, <2>3, <2>4 DEF BotTypeOK, DataTypes
  <2> QED BY <1>1, <1>2, <2>5, TypesElsewhere
<1>10. ASSUME NEW u \in Update PROVE OneUpdate(u)'
  <2>1. Sure(u)' => Sure(u)  BY <1>6, <1>7 DEF Sure
  <2>2. Blamed(u)'  BY <1>1, <1>3, <1>4, <1>6 DEF OneUpdate, Blamed
  <2>3. Fresh(u)'  BY <1>1, <1>2, <1>3, <1>6, <1>8 DEF OneUpdate, Fresh
  <2>4. Keyed(u)'  BY <1>1, <1>2, <1>7, <1>8 DEF OneUpdate, Keyed
  <2>5. Again(u)'  BY <1>1, <1>2, <1>8, <2>1 DEF OneUpdate, Again
  <2>6. Settles(u)'  BY <1>1, <1>2, <1>6, <1>7, <1>8 DEF OneUpdate, Settles
  <2>7. Effect(u)'  BY <1>1, <1>2, <1>8, <2>1 DEF OneUpdate, Effect
  <2>8. Heard(u)'  BY <1>1, <1>2, <1>6, <1>8, <2>1 DEF OneUpdate, Heard
  <2>9. DeskHears(u)'
    <3>1. ToSilence' = ToSilence /\ ToSilence \in 0 .. 2  BY <1>2 DEF ToSilence
    <3>2. faults' < ToSilence' => faults < ToSilence /\ faults # 1  BY <1>3, <1>4, <3>1
    <3> QED BY <1>1, <1>2, <1>8, <3>2 DEF OneUpdate, DeskHears
  <2>10. Replays(u)'  BY <1>1, <1>2, <1>8 DEF OneUpdate, Replays
  <2> QED BY <2>2, <2>3, <2>4, <2>5, <2>6, <2>7, <2>8, <2>9, <2>10 DEF OneUpdate
<1>11. ASSUME NEW topic
       PROVE  Topical(topic)' = Topical(topic) /\ Topical(topic) \subseteq Update
              /\ (Plain(topic)' <=> Plain(topic))
  BY <1>2, <1>6 DEF Topical, Plain, Crashed, CutShort
<1>12. \A topic \in {"desk", "alert", "language"} : InTurn(topic)'
  BY <1>2, <1>8, <1>11 DEF BotIInv, InTurn
<1>13. ASSUME NEW s \in Setting PROVE Shown(s)'
  <2>1. Shown(s)  BY DEF BotIInv
  <2> QED BY <1>2, <1>8, <1>11, <2>1 DEF Shown
<1>14. Prompted'
  <2>1. TicketsOfTexts' = TicketsOfTexts  BY <1>2 DEF TicketsOfTexts
  <2>2. Prompted  BY DEF BotIInv
  <2> QED BY <1>2, <1>3, <1>8, <1>11, <2>1, <2>2 DEF Prompted
<1>15. Numbered' /\ ReferencesKnown'  BY <1>2, <1>5, <1>6, NumbersStand
<1>16. Withdrawn'  BY <1>2, <1>5, <1>8, WithdrawnAside
<1>17. \A w \in Window : WindowKnown(w)'
  <2>1. \A w \in Window : Went("loose", w)'  BY <1>3 DEF Went
  <2> QED BY <2>1 DEF WindowKnown
<1> QED BY <1>9, <1>10, <1>12, <1>13, <1>14, <1>15, <1>16, <1>17 DEF BotIInv

\* What was delivered a second time is dropped.
LEMMA SuppressedKeeps ==
  ASSUME BotIInv, NEW u \in Update, At(u) = "dedup", Suppressed(u), Leave(u, "lost"),
         UNCHANGED <<sent, given, acked, kind, listed, calendar, seen, window, hits, fsm, account, tickets, setting,
                     button, done, told, odd, invites, faults>>
  PROVE  BotIInv'
<1>1. BotTypeOK /\ \A v \in Update : OneUpdate(v)  BY DEF BotIInv
<1>2. Went("crash", u)  BY <1>1 DEF OneUpdate, Fresh, Suppressed
<1>3. /\ task' = [task EXCEPT ![u] = Off]
      /\ fate' = [fate EXCEPT ![u] = IF @ = "" THEN "lost" ELSE @]
  BY DEF Leave, Settle
<1>4. task \in [Update -> Task] /\ fate \in [Update -> {"", "over", "cut", "lost"}] /\ faults \in Nat
  BY <1>1 DEF BotTypeOK
<1>5. /\ task' \in [Update -> Task] /\ task'[u].todo = <<>> /\ At(u)' = "off"
      /\ fate' \in [Update -> {"", "over", "cut", "lost"}]
      /\ fate'[u] = IF fate[u] = "" THEN "lost" ELSE fate[u]
  <2>1. task' \in [Update -> Task] /\ task'[u] = Off  BY <1>3, <1>4, OffIsOff
  <2>2. task'[u].todo = <<>>  BY <2>1, OffIsOff
  <2> QED BY <1>3, <1>4, <2>1, <2>2 DEF At, Underway
<1>6. \A v \in Update \ {u} : task'[v] = task[v] /\ fate'[v] = fate[v] /\ At(v)' = At(v)
  BY <1>3, <1>4 DEF At, Underway
<1>7. BotTypeOK'
  <2>1. ASSUME NEW v \in Update PROVE task'[v].todo \in Rest(kind'[v]) /\ (Underway(v)' => v <= given')
    <3>1. CASE v = u  BY <1>5, <3>1 DEF Rest, Underway
    <3>2. CASE v # u  BY <1>1, <1>6, <3>2 DEF BotTypeOK, Underway
    <3> QED BY <3>1, <3>2
  <2> QED BY <1>1, <1>5, <2>1 DEF BotTypeOK
<1>8. ASSUME NEW v \in Update PROVE OneUpdate(v)'
  <2>1. CASE v = u
    <3>1. /\ Went("crash", u)' <=> Went("crash", u)
          /\ Went("blind", u)' <=> Went("blind", u)
          /\ Went("unsure", u)' <=> Went("unsure", u)
      BY DEF Went
    <3>2. Blamed(u)' /\ Fresh(u)'  BY <1>1, <1>2, <3>1 DEF OneUpdate, Blamed, Fresh
    <3>3. Keyed(u)' /\ Again(u)'  BY <1>5 DEF Keyed, Again, Suppressed
    <3>4. Settles(u)'  BY <1>2, <1>5, <3>1 DEF Settles
    <3>5. Effect(u)' /\ Heard(u)'  BY <1>1, <1>5, <3>1 DEF OneUpdate, Effect, Heard, Sure, Ahead
    <3>6. DeskHears(u)'
      <4>1. ToSilence' = ToSilence  BY DEF ToSilence
      <4> QED BY <1>1, <1>5, <4>1 DEF OneUpdate, DeskHears
    <3>7. Replays(u)'  BY <1>5 DEF Replays
    <3> QED BY <2>1, <3>2, <3>3, <3>4, <3>5, <3>6, <3>7 DEF OneUpdate
  <2>2. CASE v # u
    <3>1. SameFlags(v) /\ OneUpdate(v)  BY <1>1 DEF SameFlags, Went
    <3>2. task'[v] = task[v] /\ fate'[v] = fate[v] /\ At(v)' = At(v)  BY <1>6, <2>2
    <3>3. done' = done /\ told' = told /\ faults' = faults  OBVIOUS
    <3>4. faults \in Nat  BY <1>4
    <3>5. faults <= faults  BY <3>4
    <3> QED BY <3>1, <3>2, <3>3, <3>4, <3>5, OthersStand
  <2> QED BY <2>1, <2>2
<1>9. /\ \A topic \in {"desk", "alert", "language"} : InTurn(topic)'
      /\ \A s \in Setting : Shown(s)'
      /\ Prompted'
  <2>1. Crashed'  BY <1>2 DEF Crashed, Went
  <2> QED BY <2>1 DEF InTurn, Shown, Prompted, Plain
<1>10. Numbered' /\ ReferencesKnown'  BY NumbersStand DEF Went
<1>11. Withdrawn'
  <2>1. \A v \in Update : At(v)' = "ticket" => At(v) = "ticket"  BY <1>5, <1>6
  <2> QED BY <2>1, WithdrawnAside
<1>12. \A w \in Window : WindowKnown(w)'  BY WindowsStand
<1> QED BY <1>7, <1>8, <1>9, <1>10, <1>11, <1>12 DEF BotIInv

\* What passes the key comes to the gate; who overlaps with it is noted.
LEMMA EnteringKeeps ==
  ASSUME BotIInv, NEW u \in Update, At(u) = "dedup", NEW flags, Enter(u, flags),
         \/ u \notin seen /\ seen' = seen \cup {u} /\ flags = {} /\ faults' = faults
         \/ seen' = seen /\ flags = {<<"blind", u>>} /\ faults' = faults + 1,
         UNCHANGED <<sent, given, acked, kind, listed, calendar, window, hits, fsm, account, tickets, setting,
                     button, done, told, invites>>
  PROVE  BotIInv'
<1>1. BotTypeOK /\ \A v \in Update : OneUpdate(v)  BY DEF BotIInv
<1>2. /\ task' = [task EXCEPT ![u].todo = Tail(@), ![u].saw = fsm] /\ fate' = fate
      /\ odd' = odd \cup flags \cup IF Overlaps(u) THEN {<<"overlap", Topic(kind[u])>>} ELSE {}
  BY DEF Enter
<1>3. /\ task \in [Update -> Task] /\ task[u].todo \in Rest(kind[u]) /\ faults \in Nat
      /\ fsm \in {"idle", "awaiting"}
  BY <1>1 DEF BotTypeOK
<1>4. Underway(u) /\ kind[u] \in Kind /\ u <= given  BY <1>1, WaysHaveSteps
<1> DEFINE s == task[u].todo
<1>5. Tail(s) # <<>> /\ Head(Tail(s)) = "gate" /\ Tail(s) \in Rest(kind[u]) /\ Tail(s) \in Seq(Step)
  <2>1. s # <<>> /\ Head(s) = "dedup"  BY <1>4 DEF At, Underway
  <2>2. Tail(s) \in Rest(kind[u]) /\ Onto(s) \in Edges(kind[u])  BY <1>3, <1>4, <2>1, RestsGoOn
  <2>3. Tail(s) # <<>> /\ Head(Tail(s)) = "gate"  BY <1>4, <2>1, <2>2 DEF Onto, Edges, Kind, Setting
  <2> QED BY <1>4, <2>2, <2>3, RestsGoOn
<1>6. /\ task' \in [Update -> Task] /\ task'[u].todo = Tail(s) /\ task'[u].saw = fsm
      /\ At(u)' = "gate"
  <2>1. task[u] \in Task  BY <1>3
  <2> HIDE DEF s
  <2>2. [task[u] EXCEPT !.todo = Tail(s), !.saw = fsm] \in Task  BY <1>3, <1>5, <2>1 DEF Task
  <2>3. task'[u] = [task[u] EXCEPT !.todo = Tail(s), !.saw = fsm]  BY <1>2, <1>3 DEF s
  <2>4. task' \in [Update -> Task]
    <3>1. task' = [task EXCEPT ![u] = [task[u] EXCEPT !.todo = Tail(s), !.saw = fsm]]
      BY <1>2, <1>3 DEF s
    <3> QED BY <1>3, <2>2, <3>1
  <2>5. task'[u].todo = Tail(s) /\ task'[u].saw = fsm  BY <2>1, <2>3 DEF Task
  <2> QED BY <1>5, <2>4, <2>5 DEF At, Underway
<1>7. \A v \in Update \ {u} : task'[v] = task[v] /\ At(v)' = At(v)
  BY <1>2, <1>3 DEF At, Underway
<1> HIDE DEF s
<1>8. odd \subseteq odd' /\ faults' \in Nat /\ faults <= faults'  BY <1>2, <1>3
<1>9. \A v : \A f \in {"crash", "unsure", "clash"} : Went(f, v)' <=> Went(f, v)
  BY <1>2 DEF Went
<1>10. \A v : v # u => (Went("blind", v)' <=> Went("blind", v))  BY <1>2 DEF Went
<1>11. BotTypeOK'
  <2>1. ASSUME NEW v \in Update PROVE task'[v].todo \in Rest(kind'[v]) /\ (Underway(v)' => v <= given')
    <3>1. CASE v = u  BY <1>4, <1>5, <1>6, <3>1
    <3>2. CASE v # u  BY <1>1, <1>7, <3>2 DEF BotTypeOK, Underway
    <3> QED BY <3>1, <3>2
  <2>2. seen' \subseteq Update  BY <1>1 DEF BotTypeOK
  <2> QED BY <1>1, <1>2, <1>6, <1>8, <2>1, <2>2 DEF BotTypeOK
<1>12. OneUpdate(u)'
  <2>1. /\ u \in seen' \/ Went("blind", u)'
        /\ Went("blind", u)' => Went("blind", u) \/ faults' = faults + 1
        /\ Went("blind", u) => Went("blind", u)'
        /\ ~Went("blind", u)' => u \notin seen
    BY <1>2 DEF Went
  <2>2. /\ ~Went("crash", u) => done[u] = 0 /\ told[u] = 0 /\ fate[u] = ""
        /\ ~Went("blind", u) /\ u \notin seen => done[u] = 0 /\ told[u] = 0 /\ fate[u] = ""
    <3>1. Fresh(u) /\ Keyed(u)  BY <1>1 DEF OneUpdate
    <3>2. done[u] \in 0 .. 2 /\ told[u] \in 0 .. 2  BY <1>1 DEF BotTypeOK
    <3>3. ~Went("crash", u) => done[u] = 0 /\ told[u] = 0 /\ fate[u] = ""  BY <3>1 DEF Fresh
    <3>4. ~Went("blind", u) /\ u \notin seen => ~(done[u] > 0) /\ ~(told[u] > 0) /\ fate[u] = ""
      BY <3>1 DEF Keyed
    <3>5. ~(done[u] > 0) => done[u] = 0  BY <3>2
    <3>6. ~(told[u] > 0) => told[u] = 0  BY <3>2
    <3> QED BY <3>3, <3>4, <3>5, <3>6
  <2>3. Sure(u)' => done[u] = 0 /\ told[u] = 0 /\ fate[u] = ""
    BY <1>9, <2>1, <2>2 DEF Sure
  <2>4. Blamed(u)'  BY <1>1, <1>3, <1>8, <1>9, <2>1 DEF OneUpdate, Blamed
  <2>5. Fresh(u)'
    <3>1. ~(u > given)  BY <1>1, <1>4, WireIsCounted
    <3> QED BY <1>6, <3>1 DEF Fresh
  <2>6. Keyed(u)'  BY <2>1 DEF Keyed
  <2>7. Again(u)'  BY <1>2, <2>3 DEF Again
  <2>8. Settles(u)'  BY <1>1, <1>2, <1>6, <1>9, <2>1 DEF OneUpdate, Settles
  <2>9. Sure(u)' => done'[u] = 0 /\ told'[u] = 0  BY <2>3
  <2>10. Effect(u)' /\ Heard(u)'  BY <1>1, <2>9 DEF OneUpdate, Effect, Heard
  <2>11. faults' < ToSilence' => Sure(u)'
    <3>1. ToSilence' \in 0 .. 2  BY DEF ToSilence
    <3> QED BY <1>8, <2>4, <3>1 DEF Blamed, Sure
  <2>12. DeskHears(u)'  BY <2>9, <2>11 DEF DeskHears
  <2>13. Replays(u)'  BY <1>6 DEF Replays
  <2> QED BY <2>4, <2>5, <2>6, <2>7, <2>8, <2>10, <2>12, <2>13 DEF OneUpdate
<1>13. ASSUME NEW v \in Update PROVE OneUpdate(v)'
  <2>1. CASE v # u
    <3>1. SameFlags(v)  BY <1>9, <1>10, <2>1 DEF SameFlags
    <3> QED BY <1>1, <1>2, <1>3, <1>7, <1>8, <2>1, <3>1, OthersStand
  <2> QED BY <1>12, <2>1
<1>14. ASSUME NEW topic
       PROVE  /\ Topical(topic)' = Topical(topic) /\ Topical(topic) \subseteq Update
              /\ Plain(topic)' => Plain(topic)
  <2>1. Plain(topic)' => Plain(topic)  BY <1>2, <1>8, PlainBefore
  <2> QED BY <2>1 DEF Topical
<1>15. ASSUME NEW topic, Plain(topic)', u \in Topical(topic), NEW v \in Topical(topic) \ {u}
       PROVE  At(v) = "off"
  <2>1. Topic(kind[u]) = topic /\ Topic(kind[v]) = topic /\ v \in Update \ {u}
    BY <1>15 DEF Topical
  <2>2. ~Overlaps(u)
    <3>1. ~Went("overlap", topic)'  BY <1>15 DEF Plain
    <3> QED BY <1>2, <2>1, <3>1 DEF Went
  <2>3. ~Underway(v)  BY <2>1, <2>2 DEF Overlaps
  <2> QED BY <2>3 DEF At
<1>16. ASSUME NEW topic \in {"desk", "alert", "language"} PROVE InTurn(topic)'
  <2>1. ASSUME Plain(topic)', NEW v \in Topical(topic), NEW w \in Topical(topic), v < w,
               w <= given, At(w)' # "dedup"
        PROVE  At(v)' = "off"
    <3>1. v \in Update /\ w \in Update /\ v # w  BY <1>14, <1>1, <2>1, WireIsCounted
    <3>2. CASE w = u
      <4>1. At(v) = "off"  BY <1>15, <2>1, <3>1, <3>2
      <4> QED BY <1>7, <3>1, <3>2, <4>1
    <3>3. CASE w # u
      <4>1. At(w) # "dedup"  BY <1>7, <2>1, <3>1, <3>3
      <4>2. At(v) = "off"  BY <1>14, <2>1, <3>1, <4>1 DEF BotIInv, InTurn
      <4>3. v # u  BY <4>2
      <4> QED BY <1>7, <3>1, <4>2, <4>3
    <3> QED BY <3>2, <3>3
  <2> QED BY <1>14, <2>1 DEF InTurn
<1>17. ASSUME NEW x \in Setting PROVE Shown(x)'
  <2>1. Shown(x)  BY DEF BotIInv
  <2>2. \A v \in Topical(x) : /\ At(v)' = "edit" => At(v) = "edit"
                              /\ At(v) \in {"edit", "replay"} => At(v)' \in {"edit", "replay"}
    BY <1>6, <1>7, <1>14
  <2> QED BY <1>14, <2>1, <2>2 DEF Shown
<1>18. Prompted'
  <2> DEFINE n == Cardinality(TicketsOfTexts)
  <2>1. n' = n  BY DEF TicketsOfTexts
  <2>2. \A v \in Update : Answering(v)' <=> Answering(v)  BY <1>6, <1>7 DEF Answering
  <2>3. ASSUME Plain("desk")'
        PROVE  /\ n <= invites
               /\ fsm = "awaiting" /\ (\A v \in Update : ~Answering(v)) => n < invites
               /\ \A v \in Topical("desk") : kind[v] = "text" /\ At(v) \in {"gate", "check", "ticket"}
                                             /\ task[v].saw = "awaiting" => n < invites
    <3>1. Plain("desk")  BY <1>14, <2>3
    <3> QED BY <3>1 DEF BotIInv, Prompted
  <2>4. ASSUME Plain("desk")', kind[u] = "text", fsm = "awaiting" PROVE n < invites
    <3>1. u \in Topical("desk")  BY <2>4 DEF Topical, Topic
    <3>2. ASSUME NEW v \in Update PROVE ~Answering(v)
      <4>1. CASE v = u  BY <4>1 DEF Answering
      <4>2. CASE v # u /\ kind[v] = "text"
        <5>1. v \in Topical("desk") \ {u}  BY <4>2 DEF Topical, Topic
        <5> QED BY <1>15, <2>4, <3>1, <5>1 DEF Answering
      <4> QED BY <4>1, <4>2 DEF Answering
    <3> HIDE DEF n
    <3> QED BY <2>3, <2>4, <3>2
  <2>5. ASSUME Plain("desk")', NEW v \in Topical("desk"), kind[v] = "text",
               At(v)' \in {"gate", "check", "ticket"}, task'[v].saw = "awaiting"
        PROVE  n < invites
    <3>1. v \in Update  BY <1>14
    <3> HIDE DEF n
    <3>2. CASE v = u  BY <1>6, <2>4, <2>5, <3>2
    <3>3. CASE v # u  BY <1>7, <2>3, <2>5, <3>1, <3>3
    <3> QED BY <3>2, <3>3
  <2> HIDE DEF n
  <2>6. ASSUME Plain("desk")'
        PROVE  /\ n' <= invites'
               /\ fsm' = "awaiting" /\ (\A v \in Update : ~Answering(v)') => n' < invites'
               /\ \A v \in Topical("desk")' : kind'[v] = "text" /\ At(v)' \in {"gate", "check", "ticket"}
                                             /\ task'[v].saw = "awaiting" => n' < invites'
    BY <1>14, <2>1, <2>2, <2>3, <2>5, <2>6
  <2> QED BY <2>6 DEF Prompted, n
<1>19. Numbered' /\ ReferencesKnown'  BY <1>8, <1>9, NumbersStand
<1>20. Withdrawn'
  <2>1. \A v \in Update : At(v)' = "ticket" => At(v) = "ticket"  BY <1>6, <1>7
  <2> QED BY <1>8, <2>1, WithdrawnAside
<1>21. \A w \in Window : WindowKnown(w)'  BY <1>8, WindowsStand
<1> QED BY <1>11, <1>13, <1>16, <1>17, <1>18, <1>19, <1>20, <1>21 DEF BotIInv

LEMMA DedupKeeps == ASSUME BotIInv, NEW u \in Update, Dedup(u) PROVE BotIInv'
<1>1. At(u) = "dedup"  BY DoingIsAt DEF Dedup
<1>2. UNCHANGED <<sent, given, acked, kind, listed, calendar, window, hits, fsm, account, tickets, setting,
                  button, done, told, invites>>
  BY DEF Dedup, wire, outside, rows
<1>3. CASE Suppressed(u) /\ Leave(u, "lost") /\ UNCHANGED <<seen, odd>> /\ NoFault
  BY <1>1, <1>2, <1>3, SuppressedKeeps DEF NoFault
<1>4. CASE ~Suppressed(u) /\ seen' = seen \cup {u} /\ Enter(u, {}) /\ NoFault
  BY <1>1, <1>2, <1>4, EnteringKeeps DEF NoFault, Suppressed
<1>5. CASE Fault /\ Enter(u, {<<"blind", u>>}) /\ UNCHANGED seen
  BY <1>1, <1>2, <1>5, EnteringKeeps DEF Fault
<1> QED BY <1>3, <1>4, <1>5 DEF Dedup

-----------------------------------------------------------------------------
(* The invariant, and what it guarantees. *)

LEMMA BotBegins == ASSUME Init PROVE BotIInv
<1>1. /\ kind \in [Update -> Kind \cup {"none"}] /\ account \in {"none", "open"}
      /\ listed \subseteq Channel
      /\ fsm \in {"idle", "awaiting"} /\ invites = IF fsm = "awaiting" THEN 1 ELSE 0
  <2>1. PICK start \in Starts :
          /\ kind = start.kind /\ account = start.account /\ fsm = start.fsm
          /\ listed = start.listed
          /\ invites = IF start.fsm = "awaiting" THEN 1 ELSE 0
    BY DEF Init
  <2>2. start \in [kind : [Update -> Kind \cup {"none"}], account : {"none", "open"},
                   fsm : {"idle", "awaiting"}, listed : SUBSET Channel]
    BY Bounds
  <2> QED BY <2>1, <2>2
<1>2. /\ sent = 0 /\ given = 0 /\ acked = 0 /\ task = [u \in Update |-> Off] /\ seen = {}
      /\ window = [w \in Window |-> Quiet] /\ tickets = {}
      /\ calendar = [utc |-> 0, local |-> 0]
      /\ setting = [s \in Setting |-> 0] /\ button = setting
      /\ fate = [u \in Update |-> ""] /\ done = [u \in Update |-> 0] /\ told = done
      /\ hits = [w \in Window |-> [a \in 0 .. Period - 1 |-> 0]] /\ odd = {} /\ faults = 0
  BY DEF Init
<1>3. /\ Updates \in Nat /\ Period \in Nat /\ Period > 0 /\ Limit \in Nat /\ Limit > 0
  BY Bounds
<1>4. ASSUME NEW u \in Update
      PROVE  /\ At(u) = "off" /\ ~Underway(u) /\ done[u] = 0 /\ told[u] = 0 /\ fate[u] = ""
             /\ ~(done[u] > 0) /\ ~(told[u] > 0) /\ done[u] <= 1 /\ told[u] <= 1
             /\ ~(u <= 0)
  <2>1. task[u].todo = <<>>  BY <1>2, OffIsOff
  <2>2. done[u] = 0 /\ told[u] = 0 /\ fate[u] = ""  BY <1>2
  <2>3. ~(0 > 0) /\ 0 <= 1  OBVIOUS
  <2>4. ~(done[u] > 0) /\ ~(told[u] > 0) /\ done[u] <= 1 /\ told[u] <= 1  BY <2>2, <2>3, Zenon
  <2>5. ~(u <= 0)  BY <1>3 DEF Update
  <2> QED BY <2>1, <2>2, <2>4, <2>5 DEF At, Underway
<1>5. \A flag : \A u : ~Went(flag, u)  BY <1>2 DEF Went
<1>6. BotTypeOK
  <2>1. task \in [Update -> Task]  BY <1>2, OffIsOff
  <2>2. window \in [Window -> [count : 0 .. Limit + 1, left : 0 .. Period]]
    <3>1. Quiet \in [count : 0 .. Limit + 1, left : 0 .. Period]  BY <1>3 DEF Quiet
    <3> QED BY <1>2, <3>1
  <2>3. hits \in [Window -> [0 .. Period - 1 -> Nat]]  BY <1>2
  <2>4. \A u \in Update : task[u].todo \in Rest(kind[u]) /\ (Underway(u) => u <= given)
    BY <1>4 DEF Rest, Underway
  <2>5. /\ sent \in 0 .. Updates /\ given \in 0 .. sent /\ acked \in 0 .. given
        /\ \A u \in Update : u <= sent => kind[u] # "none"
    <3>1. 0 \in 0 .. Updates /\ 0 \in 0 .. 0  BY <1>3
    <3> QED BY <1>2, <1>4, <3>1
  <2>6. /\ setting \in [Setting -> 0 .. Updates] /\ button \in [Setting -> 0 .. Updates]
        /\ done \in [Update -> 0 .. 2] /\ told \in [Update -> 0 .. 2]
        /\ fate \in [Update -> {"", "over", "cut", "lost"}] /\ seen \subseteq Update
    <3>1. 0 \in 0 .. Updates /\ 0 \in 0 .. 2  BY <1>3
    <3> QED BY <1>2, <3>1
  <2>7. account \in Account /\ invites \in Nat /\ faults \in Nat
    BY <1>1, <1>2 DEF Account
  <2>8. calendar \in [utc : Month, local : Month] /\ tickets = {}
    <3>1. 0 \in Month  BY Bounds DEF Month
    <3> QED BY <1>2, <3>1
  <2> QED BY <1>1, <2>1, <2>2, <2>3, <2>4, <2>5, <2>6, <2>7, <2>8 DEF BotTypeOK
<1>7. ASSUME NEW u \in Update PROVE OneUpdate(u)
  <2>1. Blamed(u) /\ Fresh(u)  BY <1>2, <1>4, <1>5 DEF Blamed, Fresh
  <2>2. Keyed(u) /\ Again(u)  BY <1>4 DEF Keyed, Again
  <2>3. Settles(u)
    <3>1. ~(u <= given)  BY <1>2, <1>4
    <3> QED BY <1>4, <3>1 DEF Settles
  <2>4. Effect(u)  BY <1>4 DEF Effect
  <2>5. Heard(u)  BY <1>4 DEF Heard
  <2>6. DeskHears(u) /\ Replays(u)  BY <1>4 DEF DeskHears, Replays
  <2> QED BY <2>1, <2>2, <2>3, <2>4, <2>5, <2>6 DEF OneUpdate
<1>8. \A topic \in {"desk", "alert", "language"} : InTurn(topic)
  BY <1>4 DEF InTurn, Topical
<1>9. \A s \in Setting : Shown(s)
  BY <1>2, <1>4 DEF Shown, Topical
<1>10. Prompted
  <2>1. TicketsOfTexts = {}  BY <1>4 DEF TicketsOfTexts
  <2>2. Cardinality(TicketsOfTexts) = 0  BY <2>1, FS_EmptySet
  <2>3. \A u \in Topical("desk") : At(u) = "off"  BY <1>4 DEF Topical
  <2>4. invites \in Nat /\ (fsm = "awaiting" => invites = 1)  BY <1>1
  <2> QED BY <2>2, <2>3, <2>4 DEF Prompted
<1>11. Numbered /\ ReferencesKnown
  <2>1. IsFiniteSet(tickets) /\ \A t \in tickets : FALSE  BY <1>2, FS_EmptySet
  <2> QED BY <1>5, <2>1 DEF Numbered, ReferencesKnown
<1>12. Withdrawn  BY <1>1 DEF Withdrawn
<1>13. ASSUME NEW w \in Window PROVE WindowKnown(w)
  <2>1. window[w].left = 0 /\ window[w].count = 0  BY <1>2 DEF Quiet
  <2> DEFINE h == hits[w]
  <2>2. h = [a \in 0 .. Period - 1 |-> 0]  BY <1>2
  <2>3. h[0] = 0
    <3>1. 0 \in 0 .. Period - 1  BY <1>3
    <3> QED BY <2>2, <3>1
  <2>4. Upto(h, Period - 1) = 0
    <3> DEFINE S == 0 .. Period - 1
    <3>1. h \in [S -> Nat] /\ (\A a \in S : h[a] = 0) /\ h \in Hits  BY <2>2 DEF Hits
    <3>2. IsFiniteSet(S)  BY <1>3, FS_Interval
    <3> HIDE DEF h, S
    <3>3. SumFunction(h) = 0  BY <3>1, <3>2, SumOfNothing
    <3> QED BY <3>1, <3>3, UptoAll
  <2> QED BY <1>3, <2>1, <2>3, <2>4 DEF WindowKnown
<1> QED BY <1>6, <1>7, <1>8, <1>9, <1>10, <1>11, <1>12, <1>13 DEF BotIInv

LEMMA BotRests == ASSUME BotIInv, UNCHANGED vars PROVE BotIInv'
<1>1. UNCHANGED <<sent, given, acked, kind, listed, calendar, task, seen, window, hits, fsm, account, tickets,
                  setting, button, fate, done, told, odd, invites, faults>>
  BY DEF vars, wire, outside, cache, rows, history, spent
<1>2. BotTypeOK'
  <2>1. BotTypeOK  BY DEF BotIInv
  <2>2. DataTypes'  BY <1>1, <2>1 DEF BotTypeOK, DataTypes
  <2> QED BY <1>1, <2>1, <2>2, TypesElsewhere
<1>3. /\ \A u \in Update : OneUpdate(u)'
      /\ \A topic \in {"desk", "alert", "language"} : InTurn(topic)'
      /\ \A s \in Setting : Shown(s)'
      /\ Prompted'
  BY <1>1, ElsewhereKeeps
<1>4. Numbered' /\ ReferencesKnown'  BY <1>1, NumbersStand DEF Went
<1>5. Withdrawn'  BY <1>1, WithdrawnAside DEF At, Underway
<1>6. \A w \in Window : WindowKnown(w)'  BY <1>1, WindowsStand
<1> QED BY <1>2, <1>3, <1>4, <1>5, <1>6 DEF BotIInv

LEMMA BotGoesOn == ASSUME BotIInv, [Next]_vars PROVE BotIInv'
<1>1. ASSUME NEW u \in Update, Run(u) PROVE BotIInv'
  BY <1>1, DedupKeeps, GateKeeps, BudgetKeeps, ToTelegramKeeps, ReplayKeeps, DraftKeeps,
     UnavailableKeeps, ContactKeeps, ConsentKeeps, AwaitKeeps, CheckKeeps, TicketKeeps,
     MailDeskKeeps, TellDeskKeeps, RelaxKeeps, WriteKeeps, NotWrittenKeeps DEF Run
<1>2. CASE Next
  BY <1>1, <1>2, SendKeeps, PollKeeps, CrashKeeps, TickKeeps, FlushKeeps, WithdrawKeeps,
     MoveAccountKeeps, OtherTicketKeeps, MonthTurnsKeeps DEF Next
<1>3. CASE UNCHANGED vars  BY <1>3, BotRests
<1> QED BY <1>2, <1>3

LEMMA BotGuarantees == ASSUME BotIInv PROVE BotInv
<1>1. BotTypeOK /\ \A u \in Update : OneUpdate(u)  BY DEF BotIInv
<1>2. ASSUME NEW u \in Update
      PROVE  /\ done[u] \in 0 .. 2 /\ told[u] \in 0 .. 2 /\ (Underway(u) <=> At(u) # "off")
             /\ Effect(u) /\ Heard(u) /\ DeskHears(u) /\ Settles(u)
  BY <1>1, WaysHaveSteps DEF BotTypeOK, OneUpdate
<1>3. EffectsOnce  BY <1>2 DEF EffectsOnce, Effect, Sure
<1>4. NoDoubleTalk  BY <1>2 DEF NoDoubleTalk, Heard, Sure
<1>5. DeskIsTold
  <2>1. ASSUME NEW u \in Topical("desk"), done[u] = 1, fate[u] = "over", told[u] = 0
        PROVE  faults >= ToSilence
    <3>1. u \in Update /\ kind[u] \in {"ask", "text"}
      <4>1. u \in Update /\ Topic(kind[u]) = "desk" /\ kind[u] \in Kind \cup {"none"}
        BY <1>1 DEF Topical, BotTypeOK
      <4> QED BY <4>1 DEF Topic, Kind
    <3>2. kind[u] = "text"  BY <1>2, <2>1, <3>1 DEF Effect
    <3>3. ~(faults < ToSilence)  BY <1>2, <2>1, <3>1, <3>2 DEF DeskHears
    <3>4. faults \in Nat  BY <1>1 DEF BotTypeOK
    <3>5. ToSilence \in 0 .. 2  BY DEF ToSilence
    <3> QED BY <3>3, <3>4, <3>5
  <2> QED BY <2>1 DEF DeskIsTold
<1>6. BoundedRate
  <2>1. ASSUME NEW w \in Window, ~Went("loose", w) PROVE SumFunction(hits[w]) < 2 * Limit
    <3>1. hits[w] \in Hits /\ window[w].left \in 0 .. Period  BY <1>1 DEF BotTypeOK, Hits
    <3>2. WindowKnown(w) /\ Limit \in Nat /\ Period \in Nat /\ Period > 0  BY Bounds DEF BotIInv
    <3> DEFINE all == Upto(hits[w], Period - 1)
               since == Upto(hits[w], Opened(w))
    <3>3. all = SumFunction(hits[w]) /\ all \in Nat
      <4>1. Period - 1 \in 0 .. Period - 1  BY <3>2
      <4> QED BY <3>1, <4>1, UptoAll, UptoIsNat
    <3>4. CASE window[w].left = 0
      <4>1. all < Limit  BY <2>1, <3>2, <3>4 DEF WindowKnown
      <4> HIDE DEF all
      <4>2. all < 2 * Limit  BY <3>2, <3>3, <4>1
      <4> QED BY <3>3, <4>2
    <3>5. CASE window[w].left # 0
      <4>1. all < Limit + since /\ since <= Limit  BY <2>1, <3>2, <3>5 DEF WindowKnown
      <4>2. since \in Nat
        <5>1. Opened(w) \in 0 .. Period - 1  BY <3>1, <3>2, <3>5 DEF Opened
        <5> QED BY <3>1, <5>1, UptoIsNat
      <4> HIDE DEF all, since
      <4>3. all < 2 * Limit  BY <3>2, <3>3, <4>1, <4>2
      <4> QED BY <3>3, <4>3
    <3> QED BY <3>4, <3>5
  <2> QED BY <2>1 DEF BoundedRate
<1>7. NothingForgotten  BY <1>2 DEF NothingForgotten, Settles
<1>8. TicketsAreAsked
  <2>1. Plain("desk") => Cardinality(TicketsOfTexts) <= invites  BY DEF BotIInv, Prompted
  <2> QED BY <2>1 DEF TicketsAreAsked, TicketsOfTexts
<1>9. ReferencesKnown  BY DEF BotIInv
<1>10. TicketsErased  BY DEF BotIInv, Withdrawn, TicketsErased
<1>11. SettingIsLatest
  <2>1. ASSUME NEW s \in Setting, Plain(s)
        PROVE  /\ \A u \in Update : kind[u] = s /\ done[u] > 0 => u <= setting[s]
               /\ Resting(s) => button[s] = setting[s]
    <3>1. Shown(s)  BY DEF BotIInv
    <3>2. \A u \in Update : kind[u] = s => u \in Topical(s)  BY DEF Topical, Topic, Setting
    <3>3. \A u \in Topical(s) : Resting(s) => At(u) = "off"  BY DEF Resting, At
    <3> QED BY <2>1, <3>1, <3>2, <3>3 DEF Shown
  <2> QED BY <2>1 DEF SettingIsLatest
<1> QED BY <1>3, <1>4, <1>5, <1>6, <1>7, <1>8, <1>9, <1>10, <1>11 DEF BotInv

(* Effects once, no double talk, a desk that is told, a bounded rate, no    *)
(* update forgotten, tickets asked for, known and erased, and settings that *)
(* are the latest: all the guarantees of the path of an update, whatever    *)
(* crashes, faults, ticks and withdrawals come in between (main.py,         *)
(* configure_dispatcher).                                                   *)
THEOREM BotIsSafe == Spec => []BotInv
<1>1. Init => BotIInv  BY BotBegins
<1>2. BotIInv /\ [Next]_vars => BotIInv'  BY BotGoesOn
<1>3. BotIInv => BotInv  BY BotGuarantees
<1> QED BY <1>1, <1>2, <1>3, PTL DEF Spec
=============================================================================
