-------------------------- MODULE ConsentAccount --------------------------
(***************************************************************************)
(* The account of a person: consent given, declined and withdrawn, the     *)
(* ledger of consents, the staff's levers (deactivation, ban, withdrawal,  *)
(* deletion, the change form), and the commands that erase accounts and    *)
(* anonymise the ledger.                                                   *)
(*                                                                         *)
(* A request loads the account it is about, decides on that instance and   *)
(* writes later, naming the columns it writes: other requests run in       *)
(* between.  Only the admin's change form writes the whole instance back.  *)
(* Requests that are refused write nothing and are no step here.           *)
(***************************************************************************)
EXTENDS AccountGate, Naturals, FiniteSets

CONSTANTS
  Person,     \* the people, by the chat_id of their Telegram account
  Staff,      \* those whose first row has is_staff
  Superuser,  \* ... and is_superuser
  Handler,    \* the requests of one behaviour; each is served once
  MaxLives,   \* bound: rows created for one chat_id
  Nobody

ASSUME StaffArePersons == Superuser \subseteq Staff /\ Staff \subseteq Person
ASSUME NoneIsNobody == Nobody \notin Person
ASSUME LivesAreBounded == MaxLives \in Nat \ {0}

VARIABLES
  row,      \* [Person -> 0..MaxLives], the row of users, 0 when there is none
  lives,    \* [Person -> 0..MaxLives], the rows created so far
  flags,    \* [Person -> SUBSET Flag], what the row says
  ledger,   \* SUBSET Record, the rows of ConsentRecord
  request   \* [Handler -> Request]

consentVars == <<row, lives, flags, ledger, request>>

Choice == {"accepted", "declined", "withdrawn"}

\* A consent record is of one row of users; whether its user column still
\* names that row, and its initiated_by.  Two equal records are one here.
Record == [of : Person, life : 1..MaxLives, choice : Choice,
           linked : {"yes", "no"}, actor : Person \cup {Nobody}]

\* A request is at the write it is about to make; "accepted" and "declined"
\* are the INSERT of the record that follows the save.
RequestStep == {"new", "accept", "decline", "accepted", "declined", "withdraw",
         "setCity", "dropCity", "ticket", "deactivate", "reactivate", "ban",
         "delete", "form", "done"}

Request == [step : RequestStep, who : Person \cup {Nobody}, by : Person \cup {Nobody},
            life : 0..MaxLives, saw : SUBSET Flag]

Blank == [step |-> "new", who |-> Nobody, by |-> Nobody, life |-> 0, saw |-> {}]

TypeOK ==
  /\ row \in [Person -> 0..MaxLives]
  /\ lives \in [Person -> 0..MaxLives]
  /\ flags \in [Person -> SUBSET Flag]
  /\ ledger \subseteq Record
  /\ request \in [Handler -> Request]

\* create_admin_user has made the staff; nobody else has met the bot.
ConsentInit ==
  /\ row = [u \in Person |-> IF u \in Staff THEN 1 ELSE 0]
  /\ lives = row
  /\ flags = [u \in Person |-> IF u \in Staff THEN NewAccount ELSE {}]
  /\ ledger = {}
  /\ request = [h \in Handler |-> Blank]

-----------------------------------------------------------------------------
(* Loading *)

\* A session is good for a row that is there and active.
SignedIn(u) == row[u] # 0 /\ "active" \in flags[u]

\* A row the bot creates is nobody's staff.
IsStaff(u) == u \in Staff /\ row[u] = 1
IsSuperuser(u) == u \in Superuser /\ row[u] = 1

\* Request h of `by` loads the row of u and goes on to step.
Load(h, step, u, by, saw) ==
  /\ request[h].step = "new" /\ row[u] # 0 /\ SignedIn(by)
  /\ request' = [request EXCEPT ![h] =
       [step |-> step, who |-> u, by |-> by, life |-> row[u], saw |-> saw]]
  /\ UNCHANGED <<row, lives, flags, ledger>>

\* consent_accept and consent_decline, past their 403.
LoadConsent(h, u) ==
  /\ "deleted" \notin flags[u]
  /\ \E step \in {"accept", "decline"} : Load(h, step, u, u, {})

\* consent_withdraw, by the person.
LoadWithdrawal(h, u) ==
  "deleted" \notin flags[u] /\ Load(h, "withdraw", u, u, {})

\* withdraw_consent_action: a superuser withdraws for the account.
StaffWithdraws(h, u, by) ==
  /\ IsSuperuser(by) /\ "deleted" \notin flags[u]
  /\ Load(h, "withdraw", u, by, {})

\* set_preferred_city, and its clearing.
LoadCity(h, u) ==
  \/ "declined" \notin flags[u] /\ Load(h, "setCity", u, u, {})
  \/ Load(h, "dropCity", u, u, {})

\* login_status, a guest's cookie in hand: the reconciliation will write.
LoadLogin(h, u) ==
  /\ "linked" \in flags[u] /\ can_login(flags[u])
  /\ flags[u] \cap {"declined", "city"} = {}
  /\ Load(h, "setCity", u, u, {})

\* handle_support_orm, past its gate: the sender need not be active.
LoadTicket(h, u) ==
  /\ request[h].step = "new" /\ row[u] # 0
  /\ can_store_personal_data(flags[u])
  /\ request' = [request EXCEPT ![h] =
       [step |-> "ticket", who |-> u, by |-> u, life |-> row[u], saw |-> {}]]
  /\ UNCHANGED <<row, lives, flags, ledger>>

\* deactivate_user, reactivate_user, ban_user_for_ad and bulk_ban_users.
LoadLever(h, u, by) ==
  /\ IsStaff(by)
  /\ \E step \in {"deactivate", "reactivate", "ban"} : Load(h, step, u, by, {})

\* The admin's own delete and change views.
LoadAdmin(h, u, by) ==
  \/ IsSuperuser(by) /\ Load(h, "delete", u, by, {})
  \/ IsStaff(by) /\ Load(h, "form", u, by, flags[u])

-----------------------------------------------------------------------------
(* Writing *)

Goto(h, step) == request' = [request EXCEPT ![h].step = step]

End(h) == request' = [request EXCEPT ![h] = [Blank EXCEPT !.step = "done"]]

\* save(update_fields=...) on the row that was loaded.
Save(h, drop, add) ==
  /\ row[request[h].who] = request[h].life
  /\ flags' = [flags EXCEPT ![request[h].who] = (@ \ drop) \cup add]
  /\ UNCHANGED <<row, lives>>

\* Mutant: the subject is its own actor.
NewRecordNamingSubject(h, choice) ==
  LET r == request[h] IN
  [of |-> r.who, life |-> r.life, choice |-> choice, linked |-> "yes",
   actor |-> r.by]

\* record_consent_action_with_context: the actor only when not the subject.
NewRecord(h, choice) ==
  LET r == request[h] IN
  [of |-> r.who, life |-> r.life, choice |-> choice, linked |-> "yes",
   actor |-> IF r.by = r.who THEN Nobody ELSE r.by]

\* Mutants: the decline is left standing; the withdrawal is undone.
GiveConsentKeepingDecline(h) ==
  /\ request[h].step = "accept"
  /\ Save(h, {"revoked"}, {"accepted", "publishing"})
  /\ Goto(h, "accepted")
  /\ UNCHANGED ledger

GiveConsentUndeleting(h) ==
  /\ request[h].step = "accept"
  /\ Save(h, {"declined", "revoked", "deleted"}, {"accepted", "publishing"})
  /\ Goto(h, "accepted")
  /\ UNCHANGED ledger

give_consent(h) ==
  /\ request[h].step = "accept"
  /\ Save(h, {"declined", "revoked"}, {"accepted", "publishing"})
  /\ Goto(h, "accepted")
  /\ UNCHANGED ledger

decline_consent(h) ==
  /\ request[h].step = "decline"
  /\ Save(h, {"publishing", "accepted", "city"}, {"declined"})
  /\ Goto(h, "declined")
  /\ UNCHANGED ledger

\* record_consent_action: its user column needs the row.
RecordChoice(h) ==
  /\ request[h].step \in {"accepted", "declined"}
  /\ row[request[h].who] = request[h].life
  /\ ledger' = ledger \cup {NewRecord(h, request[h].step)}
  /\ End(h)
  /\ UNCHANGED <<row, lives, flags>>

\* Mutant: the record is the caller's business.
WithdrawUnrecorded(h) ==
  /\ request[h].step = "withdraw"
  /\ Save(h, {"linked", "accepted", "city", "ticket"}, {"deleted", "revoked"})
  /\ End(h)
  /\ UNCHANGED ledger

\* One transaction.  The check of is_deleted is on the instance loaded: of two
\* withdrawals that overlap the second does everything again.
withdraw_consent(h) ==
  LET r == request[h] IN
  /\ r.step = "withdraw"
  /\ r.by = r.who \/ row[r.by] = 1
  /\ Save(h, {"linked", "accepted", "city", "ticket"}, {"deleted", "revoked"})
  /\ ledger' = ledger \cup {NewRecord(h, "withdrawn")}
  /\ End(h)

\* The city, by whichever view.
SaveCity(h) ==
  /\ \/ request[h].step = "setCity" /\ Save(h, {}, {"city"})
     \/ request[h].step = "dropCity" /\ Save(h, {"city"}, {})
  /\ End(h)
  /\ UNCHANGED ledger

\* The INSERT of the ticket, whose user column needs the row.
CreateTicket(h) ==
  /\ request[h].step = "ticket"
  /\ Save(h, {}, {"ticket"})
  /\ End(h)
  /\ UNCHANGED ledger

\* _resolve_targets and _resolve_ban_targets: not the actor's own row, and
\* the staff's only for a superuser.
Targetable(h, unrestricted) ==
  LET r == request[h] IN
  /\ r.who # r.by
  /\ (r.who \in Staff /\ r.life = 1) => unrestricted

\* The deactivation trusts the actor's instance, the ban asks the table.
PullLever(h) ==
  LET r == request[h] IN
  /\ \/ r.step = "deactivate" /\ Targetable(h, r.by \in Superuser)
                             /\ Save(h, {"active"}, {})
     \/ r.step = "reactivate" /\ Targetable(h, r.by \in Superuser)
                             /\ Save(h, {}, {"active"})
     \/ r.step = "ban" /\ Targetable(h, IsSuperuser(r.by))
                      /\ Save(h, {}, {"banned"})
  /\ End(h)
  /\ UNCHANGED ledger

\* What the deletion of the rows of U does to the ledger: SET_NULL.
Unlinked(r, U) ==
  [r EXCEPT !.linked = IF r.of \in U THEN "no" ELSE @,
            !.actor = IF @ \in U THEN Nobody ELSE @]

DeleteRows(U) ==
  /\ row' = [u \in Person |-> IF u \in U THEN 0 ELSE row[u]]
  /\ flags' = [u \in Person |-> IF u \in U THEN {} ELSE flags[u]]
  /\ ledger' = {Unlinked(r, U) : r \in ledger}
  /\ UNCHANGED lives

StaffDelete(h) ==
  /\ request[h].step = "delete"
  /\ row[request[h].who] = request[h].life
  /\ DeleteRows({request[h].who})
  /\ End(h)

\* The change form leaves two fields to be edited, but saves the instance it
\* loaded, every column; a row that is gone is inserted again unless its
\* chat_id has been taken.  Tickets are rows of their own.
SaveForm(h) ==
  LET r == request[h]
      kept == IF row[r.who] = 0 THEN {} ELSE flags[r.who] \cap {"ticket"} IN
  /\ r.step = "form"
  /\ row[r.who] \in {0, r.life}
  /\ row' = [row EXCEPT ![r.who] = r.life]
  /\ \E city \in {{}, {"city"}} :
       flags' = [flags EXCEPT ![r.who] = (r.saw \ {"city", "ticket"}) \cup city \cup kept]
  /\ End(h)
  /\ UNCHANGED <<lives, ledger>>

\* The write finds no row, the lever no target, or the process dies.
Fail(h) ==
  /\ request[h].step \notin {"new", "done"}
  /\ End(h)
  /\ UNCHANGED <<row, lives, flags, ledger>>

-----------------------------------------------------------------------------
(* The bot and the commands *)

\* handle_login_orm: get_or_create by chat_id creates.
Register(u) ==
  /\ row[u] = 0 /\ lives[u] < MaxLives
  /\ row' = [row EXCEPT ![u] = lives[u] + 1]
  /\ lives' = [lives EXCEPT ![u] = @ + 1]
  /\ flags' = [flags EXCEPT ![u] = NewAccount]
  /\ UNCHANGED <<ledger, request>>

\* Mutant: the accounts whose tickets are still open are left for later.
HardDeleteTicketless(U) ==
  /\ U # {} /\ \A u \in U : "revoked" \in flags[u] /\ "ticket" \notin flags[u]
  /\ DeleteRows(U)
  /\ UNCHANGED request

\* consent_hard_delete: U are the accounts revoked more than 30 days ago.
HardDelete(U) ==
  /\ U # {} /\ \A u \in U : "revoked" \in flags[u]
  /\ DeleteRows(U)
  /\ UNCHANGED request

\* purge_consent_records: `old` are past 90 days, `older` past 12 months too
\* and under no legal hold.
Purge(old, older) ==
  /\ older \subseteq old /\ old \subseteq ledger
  /\ ledger' = (ledger \ old) \cup
       {[r EXCEPT !.linked = "no",
                  !.actor = IF r \in older THEN Nobody ELSE @] : r \in old}
  /\ UNCHANGED <<row, lives, flags, request>>

-----------------------------------------------------------------------------
Loads == \E h \in Handler, u \in Person :
  \/ LoadConsent(h, u) \/ LoadWithdrawal(h, u) \/ LoadCity(h, u)
  \/ LoadLogin(h, u) \/ LoadTicket(h, u)
  \/ \E by \in Person : \/ StaffWithdraws(h, u, by)
                        \/ LoadLever(h, u, by)
                        \/ LoadAdmin(h, u, by)

Writes == \E h \in Handler :
  \/ give_consent(h) \/ decline_consent(h) \/ RecordChoice(h)
  \/ withdraw_consent(h) \/ SaveCity(h) \/ CreateTicket(h)
  \/ PullLever(h) \/ StaffDelete(h) \/ SaveForm(h) \/ Fail(h)

BotAndCommands ==
  \/ \E u \in Person : Register(u)
  \/ \E U \in SUBSET Person : HardDelete(U)
  \/ \E old \in SUBSET ledger : \E older \in SUBSET old : Purge(old, older)

ConsentNext == Loads \/ Writes \/ BotAndCommands

\* The scheduler runs the erasure every day, and every revocation grows old.
Erasure(u) == \E U \in SUBSET Person : u \in U /\ HardDelete(U)

ConsentSpec ==
  /\ ConsentInit /\ [][ConsentNext]_consentVars
  /\ \A u \in Person : WF_consentVars(Erasure(u))
=============================================================================
