---------------------------- MODULE LoginTokens ----------------------------
(***************************************************************************)
(* The two-phase login: a web page issues a token bound to its browser     *)
(* (issue_token), the bot claims it for a Telegram user (claim_token), and *)
(* the browser's poll consumes it and opens a session (login_status).      *)
(*                                                                         *)
(* A request is one handler of the web process or of the bot.  issue_token *)
(* runs two autocommitted statements; claim_token and consume_token decide *)
(* in one guarded UPDATE each; the lookup of the account and the opening   *)
(* of the session follow in steps of their own.  Withdrawing consent and   *)
(* the cleanup command delete rows meanwhile.  A poll that is refused      *)
(* (NOT_FOUND, GONE, PENDING, UNBOUND) writes nothing and is no step here. *)
(***************************************************************************)
EXTENDS Naturals, FiniteSets

CONSTANTS
  Browser,   \* browser ids, as their cookie presents them
  User,      \* Telegram users (chat ids)
  Token,     \* login tokens, issued or not yet
  Request,   \* concurrent handlers
  None

ASSUME NoneAssumption == None \notin Browser \cup User \cup Token
ASSUME RequestsAreFinite == IsFiniteSet(Request)

VARIABLES
  row,          \* [Token -> {"none", "row", "gone"}], the rows of login_tokens
  binding,      \* [Token -> Browser or None], browser_binding
  telegram_id,  \* [Token -> User or None]
  consumed,     \* SUBSET Token, consumed_at is set
  expired,      \* SUBSET Token, expires_at has passed
  account,      \* [User -> Account], the row of users with this chat_id
  sessions,     \* SUBSET Login, the sessions opened so far
  pc,           \* [Request -> Step]
  token,        \* [Request -> Token or None], the token it handles
  browser,      \* [Request -> Browser or None], the cookie it presented
  user,         \* [Request -> User or None], the user it read or acts for
  doomed        \* [Request -> SUBSET Token], deleted but not yet committed

rows == <<row, binding, telegram_id, consumed>>
requests == <<pc, token, browser, user, doomed>>
vars == <<row, binding, telegram_id, consumed, expired, account, sessions,
          pc, token, browser, user, doomed>>

\* "good" can log in, "barred" (banned or deactivated) cannot, "withdrawn"
\* has lost its telegram_id but keeps its chat_id.
Account == {"absent", "good", "barred", "withdrawn"}

Step == {"idle", "create", "claim", "consume", "lookup", "open", "erase"}

\* A session, and whether it is its token's first or a repetition.
Login == [token : Token, browser : Browser, user : User, turn : {1, 2}]

TypeOK ==
  /\ row \in [Token -> {"none", "row", "gone"}]
  /\ binding \in [Token -> Browser \cup {None}]
  /\ telegram_id \in [Token -> User \cup {None}]
  /\ consumed \subseteq Token
  /\ expired \subseteq Token
  /\ account \in [User -> Account]
  /\ sessions \subseteq Login
  /\ pc \in [Request -> Step]
  /\ token \in [Request -> Token \cup {None}]
  /\ browser \in [Request -> Browser \cup {None}]
  /\ user \in [Request -> User \cup {None}]
  /\ doomed \in [Request -> SUBSET Token]

Init ==
  /\ row = [t \in Token |-> "none"]
  /\ binding = [t \in Token |-> None]
  /\ telegram_id = [t \in Token |-> None]
  /\ consumed = {}
  /\ expired = {}
  /\ account = [u \in User |-> "absent"]
  /\ sessions = {}
  /\ pc = [r \in Request |-> "idle"]
  /\ token = [r \in Request |-> None]
  /\ browser = [r \in Request |-> None]
  /\ user = [r \in Request |-> None]
  /\ doomed = [r \in Request |-> {}]

-----------------------------------------------------------------------------

\* A row the guarded UPDATEs may touch: consumed_at IS NULL, expires_at > now.
Live(t) == row[t] = "row" /\ t \notin consumed \cup expired

\* What issue_token supersedes for browser id b.
Unclaimed(b) == {t \in Token : /\ Live(t) /\ binding[t] = b
                               /\ telegram_id[t] = None}

\* A row another transaction has deleted blocks the statements that match it.
Locked(t) == \E r \in Request : t \in doomed[r]

Begin(r, p, t, b, u, D) ==
  /\ pc[r] = "idle"
  /\ pc' = [pc EXCEPT ![r] = p]
  /\ token' = [token EXCEPT ![r] = t]
  /\ browser' = [browser EXCEPT ![r] = b]
  /\ user' = [user EXCEPT ![r] = u]
  /\ doomed' = [doomed EXCEPT ![r] = D]

End(r) ==
  /\ pc' = [pc EXCEPT ![r] = "idle"]
  /\ token' = [token EXCEPT ![r] = None]
  /\ browser' = [browser EXCEPT ![r] = None]
  /\ user' = [user EXCEPT ![r] = None]
  /\ doomed' = [doomed EXCEPT ![r] = {}]

Goto(r, p) ==
  /\ pc' = [pc EXCEPT ![r] = p]
  /\ UNCHANGED <<token, browser, user, doomed>>

-----------------------------------------------------------------------------
(* Issuing *)

\* Mutants: a claimed token is superseded as well; none is.
SupersedeClaimed(r, b) ==
  /\ Begin(r, "create", None, b, None, {})
  /\ consumed' = consumed \cup {t \in Token : Live(t) /\ binding[t] = b}
  /\ UNCHANGED <<row, binding, telegram_id, expired, account, sessions>>

SupersedeNone(r, b) ==
  /\ Begin(r, "create", None, b, None, {})
  /\ UNCHANGED <<rows, expired, account, sessions>>

\* login_issue: the UPDATE that consumes the browser's earlier tokens.
Supersede(r, b) ==
  /\ Begin(r, "create", None, b, None, {})
  /\ consumed' = consumed \cup Unclaimed(b)
  /\ UNCHANGED <<row, binding, telegram_id, expired, account, sessions>>

\* ... and the INSERT of the new one.
Create(r, t) ==
  /\ pc[r] = "create"
  /\ row[t] = "none"
  /\ row' = [row EXCEPT ![t] = "row"]
  /\ binding' = [binding EXCEPT ![t] = browser[r]]
  /\ End(r)
  /\ UNCHANGED <<telegram_id, consumed, expired, account, sessions>>

-----------------------------------------------------------------------------
(* Claiming *)

\* The bot's handler reads the clock before its transaction begins.
Start(r, t, u) ==
  /\ row[t] # "none" /\ t \notin expired
  /\ Begin(r, "claim", t, None, u, {})
  /\ UNCHANGED <<rows, expired, account, sessions>>

\* Mutant: the UPDATE does not ask for telegram_id IS NULL.
ClaimAgain(r) ==
  LET t == token[r] IN
  /\ pc[r] = "claim"
  /\ row[t] = "row" /\ t \notin consumed /\ ~Locked(t)
  /\ telegram_id' = [telegram_id EXCEPT ![t] = user[r]]
  /\ account' = [account EXCEPT ![user[r]] = IF @ = "absent" THEN "good" ELSE @]
  /\ End(r)
  /\ UNCHANGED <<row, binding, consumed, expired, sessions>>

\* Mutant: the account is looked up by telegram_id, which a withdrawal nulls.
ClaimByTelegramId(r) ==
  LET t == token[r] IN
  /\ pc[r] = "claim"
  /\ row[t] = "row" /\ t \notin consumed /\ telegram_id[t] = None
  /\ telegram_id' = [telegram_id EXCEPT ![t] = user[r]]
  /\ account' = [account EXCEPT ![user[r]] =
                   IF @ \in {"absent", "withdrawn"} THEN "good" ELSE @]
  /\ End(r)
  /\ UNCHANGED <<row, binding, consumed, expired, sessions>>

\* handle_login_orm, when claim_token matches the row: one transaction claims
\* it and gets or creates the account by chat_id.
Claim(r) ==
  LET t == token[r] IN
  /\ pc[r] = "claim"
  /\ row[t] = "row" /\ t \notin consumed /\ telegram_id[t] = None
  /\ telegram_id' = [telegram_id EXCEPT ![t] = user[r]]
  /\ account' = [account EXCEPT ![user[r]] = IF @ = "absent" THEN "good" ELSE @]
  /\ End(r)
  /\ UNCHANGED <<row, binding, consumed, expired, sessions>>

\* ... and when it matches none: "invalid, expired, or already used".
ClaimNothing(r) ==
  LET t == token[r] IN
  /\ pc[r] = "claim"
  /\ ~(row[t] = "row" /\ t \notin consumed /\ telegram_id[t] = None)
  /\ End(r)
  /\ UNCHANGED <<rows, expired, account, sessions>>

-----------------------------------------------------------------------------
(* Consuming *)

\* Mutant: the binding of the browser is not compared.
PollUnbound(r, t, b) ==
  /\ Live(t) /\ telegram_id[t] # None
  /\ Begin(r, "consume", t, binding[t], telegram_id[t], {})
  /\ UNCHANGED <<rows, expired, account, sessions>>

\* consume_token's read, past the checks that refuse the poll.
Poll(r, t, b) ==
  /\ Live(t) /\ telegram_id[t] # None /\ binding[t] = b
  /\ Begin(r, "consume", t, b, telegram_id[t], {})
  /\ UNCHANGED <<rows, expired, account, sessions>>

\* What the guarded UPDATE of consume_token matches.
StillRedeemable(r) ==
  LET t == token[r] IN
  /\ Live(t) /\ telegram_id[t] = user[r] /\ binding[t] = browser[r]

\* Mutant: the UPDATE trusts the read and filters on the hash alone.
ConsumeUnguarded(r) ==
  /\ pc[r] = "consume" /\ ~Locked(token[r])
  /\ consumed' = consumed \cup {token[r]}
  /\ Goto(r, "lookup")
  /\ UNCHANGED <<row, binding, telegram_id, expired, account, sessions>>

Consume(r) ==
  /\ pc[r] = "consume" /\ ~Locked(token[r])
  /\ StillRedeemable(r)
  /\ consumed' = consumed \cup {token[r]}
  /\ Goto(r, "lookup")
  /\ UNCHANGED <<row, binding, telegram_id, expired, account, sessions>>

\* LOST_RACE: the UPDATE matched no row.
LoseRace(r) ==
  /\ pc[r] = "consume" /\ ~Locked(token[r])
  /\ ~StillRedeemable(r)
  /\ End(r)
  /\ UNCHANGED <<rows, expired, account, sessions>>

\* login_status reads the account: telegram_id, can_login, is_active.
LookUp(r) ==
  /\ pc[r] = "lookup"
  /\ IF account[user[r]] = "good" THEN Goto(r, "open") ELSE End(r)
  /\ UNCHANGED <<rows, expired, account, sessions>>

\* auth_login.
OpenSession(r) ==
  /\ pc[r] = "open"
  /\ sessions' = sessions \cup
       {[token |-> token[r], browser |-> browser[r], user |-> user[r],
         turn |-> IF \E x \in sessions : x.token = token[r] THEN 2 ELSE 1]}
  /\ End(r)
  /\ UNCHANGED <<rows, expired, account>>

-----------------------------------------------------------------------------
(* Deleting *)

\* withdraw_consent deletes the tokens its user has claimed, as committed ...
EraseTokens(r, u) ==
  LET D == {t \in Token : row[t] = "row" /\ telegram_id[t] = u} IN
  /\ account[u] \in {"good", "barred"}
  /\ \A t \in D : ~Locked(t)
  /\ Begin(r, "erase", None, None, u, D)
  /\ UNCHANGED <<rows, expired, account, sessions>>

\* ... and commits, the telegram_id of the account gone.
CommitWithdrawal(r) ==
  /\ pc[r] = "erase"
  /\ row' = [t \in Token |-> IF t \in doomed[r] THEN "gone" ELSE row[t]]
  /\ account' = [account EXCEPT ![user[r]] = "withdrawn"]
  /\ End(r)
  /\ UNCHANGED <<binding, telegram_id, consumed, expired, sessions>>

\* cleanup_login_tokens: expired rows, and rows consumed a day ago.
Cleanup ==
  LET D == {t \in Token : row[t] = "row" /\ t \in consumed \cup expired} IN
  /\ D # {} /\ \A t \in D : ~Locked(t)
  /\ \E E \in SUBSET (D \cap consumed) :
       row' = [t \in Token |->
                 IF t \in E \cup (D \cap expired) THEN "gone" ELSE row[t]]
  /\ UNCHANGED <<binding, telegram_id, consumed, expired, account, sessions,
                 requests>>

-----------------------------------------------------------------------------
(* The environment *)

Expire(t) ==
  /\ row[t] # "none" /\ t \notin expired
  /\ expired' = expired \cup {t}
  /\ UNCHANGED <<rows, account, sessions, requests>>

\* A ban or a deactivation, and its reversal.
Bar(u) ==
  /\ \/ account[u] = "good" /\ account' = [account EXCEPT ![u] = "barred"]
     \/ account[u] = "barred" /\ account' = [account EXCEPT ![u] = "good"]
  /\ UNCHANGED <<rows, expired, sessions, requests>>

\* A handler dies or a lock timeout cancels it; its transaction rolls back.
Crash(r) ==
  /\ pc[r] # "idle"
  /\ End(r)
  /\ UNCHANGED <<rows, expired, account, sessions>>

Issue == \E r \in Request : \/ \E b \in Browser : Supersede(r, b)
                            \/ \E t \in Token : Create(r, t)

ClaimStep == \E r \in Request :
  \/ \E t \in Token, u \in User : Start(r, t, u)
  \/ Claim(r) \/ ClaimNothing(r)

ConsumeStep == \E r \in Request :
  \/ \E t \in Token, b \in Browser : Poll(r, t, b)
  \/ Consume(r) \/ LoseRace(r) \/ LookUp(r) \/ OpenSession(r)

Delete == \/ \E r \in Request : \/ \E u \in User : EraseTokens(r, u)
                                \/ CommitWithdrawal(r)
          \/ Cleanup

Environment == \/ \E t \in Token : Expire(t)
               \/ \E u \in User : Bar(u)
               \/ \E r \in Request : Crash(r)

Next == Issue \/ ClaimStep \/ ConsumeStep \/ Delete \/ Environment

Spec == Init /\ [][Next]_vars
=============================================================================
