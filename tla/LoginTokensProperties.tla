----------------------- MODULE LoginTokensProperties -----------------------
(***************************************************************************)
(* What LoginTokens promises, and why it holds.                            *)
(***************************************************************************)
EXTENDS LoginTokens

(* A token opens at most one session, whatever polls, cleanups and         *)
(* withdrawals race, and the session is that of the user who claimed the   *)
(* token, in the browser it was issued to (login_token.py, consume_token). *)
OneSession ==
  /\ \A x, y \in sessions : x.token = y.token => x = y
  /\ \A x \in sessions : x.turn = 1
  /\ \A x \in sessions : /\ x.browser = binding[x.token]
                         /\ x.user = telegram_id[x.token]

\* The handlers of browser b between the UPDATE and the INSERT of issue_token.
Issuing(b) == {r \in Request : pc[r] = "create" /\ browser[r] = b}

(* What is left of "one browser profile holds at most one live unclaimed   *)
(* token" when page views overlap: never more tokens than handlers.        *)
UnclaimedBounded ==
  \A b \in Browser :
    Cardinality(Unclaimed(b)) + Cardinality(Issuing(b)) <= Cardinality(Request)

(* A token the bot has claimed is burned by a poll of its own browser and  *)
(* by nothing else: no later page view and no poll of another browser      *)
(* kills a login half-way (issue_token's telegram_id IS NULL, UNBOUND).    *)
BurnedByItsBrowser ==
  [][\A t \in Token :
       t \in consumed' \ consumed /\ telegram_id[t] # None
         => \E r \in Request : /\ pc[r] = "consume" /\ token[r] = t
                               /\ browser[r] = binding[t]]_vars

(* A user who has withdrawn is not linked again: neither a token claimed   *)
(* before nor a new one brings the account back to life (withdraw_consent  *)
(* deletes the tokens; handle_login_orm looks users up by chat_id).        *)
WithdrawnStays ==
  [][\A u \in User : account[u] = "withdrawn" => account'[u] = "withdrawn"]_vars

\* The tokens a handler has consumed and not yet opened a session for.
InFlight(t) ==
  \E r \in Request : pc[r] \in {"lookup", "open"} /\ token[r] = t

Ticket == INSTANCE LoginTicket
  WITH held <- binding, vouched <- telegram_id, admitted <- sessions,
       torn <- {t \in Token : /\ t \in consumed \/ row[t] = "gone"
                              /\ ~InFlight(t)}

(* The login implements the ticket: one browser, one user, one admission.  *)
ImplementsTicket == Ticket!TicketSpec

-----------------------------------------------------------------------------
(* Why they hold.                                                          *)

\* The columns are filled in in order.
RowInv(t) ==
  /\ row[t] = "none" <=> binding[t] = None
  /\ telegram_id[t] # None \/ t \in consumed \cup expired => row[t] # "none"

\* What a handler read of its token is still so: both columns are write-once.
ReadInv(r) ==
  /\ pc[r] = "create" => browser[r] \in Browser
  /\ pc[r] = "claim" => token[r] \in Token /\ user[r] \in User
  /\ pc[r] \in {"consume", "lookup", "open"} =>
       /\ token[r] \in Token /\ user[r] \in User /\ browser[r] \in Browser
       /\ browser[r] = binding[token[r]]
       /\ user[r] = telegram_id[token[r]]
  /\ pc[r] = "erase" => user[r] \in User
  /\ doomed[r] \subseteq {t \in Token : row[t] # "none"}

\* The handler that consumed a token is the only one, and the first.
FlightInv(r) ==
  pc[r] \in {"lookup", "open"} =>
    /\ token[r] \in consumed
    /\ \A x \in sessions : x.token # token[r]
    /\ \A q \in Request \ {r} :
         pc[q] \in {"lookup", "open"} => token[q] # token[r]

LInv ==
  /\ TypeOK /\ OneSession
  /\ \A t \in Token : RowInv(t)
  /\ \A r \in Request : ReadInv(r) /\ FlightInv(r)
  /\ \A x \in sessions : x.token \in consumed
=============================================================================
