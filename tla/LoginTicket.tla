---------------------------- MODULE LoginTicket ----------------------------
(***************************************************************************)
(* What the two-phase login promises: a ticket handed to one browser is    *)
(* vouched for by at most one user and admits that user to that browser at *)
(* most once.  A ticket may be torn at any moment before.                  *)
(***************************************************************************)
CONSTANTS Browser, User, Token, None

VARIABLES
  held,      \* [Token -> Browser or None], the browser that holds it
  vouched,   \* [Token -> User or None], the user who vouched for it
  torn,      \* SUBSET Token, of no use any more
  admitted   \* the admissions so far

tvars == <<held, vouched, torn, admitted>>

TicketInit ==
  /\ held = [t \in Token |-> None]
  /\ vouched = [t \in Token |-> None]
  /\ torn = {} /\ admitted = {}

HandOut(t, b) ==
  /\ held[t] = None
  /\ held' = [held EXCEPT ![t] = b]
  /\ UNCHANGED <<vouched, torn, admitted>>

Vouch(t, u) ==
  /\ held[t] # None /\ vouched[t] = None /\ t \notin torn
  /\ vouched' = [vouched EXCEPT ![t] = u]
  /\ UNCHANGED <<held, torn, admitted>>

Tear(S) ==
  /\ torn' = torn \cup S
  /\ UNCHANGED <<held, vouched, admitted>>

Admit(t) ==
  /\ held[t] # None /\ vouched[t] # None /\ t \notin torn
  /\ admitted' = admitted \cup
       {[token |-> t, browser |-> held[t], user |-> vouched[t], turn |-> 1]}
  /\ torn' = torn \cup {t}
  /\ UNCHANGED <<held, vouched>>

TicketNext ==
  \/ \E t \in Token, b \in Browser : HandOut(t, b)
  \/ \E t \in Token, u \in User : Vouch(t, u)
  \/ \E S \in SUBSET Token : Tear(S)
  \/ \E t \in Token : Admit(t)

TicketSpec == TicketInit /\ [][TicketNext]_tvars

(* What a ticket is worth: it has admitted once at most, the browser that   *)
(* holds it and the user who vouched for it, and is torn then.              *)
AdmitsOnce ==
  /\ held \in [Token -> Browser \cup {None}]
  /\ vouched \in [Token -> User \cup {None}]
  /\ \A x \in admitted : /\ x.token \in Token \cap torn
                         /\ x.browser = held[x.token] /\ x.browser # None
                         /\ x.user = vouched[x.token] /\ x.user # None
  /\ \A x, y \in admitted : x.token = y.token => x = y
=============================================================================
