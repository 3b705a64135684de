---------------------------- MODULE AccountGate ----------------------------
(***************************************************************************)
(* The predicates that decide what an account may do (account_state.py),   *)
(* the bot's gate in front of every update (AccountStateMiddleware), and   *)
(* whether a seller can be written to (_check_seller_contactable).  An     *)
(* account is the set of its flags: a member is a Boolean column that is   *)
(* true or a nullable column that is set.                                  *)
(***************************************************************************)

Flag == {"linked",      \* telegram_id IS NOT NULL
         "accepted",    \* consent_given_at IS NOT NULL
         "declined",    \* is_declined
         "publishing",  \* ads_auto_publish
         "banned",      \* is_banned
         "active",      \* is_active
         "deleted",     \* is_deleted
         "revoked",     \* consent_revoked_at IS NOT NULL
         "city",        \* preferred_city IS NOT NULL
         "ticket"}      \* a SupportTicket names the account

NewAccount == {"linked", "publishing", "active"}

\* The flags that keep an account from receiving anything.
Blocking == {"declined", "banned", "deleted", "revoked"}

account_state_q(s) == "active" \in s /\ s \cap Blocking = {}

can_publish_ad(s) == "publishing" \in s /\ s \cap {"banned", "deleted"} = {}

can_login(s) == "active" \in s /\ "banned" \notin s

can_store_personal_data(s) == "accepted" \in s /\ s \cap Blocking = {}

can_create_ad(s) == can_publish_ad(s) /\ can_store_personal_data(s)

\* A published ad offers the contact button.
SellerContactable(s) ==
  "linked" \in s /\ s \cap {"deleted", "banned", "revoked"} = {}

\* What an update is to the gate: a contact or a login deep link, a shape of
\* the support intake (a bare /start among them), or anything else.
Kind == {"plain", "contact", "login", "support"}

\* _evaluate_user_state: the flags in the order they are asked for.
MayInteract(s, kind) ==
  IF "active" \notin s THEN kind = "support" /\ s \cap Blocking = {}
  ELSE /\ s \cap {"banned", "deleted"} = {}
       /\ \/ "declined" \in s /\ kind \in {"contact", "login"}
          \/ s \cap {"declined", "revoked"} = {}

\* _evaluate_publish_permission, the gate of /post.
MayPost(s) == "publishing" \in s /\ can_create_ad(s)
=============================================================================
