---------------------- MODULE ConsentAccountProperties ----------------------
(***************************************************************************)
(* What ConsentAccount promises, and why it holds.                         *)
(***************************************************************************)
EXTENDS ConsentAccount

(* can_publish_ad does not read is_declined: a decline's publishing block  *)
(* "travels on ads_auto_publish" (account_state.py).  So it does, whichever*)
(* stale instances acceptances, declines and the change form save.         *)
DeclineBlocksPublishing ==
  \A u \in Person : "declined" \in flags[u] => ~can_publish_ad(flags[u])

Withdrawals(u, l) == {r \in ledger : r.of = u /\ r.life = l
                                     /\ r.choice = "withdrawn"}

(* An erased identity has its evidence (Art. 7(1)): whenever is_deleted is *)
(* set, a record says that this row's consent was withdrawn; retention and *)
(* hard deletion anonymise records and lose none.                          *)
EvidenceOfWithdrawal ==
  \A u \in Person : "deleted" \in flags[u] => Withdrawals(u, row[u]) # {}

\* Handler h has just saved the change form of u.
FormSaved(h, u) == /\ request[h].step = "form" /\ request[h].who = u
                   /\ request'[h].step = "done"

\* What a withdrawal took from u comes back in this step.
Restored(u) ==
  \/ row[u] # 0 /\ row'[u] = row[u] /\ "deleted" \in flags[u] \ flags'[u]
  \/ row[u] # 0 /\ row'[u] = row[u] /\ "linked" \in flags'[u] \ flags[u]
  \/ row[u] = 0 /\ row'[u] # 0 /\ lives'[u] = lives[u]

(* The requests of the site, the bot and the staff save stale instances of *)
(* an account all the time, but name the columns they save: none brings a  *)
(* withdrawn account back, relinks it to Telegram, or revives an erased    *)
(* row.  The one thing that does is the change form of the admin.          *)
OnlyTheFormRestores ==
  [][\A u \in Person : Restored(u) => \E h \in Handler : FormSaved(h, u)]_consentVars

(* A withdrawn account is erased in the end: the sweep finds every account *)
(* that stays revoked (consent_hard_delete).                               *)
ErasureHappens ==
  \A u \in Person : "revoked" \in flags[u] ~> "revoked" \notin flags[u]

-----------------------------------------------------------------------------
(* Why they hold. *)

\* No instance that a request holds says what the table never said.
Sound(s, u, l) ==
  /\ "declined" \in s => "publishing" \notin s
  /\ "deleted" \in s => "linked" \notin s /\ Withdrawals(u, l) # {}

RowInv(u) ==
  /\ row[u] <= lives[u]
  /\ row[u] = 0 => flags[u] = {}
  /\ Sound(flags[u], u, row[u])

RequestInv(h) ==
  LET r == request[h] IN
  /\ r.step \notin {"new", "done"} =>
       r.who \in Person /\ r.by \in Person /\ r.life \in 1..MaxLives
  /\ r.step = "form" => Sound(r.saw, r.who, r.life) /\ r.life <= lives[r.who]

\* The actor of a record is never its subject.
RecordInv(r) == r.actor # r.of

CInv == /\ TypeOK
        /\ \A u \in Person : RowInv(u)
        /\ \A h \in Handler : RequestInv(h)
        /\ \A r \in ledger : RecordInv(r)
=============================================================================
