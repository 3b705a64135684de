------------------------------- MODULE AdRow -------------------------------
(***************************************************************************)
(* One row of the ads table, as apps/ads/models.py defines it: the status, *)
(* the timestamp columns its check constraints tie to the status, and      *)
(* Ad.transition_to, the only function that moves a row between statuses.  *)
(* A timestamp is abstracted to "is it set": the constraints tell no more  *)
(* apart.  Pure operators; the modules that own rows EXTEND this one.      *)
(***************************************************************************)

\* The values of AdStatus.
AdStatus ==
  {"draft", "on_moderation", "published", "archived", "rejected",
   "on_moderation_failed", "deleted"}

\* An id with no row: never allocated yet, or its row was hard-deleted.
NoRow == {"none", "erased"}

\* The timestamp columns transition_to writes.
Stamp ==
  {"published_at", "original_published_at", "archived_at", "rejected_at",
   "moderation_failed_at", "deleted_at"}

\* stamps: the columns that are not NULL.
Row == [status : AdStatus \cup NoRow, stamps : SUBSET Stamp]

\* The row that stands for an id without one.
Blank(s) == [status |-> s, stamps |-> {}]

\* A freshly inserted draft: Ad.objects.create(user_id, status=DRAFT).
NewDraft == Blank("draft")

\* Mutant: a failed ad may be published by a moderator.
ForgivingTransitions ==
  [draft                |-> {"on_moderation"},
   on_moderation        |-> {"published", "rejected", "on_moderation_failed"},
   published            |-> {"archived", "on_moderation"},
   archived             |-> {"published", "on_moderation"},
   rejected             |-> {},
   on_moderation_failed |-> {"rejected", "published"},
   deleted              |-> {}]

ALLOWED_TRANSITIONS ==
  [draft                |-> {"on_moderation"},
   on_moderation        |-> {"published", "rejected", "on_moderation_failed"},
   published            |-> {"archived", "on_moderation"},
   archived             |-> {"published", "on_moderation"},
   rejected             |-> {},
   on_moderation_failed |-> {"rejected"},
   deleted              |-> {}]

\* transition_to raises ValueError exactly when this is FALSE.
MayTransition(r, target) ==
  /\ r.status \in AdStatus \ {"deleted"}
  /\ target = "deleted" \/ target \in ALLOWED_TRANSITIONS[r.status]

\* The columns transition_to sets for each target, and those it clears.
Stamped ==
  [on_moderation        |-> {},
   published            |-> {"published_at", "original_published_at"},
   archived             |-> {"archived_at"},
   rejected             |-> {"rejected_at"},
   on_moderation_failed |-> {"moderation_failed_at"},
   deleted              |-> {"deleted_at"}]

\* Mutant: a resubmission leaves archived_at behind.
ClearedButArchive ==
  [on_moderation        |-> {"moderation_failed_at", "rejected_at"},
   published            |-> {},
   archived             |-> {},
   rejected             |-> {"moderation_failed_at"},
   on_moderation_failed |-> {"rejected_at"},
   deleted              |-> {}]

Cleared ==
  [on_moderation        |-> {"moderation_failed_at", "rejected_at",
                             "archived_at"},
   published            |-> {"archived_at"},
   archived             |-> {},
   rejected             |-> {"moderation_failed_at"},
   on_moderation_failed |-> {"rejected_at"},
   deleted              |-> {}]

\* The row transition_to saves, for a target it does not refuse.
TransitionTo(r, target) ==
  [status |-> target,
   stamps |-> (r.stamps \ Cleared[target]) \cup Stamped[target]]

-----------------------------------------------------------------------------

\* The CHECK constraints of the ads table: a write that breaks one is an
\* IntegrityError, which no caller of transition_to handles.
CheckConstraints(r) ==
  /\ r.status = "published" => "published_at" \in r.stamps
  /\ r.status = "archived" => "archived_at" \in r.stamps
  /\ r.status = "rejected" => "rejected_at" \in r.stamps
  /\ r.status = "on_moderation_failed" => "moderation_failed_at" \in r.stamps
  /\ r.status = "deleted" => "deleted_at" \in r.stamps
  /\ ~({"moderation_failed_at", "rejected_at"} \subseteq r.stamps)

\* What the sweeps rely on beyond the constraints: the timestamp of a status
\* the ad has left (for another than DELETED) is cleared, so a later stay in
\* that status starts a clock of its own.
NoLeftoverClock(r) ==
  /\ "archived_at" \in r.stamps => r.status \in {"archived", "deleted"}
  /\ "rejected_at" \in r.stamps => r.status \in {"rejected", "deleted"}
  /\ "moderation_failed_at" \in r.stamps =>
       r.status \in {"on_moderation_failed", "deleted"}
  /\ "deleted_at" \in r.stamps => r.status = "deleted"
  /\ r.status \in NoRow \cup {"draft"} => r.stamps = {}
  /\ "published_at" \in r.stamps <=> "original_published_at" \in r.stamps

RowOK(r) == CheckConstraints(r) /\ NoLeftoverClock(r)
=============================================================================
