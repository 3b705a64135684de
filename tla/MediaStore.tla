----------------------------- MODULE MediaStore -----------------------------
(***************************************************************************)
(* Photos: AdImage rows in the database, bytes in MEDIA_ROOT.              *)
(*                                                                         *)
(* A photo is uploaded to staging/, submit_ad commits a row that names its *)
(* permanent key and moves the file after the commit, copy_ad makes rows   *)
(* that share the keys of another ad, and a file is freed after its last   *)
(* row is deleted.  Every step on the file system follows a commit it can  *)
(* no longer undo.  A photo is one file here (the code keeps an original   *)
(* and three thumbnails under keys that live and die together), the ads    *)
(* are those of one seller, and the seller has one bot dialog.             *)
(***************************************************************************)
EXTENDS Naturals, FiniteSets

CONSTANTS
  Ad,
  Key,       \* storage keys, numbered in the order of upload
  Twin,      \* the keys that hold the same photo (equal sha256)
  Handler,   \* concurrent handlers of the bot, the web and the commands
  None

ASSUME Keys == Key \subseteq Nat /\ Twin \subseteq Key
ASSUME NoneIsNone == None \notin Ad \cup Key

VARIABLES
  status,     \* [Ad -> {"none", "draft", "open", "closed"}]
  photos,     \* [Ad -> SUBSET Key], its AdImage rows
  files,      \* SUBSET Key, in permanent storage
  staged,     \* SUBSET Key, in staging/
  stale,      \* SUBSET Key, staged and untouched for two hours
  dialogAd,   \* Ad or None, ad_id of the bot's FSM data
  dialogKeys, \* SUBSET Key, photos of the bot's FSM data
  pc,         \* [Handler -> Step]
  act,        \* [Handler -> Ad or None], the ad it handles
  todo,       \* [Handler -> SUBSET Key], the keys it still has to treat
  key,        \* [Handler -> Key or None], the file it is about to free
  later,      \* [Handler -> SUBSET Key], those it treats after them
  sweep,      \* {"idle", "walk", "delete"}, sweep_orphaned_media
  referenced, \* SUBSET Key, the sweep's snapshot of the rows
  orphans,    \* SUBSET Key, what it still has to delete
  exposed     \* SUBSET Key, history: keys put at risk in a known way

rows == <<status, photos>>
disk == <<files, staged, stale>>
dialog == <<dialogAd, dialogKeys>>
handlers == <<pc, act, todo, key, later>>
sweeper == <<sweep, referenced, orphans>>
mediaVars ==
  <<status, photos, files, staged, stale, dialogAd, dialogKeys,
    pc, act, todo, key, later, sweep, referenced, orphans, exposed>>

\* "open" may enter review again (published, archived); "closed" may not
\* (under review, rejected, failed, deleted).
AdState == {"none", "draft", "open", "closed"}

Step == {"idle", "submit", "promote", "copy", "cleanup", "unlink",
         "discard", "drop", "purge"}

MediaTypeOK ==
  /\ status \in [Ad -> AdState]
  /\ photos \in [Ad -> SUBSET Key]
  /\ files \subseteq Key /\ staged \subseteq Key \ files
  /\ stale \subseteq staged
  /\ dialogAd \in Ad \cup {None} /\ dialogKeys \subseteq Key
  /\ pc \in [Handler -> Step]
  /\ act \in [Handler -> Ad \cup {None}]
  /\ todo \in [Handler -> SUBSET Key]
  /\ key \in [Handler -> Key \cup {None}]
  /\ later \in [Handler -> SUBSET Key]
  /\ sweep \in {"idle", "walk", "delete"}
  /\ referenced \subseteq Key /\ orphans \subseteq Key
  /\ exposed \subseteq Key

MediaInit ==
  /\ status = [a \in Ad |-> "none"] /\ photos = [a \in Ad |-> {}]
  /\ files = {} /\ staged = {} /\ stale = {}
  /\ dialogAd = None /\ dialogKeys = {}
  /\ pc = [p \in Handler |-> "idle"] /\ act = [p \in Handler |-> None]
  /\ todo = [p \in Handler |-> {}] /\ key = [p \in Handler |-> None]
  /\ later = [p \in Handler |-> {}]
  /\ sweep = "idle" /\ referenced = {} /\ orphans = {}
  /\ exposed = {}

-----------------------------------------------------------------------------

Referenced == UNION {photos[a] : a \in Ad}

Goto(p, step, a, K, L) ==
  /\ pc' = [pc EXCEPT ![p] = step]
  /\ act' = [act EXCEPT ![p] = a]
  /\ todo' = [todo EXCEPT ![p] = K]
  /\ key' = [key EXCEPT ![p] = None]
  /\ later' = [later EXCEPT ![p] = L]

Stop(p) == Goto(p, "idle", None, {}, {})

\* The pre_delete signal: after the commit that deletes the rows of K their
\* files are freed one by one, and then the handler frees those of L.
FreeFiles(p, K, L) ==
  IF K = {} THEN Stop(p) ELSE Goto(p, "cleanup", None, K, L)

\* Somebody who has looked at the rows, or need not, is about to free k.
Condemned(k) ==
  \/ k \in files /\ sweep = "walk" /\ k \notin referenced
  \/ k \in orphans
  \/ \E p \in Handler : \/ key[p] = k \/ k \in later[p]
                        \/ pc[p] = "discard" /\ k \in todo[p]

\* History: a row for k commits when the bytes are gone or condemned.
TooLate(k) == k \notin files \cup staged \/ Condemned(k)

-----------------------------------------------------------------------------
(* Drafts, uploads, copies *)

\* create_draft_ad and copy_ad: the seller's draft is replaced by ad b with
\* rows for the keys K.
NewDraft(p, b, K) ==
  LET old == {a \in Ad : status[a] = "draft"} IN
  /\ status[b] = "none" /\ b # dialogAd
  /\ \A q \in Handler : act[q] # b
  /\ status' = [a \in Ad |-> IF a = b THEN "draft"
                             ELSE IF a \in old THEN "none" ELSE status[a]]
  /\ photos' = [a \in Ad |-> IF a = b THEN K
                             ELSE IF a \in old THEN {} ELSE photos[a]]
  /\ FreeFiles(p, UNION {photos[a] : a \in old}, {})
  /\ exposed' = exposed \cup {k \in K : TooLate(k)}

\* /post
Post(p, b) ==
  /\ pc[p] = "idle"
  /\ NewDraft(p, b, {}) /\ dialogAd' = b
  /\ UNCHANGED <<disk, dialogKeys, sweeper>>

\* A photo sent to the dialog: save_photo writes it to staging/.
Upload(k) ==
  /\ dialogAd # None
  /\ k \notin files \cup staged \cup dialogKeys \cup Referenced
                \cup orphans \cup referenced
  /\ \A l \in dialogKeys : l < k
  /\ \A p \in Handler : k \notin todo[p] \cup later[p]
  /\ staged' = staged \cup {k}
  /\ dialogKeys' = dialogKeys \cup {k}
  /\ exposed' = exposed \ {k}
  /\ UNCHANGED <<rows, files, stale, dialogAd, handlers, sweeper>>

\* /copy reads the source's images without a lock ...
ReadSource(p, a) ==
  /\ pc[p] = "idle" /\ status[a] # "none"
  /\ Goto(p, "copy", a, photos[a], {})
  /\ UNCHANGED <<rows, disk, dialog, sweeper, exposed>>

\* ... and commits rows that share their keys.
CommitCopy(p, b) ==
  /\ pc[p] = "copy"
  /\ NewDraft(p, b, todo[p]) /\ dialogAd' = b
  /\ UNCHANGED <<disk, dialogKeys, sweeper>>

-----------------------------------------------------------------------------
(* Submission *)

\* Mutant: the handler does not touch the staged files.
PlanUntouched(p) ==
  /\ pc[p] = "idle" /\ dialogAd # None
  /\ dialogKeys \subseteq staged
  /\ Goto(p, "submit", dialogAd, dialogKeys, {})
  /\ UNCHANGED <<rows, disk, dialog, sweeper, exposed>>

\* "confirm": touch_staging_photos, then plan_staging_promotion finds every
\* file of the dialog in staging/.
Plan(p) ==
  /\ pc[p] = "idle" /\ dialogAd # None
  /\ dialogKeys \subseteq staged
  /\ Goto(p, "submit", dialogAd, dialogKeys, {})
  /\ stale' = stale \ dialogKeys
  /\ UNCHANGED <<rows, files, staged, dialog, sweeper, exposed>>

\* ... or not: PHOTO_UNAVAILABLE, and the draft is replaced.  The dialog should
\* go on with it and without photos, but keeps what it had: the handler dies of
\* state.update(), which aiogram does not have.
PhotoUnavailable(p, b) ==
  /\ pc[p] = "idle" /\ dialogAd # None
  /\ ~(dialogKeys \subseteq staged)
  /\ NewDraft(p, b, {})
  /\ stale' = stale \ dialogKeys
  /\ UNCHANGED <<files, staged, dialog, sweeper>>

\* create_or_skip gives a photo of K a row unless ad a has its content already,
\* be it by an earlier photo of K.  A skipped photo with a row of its own is no
\* duplicate: an earlier submission of the same dialog has inserted it.
Same(k, l) == k = l \/ {k, l} \subseteq Twin

Created(a, K) ==
  {k \in K \ photos[a] :
     /\ \A l \in photos[a] : ~Same(k, l)
     /\ \A l \in K : Same(k, l) => k <= l}

Duplicates(a, K) == K \ (photos[a] \cup Created(a, K))

\* The transaction of submit_ad.  After the commit the duplicates are
\* reclaimed from staging/, then the other photos are promoted.
CommitSubmit(p) ==
  LET a == act[p]
      new == Created(a, todo[p])
      dup == Duplicates(a, todo[p]) IN
  /\ pc[p] = "submit" /\ act[p] # None /\ status[a] \in {"draft", "open"}
  /\ photos' = [photos EXCEPT ![a] = @ \cup new]
  /\ exposed' = exposed \cup {k \in new : TooLate(k)} \cup (dup \cap Referenced)
  /\ Goto(p, "promote", a, todo[p] \ dup, dup)
  /\ \E s \in {"open", "closed"} : status' = [status EXCEPT ![a] = s]
  /\ UNCHANGED <<disk, dialog, sweeper>>

\* The ad may not enter review: the early return commits the rows all the
\* same, and nothing moves their files.
CommitRefused(p) ==
  LET a == act[p]
      new == Created(a, todo[p]) IN
  /\ pc[p] = "submit" /\ act[p] # None /\ status[a] = "closed"
  /\ photos' = [photos EXCEPT ![a] = @ \cup new]
  /\ exposed' = exposed \cup new
  /\ Goto(p, "submit", None, {}, {})
  /\ UNCHANGED <<status, disk, dialog, sweeper>>

\* DRAFT_GONE, and the fresh draft after it or after a refusal, of which the
\* dialog never hears, either.
ReplaceDraft(p, b) ==
  /\ pc[p] = "submit"
  /\ act[p] \in {None} \cup {a \in Ad : status[a] = "none"}
  /\ NewDraft(p, b, {})
  /\ UNCHANGED <<disk, dialog, sweeper>>

\* reclaim_staged_keys
ReclaimDuplicate(p, k) ==
  /\ pc[p] = "promote" /\ k \in later[p]
  /\ staged' = staged \ {k} /\ stale' = stale \ {k}
  /\ later' = [later EXCEPT ![p] = @ \ {k}]
  /\ UNCHANGED <<rows, files, dialog, pc, act, todo, key, sweeper, exposed>>

\* promote_media_files: a file that is not there is logged.  A sweep that
\* has read the rows before and lists the files after it takes k for an orphan.
Promote(p, k) ==
  /\ pc[p] = "promote" /\ later[p] = {} /\ k \in todo[p]
  /\ staged' = staged \ {k} /\ stale' = stale \ {k}
  /\ files' = IF k \in staged THEN files \cup {k} ELSE files
  /\ exposed' = IF sweep = "walk" /\ k \notin referenced
                THEN exposed \cup {k} ELSE exposed
  /\ todo' = [todo EXCEPT ![p] = @ \ {k}]
  /\ UNCHANGED <<rows, dialog, pc, act, key, later, sweeper>>

\* Any other OSError is logged, too.
PromoteFails(p, k) ==
  /\ pc[p] = "promote" /\ later[p] = {} /\ k \in todo[p] \cap staged
  /\ exposed' = exposed \cup {k}
  /\ todo' = [todo EXCEPT ![p] = @ \ {k}]
  /\ UNCHANGED <<rows, disk, dialog, pc, act, key, later, sweeper>>

\* The dialog is closed (state.clear()).
Finish(p) ==
  /\ pc[p] = "promote" /\ todo[p] = {} /\ later[p] = {}
  /\ Stop(p)
  /\ dialogAd' = None /\ dialogKeys' = {}
  /\ UNCHANGED <<rows, disk, sweeper, exposed>>

\* CONSENT_REQUIRED, or /cancel of an ad that is no draft: state.clear().
Forget(p) ==
  /\ pc[p] = "idle" /\ dialogAd # None
  /\ dialogAd' = None /\ dialogKeys' = {}
  /\ UNCHANGED <<rows, disk, handlers, sweeper, exposed>>

-----------------------------------------------------------------------------
(* /cancel *)

\* cmd_cancel reads the status of the draft and the photos of the dialog.
CancelRead(p) ==
  /\ pc[p] = "idle" /\ dialogAd # None /\ status[dialogAd] = "draft"
  /\ Goto(p, "discard", dialogAd, dialogKeys, {})
  /\ exposed' = exposed \cup (dialogKeys \cap Referenced)
  /\ UNCHANGED <<rows, disk, dialog, sweeper>>

\* It deletes the staged files, one await each.
Discard(p, k) ==
  /\ pc[p] = "discard" /\ k \in todo[p]
  /\ staged' = staged \ {k} /\ stale' = stale \ {k}
  /\ todo' = [todo EXCEPT ![p] = @ \ {k}]
  /\ UNCHANGED <<rows, files, dialog, pc, act, key, later, sweeper, exposed>>

\* delete_draft: Ad.objects.get(status=DRAFT), outside the transaction.
GetDraft(p) ==
  /\ pc[p] = "discard" /\ todo[p] = {}
  /\ IF status[act[p]] = "draft"
     THEN Goto(p, "drop", act[p], {}, {}) /\ UNCHANGED dialog
     ELSE Stop(p) /\ dialogAd' = None /\ dialogKeys' = {}
  /\ UNCHANGED <<rows, disk, sweeper, exposed>>

\* Its transaction deletes the ad by id; the signal's cleanup runs at the
\* commit, and then delete_draft frees the same keys whoever refers to them.
DeleteDraft(p) ==
  LET a == act[p] IN
  /\ pc[p] = "drop"
  /\ status' = [status EXCEPT ![a] = "none"]
  /\ photos' = [photos EXCEPT ![a] = {}]
  /\ FreeFiles(p, photos[a], photos[a])
  /\ exposed' = exposed \cup
       (photos[a] \cap UNION {photos[b] : b \in Ad \ {a}})
  /\ dialogAd' = None /\ dialogKeys' = {}
  /\ UNCHANGED <<disk, sweeper>>

Purge(p, k) ==
  /\ pc[p] = "purge" /\ k \in later[p]
  /\ files' = files \ {k}
  /\ IF later[p] = {k} THEN Stop(p)
     ELSE Goto(p, "purge", None, {}, later[p] \ {k})
  /\ UNCHANGED <<rows, staged, stale, dialog, sweeper, exposed>>

-----------------------------------------------------------------------------
(* Deleting rows *)

\* delete_sweep, purge_*, sweep_drafts, the hard delete of a user.
DeleteAd(p, a) ==
  /\ pc[p] = "idle" /\ status[a] # "none"
  /\ status' = [status EXCEPT ![a] = "none"]
  /\ photos' = [photos EXCEPT ![a] = {}]
  /\ FreeFiles(p, photos[a], {})
  /\ UNCHANGED <<disk, dialog, sweeper, exposed>>

\* remove_ad_image
RemoveImage(p, a, k) ==
  /\ pc[p] = "idle" /\ k \in photos[a]
  /\ photos' = [photos EXCEPT ![a] = @ \ {k}]
  /\ FreeFiles(p, {k}, {})
  /\ UNCHANGED <<status, disk, dialog, sweeper, exposed>>

\* withdraw_consent: a draft loses its rows, every ad is closed.
WithdrawAds(p) ==
  LET drafts == {a \in Ad : status[a] = "draft"} IN
  /\ pc[p] = "idle"
  /\ status' = [a \in Ad |-> IF status[a] = "none" THEN "none" ELSE "closed"]
  /\ photos' = [a \in Ad |-> IF a \in drafts THEN {} ELSE photos[a]]
  /\ FreeFiles(p, UNION {photos[a] : a \in drafts}, {})
  /\ UNCHANGED <<disk, dialog, sweeper, exposed>>

\* A moderator or a sweep moves an ad; a published one may be archived.
Move(a) ==
  /\ \/ status[a] = "open" /\ status' = [status EXCEPT ![a] = "closed"]
     \/ status[a] = "closed" /\ status' = [status EXCEPT ![a] = "open"]
  /\ UNCHANGED <<photos, disk, dialog, handlers, sweeper, exposed>>

\* The rest of the closures, and then the loop of delete_draft.
GoOn(p, K) ==
  IF K # {} THEN Goto(p, "cleanup", None, K, later[p])
  ELSE IF later[p] # {} THEN Goto(p, "purge", None, {}, later[p])
  ELSE Stop(p)

\* Mutant: the file of a deleted row is freed whoever shares its key.
QueryNothing(p, k) ==
  /\ pc[p] = "cleanup" /\ k \in todo[p]
  /\ pc' = [pc EXCEPT ![p] = "unlink"]
  /\ todo' = [todo EXCEPT ![p] = @ \ {k}]
  /\ key' = [key EXCEPT ![p] = k]
  /\ UNCHANGED <<rows, disk, dialog, act, later, sweeper, exposed>>

\* The closure: unreferenced_keys looks at the rows as committed by now ...
Query(p, k) ==
  /\ pc[p] = "cleanup" /\ k \in todo[p]
  /\ IF k \in Referenced
     THEN GoOn(p, todo[p] \ {k})
     ELSE /\ pc' = [pc EXCEPT ![p] = "unlink"]
          /\ todo' = [todo EXCEPT ![p] = @ \ {k}]
          /\ key' = [key EXCEPT ![p] = k]
          /\ UNCHANGED <<act, later>>
  /\ UNCHANGED <<rows, disk, dialog, sweeper, exposed>>

\* ... and delete_photo removes the file, or gives up after its retries.
Unlink(p) ==
  /\ pc[p] = "unlink"
  /\ files' = files \ {key[p]}
  /\ GoOn(p, todo[p])
  /\ UNCHANGED <<rows, staged, stale, dialog, sweeper, exposed>>

UnlinkFails(p) ==
  /\ pc[p] = "unlink"
  /\ GoOn(p, todo[p])
  /\ UNCHANGED <<rows, disk, dialog, sweeper, exposed>>

-----------------------------------------------------------------------------
(* sweep_orphaned_media *)

Snapshot ==
  /\ sweep = "idle"
  /\ sweep' = "walk" /\ referenced' = Referenced
  /\ UNCHANGED <<rows, disk, dialog, handlers, orphans, exposed>>

\* Mutant: every run is a dry run.
WalkDry ==
  /\ sweep = "walk"
  /\ sweep' = "delete" /\ orphans' = {} /\ referenced' = {}
  /\ UNCHANGED <<rows, disk, dialog, handlers, exposed>>

\* staging/ is not listed.
Walk ==
  /\ sweep = "walk"
  /\ sweep' = "delete" /\ orphans' = files \ referenced /\ referenced' = {}
  /\ UNCHANGED <<rows, disk, dialog, handlers, exposed>>

SweepDelete(k) ==
  /\ sweep = "delete" /\ k \in orphans
  /\ files' = files \ {k} /\ orphans' = orphans \ {k}
  /\ UNCHANGED <<rows, staged, stale, dialog, handlers, sweep, referenced,
                 exposed>>

SweepDeleteFails(k) ==
  /\ sweep = "delete" /\ k \in orphans
  /\ orphans' = orphans \ {k}
  /\ UNCHANGED <<rows, disk, dialog, handlers, sweep, referenced, exposed>>

\* _reclaim_stale_staging
ReclaimStale(k) ==
  /\ sweep = "delete" /\ orphans = {} /\ k \in stale
  /\ staged' = staged \ {k} /\ stale' = stale \ {k}
  /\ UNCHANGED <<rows, files, dialog, handlers, sweeper, exposed>>

\* The sweep ends; so does one that dies half-way.
EndSweep ==
  /\ sweep # "idle"
  /\ sweep' = "idle" /\ referenced' = {} /\ orphans' = {}
  /\ UNCHANGED <<rows, disk, dialog, handlers, exposed>>

-----------------------------------------------------------------------------
(* The environment *)

\* Two hours pass without a touch.  No handler takes that long.
Age(k) ==
  /\ k \in staged \ stale
  /\ \A p \in Handler : k \notin todo[p] \cup later[p]
  /\ stale' = stale \cup {k}
  /\ UNCHANGED <<rows, files, staged, dialog, handlers, sweeper, exposed>>

\* A handler dies; an open transaction rolls back, the after-commit work of a
\* committed one is lost.
Crash(p) ==
  /\ pc[p] # "idle"
  /\ exposed' = IF pc[p] = "promote" THEN exposed \cup todo[p] ELSE exposed
  /\ Stop(p)
  /\ UNCHANGED <<rows, disk, dialog, sweeper>>

Dialog(p) ==
  \/ \E b \in Ad : Post(p, b) \/ PhotoUnavailable(p, b) \/ ReplaceDraft(p, b)
  \/ \E k \in Key : Upload(k)
  \/ Forget(p)

Copy(p) == \E a \in Ad : ReadSource(p, a) \/ CommitCopy(p, a)

Submit(p) ==
  \/ Plan(p) \/ CommitSubmit(p) \/ CommitRefused(p) \/ Finish(p)
  \/ \E k \in Key : ReclaimDuplicate(p, k) \/ Promote(p, k)
                       \/ PromoteFails(p, k)

Cancel(p) == \/ CancelRead(p) \/ GetDraft(p) \/ DeleteDraft(p)
             \/ \E k \in Key : Discard(p, k) \/ Purge(p, k)

Free(p) ==
  \/ WithdrawAds(p) \/ Unlink(p) \/ UnlinkFails(p)
  \/ \E a \in Ad : DeleteAd(p, a) \/ \E k \in Key : RemoveImage(p, a, k)
  \/ \E k \in Key : Query(p, k)

Sweep == \/ Snapshot \/ Walk \/ EndSweep
         \/ \E k \in Key : SweepDelete(k) \/ SweepDeleteFails(k)
                              \/ ReclaimStale(k)

MediaNext ==
  \/ \E p \in Handler : Dialog(p) \/ Copy(p) \/ Submit(p) \/ Cancel(p)
                           \/ Free(p) \/ Crash(p)
  \/ Sweep
  \/ \E k \in Key : Age(k)
  \/ \E a \in Ad : Move(a)

\* The sweep runs every hour, and its deletions do not fail for ever.
MediaSpec ==
  /\ MediaInit /\ [][MediaNext]_mediaVars
  /\ WF_mediaVars(Snapshot) /\ SF_mediaVars(Walk)
  /\ \A k \in Key : SF_mediaVars(SweepDelete(k))
  /\ WF_mediaVars(EndSweep)
=============================================================================
