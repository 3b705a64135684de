------------------------- MODULE AdDialogProperties -------------------------
(***************************************************************************)
(* What the bot's dialog promises to the seller who answers it.            *)
(***************************************************************************)
EXTENDS AdDialog

DialogTypeOK ==
  /\ step \in Step \cup {"none"} /\ data \in Data /\ row \in [Ads -> Status]
  /\ staged \subseteq Keys /\ pictured \subseteq Ads /\ shown \subseteq Step
  /\ task \in [Task -> TaskState]
  /\ dialog \in [Keys -> Ads \cup {0}]
  /\ odd \subseteq {"overlap", "restart"} /\ bad \subseteq {"hollow", "foreign"}

(* However many uploads overlap, the photos of the dialog are numbered one  *)
(* by one from zero and are no more than MaxPhotos: submit_ad inserts them  *)
(* with these numbers as positions.                                         *)
Numbered(photos) ==
  Len(photos) <= MaxPhotos /\ \A i \in DOMAIN photos : photos[i].position = i - 1
PhotosAreNumbered == Numbered(data.photos)

(* What goes to moderation is complete, and shows no photo sent for another *)
(* ad: an empty one needs updates handled at once, a foreign photo such an  *)
(* overlap or a dialog begun over an unfinished one.                        *)
SubmissionsAreSound ==
  /\ "hollow" \in bad => "overlap" \in odd
  /\ "foreign" \in bad => odd # {}

(* At most one draft, however /post, /copy and replaced drafts overlap.     *)
OneDraftOfTheDialog ==
  \A a, b \in Ads : row[a] = "draft" /\ row[b] = "draft" => a = b

(* What makes these three inductive.  A task knows what it is for and holds  *)
(* a list it may add one photo to; while nothing has overlapped it is the    *)
(* only one, and the dialog is where it was when the task was dispatched.    *)
TaskOK(t) ==
  /\ task[t].does \notin {"photos", "preview"}
  /\ At(t, "state") \/ At(t, "data") =>
       task[t].does \in {"post", "copy"} /\ task[t].new \in Ads
  /\ At(t, "save") => Does(t, "photo")
  /\ At(t, "write") => task[t].does \in {"photo", "done"} \cup Step
  /\ Does(t, "photo") /\ (At(t, "save") \/ At(t, "write")) =>
       Numbered(task[t].saw.photos) /\ Len(task[t].saw.photos) < MaxPhotos
  /\ Does(t, "photo") /\ At(t, "write") => task[t].new \in Keys
  /\ At(t, "buttons") => task[t].does \in Step
  /\ At(t, "submit") => task[t].saw.ad # 0

Alone == "overlap" \notin odd
OneAtATime == Alone => \A t, u \in Task : ~At(t, "off") /\ ~At(u, "off") => t = u

InTurn(t) ==
  /\ Alone /\ task[t].at \in {"read", "save", "write"} => task[t].does \in Routed(step)
  /\ Alone /\ task[t].at \in {"submit", "fresh"} => step = "preview"
  /\ Alone /\ (At(t, "submit") \/ At(t, "save") \/ (At(t, "write") /\ Does(t, "photo"))) =>
       task[t].saw = data
  /\ odd = {} /\ At(t, "data") => data = NoData
  /\ odd = {} /\ At(t, "write") /\ Does(t, "photo") => dialog[task[t].new] = data.begun

\* Texts come before photos, and photos are of the ad the dialog began with.
Described == Alone /\ step \in {"price", "photos", "preview"} => data.typed = "yes"
OwnPhotos == odd = {} => \A k \in KeysOf(data.photos) : dialog[k] = data.begun

DialogSound ==
  /\ DialogTypeOK /\ PhotosAreNumbered /\ SubmissionsAreSound /\ OneDraftOfTheDialog
  /\ \A t \in Task : TaskOK(t) /\ InTurn(t)
  /\ OneAtATime /\ Described /\ OwnPhotos

DialogInv == DialogSound /\ silent \subseteq Ads \cup {0}

(* A seller who does what the bot asks for, and gives up by /cancel when    *)
(* his confirmation has no answer, comes to the end of the dialog, whatever *)
(* was swept, refused or lost on the way and whatever else he sent.  That   *)
(* he could "press confirm again" (handlers/ad_create/submit.py) is not so: *)
(* the dialog of a reaped draft keeps the dead ad, and only /cancel or      *)
(* /post gets him out of it.                                                *)
DialogEnds == step # "none" ~> step = "none"
=============================================================================
