------------------------------ MODULE AdDialog ------------------------------
(***************************************************************************)
(* The dialog in which a seller describes an ad to the bot.  Its memory is *)
(* a step and a dictionary in Redis; every update of the seller is handled *)
(* by a task of its own, and the tasks interleave at every await, so each  *)
(* works on the dictionary it read when it began.  The ORM work of a       *)
(* handler is one action: the bot has one thread for it.                   *)
(*                                                                         *)
(* A step's handler is found by the step at the moment of dispatch, in the *)
(* order the routers register: in `category` and `city` a command is taken *)
(* for an answer, and /copy is one in every step that takes text.          *)
(***************************************************************************)
EXTENDS Integers, Sequences

CONSTANTS
  Task,       \* updates that may be under way at once
  MaxPhotos,  \* 5
  Ads, Keys,  \* bounds: ids of ads and of uploaded photos
  MaxExtra,   \* bound: updates besides those that answer the bot
  MaxFaults   \* bound: errors, crashes, refusals and sweeps

ASSUME Bounds == /\ MaxPhotos \in Nat \ {0} /\ MaxExtra \in Nat /\ MaxFaults \in Nat
                 /\ Ads \subseteq Nat \ {0} /\ Keys \subseteq Nat \ {0}

VARIABLES
  step,    \* the state of the dialog, "none" outside of one
  data,    \* Data, its dictionary
  row,     \* [Ads -> Status]
  staged,  \* SUBSET Keys, the files in staging/
  shown,   \* the steps whose buttons the chat has; they stay there
  pictured, \* SUBSET Ads, those with an image at the first position
  task,    \* [Task -> TaskState]
  dialog,  \* history: [Keys -> Ads \cup {0}], the dialog a photo was sent in
  odd,     \* history: {"overlap", "restart"}, what is not plain sequential use
  bad,     \* history: {"hollow", "foreign"}, what was submitted nevertheless
  silent,  \* history: SUBSET Ads \cup {0}, ads whose confirmation had no answer
  extras, faults

memory == <<step, data>>
media == <<staged, pictured, dialog>>
ghosts == <<odd, bad, silent>>
vars == <<step, data, row, staged, shown, pictured, task, dialog, odd, bad, silent, extras, faults>>

Step == {"category", "purpose", "condition", "features", "city", "title",
         "description", "price", "photos", "preview"}
Status == {"none", "draft", "public", "failed", "deleted", "gone"}
Photo == [key : Keys, position : Nat]

\* begun: the ad the dialog began with; typed: are title and description there.
Data == [ad : Ads \cup {0}, begun : Ads \cup {0}, photos : Seq(Photo),
         typed : {"yes", "no"}]
NoData == [ad |-> 0, begun |-> 0, photos |-> <<>>, typed |-> "no"]

TaskState == [at : {"off", "read", "state", "data", "delete", "clear", "write",
                    "buttons", "save", "submit", "told", "fresh"},
              does : {"post", "cancel", "copy", "photo", "done", "confirm", "none"}
                     \cup Step,
              saw : Data, new : Ads \cup Keys \cup {0},
              outcome : {"", "published", "failed", "consent", "invalid", "photo", "gone"}]
Off == [at |-> "off", does |-> "none", saw |-> NoData, new |-> 0, outcome |-> ""]

Fault == faults < MaxFaults /\ faults' = faults + 1

Init ==
  /\ step = "none" /\ data = NoData /\ row = [a \in Ads |-> "none"]
  /\ staged = {} /\ shown = {} /\ pictured = {} /\ task = [t \in Task |-> Off]
  /\ dialog = [k \in Keys |-> 0] /\ odd = {} /\ bad = {} /\ silent = {}
  /\ extras = 0 /\ faults = 0

-----------------------------------------------------------------------------
(* Dispatch. *)

\* The updates some handler takes in step s, and what that handler is for.
Routed(s) ==
  (IF s \in {"category", "city"} THEN {} ELSE {"post", "cancel"})
  \cup (IF s \in {"none", "purpose", "condition", "features"} THEN {"copy"} ELSE {})
  \cup (CASE s = "photos" -> {"photo", "done"}
          [] s = "preview" -> {"confirm"}
          [] s \in {"purpose", "condition", "features"} -> {s} \cap shown
          [] s = "none" -> {}
          [] OTHER -> {s})

\* Tasks are alike: an update is given to the first that is free.
Free == CHOOSE t \in Task : task[t].at = "off"

Dispatch(t, handler) ==
  /\ task[t].at = "off" /\ t = Free /\ handler \in Routed(step)
  /\ task' = [task EXCEPT ![t] = [Off EXCEPT !.at = "read", !.does = handler]]
  /\ odd' = IF \E u \in Task : task[u].at # "off" THEN odd \cup {"overlap"} ELSE odd
  /\ UNCHANGED <<memory, row, media, shown, bad, silent, faults>>

Idle == \A t \in Task : task[t].at = "off"

\* What the bot asked for last.  A seller who has no button to press, or whose
\* confirmation was not answered, gives up.
Asked ==
  CASE step = "photos" -> IF data.photos = <<>> THEN "photo" ELSE "done"
    [] step = "preview" -> IF data.ad \in silent THEN "cancel" ELSE "confirm"
    [] step \in {"purpose", "condition", "features"} ->
         IF step \in shown THEN step ELSE "cancel"
    [] step = "none" -> "post"
    [] OTHER -> step

AnswerBot(t) ==
  /\ Idle /\ (step = "none" => data = NoData /\ extras = 0 /\ row = [a \in Ads |-> "none"])
  /\ Dispatch(t, Asked) /\ UNCHANGED extras

\* An update nobody asked for: a command, a double tap, a second photo.
Send(t) ==
  /\ extras < MaxExtra /\ extras' = extras + 1
  /\ \E handler \in Routed(step) : Dispatch(t, handler)

-----------------------------------------------------------------------------
(* The handlers.  Each begins by reading the dictionary. *)

At(t, pc) == task[t].at = pc
Does(t, handler) == task[t].does = handler
Goto(t, pc) == task' = [task EXCEPT ![t].at = pc]
Done(t) == task' = [task EXCEPT ![t] = Off]
Some(S) == CHOOSE n \in S : TRUE

\* create_draft_ad and copy_ad: the draft there was is deleted.
NewDraft(a) ==
  row' = [b \in Ads |-> IF b = a THEN "draft"
                        ELSE IF row[b] = "draft" THEN "gone" ELSE row[b]]
FreeAds == {a \in Ads : row[a] = "none"}

\* A copy has the images of the ad it is made of, at their positions.
Copied(t, a) == IF Does(t, "copy") THEN pictured \cup {a} ELSE pictured

\* Early returns: nothing found, an invalid text, too many photos, too fast.
Refuse(t) ==
  /\ At(t, "read") /\ Fault /\ Done(t)
  /\ UNCHANGED <<memory, row, media, shown, ghosts, extras>>

\* cmd_post, cmd_copy: the draft, then the state, then the dictionary, of
\* which only the ad, and by a copy its texts, are replaced.
Create(t) ==
  /\ At(t, "read") /\ task[t].does \in {"post", "copy"} /\ FreeAds # {}
  /\ Does(t, "copy") => \E a \in Ads : row[a] \in {"public", "failed"}
  /\ NewDraft(Some(FreeAds))
  /\ task' = [task EXCEPT ![t].at = "state", ![t].new = Some(FreeAds)]
  /\ pictured' = Copied(t, Some(FreeAds))
  /\ UNCHANGED <<memory, staged, dialog, shown, ghosts, extras, faults>>

CopyNothing(t) ==
  /\ At(t, "read") /\ Does(t, "copy")
  /\ \A a \in Ads : row[a] \notin {"public", "failed"}
  /\ Done(t) /\ UNCHANGED <<memory, row, media, shown, ghosts, extras, faults>>

SetState(t) ==
  /\ At(t, "state") /\ Goto(t, "data")
  /\ step' = IF Does(t, "copy") THEN "purpose" ELSE "category"
  /\ odd' = IF step # "none" \/ data # NoData THEN odd \cup {"restart"} ELSE odd
  /\ UNCHANGED <<data, row, media, shown, bad, silent, extras, faults>>

SetData(t) ==
  /\ At(t, "data") /\ Done(t)
  /\ data' = [data EXCEPT !.ad = task[t].new, !.begun = task[t].new,
                          !.typed = IF Does(t, "copy") THEN "yes" ELSE @]
  /\ UNCHANGED <<step, row, media, shown, ghosts, extras, faults>>

\* Mutant: nothing to cancel without a draft.
LookForDraft(t) ==
  /\ At(t, "read") /\ Does(t, "cancel")
  /\ IF data.ad # 0 /\ row[data.ad] = "draft"
       THEN task' = [task EXCEPT ![t].saw = data, ![t].at = "delete"] ELSE Done(t)
  /\ UNCHANGED <<memory, row, media, shown, ghosts, extras, faults>>

\* cmd_cancel: photos and draft go only if the ad was a draft when it looked,
\* and the draft only if it still is one.
Look(t) ==
  /\ At(t, "read") /\ Does(t, "cancel")
  /\ task' = [task EXCEPT ![t].saw = data,
       ![t].at = IF data.ad # 0 /\ row[data.ad] = "draft" THEN "delete" ELSE "clear"]
  /\ UNCHANGED <<memory, row, media, shown, ghosts, extras, faults>>

KeysOf(photos) == {photos[i].key : i \in DOMAIN photos}

DeleteDraft(t) ==
  /\ At(t, "delete") /\ Goto(t, "clear")
  /\ staged' = staged \ KeysOf(task[t].saw.photos)
  /\ row' = [row EXCEPT ![task[t].saw.ad] = IF @ = "draft" THEN "gone" ELSE @]
  /\ UNCHANGED <<memory, shown, pictured, dialog, ghosts, extras, faults>>

\* state.clear(), which also ends a confirmed dialog.
Clear(t) ==
  /\ At(t, "clear") /\ Done(t) /\ step' = "none" /\ data' = NoData
  /\ UNCHANGED <<row, media, shown, ghosts, extras, faults>>

-----------------------------------------------------------------------------
(* The steps.  A category decides which of the next three are left out. *)

AfterFeatures == {"city"}
FeaturesOrCity == {"features"} \cup AfterFeatures
ConditionOrLater == {"condition"} \cup FeaturesOrCity
AfterCategory == {"purpose"} \cup ConditionOrLater
AfterPurpose == ConditionOrLater
AfterCondition == FeaturesOrCity
AfterCity == {"title"}
AfterTitle == {"description"}
AfterDescription == {"price"}
AfterPrice == {"photos"}

Following(s) ==
  CASE s = "category" -> AfterCategory
    [] s = "purpose" -> AfterPurpose
    [] s = "condition" -> AfterCondition
    [] s = "features" -> AfterFeatures
    [] s = "city" -> AfterCity
    [] s = "title" -> AfterTitle
    [] s = "description" -> AfterDescription
    [] s = "price" -> AfterPrice

TakeAnswer(t) ==
  /\ At(t, "read") /\ task[t].does \in Step \ {"photos", "preview"}
  /\ Goto(t, "write")
  /\ UNCHANGED <<memory, row, media, shown, ghosts, extras, faults>>

\* The field and the next state, whatever the state is by now.
Proceed(t) ==
  /\ At(t, "write") /\ task[t].does \in Step
  /\ step' \in Following(task[t].does)
  /\ data' = IF Does(t, "description") THEN [data EXCEPT !.typed = "yes"] ELSE data
  /\ IF step' \in {"purpose", "condition", "features"}
       THEN task' = [task EXCEPT ![t].at = "buttons", ![t].does = step'] ELSE Done(t)
  /\ UNCHANGED <<row, media, shown, ghosts, extras, faults>>

\* The message with the buttons goes out after the state was set.
ShowButtons(t) ==
  /\ At(t, "buttons") /\ Done(t) /\ shown' = shown \cup {task[t].does}
  /\ UNCHANGED <<memory, row, media, ghosts, extras, faults>>

-----------------------------------------------------------------------------
(* Photos. *)

TakePhoto(t) ==
  /\ At(t, "read") /\ Does(t, "photo")
  /\ IF Len(data.photos) < MaxPhotos
       THEN task' = [task EXCEPT ![t].saw = data, ![t].at = "save"] ELSE Done(t)
  /\ UNCHANGED <<memory, row, media, shown, ghosts, extras, faults>>

UsedKeys ==
  staged \cup KeysOf(data.photos)
  \cup UNION {KeysOf(task[t].saw.photos) \cup {task[t].new} : t \in Task}

SavePhoto(t) ==
  /\ At(t, "save") /\ Keys \ UsedKeys # {}
  /\ LET k == Some(Keys \ UsedKeys) IN
       /\ staged' = staged \cup {k} /\ dialog' = [dialog EXCEPT ![k] = task[t].saw.begun]
       /\ task' = [task EXCEPT ![t].at = "write", ![t].new = k]
  /\ UNCHANGED <<memory, row, shown, pictured, ghosts, extras, faults>>

\* Mutant: the list is read again, its length is not.
AppendedToLatest(photos, latest, k) ==
  Append(latest, [key |-> k, position |-> Len(photos)])

\* The list as it was read before the download, and the photo.
Appended(photos, latest, k) == Append(photos, [key |-> k, position |-> Len(photos)])

KeepPhoto(t) ==
  /\ At(t, "write") /\ Does(t, "photo") /\ Done(t)
  /\ data' = [data EXCEPT !.photos = Appended(task[t].saw.photos, @, task[t].new)]
  /\ UNCHANGED <<step, row, media, shown, ghosts, extras, faults>>

\* 'done': at least one and at most MaxPhotos.
FinishPhotos(t) ==
  /\ Does(t, "done")
  /\ \/ /\ At(t, "read") /\ UNCHANGED step
        /\ IF Len(data.photos) \in 1..MaxPhotos THEN Goto(t, "write") ELSE Done(t)
     \/ At(t, "write") /\ step' = "preview" /\ Done(t)
  /\ UNCHANGED <<data, row, media, shown, ghosts, extras, faults>>

-----------------------------------------------------------------------------
(* Confirmation. *)

\* Translating takes its time.  A dictionary without an ad raises.
ReadAll(t) ==
  /\ At(t, "read") /\ Does(t, "confirm")
  /\ IF data.ad = 0 THEN Done(t) /\ silent' = silent \cup {0}
     ELSE /\ task' = [task EXCEPT ![t].at = "submit", ![t].saw = data]
          /\ UNCHANGED silent
  /\ UNCHANGED <<memory, row, media, shown, odd, bad, extras, faults>>

\* submit_ad.  A verdict on the ad promotes its photos out of staging/.  An ad
\* has one image at a position: photos for one that has images raise.  (The
\* same picture sent again, which is skipped, is left out.)
Missing(saw) == ~(KeysOf(saw.photos) \subseteq staged)
Clash(saw) == saw.ad \in pictured /\ saw.photos # <<>>
Outcome(t, outcome) ==
  task' = [task EXCEPT ![t].outcome = outcome,
     ![t].at = IF outcome \in {"published", "failed", "consent"} THEN "told" ELSE "fresh"]
Illustrated(saw) == IF saw.photos = <<>> THEN pictured ELSE pictured \cup {saw.ad}

Flaws(saw) ==
  (IF saw.typed = "no" THEN {"hollow"} ELSE {})
  \cup (IF \E k \in KeysOf(saw.photos) : dialog[k] # saw.begun THEN {"foreign"} ELSE {})

Moderate(t) ==
  LET saw == task[t].saw IN
    /\ At(t, "submit") /\ ~Missing(saw) /\ row[saw.ad] \in {"draft", "public"} /\ ~Clash(saw)
    /\ \E verdict \in {"published", "failed"} :
         /\ saw.typed = "no" => verdict = "failed"
         /\ row' = [row EXCEPT ![saw.ad] = IF verdict = "failed" THEN "failed" ELSE "public"]
         /\ Outcome(t, verdict)
    /\ staged' = staged \ KeysOf(saw.photos) /\ pictured' = Illustrated(saw)
    /\ bad' = bad \cup Flaws(saw)
    /\ UNCHANGED <<memory, shown, dialog, odd, silent, extras, faults>>

\* The refused transition comes after the images, and they are committed.
Unmoderated(t) ==
  LET saw == task[t].saw IN
    /\ At(t, "submit") /\ ~Missing(saw) /\ row[saw.ad] \in {"failed", "deleted"} /\ ~Clash(saw)
    /\ Outcome(t, "invalid") /\ pictured' = Illustrated(saw)
    /\ UNCHANGED <<memory, row, staged, dialog, shown, ghosts, extras, faults>>

NoVerdict(t) ==
  /\ At(t, "submit")
  /\ \/ Fault /\ Outcome(t, "consent")
     \/ UNCHANGED faults /\ Missing(task[t].saw) /\ Outcome(t, "photo")
     \/ /\ UNCHANGED faults /\ ~Missing(task[t].saw)
        /\ row[task[t].saw.ad] = "gone" /\ Outcome(t, "gone")
  /\ UNCHANGED <<memory, row, media, shown, ghosts, extras>>

\* The constraint is violated: the handler ends, nobody is told.
Raise(t) ==
  LET saw == task[t].saw IN
    /\ At(t, "submit") /\ ~Missing(saw) /\ row[saw.ad] # "gone" /\ Clash(saw) /\ Done(t)
    /\ silent' = silent \cup {saw.ad}
    /\ UNCHANGED <<memory, row, media, shown, odd, bad, extras, faults>>

\* The reply goes out before the state is cleared.
Tell(t) ==
  /\ At(t, "told") /\ Goto(t, "clear")
  /\ UNCHANGED <<memory, row, media, shown, ghosts, extras, faults>>

\* No verdict: a fresh draft takes the place of the seller's.  The dialog should
\* be pointed at it, and keeps the ad it has: the handler dies of state.update(),
\* which aiogram's FSMContext does not have, and nobody is told.
Replace(t) ==
  /\ At(t, "fresh") /\ FreeAds # {} /\ NewDraft(Some(FreeAds)) /\ Done(t)
  /\ silent' = silent \cup {task[t].saw.ad}
  /\ UNCHANGED <<memory, media, shown, odd, bad, extras, faults>>

-----------------------------------------------------------------------------
(* Faults. *)

\* An error, a message that cannot be sent, a restart of the bot: the task is
\* gone, what it wrote stays.
Die(t) ==
  /\ task[t].at \notin {"off", "read"} /\ Fault /\ Done(t)
  /\ UNCHANGED <<memory, row, media, shown, ghosts, extras>>

\* sweep_drafts or the site removes the draft, the media sweep the photos.
Sweep ==
  /\ Fault
  /\ \/ \E a \in Ads, s \in {"gone", "deleted"} :
          row[a] = "draft" /\ row' = [row EXCEPT ![a] = s] /\ UNCHANGED staged
     \/ staged # {} /\ staged' = {} /\ UNCHANGED row
  /\ UNCHANGED <<memory, shown, pictured, task, dialog, ghosts, extras>>

Run(t) ==
  \/ Create(t) \/ CopyNothing(t) \/ SetState(t) \/ SetData(t)
  \/ Look(t) \/ DeleteDraft(t) \/ Clear(t)
  \/ TakeAnswer(t) \/ Proceed(t) \/ ShowButtons(t)
  \/ TakePhoto(t) \/ SavePhoto(t) \/ KeepPhoto(t) \/ FinishPhotos(t)
  \/ ReadAll(t) \/ Moderate(t) \/ Unmoderated(t) \/ NoVerdict(t) \/ Raise(t)
  \/ Tell(t) \/ Replace(t)

Next ==
  \/ Sweep
  \/ \E t \in Task : AnswerBot(t) \/ Send(t) \/ Run(t) \/ Refuse(t) \/ Die(t)

Spec == Init /\ [][Next]_vars

\* The bot handles what it was sent, and the seller goes on answering.
FairSpec ==
  /\ Spec /\ \A t \in Task : WF_vars(Run(t))
  /\ WF_vars(\E t \in Task : AnswerBot(t))
=============================================================================
