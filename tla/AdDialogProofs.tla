---------------------------- MODULE AdDialogProofs ----------------------------
(***************************************************************************)
(* Proofs about the bot's dialog, for any number of tasks, ads and photos, *)
(* any updates nobody asked for and any number of faults.                  *)
(***************************************************************************)
EXTENDS AdDialogProperties, SequenceTheorems, TLAPS

-----------------------------------------------------------------------------
(* What a step of one task leaves alone. *)

LEMMA OffIsTask ==
  /\ Off \in TaskState /\ NoData \in Data /\ NoData.photos = <<>>
  /\ Off.at = "off" /\ Off.does = "none" /\ Off.new = 0
<1>1. NoData \in Data /\ NoData.photos = <<>>
  <2>1. <<>> \in Seq(Photo)  BY EmptySeq
  <2> QED BY <2>1 DEF NoData, Data
<1> QED BY <1>1 DEF Off, TaskState

LEMMA OptionIsMember == ASSUME NEW S, S # {} PROVE Some(S) \in S
BY DEF Some

\* While nothing has overlapped, a step of one task concerns no other.
LEMMA OnlyOne ==
  ASSUME DialogSound, NEW t \in Task, ~At(t, "off"),
         task' \in [Task -> TaskState], \A u \in Task \ {t} : task'[u] = task[u],
         odd \subseteq odd', TaskOK(t)', InTurn(t)'
  PROVE  OneAtATime' /\ \A u \in Task : TaskOK(u)' /\ InTurn(u)'
<1>1. OneAtATime'  BY DEF OneAtATime, Alone, At, DialogSound
<1>2. ASSUME NEW u \in Task, u # t PROVE TaskOK(u)' /\ InTurn(u)'
  <2>1. task'[u] = task[u] /\ TaskOK(u)  BY <1>2 DEF DialogSound
  <2>2. TaskOK(u)'  BY <2>1 DEF TaskOK, At, Does
  <2>3. Alone' => task[u].at = "off"  BY <1>2 DEF OneAtATime, Alone, At, DialogSound
  <2>4. odd' = {} => Alone'  BY DEF Alone
  <2>5. InTurn(u)'  BY <2>1, <2>3, <2>4 DEF InTurn, At
  <2> QED BY <2>2, <2>5
<1> QED BY <1>1, <1>2

\* Its memory is what it was, and so are the photos.
LEMMA MemoryKept ==
  ASSUME DialogSound, UNCHANGED <<memory, dialog>>, odd \subseteq odd'
  PROVE  /\ step' \in Step \cup {"none"} /\ data' \in Data
         /\ dialog' \in [Keys -> Ads \cup {0}]
         /\ PhotosAreNumbered' /\ Described' /\ OwnPhotos'
<1>1. step' = step /\ data' = data /\ dialog' = dialog  BY DEF memory
<1> QED BY <1>1 DEF DialogSound, DialogTypeOK, PhotosAreNumbered, Numbered, Described,
             OwnPhotos, Alone, KeysOf

\* What was submitted so far stays as sound as it was.
LEMMA SoundStays ==
  ASSUME DialogSound, odd \subseteq odd', odd' \subseteq {"overlap", "restart"}, bad' = bad
  PROVE  SubmissionsAreSound' /\ bad' \subseteq {"hollow", "foreign"}
BY DEF DialogSound, DialogTypeOK, SubmissionsAreSound

LEMMA RowsStay ==
  ASSUME DialogSound, row' = row
  PROVE  row' \in [Ads -> Status] /\ OneDraftOfTheDialog'
BY DEF DialogSound, DialogTypeOK, OneDraftOfTheDialog

\* A step of a task that leaves memory and history alone is sound if the task
\* it leaves is; ads and files may change.
LEMMA Quiet ==
  ASSUME DialogSound, NEW t \in Task, ~At(t, "off"),
         task' \in [Task -> TaskState], \A u \in Task \ {t} : task'[u] = task[u],
         TaskOK(t)', InTurn(t)',
         UNCHANGED <<memory, dialog, odd>>,
         row' \in [Ads -> Status], OneDraftOfTheDialog',
         staged' \subseteq Keys, pictured' \subseteq Ads, shown' \subseteq Step,
         SubmissionsAreSound', bad' \subseteq {"hollow", "foreign"}
  PROVE  DialogSound'
<1>1. odd \subseteq odd' /\ odd' \subseteq {"overlap", "restart"}
  BY DEF DialogSound, DialogTypeOK
<1>2. /\ step' \in Step \cup {"none"} /\ data' \in Data /\ dialog' \in [Keys -> Ads \cup {0}]
      /\ PhotosAreNumbered' /\ Described' /\ OwnPhotos'
  BY <1>1, MemoryKept
<1>3. OneAtATime' /\ \A u \in Task : TaskOK(u)' /\ InTurn(u)'  BY <1>1, OnlyOne
<1>4. DialogTypeOK'  BY <1>1, <1>2 DEF DialogTypeOK
<1> QED BY <1>2, <1>3, <1>4 DEF DialogSound

LEMMA Ended ==
  ASSUME DialogSound, NEW t \in Task, Done(t)
  PROVE  /\ task' \in [Task -> TaskState] /\ \A u \in Task \ {t} : task'[u] = task[u]
         /\ task'[t].at = "off" /\ TaskOK(t)' /\ InTurn(t)'
<1>1. task' = [task EXCEPT ![t] = Off] /\ task \in [Task -> TaskState]
  BY DEF Done, DialogSound, DialogTypeOK
<1>2. /\ task' \in [Task -> TaskState] /\ \A u \in Task \ {t} : task'[u] = task[u]
      /\ task'[t] = Off
  BY <1>1, OffIsTask
<1>3. task'[t].at = "off" /\ task'[t].does = "none"  BY <1>2, OffIsTask
<1>4. TaskOK(t)'  BY <1>3 DEF TaskOK, At, Does
<1>5. InTurn(t)'  BY <1>3 DEF InTurn, At, Does
<1> QED BY <1>2, <1>3, <1>4, <1>5

LEMMA Went ==
  ASSUME DialogSound, NEW t \in Task, Goto(t, "state") \/ Goto(t, "data") \/ Goto(t, "clear")
           \/ Goto(t, "write")
  PROVE  /\ task' \in [Task -> TaskState] /\ \A u \in Task \ {t} : task'[u] = task[u]
         /\ task'[t].does = task[t].does /\ task'[t].saw = task[t].saw
         /\ task'[t].new = task[t].new
<1>1. PICK pc \in {"state", "data", "clear", "write"} : task' = [task EXCEPT ![t].at = pc]
  BY DEF Goto
<1>2. task \in [Task -> TaskState]  BY DEF DialogSound, DialogTypeOK
<1> DEFINE e == [task[t] EXCEPT !.at = pc]
<1>3. /\ e \in TaskState /\ e.does = task[t].does /\ e.saw = task[t].saw
      /\ e.new = task[t].new
  BY <1>2 DEF TaskState
<1>4. task' = [task EXCEPT ![t] = e]  BY <1>1, <1>2
<1> QED BY <1>2, <1>3, <1>4

LEMMA WentTo ==
  ASSUME DialogSound, NEW t \in Task, NEW pc, Goto(t, pc)
  PROVE  task'[t].at = pc
BY DEF Goto, DialogSound, DialogTypeOK, TaskState

-----------------------------------------------------------------------------
(* Steps that leave the dialog's memory alone. *)

\* Nothing but the task moved.
OnlyTask == UNCHANGED <<memory, row, media, shown, odd, bad>>

LEMMA TaskMoves ==
  ASSUME DialogSound, NEW t \in Task, ~At(t, "off"), OnlyTask,
         task' \in [Task -> TaskState], \A u \in Task \ {t} : task'[u] = task[u],
         TaskOK(t)', InTurn(t)'
  PROVE  DialogSound'
<1>1. row' = row /\ bad' = bad /\ odd' = odd /\ UNCHANGED <<memory, dialog, odd>>
      /\ staged' = staged /\ pictured' = pictured /\ shown' = shown
  BY DEF OnlyTask, ghosts, media
<1>2. odd' \subseteq {"overlap", "restart"}  BY <1>1 DEF DialogSound, DialogTypeOK
<1>3. staged' \subseteq Keys /\ pictured' \subseteq Ads /\ shown' \subseteq Step
  BY <1>1 DEF DialogSound, DialogTypeOK
<1> QED BY <1>1, <1>2, <1>3, RowsStay, SoundStays, Quiet

LEMMA TaskEnds ==
  ASSUME DialogSound, NEW t \in Task, ~At(t, "off"), OnlyTask, Done(t)
  PROVE  DialogSound'
BY Ended, TaskMoves

LEMMA CopyNothingInv == ASSUME DialogSound, NEW t \in Task, CopyNothing(t) PROVE DialogSound'
<1>1. ~At(t, "off") /\ OnlyTask /\ Done(t)  BY DEF CopyNothing, At, OnlyTask, ghosts
<1> QED BY <1>1, TaskEnds

LEMMA RefuseInv == ASSUME DialogSound, NEW t \in Task, Refuse(t) PROVE DialogSound'
<1>1. ~At(t, "off") /\ OnlyTask /\ Done(t)  BY DEF Refuse, At, OnlyTask, ghosts
<1> QED BY <1>1, TaskEnds

LEMMA DieInv == ASSUME DialogSound, NEW t \in Task, Die(t) PROVE DialogSound'
<1>1. ~At(t, "off") /\ OnlyTask /\ Done(t)  BY DEF Die, At, OnlyTask, ghosts
<1> QED BY <1>1, TaskEnds

LEMMA RaiseInv == ASSUME DialogSound, NEW t \in Task, Raise(t) PROVE DialogSound'
<1>1. ~At(t, "off") /\ OnlyTask /\ Done(t)  BY DEF Raise, At, OnlyTask
<1> QED BY <1>1, TaskEnds

\* A task that clears next has nothing to remember.
LEMMA ToClear ==
  ASSUME DialogSound, NEW t \in Task, task'[t].at = "clear",
         task'[t].does = task[t].does
  PROVE  TaskOK(t)' /\ InTurn(t)'
<1>1. task[t].does \notin {"photos", "preview"}  BY DEF DialogSound, TaskOK
<1> QED BY <1>1 DEF TaskOK, InTurn, At, Does

LEMMA TellInv == ASSUME DialogSound, NEW t \in Task, Tell(t) PROVE DialogSound'
<1>1. ~At(t, "off") /\ OnlyTask /\ Goto(t, "clear")  BY DEF Tell, At, OnlyTask, ghosts
<1>2. task'[t].at = "clear"  BY <1>1, WentTo
<1> QED BY <1>1, <1>2, Went, ToClear, TaskMoves

LEMMA LookInv == ASSUME DialogSound, NEW t \in Task, Look(t) PROVE DialogSound'
<1>1. ~At(t, "off") /\ OnlyTask /\ Does(t, "cancel")  BY DEF Look, At, OnlyTask, ghosts
<1>2. task \in [Task -> TaskState] /\ data \in Data  BY DEF DialogSound, DialogTypeOK
<1>3. PICK pc \in {"delete", "clear"} :
        task' = [task EXCEPT ![t].saw = data, ![t].at = pc]
  BY DEF Look
<1> DEFINE e == [task[t] EXCEPT !.saw = data, !.at = pc]
<1>4. e \in TaskState /\ e.at = pc /\ e.does = task[t].does  BY <1>2 DEF TaskState
<1>5. task' = [task EXCEPT ![t] = e]  BY <1>2, <1>3
<1>6. /\ task' \in [Task -> TaskState] /\ \A u \in Task \ {t} : task'[u] = task[u]
      /\ task'[t].at \in {"delete", "clear"} /\ task'[t].does = "cancel"
  BY <1>1, <1>2, <1>4, <1>5 DEF Does
<1>7. TaskOK(t)' /\ InTurn(t)'  BY <1>6 DEF TaskOK, InTurn, At, Does
<1> QED BY <1>1, <1>6, <1>7, TaskMoves

LEMMA TakeAnswerInv == ASSUME DialogSound, NEW t \in Task, TakeAnswer(t) PROVE DialogSound'
<1>1. /\ At(t, "read") /\ task[t].does \in Step \ {"photos", "preview"}
      /\ Goto(t, "write") /\ OnlyTask
  BY DEF TakeAnswer, OnlyTask, ghosts
<1>2. /\ task' \in [Task -> TaskState] /\ \A u \in Task \ {t} : task'[u] = task[u]
      /\ task'[t].does = task[t].does
  BY <1>1, Went
<1>3. task'[t].at = "write"  BY <1>1, WentTo
<1>4. ~Does(t, "photo")  BY <1>1 DEF Step, Does
<1>5. TaskOK(t)'  BY <1>1, <1>2, <1>3, <1>4 DEF TaskOK, At, Does
<1>6. Alone => task[t].does \in Routed(step)  BY <1>1 DEF DialogSound, InTurn, At
<1>7. step' = step /\ shown' = shown /\ odd' = odd /\ ~At(t, "off")
  BY <1>1 DEF OnlyTask, memory, ghosts, At
<1>8. Routed(step)' = Routed(step) /\ Alone' = Alone  BY <1>7 DEF Routed, Alone
<1>9. InTurn(t)'  BY <1>2, <1>3, <1>4, <1>6, <1>8 DEF InTurn, At, Does
<1> QED BY <1>1, <1>2, <1>5, <1>7, <1>9, TaskMoves

LEMMA TakePhotoInv == ASSUME DialogSound, NEW t \in Task, TakePhoto(t) PROVE DialogSound'
<1>1. At(t, "read") /\ Does(t, "photo") /\ OnlyTask /\ ~At(t, "off")
  BY DEF TakePhoto, OnlyTask, At, ghosts
<1>2. CASE Done(t)  BY <1>1, <1>2, TaskEnds
<1>3. CASE /\ Len(data.photos) < MaxPhotos
           /\ task' = [task EXCEPT ![t].saw = data, ![t].at = "save"]
  <2> DEFINE e == [task[t] EXCEPT !.saw = data, !.at = "save"]
  <2>1. task \in [Task -> TaskState] /\ data \in Data  BY DEF DialogSound, DialogTypeOK
  <2>2. e \in TaskState /\ e.at = "save" /\ e.does = "photo" /\ e.saw = data
    BY <1>1, <2>1 DEF TaskState, Does
  <2>3. task' = [task EXCEPT ![t] = e]  BY <1>3, <2>1
  <2>4. /\ task' \in [Task -> TaskState] /\ \A u \in Task \ {t} : task'[u] = task[u]
        /\ task'[t].at = "save" /\ task'[t].does = "photo" /\ task'[t].saw = data
    BY <2>1, <2>2, <2>3
  <2>5. Numbered(data.photos)  BY DEF DialogSound, PhotosAreNumbered
  <2>6. TaskOK(t)'  BY <1>3, <2>4, <2>5 DEF TaskOK, At, Does, Numbered
  <2>7. step' = step /\ data' = data /\ shown' = shown /\ odd' = odd
    BY <1>1 DEF OnlyTask, memory, ghosts
  <2>8. Alone => "photo" \in Routed(step)  BY <1>1 DEF DialogSound, InTurn, At, Does
  <2>9. Routed(step)' = Routed(step) /\ Alone' = Alone  BY <2>7 DEF Routed, Alone
  <2>10. InTurn(t)'  BY <2>4, <2>7, <2>8, <2>9 DEF InTurn, At, Does
  <2> QED BY <1>1, <2>4, <2>6, <2>10, TaskMoves
<1> QED BY <1>2, <1>3 DEF TakePhoto

\* At the end of a preview the dialog is where it is.
LEMMA Previewing ==
  ASSUME DialogSound, NEW t \in Task, Alone,
         At(t, "submit") \/ At(t, "fresh")
         \/ (At(t, "read") /\ Does(t, "confirm"))
  PROVE  step = "preview"
<1>1. CASE At(t, "read") /\ Does(t, "confirm")
  <2>1. "confirm" \in Routed(step)  BY <1>1 DEF DialogSound, InTurn, At, Does
  <2> QED BY <2>1 DEF Routed, DialogSound, DialogTypeOK, Step
<1> QED BY <1>1 DEF DialogSound, InTurn, At

LEMMA ReadAllInv == ASSUME DialogSound, NEW t \in Task, ReadAll(t) PROVE DialogSound'
<1>1. At(t, "read") /\ Does(t, "confirm") /\ OnlyTask /\ ~At(t, "off")
  BY DEF ReadAll, OnlyTask, At
<1>2. CASE data.ad = 0
  <2>1. Done(t)  BY <1>2 DEF ReadAll, Done
  <2> QED BY <1>1, <2>1, TaskEnds
<1>3. CASE data.ad # 0
  <2> DEFINE e == [task[t] EXCEPT !.at = "submit", !.saw = data]
  <2>1. task \in [Task -> TaskState] /\ data \in Data  BY DEF DialogSound, DialogTypeOK
  <2>2. e \in TaskState /\ e.at = "submit" /\ e.does = "confirm" /\ e.saw = data
    BY <1>1, <2>1 DEF TaskState, Does
  <2>3. task' = [task EXCEPT ![t] = e]  BY <1>3, <2>1 DEF ReadAll
  <2>4. /\ task' \in [Task -> TaskState] /\ \A u \in Task \ {t} : task'[u] = task[u]
        /\ task'[t].at = "submit" /\ task'[t].does = "confirm" /\ task'[t].saw = data
    BY <2>1, <2>2, <2>3
  <2>5. TaskOK(t)'  BY <1>3, <2>4 DEF TaskOK, At, Does
  <2>6. Alone => step = "preview"  BY <1>1, Previewing
  <2>7. step' = step /\ data' = data /\ odd' = odd  BY <1>1 DEF OnlyTask, memory, ghosts
  <2>8. InTurn(t)'  BY <2>4, <2>6, <2>7 DEF InTurn, Alone, At, Does
  <2> QED BY <1>1, <2>4, <2>5, <2>8, TaskMoves
<1> QED BY <1>2, <1>3

LEMMA ShowButtonsInv == ASSUME DialogSound, NEW t \in Task, ShowButtons(t) PROVE DialogSound'
<1>1. ~At(t, "off") /\ Done(t) /\ row' = row /\ bad' = bad /\ UNCHANGED <<memory, dialog, odd>>
      /\ shown' = shown \cup {task[t].does}
  BY DEF ShowButtons, At, ghosts, media
<1>2. staged' \subseteq Keys /\ pictured' \subseteq Ads
      /\ odd' \subseteq {"overlap", "restart"}
  BY DEF ShowButtons, DialogSound, DialogTypeOK, media, ghosts
<1>3. task[t].does \in Step  BY DEF ShowButtons, DialogSound, TaskOK
<1>4. shown' \subseteq Step  BY <1>1, <1>3 DEF DialogSound, DialogTypeOK
<1> QED BY <1>1, <1>2, <1>4, Ended, RowsStay, SoundStays, Quiet

-----------------------------------------------------------------------------
(* Steps that change the ads. *)

LEMMA DeleteDraftInv == ASSUME DialogSound, NEW t \in Task, DeleteDraft(t) PROVE DialogSound'
<1>1. /\ ~At(t, "off") /\ Goto(t, "clear") /\ UNCHANGED <<memory, dialog, odd>>
      /\ bad' = bad /\ shown' = shown /\ pictured' = pictured
      /\ staged' = staged \ KeysOf(task[t].saw.photos)
      /\ row' = [row EXCEPT ![task[t].saw.ad] = IF @ = "draft" THEN "gone" ELSE @]
  BY DEF DeleteDraft, At, ghosts
<1>2. /\ row \in [Ads -> Status] /\ staged' \subseteq Keys /\ pictured' \subseteq Ads
      /\ shown' \subseteq Step /\ odd' \subseteq {"overlap", "restart"}
  BY <1>1 DEF DialogSound, DialogTypeOK
<1>3. row' \in [Ads -> Status] /\ \A a \in Ads : row'[a] = "draft" => row[a] = "draft"
  BY <1>1, <1>2 DEF Status
<1>4. OneDraftOfTheDialog'  BY <1>3 DEF DialogSound, OneDraftOfTheDialog
<1>5. task'[t].at = "clear"  BY <1>1, WentTo
<1>6. SubmissionsAreSound' /\ bad' \subseteq {"hollow", "foreign"}
  BY <1>1, <1>2, SoundStays
<1> QED BY <1>1, <1>2, <1>3, <1>4, <1>5, <1>6, Went, ToClear, Quiet

\* The new draft is the only one.
LEMMA FreshDraft ==
  ASSUME DialogSound, NEW a \in Ads, NewDraft(a)
  PROVE  row' \in [Ads -> Status] /\ OneDraftOfTheDialog'
<1>1. row \in [Ads -> Status]  BY DEF DialogSound, DialogTypeOK
<1>2. row' \in [Ads -> Status] /\ \A b \in Ads : row'[b] = "draft" => b = a
  BY <1>1 DEF NewDraft, Status
<1> QED BY <1>2 DEF OneDraftOfTheDialog

LEMMA TakesFreeAd ==
  ASSUME FreeAds # {}
  PROVE  Some(FreeAds) \in Ads
BY OptionIsMember DEF FreeAds

LEMMA CreateInv == ASSUME DialogSound, NEW t \in Task, Create(t) PROVE DialogSound'
<1> DEFINE a == Some(FreeAds)
           e == [task[t] EXCEPT !.at = "state", !.new = a]
<1>1. /\ At(t, "read") /\ task[t].does \in {"post", "copy"} /\ a \in Ads /\ NewDraft(a)
      /\ task' = [task EXCEPT ![t].at = "state", ![t].new = a]
      /\ pictured' = Copied(t, a) /\ UNCHANGED <<memory, dialog, odd>>
      /\ bad' = bad /\ shown' = shown /\ staged' = staged
  BY TakesFreeAd DEF Create, ghosts
<1> HIDE DEF a
<1>2. /\ task \in [Task -> TaskState] /\ staged' \subseteq Keys /\ pictured' \subseteq Ads
      /\ shown' \subseteq Step /\ odd' \subseteq {"overlap", "restart"}
  BY <1>1 DEF DialogSound, DialogTypeOK, Copied
<1>3. e \in TaskState /\ e.at = "state" /\ e.does = task[t].does /\ e.new = a
  BY <1>1, <1>2 DEF TaskState
<1>4. task' = [task EXCEPT ![t] = e]  BY <1>1, <1>2
<1>5. /\ task' \in [Task -> TaskState] /\ \A u \in Task \ {t} : task'[u] = task[u]
      /\ task'[t].at = "state" /\ task'[t].does \in {"post", "copy"} /\ task'[t].new \in Ads
  BY <1>1, <1>2, <1>3, <1>4
<1>6. TaskOK(t)' /\ InTurn(t)'  BY <1>5 DEF TaskOK, InTurn, At, Does
<1>7. ~At(t, "off")  BY <1>1 DEF At
<1>8. SubmissionsAreSound' /\ bad' \subseteq {"hollow", "foreign"}
  BY <1>1, <1>2, SoundStays
<1> QED BY <1>1, <1>2, <1>5, <1>6, <1>7, <1>8, FreshDraft, Quiet

LEMMA ReplaceInv == ASSUME DialogSound, NEW t \in Task, Replace(t) PROVE DialogSound'
<1> DEFINE a == Some(FreeAds)
<1>1. /\ At(t, "fresh") /\ a \in Ads /\ NewDraft(a) /\ Done(t)
      /\ UNCHANGED <<memory, dialog, odd>>
      /\ bad' = bad /\ shown' = shown /\ staged' = staged /\ pictured' = pictured
  BY TakesFreeAd DEF Replace, media
<1> HIDE DEF a
<1>2. /\ staged' \subseteq Keys /\ pictured' \subseteq Ads /\ shown' \subseteq Step
      /\ odd' \subseteq {"overlap", "restart"} /\ ~At(t, "off")
  BY <1>1 DEF DialogSound, DialogTypeOK, At
<1>3. SubmissionsAreSound' /\ bad' \subseteq {"hollow", "foreign"}
  BY <1>1, <1>2, SoundStays
<1> QED BY <1>1, <1>2, <1>3, Ended, FreshDraft, Quiet

\* After the verdict the seller is told, or a fresh draft is made.
LEMMA Judged ==
  ASSUME DialogSound, NEW t \in Task, At(t, "submit"), step' = step, odd' = odd,
         NEW outcome \in {"published", "failed", "consent", "invalid", "photo", "gone"},
         Outcome(t, outcome)
  PROVE  /\ task' \in [Task -> TaskState] /\ \A u \in Task \ {t} : task'[u] = task[u]
         /\ TaskOK(t)' /\ InTurn(t)' /\ ~At(t, "off")
<1> DEFINE pc == IF outcome \in {"published", "failed", "consent"} THEN "told" ELSE "fresh"
           e == [task[t] EXCEPT !.outcome = outcome, !.at = pc]
<1>1. task \in [Task -> TaskState] /\ pc \in {"told", "fresh"}
  BY DEF DialogSound, DialogTypeOK
<1>2. task' = [task EXCEPT ![t].outcome = outcome, ![t].at = pc]  BY DEF Outcome
<1> HIDE DEF pc
<1>3. e \in TaskState /\ e.at = pc /\ e.does = task[t].does
  BY <1>1 DEF TaskState
<1>4. task' = [task EXCEPT ![t] = e]  BY <1>1, <1>2
<1>5. /\ task' \in [Task -> TaskState] /\ \A u \in Task \ {t} : task'[u] = task[u]
      /\ task'[t].at \in {"told", "fresh"} /\ task'[t].does = task[t].does
  BY <1>1, <1>3, <1>4
<1>6. task[t].does \notin {"photos", "preview"}  BY DEF DialogSound, TaskOK
<1>7. TaskOK(t)'  BY <1>5, <1>6 DEF TaskOK, At, Does
<1>8. Alone => step = "preview"  BY Previewing
<1>9. InTurn(t)'  BY <1>5, <1>8 DEF InTurn, Alone, At, Does
<1> QED BY <1>5, <1>7, <1>9 DEF At

LEMMA ModerateInv == ASSUME DialogSound, NEW t \in Task, Moderate(t) PROVE DialogSound'
<1> DEFINE saw == task[t].saw
<1>1. PICK verdict \in {"published", "failed"} :
        /\ At(t, "submit") /\ Outcome(t, verdict) /\ bad' = bad \cup Flaws(saw)
        /\ row' = [row EXCEPT ![saw.ad] = IF verdict = "failed" THEN "failed" ELSE "public"]
        /\ UNCHANGED <<memory, dialog, odd>> /\ shown' = shown
        /\ staged' = staged \ KeysOf(saw.photos) /\ pictured' = Illustrated(saw)
        /\ row[saw.ad] = "draft" \/ row[saw.ad] = "public"
  BY DEF Moderate
<1>2. /\ row \in [Ads -> Status] /\ staged' \subseteq Keys /\ shown' \subseteq Step
      /\ odd' \subseteq {"overlap", "restart"} /\ task[t].saw \in Data
  BY <1>1 DEF DialogSound, DialogTypeOK, TaskState
<1>3. /\ row' \in [Ads -> Status]
      /\ \A a \in Ads : row'[a] = "draft" => row[a] = "draft"
  BY <1>1, <1>2 DEF Status
<1>4. OneDraftOfTheDialog'  BY <1>3 DEF DialogSound, OneDraftOfTheDialog
<1>5. pictured' \subseteq Ads
  <2>1. CASE saw.photos = <<>>
    BY <1>1, <2>1 DEF Illustrated, DialogSound, DialogTypeOK
  <2>2. CASE saw.photos # <<>>
    <3>1. saw.ad \in Ads \cup {0}  BY <1>2 DEF Data
    <3>2. saw.ad # 0  BY <1>1 DEF DialogSound, TaskOK
    <3> QED BY <1>1, <2>2, <3>1, <3>2 DEF Illustrated, DialogSound, DialogTypeOK
  <2> QED BY <2>1, <2>2
<1>6. Alone => saw = data /\ step = "preview" /\ data.typed = "yes"
  BY <1>1, Previewing DEF DialogSound, InTurn, Described, At
<1>7. odd = {} => Alone  BY DEF Alone
<1>8. /\ Flaws(saw) \subseteq {"hollow", "foreign"}
      /\ Alone => "hollow" \notin Flaws(saw)
      /\ odd = {} => "foreign" \notin Flaws(saw)
  <2>1. Flaws(saw) \subseteq {"hollow", "foreign"}  BY DEF Flaws
  <2>2. Alone => "hollow" \notin Flaws(saw)  BY <1>6 DEF Flaws
  <2>3. ASSUME odd = {} PROVE "foreign" \notin Flaws(saw)
    <3>1. \A k \in KeysOf(saw.photos) : dialog[k] = saw.begun
      BY <1>6, <1>7, <2>3 DEF DialogSound, OwnPhotos
    <3> QED BY <3>1 DEF Flaws
  <2> QED BY <2>1, <2>2, <2>3
<1>9. SubmissionsAreSound' /\ bad' \subseteq {"hollow", "foreign"}
  BY <1>1, <1>8 DEF SubmissionsAreSound, Alone, DialogSound, DialogTypeOK
<1>10. step' = step /\ odd' = odd  BY <1>1 DEF memory
<1>11. /\ task' \in [Task -> TaskState] /\ \A u \in Task \ {t} : task'[u] = task[u]
       /\ TaskOK(t)' /\ InTurn(t)' /\ ~At(t, "off")
  BY <1>1, <1>10, Judged
<1> QED BY <1>1, <1>2, <1>3, <1>4, <1>5, <1>9, <1>11, Quiet

LEMMA UnmoderatedInv == ASSUME DialogSound, NEW t \in Task, Unmoderated(t) PROVE DialogSound'
<1> DEFINE saw == task[t].saw
<1>1. /\ At(t, "submit") /\ Outcome(t, "invalid") /\ row' = row /\ bad' = bad
      /\ UNCHANGED <<memory, dialog, odd>> /\ shown' = shown /\ staged' = staged
      /\ pictured' = Illustrated(saw)
  BY DEF Unmoderated, ghosts
<1>2. /\ staged' \subseteq Keys /\ shown' \subseteq Step
      /\ odd' \subseteq {"overlap", "restart"} /\ task[t].saw \in Data
  BY <1>1 DEF DialogSound, DialogTypeOK, TaskState
<1>3. pictured' \subseteq Ads
  <2>1. CASE saw.photos = <<>>
    BY <1>1, <2>1 DEF Illustrated, DialogSound, DialogTypeOK
  <2>2. CASE saw.photos # <<>>
    <3>1. saw.ad \in Ads \cup {0}  BY <1>2 DEF Data
    <3>2. saw.ad # 0  BY <1>1 DEF DialogSound, TaskOK
    <3> QED BY <1>1, <2>2, <3>1, <3>2 DEF Illustrated, DialogSound, DialogTypeOK
  <2> QED BY <2>1, <2>2
<1>4. step' = step /\ odd' = odd  BY <1>1 DEF memory
<1>5. /\ task' \in [Task -> TaskState] /\ \A u \in Task \ {t} : task'[u] = task[u]
      /\ TaskOK(t)' /\ InTurn(t)' /\ ~At(t, "off")
  BY <1>1, <1>4, Judged
<1> QED BY <1>1, <1>2, <1>3, <1>5, RowsStay, SoundStays, Quiet

LEMMA NoVerdictInv == ASSUME DialogSound, NEW t \in Task, NoVerdict(t) PROVE DialogSound'
<1>1. PICK outcome \in {"consent", "photo", "gone"} : Outcome(t, outcome)
  BY DEF NoVerdict
<1>2. At(t, "submit") /\ OnlyTask  BY DEF NoVerdict, OnlyTask, ghosts
<1>3. step' = step /\ odd' = odd  BY <1>2 DEF OnlyTask, memory, ghosts
<1> QED BY <1>1, <1>2, <1>3, Judged, TaskMoves

-----------------------------------------------------------------------------
(* Steps that write the dialog's memory. *)

LEMMA Remembered ==
  ASSUME DialogSound, NEW t \in Task, ~At(t, "off"),
         task' \in [Task -> TaskState], \A u \in Task \ {t} : task'[u] = task[u],
         TaskOK(t)', InTurn(t)', UNCHANGED <<row, shown, pictured, bad>>,
         staged' \subseteq Keys, odd \subseteq odd', odd' \subseteq {"overlap", "restart"},
         step' \in Step \cup {"none"}, data' \in Data, dialog' \in [Keys -> Ads \cup {0}],
         PhotosAreNumbered', Described', OwnPhotos'
  PROVE  DialogSound'
<1>1. OneAtATime' /\ \A u \in Task : TaskOK(u)' /\ InTurn(u)'  BY OnlyOne
<1>2. row' \in [Ads -> Status] /\ OneDraftOfTheDialog'  BY RowsStay
<1>3. SubmissionsAreSound' /\ bad' \subseteq {"hollow", "foreign"}  BY SoundStays
<1>4. pictured' \subseteq Ads /\ shown' \subseteq Step  BY DEF DialogSound, DialogTypeOK
<1>5. DialogTypeOK'  BY <1>2, <1>3, <1>4 DEF DialogTypeOK
<1> QED BY <1>1, <1>2, <1>3, <1>5 DEF DialogSound

\* What is known of the memory before the step.
LEMMA Memory ==
  ASSUME DialogSound
  PROVE  /\ step \in Step \cup {"none"} /\ data \in Data /\ data.photos \in Seq(Photo)
         /\ Numbered(data.photos) /\ staged \subseteq Keys
         /\ dialog \in [Keys -> Ads \cup {0}] /\ odd \subseteq {"overlap", "restart"}
         /\ task \in [Task -> TaskState] /\ Described /\ OwnPhotos
BY DEF DialogSound, DialogTypeOK, PhotosAreNumbered, Data

\* A shorter memory of the same photos is numbered and of its own.
LEMMA SamePhotos ==
  ASSUME DialogSound, data'.photos = data.photos, data'.begun = data.begun,
         dialog' = dialog, odd \subseteq odd'
  PROVE  PhotosAreNumbered' /\ OwnPhotos'
BY DEF DialogSound, PhotosAreNumbered, Numbered, OwnPhotos, KeysOf

LEMMA NoPhotos ==
  ASSUME data'.photos = <<>>
  PROVE  PhotosAreNumbered' /\ OwnPhotos'
<1>1. Len(data'.photos) = 0 /\ DOMAIN data'.photos = {}  OBVIOUS
<1>2. PhotosAreNumbered'  BY <1>1, Bounds DEF PhotosAreNumbered, Numbered
<1>3. OwnPhotos'  BY <1>1 DEF OwnPhotos, KeysOf
<1> QED BY <1>2, <1>3

LEMMA SetStateInv == ASSUME DialogSound, NEW t \in Task, SetState(t) PROVE DialogSound'
<1>1. /\ At(t, "state") /\ Goto(t, "data") /\ UNCHANGED <<row, shown, pictured, bad>>
      /\ data' = data /\ dialog' = dialog /\ staged' = staged /\ ~At(t, "off")
      /\ step' \in {"purpose", "category"}
  BY DEF SetState, media, At
<1>2. /\ odd' = IF step # "none" \/ data # NoData THEN odd \cup {"restart"} ELSE odd
  BY DEF SetState
<1>3. /\ odd \subseteq odd' /\ odd' \subseteq {"overlap", "restart"}
      /\ odd' = {} => data' = NoData
  BY <1>1, <1>2, Memory
<1>4. step' \in Step \cup {"none"} /\ step' \notin {"price", "photos", "preview"}
  BY <1>1 DEF Step
<1>5. Described'  BY <1>4 DEF Described
<1>6. PhotosAreNumbered' /\ OwnPhotos'  BY <1>1, <1>3, SamePhotos
<1>7. /\ task' \in [Task -> TaskState] /\ \A u \in Task \ {t} : task'[u] = task[u]
      /\ task'[t].at = "data" /\ task'[t].does = task[t].does /\ task'[t].new = task[t].new
  BY <1>1, Went, WentTo
<1>8. task[t].does \in {"post", "copy"} /\ task[t].new \in Ads
  BY <1>1 DEF DialogSound, TaskOK
<1>9. TaskOK(t)'  BY <1>7, <1>8 DEF TaskOK, At, Does
<1>10. InTurn(t)'  BY <1>3, <1>7 DEF InTurn, At
<1>11. data' \in Data /\ staged' \subseteq Keys /\ dialog' \in [Keys -> Ads \cup {0}]
  BY <1>1, Memory
<1> QED BY <1>1, <1>3, <1>4, <1>5, <1>6, <1>7, <1>9, <1>10, <1>11, Remembered

LEMMA ClearInv == ASSUME DialogSound, NEW t \in Task, Clear(t) PROVE DialogSound'
<1>1. /\ ~At(t, "off") /\ Done(t) /\ UNCHANGED <<row, shown, pictured, bad>>
      /\ step' = "none" /\ data' = NoData /\ dialog' = dialog /\ staged' = staged
      /\ odd' = odd
  BY DEF Clear, media, ghosts, At
<1>2. /\ data' \in Data /\ data'.photos = <<>> /\ staged' \subseteq Keys
      /\ dialog' \in [Keys -> Ads \cup {0}] /\ odd' \subseteq {"overlap", "restart"}
  BY <1>1, Memory, OffIsTask
<1>3. Described'  BY <1>1 DEF Described
<1>4. odd \subseteq odd' /\ step' \in Step \cup {"none"}  BY <1>1
<1>5. PhotosAreNumbered' /\ OwnPhotos'  BY <1>2, NoPhotos
<1> QED BY <1>1, <1>2, <1>3, <1>4, <1>5, Ended, Remembered

LEMMA SetDataInv == ASSUME DialogSound, NEW t \in Task, SetData(t) PROVE DialogSound'
<1> DEFINE yes == IF Does(t, "copy") THEN "yes" ELSE data.typed
           d == [data EXCEPT !.ad = task[t].new, !.begun = task[t].new, !.typed = yes]
<1>1. /\ At(t, "data") /\ ~At(t, "off") /\ Done(t) /\ UNCHANGED <<row, shown, pictured, bad>>
      /\ step' = step /\ dialog' = dialog /\ staged' = staged /\ odd' = odd /\ data' = d
  BY DEF SetData, media, ghosts, At
<1>2. yes \in {"yes", "no"} /\ (data.typed = "yes" => yes = "yes")
  BY Memory DEF Data
<1>3. task[t].new \in Ads  BY <1>1 DEF DialogSound, TaskOK
<1> HIDE DEF yes
<1>4. d \in Data /\ d.photos = data.photos /\ d.typed = yes
  BY <1>2, <1>3, Memory DEF Data
<1>5. Described'  BY <1>1, <1>2, <1>4, Memory DEF Described, Alone
<1>6. PhotosAreNumbered'  BY <1>1, <1>4, Memory DEF PhotosAreNumbered, Numbered
<1>7. odd = {} => data.photos = <<>>
  BY <1>1, OffIsTask DEF DialogSound, InTurn
<1>8. OwnPhotos'
  <2>1. CASE odd = {}
    <3>1. data'.photos = <<>>  BY <1>1, <1>4, <1>7, <2>1
    <3> QED BY <3>1, NoPhotos
  <2> QED BY <1>1, <2>1 DEF OwnPhotos
<1>9. /\ odd \subseteq odd' /\ odd' \subseteq {"overlap", "restart"} /\ data' \in Data
      /\ step' \in Step \cup {"none"} /\ staged' \subseteq Keys
      /\ dialog' \in [Keys -> Ads \cup {0}]
  BY <1>1, <1>4, Memory
<1> QED BY <1>1, <1>5, <1>6, <1>8, <1>9, Ended, Remembered

\* In sequence, a text is the answer to the step the dialog is in.
LEMMA TextOfStep ==
  ASSUME DialogSound, NEW t \in Task, Alone, At(t, "write"),
         task[t].does \in {"price", "description"}
  PROVE  step = task[t].does
<1>1. task[t].does \in Routed(step)  BY DEF DialogSound, InTurn, At
<1>2. step \in Step \cup {"none"}  BY Memory
<1> QED BY <1>1, <1>2 DEF Routed, Step

\* Photos, and what comes after them, follow a price; a price a description.
LEMMA AfterTexts ==
  ASSUME NEW s \in Step \ {"photos", "preview"}, NEW n \in Following(s)
  PROVE  /\ n \in Step /\ n # "preview"
         /\ n = "photos" => s = "price"
         /\ n = "price" => s = "description"
BY DEF Following, Step, AfterCategory, AfterPurpose, AfterCondition, AfterFeatures,
  AfterCity, AfterTitle, AfterDescription, AfterPrice, ConditionOrLater, FeaturesOrCity

LEMMA ProceedInv == ASSUME DialogSound, NEW t \in Task, Proceed(t) PROVE DialogSound'
<1> DEFINE s == task[t].does
           d == [data EXCEPT !.typed = "yes"]
<1>1. /\ At(t, "write") /\ ~At(t, "off") /\ s \in Step /\ step' \in Following(s)
      /\ UNCHANGED <<row, shown, pictured, bad>> /\ dialog' = dialog
      /\ staged' = staged /\ odd' = odd
      /\ data' = IF s = "description" THEN d ELSE data
  BY DEF Proceed, media, ghosts, At, Does
<1>2. s \in Step \ {"photos", "preview"}  BY <1>1 DEF DialogSound, TaskOK
<1>3. /\ step' \in Step /\ step' # "preview" /\ (step' = "photos" => s = "price")
      /\ (step' = "price" => s = "description")
  BY <1>1, <1>2, AfterTexts
<1>4. d \in Data /\ d.photos = data.photos /\ d.begun = data.begun /\ d.typed = "yes"
  BY Memory DEF Data
<1>5. /\ data' \in Data /\ data'.photos = data.photos /\ data'.begun = data.begun
      /\ (s = "description" => data'.typed = "yes") /\ (s # "description" => data' = data)
  BY <1>1, <1>4, Memory
<1>6. PhotosAreNumbered' /\ OwnPhotos'  BY <1>1, <1>5, SamePhotos
<1>7. Alone /\ s = "price" => data.typed = "yes"
  BY <1>1, TextOfStep, Memory DEF Described
<1>8. Described'  BY <1>1, <1>3, <1>5, <1>7 DEF Described, Alone
<1>9. /\ odd \subseteq odd' /\ odd' \subseteq {"overlap", "restart"} /\ staged' \subseteq Keys
      /\ dialog' \in [Keys -> Ads \cup {0}]
  BY <1>1, Memory
<1>10. CASE Done(t)
  BY <1>1, <1>3, <1>5, <1>6, <1>8, <1>9, <1>10, Ended, Remembered
<1>11. CASE /\ step' \in {"purpose", "condition", "features"}
            /\ task' = [task EXCEPT ![t].at = "buttons", ![t].does = step']
  <2> DEFINE n == step'
             e == [task[t] EXCEPT !.at = "buttons", !.does = n]
  <2>1. n \in {"purpose", "condition", "features"} /\ task \in [Task -> TaskState]
    BY <1>11, Memory
  <2>2. task' = [task EXCEPT ![t].at = "buttons", ![t].does = n]  BY <1>11
  <2> HIDE DEF n
  <2>3. e \in TaskState /\ e.at = "buttons" /\ e.does = n
    BY <2>1 DEF TaskState, Step
  <2>4. task' = [task EXCEPT ![t] = e]  BY <2>1, <2>2
  <2>5. /\ task' \in [Task -> TaskState] /\ \A u \in Task \ {t} : task'[u] = task[u]
        /\ task'[t].at = "buttons" /\ task'[t].does \in {"purpose", "condition", "features"}
    BY <2>1, <2>3, <2>4
  <2>6. TaskOK(t)' /\ InTurn(t)'  BY <2>5 DEF TaskOK, InTurn, At, Does, Step
  <2> QED BY <1>1, <1>3, <1>5, <1>6, <1>8, <1>9, <2>5, <2>6, Remembered
<1> QED BY <1>10, <1>11 DEF Proceed

LEMMA KeepPhotoInv == ASSUME DialogSound, NEW t \in Task, KeepPhoto(t) PROVE DialogSound'
<1> DEFINE k == task[t].new
           old == task[t].saw.photos
           new == Append(old, [key |-> k, position |-> Len(old)])
           d == [data EXCEPT !.photos = new]
<1>1. /\ At(t, "write") /\ Does(t, "photo") /\ ~At(t, "off") /\ Done(t)
      /\ UNCHANGED <<row, shown, pictured, bad>> /\ dialog' = dialog /\ step' = step
      /\ staged' = staged /\ odd' = odd /\ data' = d
  BY DEF KeepPhoto, Appended, media, ghosts, At, Does
<1>2. k \in Keys /\ Numbered(old) /\ Len(old) < MaxPhotos
  BY <1>1 DEF DialogSound, TaskOK, At, Does
<1>3. old \in Seq(Photo)  BY Memory DEF TaskState, Data
<1>4. [key |-> k, position |-> Len(old)] \in Photo  BY <1>2, <1>3 DEF Photo
<1> HIDE DEF k, old
<1>5. /\ new \in Seq(Photo) /\ Len(new) = Len(old) + 1
      /\ \A i \in 1 .. Len(old) : new[i] = old[i]
      /\ new[Len(old) + 1] = [key |-> k, position |-> Len(old)]
  BY <1>3, <1>4
<1>6. Len(old) \in Nat /\ DOMAIN old = 1 .. Len(old) /\ DOMAIN new = 1 .. Len(old) + 1
  BY <1>3, <1>5
<1>7. Numbered(new)
  <2>1. Len(new) <= MaxPhotos  BY <1>2, <1>5, <1>6, Bounds
  <2>2. ASSUME NEW i \in DOMAIN new PROVE new[i].position = i - 1
    <3>1. CASE i = Len(old) + 1  BY <1>5, <3>1, <1>6
    <3>2. CASE i # Len(old) + 1
      <4>1. i \in 1 .. Len(old)  BY <1>6, <3>2
      <4> QED BY <4>1, <1>2, <1>5, <1>6 DEF Numbered
    <3> QED BY <3>1, <3>2
  <2> QED BY <2>1, <2>2 DEF Numbered
<1> HIDE DEF new
<1>8. /\ d \in Data /\ d.photos = new /\ d.begun = data.begun /\ d.typed = data.typed
  BY <1>5, Memory DEF Data
<1>9. PhotosAreNumbered'  BY <1>1, <1>7, <1>8 DEF PhotosAreNumbered
<1>10. Described'  BY <1>1, <1>8, Memory DEF Described, Alone
<1>11. OwnPhotos'
  <2>1. CASE odd # {}  BY <1>1, <2>1 DEF OwnPhotos
  <2>2. CASE odd = {}
    <3>1. old = data.photos /\ dialog[k] = data.begun
      BY <1>1, <2>2 DEF DialogSound, InTurn, Alone, old, k
    <3>2. \A j \in KeysOf(old) : dialog[j] = data.begun
      BY <2>2, <3>1, Memory DEF OwnPhotos
    <3>3. ASSUME NEW j \in KeysOf(new) PROVE j = k \/ j \in KeysOf(old)
      <4>1. PICK i \in DOMAIN new : j = new[i].key  BY DEF KeysOf
      <4>2. CASE i = Len(old) + 1  BY <4>1, <4>2, <1>5, <1>6
      <4>3. CASE i # Len(old) + 1
        <5>1. i \in DOMAIN old /\ new[i] = old[i]  BY <4>3, <1>5, <1>6
        <5> QED BY <4>1, <5>1 DEF KeysOf
      <4> QED BY <4>2, <4>3
    <3> QED BY <1>1, <1>8, <3>1, <3>2, <3>3 DEF OwnPhotos
  <2> QED BY <2>1, <2>2
<1>12. /\ odd \subseteq odd' /\ odd' \subseteq {"overlap", "restart"} /\ staged' \subseteq Keys
       /\ dialog' \in [Keys -> Ads \cup {0}] /\ data' \in Data /\ step' \in Step \cup {"none"}
  BY <1>1, <1>8, Memory
<1> QED BY <1>1, <1>9, <1>10, <1>11, <1>12, Ended, Remembered

LEMMA SavePhotoInv == ASSUME DialogSound, NEW t \in Task, SavePhoto(t) PROVE DialogSound'
<1> DEFINE k == Some(Keys \ UsedKeys)
           e == [task[t] EXCEPT !.at = "write", !.new = k]
<1>1. /\ At(t, "save") /\ ~At(t, "off") /\ UNCHANGED <<row, shown, pictured, bad>>
      /\ step' = step /\ data' = data /\ odd' = odd /\ staged' = staged \cup {k}
      /\ dialog' = [dialog EXCEPT ![k] = task[t].saw.begun]
      /\ task' = [task EXCEPT ![t].at = "write", ![t].new = k]
  BY DEF SavePhoto, memory, ghosts, At
<1>2. k \in Keys \ UsedKeys  BY OptionIsMember DEF SavePhoto
<1> HIDE DEF k
<1>3. Does(t, "photo") /\ Numbered(task[t].saw.photos) /\ Len(task[t].saw.photos) < MaxPhotos
  BY <1>1 DEF DialogSound, TaskOK
<1>4. task[t].saw \in Data /\ task[t].saw.begun \in Ads \cup {0}
  BY Memory DEF TaskState, Data
<1>5. e \in TaskState /\ e.at = "write" /\ e.does = "photo" /\ e.saw = task[t].saw /\ e.new = k
  BY <1>2, <1>3, Memory DEF TaskState, Does
<1>6. task' = [task EXCEPT ![t] = e]  BY <1>1, Memory
<1>7. /\ task' \in [Task -> TaskState] /\ \A u \in Task \ {t} : task'[u] = task[u]
      /\ task'[t].at = "write" /\ task'[t].does = "photo" /\ task'[t].saw = task[t].saw
      /\ task'[t].new = k
  BY <1>5, <1>6, Memory
<1>8. TaskOK(t)'  BY <1>2, <1>3, <1>7 DEF TaskOK, At, Does, Numbered
<1>9. Alone => "photo" \in Routed(step) /\ task[t].saw = data
  BY <1>1, <1>3 DEF DialogSound, InTurn, At, Does
<1>10. Routed(step)' = Routed(step) /\ Alone' = Alone  BY <1>1 DEF Routed, Alone
<1>11. dialog'[k] = task[t].saw.begun  BY <1>1, <1>2, Memory
<1>12. InTurn(t)'
  BY <1>1, <1>7, <1>9, <1>10, <1>11 DEF InTurn, Alone, At, Does
<1>13. k \notin KeysOf(data.photos)  BY <1>2 DEF UsedKeys
<1>14. OwnPhotos'  BY <1>1, <1>13, Memory DEF OwnPhotos, KeysOf
<1>15. PhotosAreNumbered' /\ Described'
  BY <1>1, Memory DEF PhotosAreNumbered, Numbered, Described, Alone
<1>16. /\ odd \subseteq odd' /\ odd' \subseteq {"overlap", "restart"} /\ staged' \subseteq Keys
       /\ dialog' \in [Keys -> Ads \cup {0}] /\ data' \in Data /\ step' \in Step \cup {"none"}
  BY <1>1, <1>2, <1>4, Memory
<1> QED BY <1>1, <1>7, <1>8, <1>12, <1>14, <1>15, <1>16, Remembered

LEMMA FinishPhotosInv == ASSUME DialogSound, NEW t \in Task, FinishPhotos(t) PROVE DialogSound'
<1>1. Does(t, "done") /\ UNCHANGED <<data, row, media, shown, ghosts>>
  BY DEF FinishPhotos
<1>2. CASE At(t, "read") /\ UNCHANGED step
  <2>1. ~At(t, "off") /\ OnlyTask  BY <1>1, <1>2 DEF OnlyTask, memory, ghosts, At
  <2>2. CASE Done(t)  BY <2>1, <2>2, TaskEnds
  <2>3. CASE Goto(t, "write")
    <3>1. /\ task' \in [Task -> TaskState] /\ \A u \in Task \ {t} : task'[u] = task[u]
          /\ task'[t].at = "write" /\ task'[t].does = "done"
      BY <1>1, <2>3, Went, WentTo DEF Does
    <3>2. TaskOK(t)'  BY <3>1 DEF TaskOK, At, Does
    <3>3. Alone => "done" \in Routed(step)  BY <1>1, <1>2 DEF DialogSound, InTurn, At, Does
    <3>4. Routed(step)' = Routed(step) /\ Alone' = Alone
      BY <1>1, <1>2 DEF Routed, Alone, ghosts
    <3>5. InTurn(t)'  BY <3>1, <3>3, <3>4 DEF InTurn, At, Does
    <3> QED BY <2>1, <3>1, <3>2, <3>5, TaskMoves
  <2> QED BY <1>2, <2>2, <2>3 DEF FinishPhotos, At
<1>3. CASE At(t, "write") /\ step' = "preview" /\ Done(t)
  <2>1. /\ ~At(t, "off") /\ data' = data /\ UNCHANGED <<row, shown, pictured, bad>>
        /\ dialog' = dialog /\ staged' = staged /\ odd' = odd
    BY <1>1, <1>3 DEF At, media, ghosts
  <2>2. Alone => step = "photos"
    <3>1. Alone => "done" \in Routed(step)  BY <1>1, <1>3 DEF DialogSound, InTurn, At, Does
    <3> QED BY <3>1, Memory DEF Routed, Step
  <2>3. Described'  BY <2>1, <2>2, Memory DEF Described, Alone
  <2>4. PhotosAreNumbered' /\ OwnPhotos'  BY <2>1, SamePhotos
  <2>5. /\ odd \subseteq odd' /\ odd' \subseteq {"overlap", "restart"} /\ staged' \subseteq Keys
        /\ dialog' \in [Keys -> Ads \cup {0}] /\ data' \in Data
        /\ step' \in Step \cup {"none"}
    BY <1>3, <2>1, Memory DEF Step
  <2> QED BY <1>3, <2>1, <2>3, <2>4, <2>5, Ended, Remembered
<1> QED BY <1>2, <1>3 DEF FinishPhotos

-----------------------------------------------------------------------------
(* The arrival of an update, and the sweeps. *)

LEMMA RoutedHandlers ==
  ASSUME NEW s \in Step \cup {"none"}, NEW handler \in Routed(s)
  PROVE  /\ handler \in {"post", "cancel", "copy", "photo", "done", "confirm"} \cup Step
         /\ handler \notin {"photos", "preview"}
BY DEF Routed, Step

LEMMA DispatchInv ==
  ASSUME DialogSound, NEW t \in Task, NEW handler, Dispatch(t, handler)
  PROVE  DialogSound'
<1> DEFINE e == [Off EXCEPT !.at = "read", !.does = handler]
<1>1. /\ At(t, "off") /\ handler \in Routed(step) /\ task' = [task EXCEPT ![t] = e]
      /\ odd' = IF \E u \in Task : task[u].at # "off" THEN odd \cup {"overlap"} ELSE odd
      /\ UNCHANGED <<memory, dialog>> /\ row' = row /\ shown' = shown /\ bad' = bad
      /\ staged' = staged /\ pictured' = pictured
  BY DEF Dispatch, At, media
<1>2. handler \in {"post", "cancel", "copy", "photo", "done", "confirm"} \cup Step
      /\ handler \notin {"photos", "preview"}
  BY <1>1, Memory, RoutedHandlers
<1>3. e \in TaskState /\ e.at = "read" /\ e.does = handler
  BY <1>2, OffIsTask DEF TaskState
<1>4. /\ task' \in [Task -> TaskState] /\ \A u \in Task \ {t} : task'[u] = task[u]
      /\ task'[t].at = "read" /\ task'[t].does = handler
  BY <1>1, <1>3, Memory
<1>5. odd \subseteq odd' /\ odd' \subseteq {"overlap", "restart"}  BY <1>1, Memory
<1>6. Alone' => \A u \in Task : At(u, "off")  BY <1>1 DEF Alone, At
<1>7. odd' = {} => Alone'  BY DEF Alone
<1>8. OneAtATime'  BY <1>4, <1>6 DEF OneAtATime, At
<1>9. TaskOK(t)'  BY <1>2, <1>4 DEF TaskOK, At, Does
<1>10. Routed(step)' = Routed(step)  BY <1>1 DEF Routed, memory
<1>11. InTurn(t)'  BY <1>1, <1>4, <1>10 DEF InTurn, At
<1>12. ASSUME NEW u \in Task, u # t PROVE TaskOK(u)' /\ InTurn(u)'
  <2>1. task'[u] = task[u] /\ TaskOK(u)  BY <1>4, <1>12 DEF DialogSound
  <2>2. TaskOK(u)'  BY <2>1 DEF TaskOK, At, Does
  <2>3. Alone' => task'[u].at = "off"  BY <1>6, <2>1 DEF At
  <2>4. InTurn(u)'  BY <1>7, <2>3 DEF InTurn, At
  <2> QED BY <2>2, <2>4
<1>13. /\ step' \in Step \cup {"none"} /\ data' \in Data /\ dialog' \in [Keys -> Ads \cup {0}]
       /\ PhotosAreNumbered' /\ Described' /\ OwnPhotos'
  BY <1>1, <1>5, MemoryKept
<1>14. row' \in [Ads -> Status] /\ OneDraftOfTheDialog'  BY <1>1, RowsStay
<1>15. SubmissionsAreSound' /\ bad' \subseteq {"hollow", "foreign"}
  BY <1>1, <1>5, SoundStays
<1>16. staged' \subseteq Keys /\ pictured' \subseteq Ads /\ shown' \subseteq Step
  BY <1>1 DEF DialogSound, DialogTypeOK
<1>17. DialogTypeOK'  BY <1>4, <1>5, <1>13, <1>14, <1>15, <1>16 DEF DialogTypeOK
<1> QED BY <1>8, <1>9, <1>11, <1>12, <1>13, <1>14, <1>15, <1>17 DEF DialogSound

\* Nothing a task or the memory knows changes.
LEMMA TasksKept ==
  ASSUME DialogSound, UNCHANGED <<task, memory, dialog, odd, shown>>
  PROVE  OneAtATime' /\ \A u \in Task : TaskOK(u)' /\ InTurn(u)'
<1>1. /\ task' = task /\ step' = step /\ data' = data /\ dialog' = dialog /\ odd' = odd
      /\ shown' = shown
  BY DEF memory
<1>2. ASSUME NEW u \in Task PROVE TaskOK(u)' /\ InTurn(u)'
  <2>1. TaskOK(u) /\ InTurn(u)  BY DEF DialogSound
  <2>2. TaskOK(u)'  BY <1>1, <2>1 DEF TaskOK, At, Does
  <2>3. Routed(step)' = Routed(step) /\ Alone' = Alone  BY <1>1 DEF Routed, Alone
  <2>4. InTurn(u)'  BY <1>1, <2>1, <2>3 DEF InTurn, At, Does
  <2> QED BY <2>2, <2>4
<1>3. OneAtATime'  BY <1>1 DEF DialogSound, OneAtATime, Alone, At
<1> QED BY <1>2, <1>3

\* A step without a task: ads and files may go.
LEMMA Elsewhere ==
  ASSUME DialogSound, UNCHANGED <<task, memory, dialog, odd, shown, pictured, bad>>,
         row' \in [Ads -> Status], OneDraftOfTheDialog', staged' \subseteq Keys
  PROVE  DialogSound'
<1>1. odd' \subseteq {"overlap", "restart"} /\ pictured' \subseteq Ads /\ shown' \subseteq Step
      /\ task' \in [Task -> TaskState]
  BY DEF DialogSound, DialogTypeOK
<1>2. /\ step' \in Step \cup {"none"} /\ data' \in Data /\ dialog' \in [Keys -> Ads \cup {0}]
      /\ PhotosAreNumbered' /\ Described' /\ OwnPhotos'
  BY MemoryKept
<1>3. SubmissionsAreSound' /\ bad' \subseteq {"hollow", "foreign"}  BY <1>1, SoundStays
<1>4. OneAtATime' /\ \A u \in Task : TaskOK(u)' /\ InTurn(u)'  BY TasksKept
<1>5. DialogTypeOK'  BY <1>1, <1>2, <1>3 DEF DialogTypeOK
<1> QED BY <1>2, <1>3, <1>4, <1>5 DEF DialogSound

LEMMA SweepInv == ASSUME DialogSound, Sweep PROVE DialogSound'
<1>1. UNCHANGED <<task, memory, dialog, odd, shown, pictured, bad>>  BY DEF Sweep, ghosts
<1>2. row \in [Ads -> Status] /\ staged \subseteq Keys  BY DEF DialogSound, DialogTypeOK
<1>3. CASE staged' = {} /\ UNCHANGED row
  BY <1>1, <1>3, RowsStay, Elsewhere
<1>4. CASE /\ \E a \in Ads, s \in {"gone", "deleted"} : row' = [row EXCEPT ![a] = s]
           /\ UNCHANGED staged
  <2>1. row' \in [Ads -> Status] /\ \A a \in Ads : row'[a] = "draft" => row[a] = "draft"
    BY <1>2, <1>4 DEF Status
  <2>2. OneDraftOfTheDialog'  BY <2>1 DEF DialogSound, OneDraftOfTheDialog
  <2> QED BY <1>1, <1>2, <1>4, <2>1, <2>2, Elsewhere
<1> QED BY <1>3, <1>4 DEF Sweep

-----------------------------------------------------------------------------
LEMMA DialogInit == Init => DialogSound
<1> SUFFICES ASSUME Init PROVE DialogSound
  OBVIOUS
<1>1. /\ step = "none" /\ data = NoData /\ row = [a \in Ads |-> "none"] /\ staged = {}
      /\ shown = {} /\ pictured = {} /\ dialog = [k \in Keys |-> 0] /\ odd = {} /\ bad = {}
      /\ task = [t \in Task |-> Off]
  BY DEF Init
<1>2. DialogTypeOK  BY <1>1, OffIsTask DEF DialogTypeOK, Status
<1>3. data.photos = <<>>  BY <1>1, OffIsTask
<1>4. Len(data.photos) = 0 /\ DOMAIN data.photos = {}  BY <1>3
<1>5. PhotosAreNumbered /\ OwnPhotos
  BY <1>4, Bounds DEF PhotosAreNumbered, Numbered, OwnPhotos, KeysOf
<1>6. SubmissionsAreSound /\ OneDraftOfTheDialog /\ Described
  BY <1>1 DEF SubmissionsAreSound, OneDraftOfTheDialog, Described
<1>7. \A t \in Task : task[t].at = "off" /\ task[t].does = "none"  BY <1>1, OffIsTask
<1>8. OneAtATime /\ \A t \in Task : TaskOK(t) /\ InTurn(t)
  BY <1>7 DEF OneAtATime, TaskOK, InTurn, At, Does
<1> QED BY <1>2, <1>5, <1>6, <1>8 DEF DialogSound

LEMMA DialogNext == DialogSound /\ [Next]_vars => DialogSound'
<1> SUFFICES ASSUME DialogSound, [Next]_vars PROVE DialogSound'
  OBVIOUS
<1>1. CASE Sweep  BY <1>1, SweepInv
<1>2. ASSUME NEW t \in Task, AnswerBot(t) \/ Send(t) PROVE DialogSound'
  <2>1. PICK handler : Dispatch(t, handler)  BY <1>2 DEF AnswerBot, Send
  <2> QED BY <2>1, DispatchInv
<1>3. ASSUME NEW t \in Task, Run(t) PROVE DialogSound'
  BY <1>3, CreateInv, CopyNothingInv, SetStateInv, SetDataInv, LookInv, DeleteDraftInv,
     ClearInv, TakeAnswerInv, ProceedInv, ShowButtonsInv, TakePhotoInv, SavePhotoInv,
     KeepPhotoInv, FinishPhotosInv, ReadAllInv, ModerateInv, UnmoderatedInv,
     NoVerdictInv, RaiseInv, TellInv, ReplaceInv DEF Run
<1>4. ASSUME NEW t \in Task, Refuse(t) \/ Die(t) PROVE DialogSound'
  BY <1>4, RefuseInv, DieInv
<1>5. CASE UNCHANGED vars
  <2>1. /\ UNCHANGED <<task, memory, dialog, odd, shown, pictured, bad>>
        /\ row' = row /\ staged' = staged
    BY <1>5 DEF vars, memory
  <2>2. staged' \subseteq Keys  BY <2>1, Memory
  <2> QED BY <2>1, <2>2, RowsStay, Elsewhere
<1> QED BY <1>1, <1>2, <1>3, <1>4, <1>5 DEF Next

\* What went unanswered was an ad of the dialog, or none.
LEMMA SilentOfAds ==
  ASSUME DialogInv, [Next]_vars
  PROVE  silent' \subseteq Ads \cup {0}
<1>1. silent \subseteq Ads \cup {0} /\ task \in [Task -> TaskState]
  BY DEF DialogInv, DialogSound, DialogTypeOK
<1>2. \A t \in Task : task[t].saw.ad \in Ads \cup {0}  BY <1>1 DEF TaskState, Data
<1>3. CASE silent' = silent  BY <1>1, <1>3
<1>4. CASE Sweep  BY <1>3, <1>4 DEF Sweep, ghosts
<1>5. ASSUME NEW t \in Task, AnswerBot(t) \/ Send(t) PROVE silent' = silent
  BY <1>5 DEF AnswerBot, Send, Dispatch
<1>6. ASSUME NEW t \in Task, Run(t) PROVE silent' \subseteq Ads \cup {0}
  <2>1. CASE ReadAll(t)  BY <1>1, <2>1 DEF ReadAll
  <2>2. CASE Raise(t)  BY <1>1, <1>2, <2>2 DEF Raise
  <2>3. CASE Replace(t)  BY <1>1, <1>2, <2>3 DEF Replace
  <2>4. CASE Create(t) \/ CopyNothing(t) \/ SetState(t) \/ SetData(t)
    BY <1>3, <2>4 DEF Create, CopyNothing, SetState, SetData, ghosts
  <2>5. CASE Look(t) \/ DeleteDraft(t) \/ Clear(t) \/ TakeAnswer(t) \/ Proceed(t)
    BY <1>3, <2>5 DEF Look, DeleteDraft, Clear, TakeAnswer, Proceed, ghosts
  <2>6. CASE ShowButtons(t) \/ TakePhoto(t) \/ SavePhoto(t) \/ KeepPhoto(t) \/ FinishPhotos(t)
    BY <1>3, <2>6 DEF ShowButtons, TakePhoto, SavePhoto, KeepPhoto, FinishPhotos, ghosts
  <2>7. CASE Moderate(t) \/ Unmoderated(t) \/ NoVerdict(t) \/ Tell(t)
    BY <1>3, <2>7 DEF Moderate, Unmoderated, NoVerdict, Tell, ghosts
  <2> QED BY <1>6, <2>1, <2>2, <2>3, <2>4, <2>5, <2>6, <2>7 DEF Run
<1>7. ASSUME NEW t \in Task, Refuse(t) \/ Die(t) PROVE silent' = silent
  BY <1>7 DEF Refuse, Die, ghosts
<1>8. CASE UNCHANGED vars  BY <1>3, <1>8 DEF vars
<1> QED BY <1>3, <1>4, <1>5, <1>6, <1>7, <1>8 DEF Next

(* However the updates of a seller overlap, his photos are numbered, he has *)
(* one draft at most, and what is submitted is complete and his own unless  *)
(* updates overlapped or a dialog was begun over another.                   *)
THEOREM DialogInvariance == Spec => []DialogInv
<1>1. Init => DialogInv  BY DialogInit DEF DialogInv, Init
<1>2. DialogInv /\ [Next]_vars => DialogInv'  BY DialogNext, SilentOfAds DEF DialogInv
<1> QED BY <1>1, <1>2, PTL DEF Spec
=============================================================================
