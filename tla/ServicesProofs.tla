--------------------------- MODULE ServicesProofs ---------------------------
(***************************************************************************)
(* Proofs about what goes on beside the ads: the alerts, for any number of *)
(* searches, ads, batches and digests, any filters and any number of       *)
(* failures; the scheduler, for any number of commands and days, and any   *)
(* number of failures; and consent, for every set of people, staff and     *)
(* requests and every bound on lives.                                      *)
(***************************************************************************)
EXTENDS AlertDeliveryProperties, SchedulerProperties, ConsentAccountProperties,
        FiniteSetTheorems, TLAPS

-----------------------------------------------------------------------------
(* Alerts: the two matchers. *)

\* find_matching_ads and _matches answer alike on any ad and filter.
LEMMA SameMatch ==
  ASSUME NEW a \in shown, NEW f
  PROVE  a \in AdsOfSearch(f, shown) <=> AdMatchesSavedSearch(a, f)
BY DEF AdsOfSearch, MemberFilters, EvaluateGroupFts, GroupKey, AtLeast,
       AdMatchesSavedSearch, AdInCategorySubtree, AdMatchesVector

(* Whatever the tree of categories, the languages, the listings and the    *)
(* filters are, the immediate alert and the digest find the same searches. *)
THEOREM MatchersAgreeHolds == Spec => []MatchersAgree
<1>1. MatchersAgree
  BY SameMatch DEF MatchersAgree, find_matching_saved_searches, Matching
<1> QED BY <1>1, PTL
-----------------------------------------------------------------------------
(* Counting. *)

\* A set of slots or of digests with one more, or one less.
LEMMA OneMore ==
  ASSUME NEW S, IsFiniteSet(S), NEW A \in SUBSET S, NEW x \in S, x \notin A
  PROVE  Cardinality(A \cup {x}) = Cardinality(A) + 1
BY FS_Subset, FS_AddElement

LEMMA OneLess ==
  ASSUME NEW S, IsFiniteSet(S), NEW A \in SUBSET S, NEW x \in A
  PROVE  Cardinality(A \ {x}) = Cardinality(A) - 1
BY FS_Subset, FS_RemoveElement

LEMMA CountIsNat ==
  ASSUME NEW S, IsFiniteSet(S), NEW A \in SUBSET S
  PROVE  Cardinality(A) \in Nat
BY FS_Subset, FS_CardinalityType
-----------------------------------------------------------------------------
(* The invariant: what the steps leave of it. *)

\* A pair that was recorded stays so, but for a deleted search.
Known(p) == search[p[1]] # "gone" => p \in attempts

\* The parts of the invariant that concern the web process, and the digests.
WebInv == CounterExact /\ Cardinality(Running) <= Threads /\ HookOK
          /\ \A i \in Slot : BatchOK(i)
DailyInv == \A r \in Run : DigestOK(r)

LEMMA InitHolds == Init => AlertInv /\ EveryCopyAccounted
<1> SUFFICES ASSUME Init PROVE AlertInv /\ EveryCopyAccounted
  OBVIOUS
<1> USE DEF Init
<1>1. AlertTypeOK
  BY FirstFilters, Owners DEF AlertTypeOK, Hook, Batch, Digest, NoHook, NoBatch, NoDigest, Pair
<1>2. CounterExact
  <2>1. {i \in Slot : batch[i].stage # "free"} = {}  BY DEF NoBatch
  <2> QED BY <2>1, FS_EmptySet DEF CounterExact
<1>3. Cardinality(Running) <= Threads
  <2>1. Running = {}  BY DEF Running, NoBatch
  <2> QED BY <2>1, FS_EmptySet, Sizes
<1>4. HookOK /\ \A i \in Slot : BatchOK(i)
  BY DEF HookOK, BatchOK, NoHook, NoBatch, Recorded
<1>5. \A r \in Run : DigestOK(r)
  BY NoneIsNoRun DEF DigestOK, NoDigest
<1>6. EveryCopyAccounted
  <2> SUFFICES ASSUME NEW p \in Pair
               PROVE  copies[p] = unseen[p] + Cardinality(InPool(p))
                        + Cardinality(InDigests(p)) + IF p \in receipts THEN 1 ELSE 0
    BY DEF EveryCopyAccounted
  <2>1. InPool(p) = {}     BY DEF InPool, NoBatch
  <2>2. InDigests(p) = {}  BY DEF InDigests, Unmarked, NoDigest
  <2> QED BY <2>1, <2>2, FS_EmptySet
<1> QED BY <1>1, <1>2, <1>3, <1>4, <1>5, <1>6 DEF AlertInv

\* What stays known, over any step.
LEMMA KnownStays ==
  ASSUME AlertTypeOK, [Next]_vars
  PROVE  \A p \in Pair : /\ search'[p[1]] # "gone" => search[p[1]] # "gone"
                         /\ Known(p) => Known(p)'
<1> USE DEF AlertTypeOK, Known, Pair, rows, site, web, daily
<1>1. CASE Edit
  BY <1>1 DEF Edit, Show, Hide, resolve_unsubscribe, resolve_reenable, SwitchTo, Saved,
              create_saved_search, update_saved_search, Bar, Unbar
<1>2. CASE \E s \in Search : delete_saved_search(s)
  BY <1>2 DEF delete_saved_search, Saved
<1>3. CASE \E p \in Pair : RecordNotification(p)
  BY <1>3 DEF RecordNotification
<1>4. CASE \E r \in Run : PersistAlerts(r)
  BY <1>4 DEF PersistAlerts
<1>5. CASE UNCHANGED <<search, attempts>>
  BY <1>5
<1>6. CASE worker_exit \/ Restart \/ Crash \/ Dispatch
  BY <1>5, <1>6 DEF worker_exit, Restart, Crash, Dispatch
<1>7. CASE \E a \in Ad : DeliverImmediateAlerts(a)
  BY <1>5, <1>7 DEF DeliverImmediateAlerts
<1>8. CASE \E i \in Slot : PoolStep(i)
  BY <1>5, <1>8 DEF PoolStep, StartBatch, SendFinished, Send, Receipt, mark_delivered
<1>9. ASSUME NEW r \in Run, DigestStep(r), ~PersistAlerts(r)
      PROVE  UNCHANGED <<search, attempts>>
  BY <1>9 DEF DigestStep, BeginDigest, DigestsSent, EndDigest,
              CollectMember, SendUserDigest, MarkNext, mark_delivered
<1>10. ASSUME NEW r \in Run, KillDigest(r) PROVE UNCHANGED <<search, attempts>>
  BY <1>10 DEF KillDigest
<1>11. CASE UNCHANGED vars
  BY <1>5, <1>11 DEF vars
<1> QED BY <1>1, <1>2, <1>3, <1>4, <1>5, <1>6, <1>7, <1>8, <1>9, <1>10, <1>11
        DEF Next, HookStep

\* What a step leaves alone stays true of what it leaves alone.
LEMMA WebFrame ==
  ASSUME AlertInv, [Next]_vars, UNCHANGED <<hook, batch, inFlight>>
  PROVE  WebInv'
<1>1. \A p \in Pair : Known(p) => Known(p)'
  BY KnownStays DEF AlertInv
<1>2. CounterExact' /\ (Cardinality(Running) <= Threads)'
  BY DEF AlertInv, CounterExact, Running
<1>3. HookOK'
  <2>1. hook \in Hook  BY DEF AlertInv, AlertTypeOK
  <2> QED BY <1>1, <2>1 DEF AlertInv, HookOK, Recorded, Known, Hook
<1>4. ASSUME NEW i \in Slot PROVE BatchOK(i)'
  <2>1. BatchOK(i) /\ batch[i] \in Batch  BY DEF AlertInv, AlertTypeOK
  <2> QED BY <1>1, <2>1 DEF BatchOK, Recorded, Known, Batch
<1> QED BY <1>2, <1>3, <1>4 DEF WebInv

LEMMA DailyFrame ==
  ASSUME AlertInv, [Next]_vars, NEW r \in Run, run'[r] = run[r],
         lock' = r <=> lock = r
  PROVE  DigestOK(r)'
<1>1. \A p \in Pair : Known(p) => Known(p)'
  BY KnownStays DEF AlertInv
<1>2. DigestOK(r) /\ run[r] \in Digest  BY DEF AlertInv, AlertTypeOK
<1> QED BY <1>1, <1>2 DEF DigestOK, Recorded, Known, Digest

LEMMA AccountFrame ==
  ASSUME AlertInv, EveryCopyAccounted, [Next]_vars, NEW p \in Pair,
         search'[p[1]] # "gone",
         copies'[p] = copies[p], unseen'[p] = unseen[p],
         p \in receipts' <=> p \in receipts,
         InPool(p)' = InPool(p), InDigests(p)' = InDigests(p)
  PROVE  copies'[p] = unseen'[p] + Cardinality(InPool(p)') + Cardinality(InDigests(p)')
                        + IF p \in receipts' THEN 1 ELSE 0
<1>1. search[p[1]] # "gone"  BY KnownStays DEF AlertInv
<1> QED BY <1>1 DEF EveryCopyAccounted

-----------------------------------------------------------------------------
(* Searches, ads and accounts. *)

LEMMA EditHolds ==
  ASSUME AlertInv, EveryCopyAccounted, Edit
  PROVE  AlertInv' /\ EveryCopyAccounted'
<1> USE DEF rows, web, daily, ghosts
<1>1. [Next]_vars  BY DEF Next
<1>2. UNCHANGED <<attempts, receipts, hook, batch, inFlight, pool, run, lock, copies, unseen>>
  BY DEF Edit
<1>3. AlertTypeOK'
  BY DEF AlertInv, AlertTypeOK, Edit, Show, Hide, resolve_unsubscribe, resolve_reenable,
         SwitchTo, Saved, create_saved_search, update_saved_search, Bar, Unbar
<1>4. WebInv'    BY <1>1, <1>2, WebFrame
<1>5. DailyInv'  BY <1>1, <1>2, DailyFrame DEF DailyInv
<1>6. EveryCopyAccounted'
  <2> SUFFICES ASSUME NEW p \in Pair, search'[p[1]] # "gone"
               PROVE  copies'[p] = unseen'[p] + Cardinality(InPool(p)')
                        + Cardinality(InDigests(p)') + IF p \in receipts' THEN 1 ELSE 0
    BY DEF EveryCopyAccounted
  <2>1. InPool(p)' = InPool(p) /\ InDigests(p)' = InDigests(p)
    BY <1>2 DEF InPool, InDigests, Unmarked
  <2> QED BY <1>1, <1>2, <2>1, AccountFrame
<1> QED BY <1>2, <1>3, <1>4, <1>5, <1>6 DEF AlertInv, WebInv, DailyInv

LEMMA DeleteSearchHolds ==
  ASSUME AlertInv, EveryCopyAccounted, NEW s \in Search, delete_saved_search(s)
  PROVE  AlertInv' /\ EveryCopyAccounted'
<1> USE DEF web, daily
<1>1. [Next]_vars  BY DEF Next
<1>2. UNCHANGED <<hook, batch, inFlight, pool, run, lock>>
  BY DEF delete_saved_search
<1>3. AlertTypeOK' /\ receipts' \subseteq attempts'
  BY DEF AlertInv, AlertTypeOK, delete_saved_search
<1>4. WebInv'    BY <1>1, <1>2, WebFrame
<1>5. DailyInv'  BY <1>1, <1>2, DailyFrame DEF DailyInv
<1>6. EveryCopyAccounted'
  <2> SUFFICES ASSUME NEW p \in Pair, search'[p[1]] # "gone"
               PROVE  copies'[p] = unseen'[p] + Cardinality(InPool(p)')
                        + Cardinality(InDigests(p)') + IF p \in receipts' THEN 1 ELSE 0
    BY DEF EveryCopyAccounted
  <2>1. InPool(p)' = InPool(p) /\ InDigests(p)' = InDigests(p)
    BY <1>2 DEF InPool, InDigests, Unmarked
  <2>2. p[1] # s  BY DEF delete_saved_search, AlertInv, AlertTypeOK
  <2>3. copies'[p] = copies[p] /\ unseen'[p] = unseen[p] /\ (p \in receipts' <=> p \in receipts)
    BY <2>2 DEF delete_saved_search
  <2> QED BY <1>1, <2>1, <2>3, AccountFrame
<1> QED BY <1>2, <1>3, <1>4, <1>5, <1>6 DEF AlertInv, WebInv, DailyInv

\* A step that leaves the pool's slots, the digests and the rows alone.
LEMMA HookFrame ==
  ASSUME AlertInv, EveryCopyAccounted, [Next]_vars,
         UNCHANGED <<search, receipts, batch, inFlight, run, lock, copies, unseen>>,
         AlertTypeOK', HookOK', attempts \subseteq attempts'
  PROVE  AlertInv' /\ EveryCopyAccounted'
<1>1. CounterExact' /\ (Cardinality(Running) <= Threads)'
  BY DEF AlertInv, CounterExact, Running
<1>2. ASSUME NEW i \in Slot PROVE BatchOK(i)'
  <2>1. BatchOK(i)  BY DEF AlertInv
  <2> QED BY <2>1 DEF BatchOK, Recorded
<1>3. DailyInv'  BY DailyFrame DEF DailyInv
<1>4. EveryCopyAccounted'
  <2> SUFFICES ASSUME NEW p \in Pair, search'[p[1]] # "gone"
               PROVE  copies'[p] = unseen'[p] + Cardinality(InPool(p)')
                        + Cardinality(InDigests(p)') + IF p \in receipts' THEN 1 ELSE 0
    BY DEF EveryCopyAccounted
  <2>1. InPool(p)' = InPool(p) /\ InDigests(p)' = InDigests(p)
    BY DEF InPool, InDigests, Unmarked
  <2> QED BY <2>1, AccountFrame
<1> QED BY <1>1, <1>2, <1>3, <1>4 DEF AlertInv, DailyInv

LEMMA HookHolds ==
  ASSUME AlertInv, EveryCopyAccounted,
         \/ \E a \in Ad : DeliverImmediateAlerts(a)
         \/ \E p \in Pair : RecordNotification(p)
         \/ Restart
  PROVE  AlertInv' /\ EveryCopyAccounted'
<1> USE DEF rows, site, web, daily, ghosts
<1>1. [Next]_vars  BY DEF Next, HookStep
<1>2. CASE \E a \in Ad : DeliverImmediateAlerts(a)
  <2>1. PICK a \in Ad : DeliverImmediateAlerts(a)  BY <1>2
  <2>2. build_payloads(a) \in SUBSET Pair
    <3> SUFFICES ASSUME NEW q \in build_payloads(a) PROVE q \in Pair
      OBVIOUS
    <3>1. PICK s \in find_matching_saved_searches(a) : q = <<s, a>>
      BY DEF build_payloads
    <3> QED BY <3>1 DEF find_matching_saved_searches, Pair
  <2>3. AlertTypeOK'  BY <2>1, <2>2 DEF DeliverImmediateAlerts, AlertInv, AlertTypeOK, Hook
  <2>4. HookOK'       BY <2>1 DEF DeliverImmediateAlerts, HookOK, Recorded
  <2> QED BY <1>1, <2>1, <2>3, <2>4, HookFrame DEF DeliverImmediateAlerts
<1>3. CASE \E p \in Pair : RecordNotification(p)
  <2>1. PICK p \in Pair : RecordNotification(p)  BY <1>3
  <2>2. CASE hook' = NoHook /\ UNCHANGED attempts
    <3>1. HookOK' /\ hook' \in Hook  BY <2>2 DEF HookOK, Hook, NoHook
    <3>2. AlertTypeOK'  BY <2>1, <2>2, <3>1 DEF RecordNotification, AlertInv, AlertTypeOK
    <3> QED BY <1>1, <2>1, <2>2, <3>1, <3>2, HookFrame DEF RecordNotification
  <2>3. CASE /\ attempts' = attempts \cup {p}
             /\ hook' = [hook EXCEPT !.todo = @ \ {p},
                          !.stage = IF hook.todo = {p} THEN "dispatch" ELSE @]
    <3>1. /\ hook'.payloads = hook.payloads /\ hook'.todo = hook.todo \ {p}
          /\ hook'.stage = IF hook.todo = {p} THEN "dispatch" ELSE "record"
          /\ hook' \in Hook
      BY <2>1, <2>3 DEF RecordNotification, AlertInv, AlertTypeOK, Hook
    <3>2. AlertTypeOK'  BY <2>1, <2>3, <3>1 DEF RecordNotification, AlertInv, AlertTypeOK
    <3>3. HookOK'
      BY <2>1, <2>3, <3>1 DEF RecordNotification, AlertInv, HookOK, Recorded
    <3> QED BY <1>1, <2>1, <2>3, <3>2, <3>3, HookFrame DEF RecordNotification
  <2> QED BY <2>1, <2>2, <2>3 DEF RecordNotification
<1>4. CASE Restart
  <2>1. AlertTypeOK' /\ HookOK'
    BY <1>4 DEF Restart, AlertInv, AlertTypeOK, HookOK, Recorded
  <2> QED BY <1>1, <1>4, <2>1, HookFrame DEF Restart
<1> QED BY <1>2, <1>3, <1>4

-----------------------------------------------------------------------------
(* The pool. *)

\* A step of the pool that leaves the rows, the digests and the history alone
\* and moves no accepted message.
LEMMA PoolFrame ==
  ASSUME AlertInv, EveryCopyAccounted, [Next]_vars,
         UNCHANGED <<search, attempts, receipts, run, lock, copies, unseen>>,
         \A i \in Slot : batch'[i].accepted = batch[i].accepted,
         AlertTypeOK', CounterExact', (Cardinality(Running) <= Threads)', HookOK',
         \A i \in Slot : BatchOK(i)'
  PROVE  AlertInv' /\ EveryCopyAccounted'
<1>1. DailyInv'  BY DailyFrame DEF DailyInv
<1>2. EveryCopyAccounted'
  <2> SUFFICES ASSUME NEW p \in Pair, search'[p[1]] # "gone"
               PROVE  copies'[p] = unseen'[p] + Cardinality(InPool(p)')
                        + Cardinality(InDigests(p)') + IF p \in receipts' THEN 1 ELSE 0
    BY DEF EveryCopyAccounted
  <2>1. InPool(p)' = InPool(p) /\ InDigests(p)' = InDigests(p)
    BY DEF InPool, InDigests, Unmarked
  <2> QED BY <2>1, AccountFrame
<1> QED BY <1>1, <1>2 DEF AlertInv, DailyInv

\* Slots in use, and slots whose batch runs.
InUse == {i \in Slot : batch[i].stage # "free"}

LEMMA DispatchHolds ==
  ASSUME AlertInv, EveryCopyAccounted, Dispatch
  PROVE  AlertInv' /\ EveryCopyAccounted'
<1> USE DEF rows, site, web, daily, ghosts
<1>1. [Next]_vars  BY DEF Next, HookStep
<1>2. HookOK'  BY DEF Dispatch, HookOK, NoHook
<1>3. CASE UNCHANGED <<batch, inFlight>>
  <2>1. AlertTypeOK'  BY <1>3 DEF Dispatch, AlertInv, AlertTypeOK, Hook, NoHook
  <2> QED BY <1>1, <1>2, <1>3, <2>1, HookFrame DEF Dispatch
<1>4. CASE ~UNCHANGED <<batch, inFlight>>
  <2>1. PICK i \in Slot :
          /\ batch[i].stage = "free"
          /\ batch' = [batch EXCEPT ![i] = [stage |-> "queued",
               first |-> hook.payloads, retry |-> {}, accepted |-> {}]]
          /\ inFlight' = inFlight + 1
    BY <1>4 DEF Dispatch
  <2>2. hook.payloads \in SUBSET Pair /\ Recorded(hook.payloads) /\ batch[i] = NoBatch
    BY <2>1 DEF Dispatch, AlertInv, AlertTypeOK, Hook, HookOK, BatchOK
  <2>3. AlertTypeOK'
    BY <2>1, <2>2 DEF Dispatch, AlertInv, AlertTypeOK, Hook, NoHook, Batch
  <2>4. CounterExact'
    <3>1. InUse' = InUse \cup {i} /\ i \notin InUse
      BY <2>1 DEF InUse, AlertInv, AlertTypeOK
    <3>2. Cardinality(InUse \cup {i}) = Cardinality(InUse) + 1
      BY <3>1, OneMore, Finite DEF InUse
    <3> QED BY <2>1, <3>1, <3>2 DEF CounterExact, AlertInv, InUse
  <2>5. (Cardinality(Running) <= Threads)'
    <3>1. Running' = Running  BY <2>1 DEF Running, AlertInv, AlertTypeOK
    <3> QED BY <3>1 DEF AlertInv
  <2>6. ASSUME NEW j \in Slot PROVE BatchOK(j)'
    BY <2>1, <2>2 DEF Dispatch, AlertInv, AlertTypeOK, BatchOK, Recorded
  <2>7. ASSUME NEW j \in Slot PROVE batch'[j].accepted = batch[j].accepted
    <3>1. CASE j = i   BY <2>1, <2>2, <3>1 DEF NoBatch, AlertInv, AlertTypeOK
    <3>2. CASE j # i   BY <2>1, <3>2 DEF AlertInv, AlertTypeOK
    <3> QED BY <3>1, <3>2
  <2> QED BY <1>1, <1>2, <2>3, <2>4, <2>5, <2>6, <2>7, PoolFrame DEF Dispatch
<1> QED BY <1>3, <1>4

LEMMA StartBatchHolds ==
  ASSUME AlertInv, EveryCopyAccounted, NEW i \in Slot, StartBatch(i)
  PROVE  AlertInv' /\ EveryCopyAccounted'
<1> USE DEF rows, site, web, daily, ghosts
<1>1. [Next]_vars  BY DEF Next, PoolStep
<1>2. /\ batch \in [Slot -> Batch] /\ batch[i].stage = "queued"
      /\ batch' = [batch EXCEPT ![i].stage = "running"]
  BY DEF StartBatch, AlertInv, AlertTypeOK
<1>3. AlertTypeOK' /\ HookOK'
  BY <1>2 DEF StartBatch, AlertInv, AlertTypeOK, HookOK, Recorded, Batch
<1>4. CounterExact'
  <2>1. InUse' = InUse  BY <1>2 DEF InUse
  <2> QED BY <2>1 DEF StartBatch, CounterExact, AlertInv, InUse
<1>5. (Cardinality(Running) <= Threads)'
  <2>1. Running' = Running \cup {i} /\ i \notin Running  BY <1>2 DEF Running
  <2>2. Cardinality(Running \cup {i}) = Cardinality(Running) + 1
    BY <2>1, OneMore, Finite DEF Running
  <2>3. Cardinality(Running) \in Nat  BY CountIsNat, Finite DEF Running
  <2> QED BY <2>1, <2>2, <2>3, Sizes DEF StartBatch
<1>6. ASSUME NEW j \in Slot
      PROVE  BatchOK(j)' /\ batch'[j].accepted = batch[j].accepted
  <2>1. BatchOK(j)  BY DEF AlertInv
  <2> QED BY <1>2, <2>1 DEF StartBatch, BatchOK, Recorded, NoBatch
<1> QED BY <1>1, <1>3, <1>4, <1>5, <1>6, PoolFrame DEF StartBatch

LEMMA SendFinishedHolds ==
  ASSUME AlertInv, EveryCopyAccounted, NEW i \in Slot, SendFinished(i)
  PROVE  AlertInv' /\ EveryCopyAccounted'
<1> USE DEF rows, site, web, daily, ghosts
<1>1. [Next]_vars  BY DEF Next, PoolStep
<1>2. /\ batch \in [Slot -> Batch]
      /\ batch[i].stage = "running" /\ batch[i].accepted = {}
      /\ batch' = [batch EXCEPT ![i] = NoBatch]
      /\ NoBatch \in Batch /\ NoBatch.stage = "free" /\ NoBatch.accepted = {}
  BY DEF SendFinished, AlertInv, AlertTypeOK, NoBatch, Batch
<1>3. CounterExact' /\ inFlight' \in Nat
  <2>1. InUse' = InUse \ {i} /\ i \in InUse  BY <1>2 DEF InUse
  <2>2. Cardinality(InUse \ {i}) = Cardinality(InUse) - 1
    BY <2>1, OneLess, Finite DEF InUse
  <2>3. Cardinality(InUse') \in Nat  BY <2>1, CountIsNat, Finite DEF InUse
  <2> QED BY <2>1, <2>2, <2>3 DEF SendFinished, CounterExact, AlertInv, InUse
<1>4. AlertTypeOK' /\ HookOK'
  BY <1>2, <1>3 DEF SendFinished, AlertInv, AlertTypeOK, HookOK, Recorded
<1>5. (Cardinality(Running) <= Threads)'
  <2>1. Running' = Running \ {i} /\ i \in Running  BY <1>2 DEF Running
  <2>2. Cardinality(Running \ {i}) = Cardinality(Running) - 1
    BY <2>1, OneLess, Finite DEF Running
  <2>3. Cardinality(Running) \in Nat  BY CountIsNat, Finite DEF Running
  <2> QED BY <2>1, <2>2, <2>3, Sizes DEF AlertInv
<1>6. ASSUME NEW j \in Slot
      PROVE  BatchOK(j)' /\ batch'[j].accepted = batch[j].accepted
  <2>1. BatchOK(j)  BY DEF AlertInv
  <2>2. CASE j = i  BY <1>2, <2>2 DEF BatchOK, Recorded, NoBatch
  <2>3. CASE j # i  BY <1>2, <2>1, <2>3 DEF SendFinished, BatchOK, Recorded
  <2> QED BY <2>2, <2>3
<1> QED BY <1>1, <1>3, <1>4, <1>5, <1>6, PoolFrame DEF SendFinished

\* The batches that wait give their slots back; those under way go on.
LEMMA WorkerExitHolds ==
  ASSUME AlertInv, EveryCopyAccounted, worker_exit
  PROVE  AlertInv' /\ EveryCopyAccounted'
<1> USE DEF rows, site, daily, ghosts
<1>1. [Next]_vars  BY DEF Next
<1>2. /\ batch \in [Slot -> Batch]
      /\ batch' = [i \in Slot |-> IF i \in Queued THEN NoBatch ELSE batch[i]]
      /\ NoBatch \in Batch /\ NoBatch.stage = "free" /\ NoBatch.accepted = {}
  BY DEF worker_exit, AlertInv, AlertTypeOK, NoBatch, Batch
<1>3. CounterExact' /\ inFlight' \in Nat
  <2>1. InUse' = InUse \ Queued /\ Queued = InUse \cap Queued
    BY <1>2 DEF InUse, Queued
  <2>2. IsFiniteSet(InUse)  BY FS_Subset, Finite DEF InUse
  <2>3. Cardinality(InUse \ Queued) = Cardinality(InUse) - Cardinality(InUse \cap Queued)
    BY <2>2, FS_Difference
  <2>4. Cardinality(InUse') \in Nat  BY <2>1, CountIsNat, Finite DEF InUse
  <2> QED BY <2>1, <2>3, <2>4 DEF worker_exit, CounterExact, AlertInv, InUse
<1>4. AlertTypeOK' /\ HookOK'
  BY <1>2, <1>3 DEF worker_exit, AlertInv, AlertTypeOK, HookOK, Recorded
<1>5. (Cardinality(Running) <= Threads)'
  <2>1. Running' = Running  BY <1>2 DEF Running, Queued
  <2> QED BY <2>1 DEF AlertInv
<1>6. ASSUME NEW j \in Slot
      PROVE  BatchOK(j)' /\ batch'[j].accepted = batch[j].accepted
  <2>1. BatchOK(j)  BY DEF AlertInv
  <2>2. CASE j \in Queued  BY <1>2, <2>1, <2>2 DEF BatchOK, Recorded, NoBatch, Queued
  <2>3. CASE j \notin Queued  BY <1>2, <2>1, <2>3 DEF worker_exit, BatchOK, Recorded
  <2> QED BY <2>2, <2>3
<1> QED BY <1>1, <1>3, <1>4, <1>5, <1>6, PoolFrame DEF worker_exit

\* The messages a message moves between.
LEMMA Moved ==
  ASSUME AlertInv, NEW i \in Slot, NEW p \in Pair, NEW from, NEW to,
         from \in {"first", "retry", "accepted"}, to \in {"retry", "accepted", "dropped", "done"},
         from # to, batch[i].stage = "running", p \in batch[i][from],
         search[p[1]] # "gone" => p \in attempts,
         UNCHANGED <<search, hook, inFlight>>, attempts \subseteq attempts',
         Move(i, p, from, to)
  PROVE  /\ batch' \in [Slot -> Batch] /\ WebInv'
         /\ \A j \in Slot \ {i} : batch'[j] = batch[j]
         /\ batch'[i].accepted =
              (IF from = "accepted" THEN batch[i].accepted \ {p} ELSE batch[i].accepted)
              \cup (IF to = "accepted" THEN {p} ELSE {})
<1>1. /\ batch \in [Slot -> Batch] /\ batch[i] \in Batch
      /\ BatchOK(i)
  BY DEF AlertInv, AlertTypeOK
<1>2. /\ batch' \in [Slot -> Batch]
      /\ \A j \in Slot \ {i} : batch'[j] = batch[j]
      /\ batch'[i].stage = "running"
      /\ batch'[i].first = (IF from = "first" THEN batch[i].first \ {p} ELSE batch[i].first)
      /\ batch'[i].retry = (IF from = "retry" THEN batch[i].retry \ {p} ELSE batch[i].retry)
                           \cup (IF to = "retry" THEN {p} ELSE {})
      /\ batch'[i].accepted =
           (IF from = "accepted" THEN batch[i].accepted \ {p} ELSE batch[i].accepted)
           \cup (IF to = "accepted" THEN {p} ELSE {})
  BY <1>1 DEF Move, Batch
<1>3. CounterExact' /\ (Cardinality(Running) <= Threads)'
  <2>1. {j \in Slot : batch[j].stage # "free"}' = {j \in Slot : batch[j].stage # "free"}
        /\ Running' = Running
    BY <1>2 DEF Running
  <2> QED BY <2>1 DEF AlertInv, CounterExact
<1>4. HookOK'
  BY DEF AlertInv, HookOK, Recorded
<1>5. ASSUME NEW j \in Slot PROVE BatchOK(j)'
  <2>1. BatchOK(j)  BY DEF AlertInv
  <2>2. CASE j # i  BY <1>2, <2>1, <2>2 DEF BatchOK, Recorded
  <2>3. CASE j = i
    <3>1. Recorded(batch[i].first \cup batch[i].retry \cup batch[i].accepted)'
      BY <1>1, <1>2 DEF BatchOK, Recorded
    <3>2. /\ (batch[i].first \cap batch[i].retry = {})'
          /\ (batch[i].accepted \cap (batch[i].first \cup batch[i].retry) = {})'
      BY <1>1, <1>2 DEF BatchOK
    <3> QED BY <1>2, <2>3, <3>1, <3>2 DEF BatchOK
  <2> QED BY <2>2, <2>3
<1> QED BY <1>2, <1>3, <1>4, <1>5 DEF WebInv

\* What a slot adds to the accepted messages of a pair, or takes from them.
LEMMA InPoolMoved ==
  ASSUME batch \in [Slot -> Batch], batch' \in [Slot -> Batch], NEW i \in Slot, NEW p,
         \A j \in Slot \ {i} : batch'[j] = batch[j]
  PROVE  /\ Cardinality(InPool(p)) \in Nat /\ Cardinality(InPool(p)') \in Nat
         /\ (p \in batch[i].accepted <=> p \in batch'[i].accepted)
              => InPool(p)' = InPool(p)
         /\ p \notin batch[i].accepted /\ p \in batch'[i].accepted
              => Cardinality(InPool(p)') = Cardinality(InPool(p)) + 1
         /\ p \in batch[i].accepted /\ p \notin batch'[i].accepted
              => Cardinality(InPool(p)') = Cardinality(InPool(p)) - 1
<1>1. InPool(p) \in SUBSET Slot /\ InPool(p)' \in SUBSET Slot  BY DEF InPool
<1>2. Cardinality(InPool(p)) \in Nat /\ Cardinality(InPool(p)') \in Nat
  BY <1>1, CountIsNat, Finite
<1>3. ASSUME p \in batch[i].accepted <=> p \in batch'[i].accepted
      PROVE  InPool(p)' = InPool(p)
  BY <1>3 DEF InPool
<1>4. ASSUME p \notin batch[i].accepted, p \in batch'[i].accepted
      PROVE  Cardinality(InPool(p)') = Cardinality(InPool(p)) + 1
  <2>1. InPool(p)' = InPool(p) \cup {i} /\ i \notin InPool(p)  BY <1>4 DEF InPool
  <2> QED BY <1>1, <2>1, OneMore, Finite
<1>5. ASSUME p \in batch[i].accepted, p \notin batch'[i].accepted
      PROVE  Cardinality(InPool(p)') = Cardinality(InPool(p)) - 1
  <2>1. InPool(p)' = InPool(p) \ {i} /\ i \in InPool(p)  BY <1>5 DEF InPool
  <2> QED BY <1>1, <2>1, OneLess, Finite
<1> QED BY <1>2, <1>3, <1>4, <1>5

\* What is sent is accepted and told of, or it is dropped or tried again, and
\* then either nothing is told of it or it is told of and unseen.
LEMMA SendHolds ==
  ASSUME AlertInv, EveryCopyAccounted, NEW i \in Slot, NEW p \in Pair, Send(i, p)
  PROVE  AlertInv' /\ EveryCopyAccounted'
<1> USE DEF rows, site, daily, ghosts
<1>1. [Next]_vars  BY DEF Next, PoolStep
<1>2. PICK from \in {"first", "retry"}, to \in {"retry", "accepted", "dropped"} :
        /\ p \in batch[i][from] /\ Move(i, p, from, to) /\ from # to
        /\ \/ to # "accepted" /\ Refused
           \/ to = "accepted" /\ Accepted({p})
           \/ to # "accepted" /\ Failed({p})
  BY DEF Send
<1>3. /\ batch[i].stage = "running"
      /\ UNCHANGED <<search, hook, inFlight, attempts, receipts, run, lock, shown, filter,
                     barred, pool>>
  BY DEF Send
<1>4. /\ batch[i] \in Batch /\ batch \in [Slot -> Batch] /\ BatchOK(i)
  BY DEF AlertInv, AlertTypeOK
<1>5. /\ Recorded({p}) /\ p \notin batch[i].accepted
  BY <1>2, <1>4 DEF BatchOK, Recorded
<1>6. /\ batch' \in [Slot -> Batch] /\ WebInv'
      /\ \A j \in Slot \ {i} : batch'[j] = batch[j]
      /\ batch'[i].accepted = batch[i].accepted \cup (IF to = "accepted" THEN {p} ELSE {})
  BY <1>2, <1>3, <1>5, Moved DEF Recorded
<1>7. AlertTypeOK'
  BY <1>2, <1>3, <1>6 DEF AlertInv, AlertTypeOK, Refused, Accepted, Failed, Tell
<1>8. DailyInv'  BY <1>1, <1>3, DailyFrame DEF DailyInv
<1>9. EveryCopyAccounted'
  <2> SUFFICES ASSUME NEW q \in Pair, search'[q[1]] # "gone"
               PROVE  copies'[q] = unseen'[q] + Cardinality(InPool(q)')
                        + Cardinality(InDigests(q)') + IF q \in receipts' THEN 1 ELSE 0
    BY DEF EveryCopyAccounted
  <2>1. InDigests(q)' = InDigests(q)  BY <1>3 DEF InDigests, Unmarked
  <2>2. copies[q] = unseen[q] + Cardinality(InPool(q)) + Cardinality(InDigests(q))
                      + IF q \in receipts THEN 1 ELSE 0
    BY <1>3 DEF EveryCopyAccounted
  <2>3. CASE q = p /\ to = "accepted"
    <3>1. Cardinality(InPool(q)') = Cardinality(InPool(q)) + 1
      BY <1>4, <1>5, <1>6, <2>3, InPoolMoved
    <3>2. copies'[q] = copies[q] + 1 /\ unseen'[q] = unseen[q]
      BY <1>2, <1>3, <2>3 DEF Accepted, Tell, Refused, Failed
    <3>3. Cardinality(InPool(q)) \in Nat /\ Cardinality(InDigests(q)) \in Nat
          /\ copies[q] \in Nat /\ unseen[q] \in Nat
      BY <1>4, <1>6, InPoolMoved, CountIsNat, Finite DEF InDigests, AlertInv, AlertTypeOK
    <3> QED BY <1>3, <2>1, <2>2, <3>1, <3>2, <3>3
  <2>4. CASE ~(q = p /\ to = "accepted")
    <3>1. InPool(q)' = InPool(q)  BY <1>4, <1>5, <1>6, <2>4, InPoolMoved
    <3>2. \/ copies'[q] = copies[q] /\ unseen'[q] = unseen[q]
          \/ copies'[q] = copies[q] + 1 /\ unseen'[q] = unseen[q] + 1
      BY <1>2, <1>3, <2>4 DEF Accepted, Tell, Refused, Failed, AlertInv, AlertTypeOK
    <3>3. Cardinality(InPool(q)) \in Nat /\ Cardinality(InDigests(q)) \in Nat
          /\ copies[q] \in Nat /\ unseen[q] \in Nat
      BY <1>4, <1>6, InPoolMoved, CountIsNat, Finite DEF InDigests, AlertInv, AlertTypeOK
    <3> QED BY <1>3, <2>1, <2>2, <3>1, <3>2, <3>3
  <2> QED BY <2>3, <2>4
<1> QED BY <1>3, <1>6, <1>7, <1>8, <1>9 DEF AlertInv, WebInv, DailyInv

\* The receipt of an accepted message is written, or was there already, or the
\* row is gone with its search, or the error of the database makes it unseen.
LEMMA ReceiptHolds ==
  ASSUME AlertInv, EveryCopyAccounted, NEW i \in Slot, NEW p \in Pair, Receipt(i, p)
  PROVE  AlertInv' /\ EveryCopyAccounted'
<1> USE DEF rows, site, daily, ghosts
<1>1. [Next]_vars  BY DEF Next, PoolStep
<1>2. /\ batch[i].stage = "running" /\ p \in batch[i].accepted
      /\ Move(i, p, "accepted", "done")
      /\ UNCHANGED <<search, hook, inFlight, attempts, run, lock, shown, filter,
                     barred, pool, copies>>
  BY DEF Receipt, mark_delivered
<1>3. \/ /\ receipts' = receipts \cup ({p} \cap attempts)
         /\ unseen' = IF p \in receipts THEN Tell(unseen, {p}) ELSE unseen
      \/ receipts' = receipts /\ unseen' = Tell(unseen, {p})
  BY DEF Receipt, mark_delivered
<1>4. /\ batch[i] \in Batch /\ batch \in [Slot -> Batch] /\ BatchOK(i)
  BY DEF AlertInv, AlertTypeOK
<1>5. search[p[1]] # "gone" => p \in attempts
  BY <1>2, <1>4 DEF BatchOK, Recorded
<1>6. /\ batch' \in [Slot -> Batch] /\ WebInv'
      /\ \A j \in Slot \ {i} : batch'[j] = batch[j]
      /\ batch'[i].accepted = batch[i].accepted \ {p}
  BY <1>2, <1>5, Moved
<1>7. AlertTypeOK' /\ receipts' \subseteq attempts'
  <2>1. unseen' \in [Pair -> Nat]  BY <1>3 DEF AlertInv, AlertTypeOK, Tell
  <2>2. receipts' \subseteq attempts'  BY <1>2, <1>3 DEF AlertInv
  <2> QED BY <1>2, <1>6, <2>1, <2>2 DEF AlertInv, AlertTypeOK
<1>8. DailyInv'  BY <1>1, <1>2, DailyFrame DEF DailyInv
<1>9. EveryCopyAccounted'
  <2> SUFFICES ASSUME NEW q \in Pair, search'[q[1]] # "gone"
               PROVE  copies'[q] = unseen'[q] + Cardinality(InPool(q)')
                        + Cardinality(InDigests(q)') + IF q \in receipts' THEN 1 ELSE 0
    BY DEF EveryCopyAccounted
  <2>1. InDigests(q)' = InDigests(q)  BY <1>2 DEF InDigests, Unmarked
  <2>2. copies[q] = unseen[q] + Cardinality(InPool(q)) + Cardinality(InDigests(q))
                      + IF q \in receipts THEN 1 ELSE 0
    BY <1>2 DEF EveryCopyAccounted
  <2>3. Cardinality(InPool(q)) \in Nat /\ Cardinality(InDigests(q)) \in Nat
        /\ copies[q] \in Nat /\ unseen[q] \in Nat
    BY <1>4, <1>6, InPoolMoved, CountIsNat, Finite DEF InDigests, AlertInv, AlertTypeOK
  <2>4. CASE q = p
    <3>1. Cardinality(InPool(q)') = Cardinality(InPool(q)) - 1
      BY <1>2, <1>4, <1>6, <2>4, InPoolMoved
    <3>2. Tell(unseen, {p})[q] = unseen[q] + 1  BY <1>2, <2>4 DEF Tell
    <3>3. q \in attempts  BY <1>2, <1>5, <2>4
    <3>4. CASE q \in receipts
      <4>1. unseen'[q] = unseen[q] + 1 /\ q \in receipts'  BY <1>3, <2>4, <3>2, <3>4
      <4> QED BY <1>2, <2>1, <2>2, <2>3, <3>1, <3>4, <4>1
    <3>5. CASE q \notin receipts
      <4>1. \/ unseen'[q] = unseen[q] /\ q \in receipts'
            \/ unseen'[q] = unseen[q] + 1 /\ q \notin receipts'
        BY <1>3, <2>4, <3>2, <3>3, <3>5
      <4> QED BY <1>2, <2>1, <2>2, <2>3, <3>1, <3>5, <4>1
    <3> QED BY <3>4, <3>5
  <2>5. CASE q # p
    <3>1. InPool(q)' = InPool(q)  BY <1>4, <1>6, <2>5, InPoolMoved
    <3>2. unseen'[q] = unseen[q] /\ (q \in receipts' <=> q \in receipts)
      BY <1>3, <2>5 DEF Tell, AlertInv, AlertTypeOK
    <3> QED BY <1>2, <2>1, <2>2, <3>1, <3>2
  <2> QED BY <2>4, <2>5
<1> QED BY <1>2, <1>6, <1>7, <1>8, <1>9 DEF AlertInv, WebInv, DailyInv

\* What the process held accepted and unreceipted becomes unseen.
LEMMA CrashHolds ==
  ASSUME AlertInv, EveryCopyAccounted, Crash
  PROVE  AlertInv' /\ EveryCopyAccounted'
<1> USE DEF rows, site, daily, ghosts
<1>1. [Next]_vars  BY DEF Next
<1>2. /\ hook' = NoHook /\ batch' = [i \in Slot |-> NoBatch] /\ inFlight' = 0
      /\ pool' = "up"
      /\ UNCHANGED <<search, attempts, receipts, run, lock, shown, filter, barred, copies>>
      /\ NoBatch \in Batch /\ NoBatch.stage = "free" /\ NoBatch.accepted = {}
      /\ NoHook \in Hook /\ NoHook.stage = "idle"
  BY DEF Crash, NoBatch, Batch, NoHook, Hook
<1>3. ASSUME NEW p \in Pair
      PROVE  /\ unseen'[p] = unseen[p] + (IF search[p[1]] = "gone" THEN 0
                                          ELSE Cardinality(InPool(p)))
             /\ Cardinality(InPool(p)) \in Nat
  <2>1. search[p[1]] = "gone" =>
          {i \in Slot : p \in batch[i].accepted /\ search[p[1]] # "gone"} = {}
    OBVIOUS
  <2>2. search[p[1]] # "gone" =>
          {i \in Slot : p \in batch[i].accepted /\ search[p[1]] # "gone"} = InPool(p)
    BY DEF InPool
  <2>3. Cardinality(InPool(p)) \in Nat  BY CountIsNat, Finite DEF InPool
  <2>4. unseen'[p] = unseen[p] +
          Cardinality({i \in Slot : p \in batch[i].accepted /\ search[p[1]] # "gone"})
    BY DEF Crash
  <2> QED BY <2>1, <2>2, <2>3, <2>4, FS_EmptySet
<1>4. AlertTypeOK'
  <2>1. unseen' = [p \in Pair |-> unseen'[p]]  BY DEF Crash
  <2>2. \A p \in Pair : unseen'[p] \in Nat  BY <1>3 DEF AlertInv, AlertTypeOK
  <2>3. unseen' \in [Pair -> Nat]  BY <2>1, <2>2
  <2> QED BY <1>2, <2>3 DEF AlertInv, AlertTypeOK
<1>5. WebInv'
  <2>1. CounterExact' /\ (Cardinality(Running) <= Threads)'
    <3>1. {i \in Slot : batch[i].stage # "free"}' = {} /\ Running' = {}
      BY <1>2 DEF Running
    <3> QED BY <1>2, <3>1, FS_EmptySet, Sizes DEF CounterExact
  <2>2. HookOK' /\ \A i \in Slot : BatchOK(i)'
    BY <1>2 DEF HookOK, BatchOK, NoBatch, Recorded
  <2> QED BY <2>1, <2>2 DEF WebInv
<1>6. DailyInv'  BY <1>1, <1>2, DailyFrame DEF DailyInv
<1>7. EveryCopyAccounted'
  <2> SUFFICES ASSUME NEW p \in Pair, search'[p[1]] # "gone"
               PROVE  copies'[p] = unseen'[p] + Cardinality(InPool(p)')
                        + Cardinality(InDigests(p)') + IF p \in receipts' THEN 1 ELSE 0
    BY DEF EveryCopyAccounted
  <2>1. InPool(p)' = {} /\ InDigests(p)' = InDigests(p)
    BY <1>2 DEF InPool, InDigests, Unmarked
  <2>2. copies[p] = unseen[p] + Cardinality(InPool(p)) + Cardinality(InDigests(p))
                      + IF p \in receipts THEN 1 ELSE 0
    BY <1>2 DEF EveryCopyAccounted
  <2>3. Cardinality(InDigests(p)) \in Nat /\ unseen[p] \in Nat
    BY CountIsNat, Finite DEF InDigests, AlertInv, AlertTypeOK
  <2> QED BY <1>2, <1>3, <2>1, <2>2, <2>3, FS_EmptySet
<1> QED BY <1>2, <1>4, <1>5, <1>6, <1>7 DEF AlertInv, WebInv, DailyInv

-----------------------------------------------------------------------------
(* The digests. *)

\* What a digest adds to the unmarked messages of a pair, or takes from them.
LEMMA InDigestsMoved ==
  ASSUME run \in [Run -> Digest], run' \in [Run -> Digest], NEW r \in Run, NEW p,
         \A q \in Run \ {r} : run'[q] = run[q]
  PROVE  /\ Cardinality(InDigests(p)) \in Nat /\ Cardinality(InDigests(p)') \in Nat
         /\ (p \in Unmarked(r) <=> p \in Unmarked(r)')
              => InDigests(p)' = InDigests(p)
         /\ p \notin Unmarked(r) /\ p \in Unmarked(r)'
              => Cardinality(InDigests(p)') = Cardinality(InDigests(p)) + 1
         /\ p \in Unmarked(r) /\ p \notin Unmarked(r)'
              => Cardinality(InDigests(p)') = Cardinality(InDigests(p)) - 1
<1>1. InDigests(p) \in SUBSET Run /\ InDigests(p)' \in SUBSET Run  BY DEF InDigests
<1>2. Cardinality(InDigests(p)) \in Nat /\ Cardinality(InDigests(p)') \in Nat
  BY <1>1, CountIsNat, Finite
<1>3. \A q \in Run \ {r} : p \in Unmarked(q) <=> p \in Unmarked(q)'
  BY DEF Unmarked
<1>4. ASSUME p \in Unmarked(r) <=> p \in Unmarked(r)'
      PROVE  InDigests(p)' = InDigests(p)
  BY <1>3, <1>4 DEF InDigests
<1>5. ASSUME p \notin Unmarked(r), p \in Unmarked(r)'
      PROVE  Cardinality(InDigests(p)') = Cardinality(InDigests(p)) + 1
  <2>1. InDigests(p)' = InDigests(p) \cup {r} /\ r \notin InDigests(p)
    BY <1>3, <1>5 DEF InDigests
  <2> QED BY <1>1, <2>1, OneMore, Finite
<1>6. ASSUME p \in Unmarked(r), p \notin Unmarked(r)'
      PROVE  Cardinality(InDigests(p)') = Cardinality(InDigests(p)) - 1
  <2>1. InDigests(p)' = InDigests(p) \ {r} /\ r \in InDigests(p)
    BY <1>3, <1>6 DEF InDigests
  <2> QED BY <1>1, <2>1, OneLess, Finite
<1> QED BY <1>2, <1>4, <1>5, <1>6

\* A step of one digest that leaves the web process and the searches alone and
\* keeps the account of every pair.
LEMMA DigestFrame ==
  ASSUME AlertInv, [Next]_vars, NEW r \in Run,
         UNCHANGED <<shown, search, filter, barred, hook, batch, inFlight, pool>>,
         run' \in [Run -> Digest], \A q \in Run \ {r} : run'[q] = run[q],
         lock' \in Run \cup {None}, \A q \in Run \ {r} : lock' = q <=> lock = q,
         attempts' \subseteq Pair, receipts' \subseteq attempts',
         copies' \in [Pair -> Nat], unseen' \in [Pair -> Nat],
         DigestOK(r)',
         \A p \in Pair : search[p[1]] # "gone" =>
           (copies'[p] = unseen'[p] + Cardinality(InPool(p)) + Cardinality(InDigests(p)')
                           + IF p \in receipts' THEN 1 ELSE 0)
  PROVE  AlertInv' /\ EveryCopyAccounted'
<1>1. AlertTypeOK'  BY DEF AlertInv, AlertTypeOK
<1>2. WebInv'  BY WebFrame
<1>3. DailyInv'
  <2>1. ASSUME NEW q \in Run \ {r} PROVE DigestOK(q)'
    BY DailyFrame
  <2> QED BY <2>1 DEF DailyInv
<1>4. EveryCopyAccounted'
  <2>1. \A p \in Pair : InPool(p)' = InPool(p)  BY DEF InPool
  <2> QED BY <2>1 DEF EveryCopyAccounted
<1> QED BY <1>1, <1>2, <1>3, <1>4 DEF AlertInv, WebInv, DailyInv

\* The steps in which nothing is sent and no receipt is written.
LEMMA BeginDigestHolds ==
  ASSUME AlertInv, EveryCopyAccounted, NEW r \in Run, BeginDigest(r)
  PROVE  AlertInv' /\ EveryCopyAccounted'
<1> USE DEF rows, site, web, ghosts
<1>1. [Next]_vars  BY DEF Next, DigestStep
<1>2. /\ run \in [Run -> Digest] /\ DigestOK(r) /\ filter \in [Search -> Filters]
      /\ receipts \subseteq attempts
  BY DEF AlertInv, AlertTypeOK
<1>3. /\ run' \in [Run -> Digest] /\ \A q \in Run \ {r} : run'[q] = run[q]
      /\ run'[r].stage = "collect" /\ run'[r].rows = {} /\ run'[r].got = {}
      /\ run[r].rows = {}
  BY <1>2 DEF BeginDigest, NoDigest, Digest, DigestOK
<1>4. DigestOK(r)'  BY <1>3, NoneIsNoRun DEF BeginDigest, DigestOK
<1>5. \A p \in Pair : InDigests(p)' = InDigests(p)
  BY <1>2, <1>3, InDigestsMoved DEF Unmarked
<1>6. ASSUME NEW p \in Pair, search[p[1]] # "gone"
     PROVE  copies'[p] = unseen'[p] + Cardinality(InPool(p)) + Cardinality(InDigests(p)')
                           + IF p \in receipts' THEN 1 ELSE 0
  <2>1. UNCHANGED <<copies, unseen, receipts, search>>  BY DEF BeginDigest
  <2> QED BY <1>5, <1>6, <2>1 DEF EveryCopyAccounted
<1>7. UNCHANGED <<rows, site, web, ghosts>> /\ lock' = r /\ lock = None
  BY DEF BeginDigest
<1> QED BY <1>1, <1>2, <1>3, <1>4, <1>6, <1>7, NoneIsNoRun, DigestFrame
        DEF AlertInv, AlertTypeOK

LEMMA CollectMemberHolds ==
  ASSUME AlertInv, EveryCopyAccounted, NEW r \in Run, NEW s \in Search, CollectMember(r, s)
  PROVE  AlertInv' /\ EveryCopyAccounted'
<1> USE DEF rows, site, web, ghosts
<1>1. [Next]_vars  BY DEF Next, DigestStep
<1>2. /\ run \in [Run -> Digest] /\ DigestOK(r) /\ receipts \subseteq attempts
      /\ run[r].stage = "collect" /\ run[r].got = {}
  BY DEF AlertInv, AlertTypeOK, CollectMember, DigestOK
<1>3. PICK ads \in SUBSET Ad :
        run' = [run EXCEPT ![r].rows = @ \cup {<<s, a>> : a \in ads},
                           ![r].searches = @ \ {s}]
  <2>1. PICK few \in SelectDigestAds({}, Matching(s, run[r].asked[s]), Limit) :
          \E ads \in SelectDigestAds(Bucket(r, OwnerOf[s]), few, Limit) :
             run' = [run EXCEPT ![r].rows = @ \cup {<<s, a>> : a \in ads},
                                ![r].searches = @ \ {s}]
    BY DEF CollectMember
  <2>2. few \subseteq Ad
    BY <2>1 DEF SelectDigestAds, Matching, AdsOfSearch, MemberFilters, EvaluateGroupFts,
                AlertInv, AlertTypeOK
  <2> QED BY <2>1, <2>2 DEF SelectDigestAds
<1>4. PICK more \in SUBSET Pair :
        run' = [run EXCEPT ![r].rows = @ \cup more, ![r].searches = @ \ {s}]
  <2>1. {<<s, a>> : a \in ads} \in SUBSET Pair  BY DEF Pair
  <2> QED BY <1>3, <2>1
<1>5. /\ run' \in [Run -> Digest] /\ \A q \in Run \ {r} : run'[q] = run[q]
      /\ run'[r].stage = "collect" /\ run'[r].got = {}
  <2>1. /\ run'[r] = [run[r] EXCEPT !.rows = run[r].rows \cup more,
                                   !.searches = run[r].searches \ {s}]
        /\ \A q \in Run \ {r} : run'[q] = run[q]
    BY <1>2, <1>4
  <2>2. run[r] \in Digest  BY <1>2
  <2>3. run[r].rows \cup more \in SUBSET Pair /\ run[r].searches \ {s} \in SUBSET Search
    BY <1>4, <2>2 DEF Digest
  <2>4. run'[r] \in Digest /\ run'[r].stage = "collect" /\ run'[r].got = {}
    BY <1>2, <2>1, <2>2, <2>3 DEF Digest
  <2>5. run' \in [Run -> Digest]
    BY <1>2, <1>4, <2>1, <2>4
  <2> QED BY <2>1, <2>4, <2>5
<1>6. DigestOK(r)'  BY <1>2, <1>5 DEF CollectMember, DigestOK
<1>7. \A p \in Pair : InDigests(p)' = InDigests(p)
  BY <1>2, <1>5, InDigestsMoved DEF Unmarked
<1>8. ASSUME NEW p \in Pair, search[p[1]] # "gone"
     PROVE  copies'[p] = unseen'[p] + Cardinality(InPool(p)) + Cardinality(InDigests(p)')
                           + IF p \in receipts' THEN 1 ELSE 0
  <2>1. UNCHANGED <<copies, unseen, receipts, search>>  BY DEF CollectMember
  <2> QED BY <1>7, <1>8, <2>1 DEF EveryCopyAccounted
<1>9. UNCHANGED <<rows, site, web, lock, ghosts>>  BY DEF CollectMember
<1> QED BY <1>1, <1>2, <1>5, <1>6, <1>8, <1>9, DigestFrame DEF AlertInv, AlertTypeOK

LEMMA PersistAlertsHolds ==
  ASSUME AlertInv, EveryCopyAccounted, NEW r \in Run, PersistAlerts(r)
  PROVE  AlertInv' /\ EveryCopyAccounted'
<1> USE DEF rows, site, web, ghosts
<1>1. [Next]_vars  BY DEF Next, DigestStep
<1>2. /\ run \in [Run -> Digest] /\ run[r] \in Digest /\ receipts \subseteq attempts
      /\ run[r].stage = "collect" /\ run[r].got = {} /\ lock = r /\ lock' = None
  BY DEF AlertInv, AlertTypeOK, PersistAlerts, DigestOK
<1>3. CASE /\ UNCHANGED attempts
           /\ run' = [run EXCEPT ![r] = [NoDigest EXCEPT !.stage = "broken"]]
  <2>1. /\ run' \in [Run -> Digest] /\ \A q \in Run \ {r} : run'[q] = run[q]
        /\ run'[r].stage = "broken" /\ run'[r].rows = {} /\ run'[r].got = {}
    BY <1>2, <1>3, FirstFilters DEF NoDigest, Digest
  <2>2. DigestOK(r)'  BY <1>2, <2>1, NoneIsNoRun DEF DigestOK
  <2>3. \A p \in Pair : InDigests(p)' = InDigests(p)
    BY <1>2, <2>1, InDigestsMoved DEF Unmarked
  <2> QED BY <1>1, <1>2, <1>3, <2>1, <2>2, <2>3, NoneIsNoRun, DigestFrame
          DEF PersistAlerts, AlertInv, AlertTypeOK, EveryCopyAccounted
<1>4. CASE /\ \A p \in run[r].rows : search[p[1]] # "gone"
           /\ attempts' = attempts \cup run[r].rows
           /\ run' = [run EXCEPT ![r] = [@ EXCEPT !.stage = "send",
                !.asked = FirstFilter, !.users = {UserOf(p) : p \in run[r].rows}]]
  <2>1. {UserOf(p) : p \in run[r].rows} \subseteq User
    BY <1>2, Owners DEF UserOf, Digest, Pair
  <2>2. /\ run' \in [Run -> Digest] /\ \A q \in Run \ {r} : run'[q] = run[q]
        /\ run'[r].stage = "send" /\ run'[r].rows = run[r].rows /\ run'[r].got = {}
    BY <1>2, <1>4, <2>1, FirstFilters DEF Digest
  <2>3. DigestOK(r)'
    BY <1>2, <1>4, <2>2, NoneIsNoRun DEF DigestOK, Recorded, PersistAlerts
  <2>4. \A p \in Pair : InDigests(p)' = InDigests(p)
    BY <1>2, <2>2, InDigestsMoved DEF Unmarked
  <2>5. attempts' \subseteq Pair
    BY <1>2, <1>4 DEF AlertInv, AlertTypeOK, Digest
  <2>6. ASSUME NEW p \in Pair, search[p[1]] # "gone"
       PROVE  copies'[p] = unseen'[p] + Cardinality(InPool(p)) + Cardinality(InDigests(p)')
                             + IF p \in receipts' THEN 1 ELSE 0
    <3>1. UNCHANGED <<copies, unseen, receipts, search>>  BY DEF PersistAlerts
    <3> QED BY <2>4, <2>6, <3>1 DEF EveryCopyAccounted
  <2>7. UNCHANGED <<receipts, site, web, ghosts>>  BY DEF PersistAlerts
  <2> QED BY <1>1, <1>2, <1>4, <2>2, <2>3, <2>5, <2>6, <2>7, NoneIsNoRun, DigestFrame
          DEF AlertInv, AlertTypeOK
<1> QED BY <1>3, <1>4 DEF PersistAlerts

\* A digest that has sent its messages, or whose loop was left by an error.
LEMMA DigestsSentHolds ==
  ASSUME AlertInv, EveryCopyAccounted, NEW r \in Run, DigestsSent(r)
  PROVE  AlertInv' /\ EveryCopyAccounted'
<1> USE DEF rows, site, web, ghosts
<1>1. [Next]_vars  BY DEF Next, DigestStep
<1>2. /\ run \in [Run -> Digest] /\ DigestOK(r) /\ receipts \subseteq attempts
      /\ run[r].stage = "send"
      /\ UNCHANGED <<rows, site, web, lock, ghosts>>
  BY DEF AlertInv, AlertTypeOK, DigestsSent
<1>3. /\ run' \in [Run -> Digest] /\ \A q \in Run \ {r} : run'[q] = run[q]
      /\ run'[r].stage = "mark" /\ run'[r].rows = run[r].rows /\ run'[r].got = run[r].got
  BY <1>2 DEF DigestsSent, Stage, Digest
<1>4. DigestOK(r)'  BY <1>2, <1>3 DEF DigestOK, Recorded
<1>5. \A p \in Pair : InDigests(p)' = InDigests(p)
  BY <1>2, <1>3, InDigestsMoved DEF Unmarked
<1>6. ASSUME NEW p \in Pair, search[p[1]] # "gone"
     PROVE  copies'[p] = unseen'[p] + Cardinality(InPool(p)) + Cardinality(InDigests(p)')
                           + IF p \in receipts' THEN 1 ELSE 0
  BY <1>2, <1>5, <1>6 DEF EveryCopyAccounted
<1> QED BY <1>1, <1>2, <1>3, <1>4, <1>6, DigestFrame DEF AlertInv, AlertTypeOK

LEMMA EndDigestHolds ==
  ASSUME AlertInv, EveryCopyAccounted, NEW r \in Run, EndDigest(r)
  PROVE  AlertInv' /\ EveryCopyAccounted'
<1> USE DEF rows, site, web, ghosts
<1>1. [Next]_vars  BY DEF Next, DigestStep
<1>2. /\ run \in [Run -> Digest] /\ DigestOK(r) /\ receipts \subseteq attempts
      /\ run[r].stage \in {"mark", "escaped"} /\ Unmarked(r) = {}
      /\ UNCHANGED <<rows, site, web, lock, ghosts>>
  BY DEF AlertInv, AlertTypeOK, EndDigest
<1>3. /\ run' \in [Run -> Digest] /\ \A q \in Run \ {r} : run'[q] = run[q]
      /\ run'[r].stage \in {"ok", "error"} /\ run'[r].rows = {}
  <2>1. PICK code \in {"ok", "error"} :
          run' = [run EXCEPT ![r] = [NoDigest EXCEPT !.stage = code, !.got = run[r].got]]
    BY DEF EndDigest, ExitCode, Become
  <2> QED BY <1>2, <2>1, FirstFilters DEF NoDigest, Digest
<1>4. DigestOK(r)'  BY <1>2, <1>3 DEF DigestOK
<1>5. \A p \in Pair : InDigests(p)' = InDigests(p)
  BY <1>2, <1>3, InDigestsMoved DEF Unmarked
<1>6. ASSUME NEW p \in Pair, search[p[1]] # "gone"
     PROVE  copies'[p] = unseen'[p] + Cardinality(InPool(p)) + Cardinality(InDigests(p)')
                           + IF p \in receipts' THEN 1 ELSE 0
  BY <1>2, <1>5, <1>6 DEF EveryCopyAccounted
<1> QED BY <1>1, <1>2, <1>3, <1>4, <1>6, DigestFrame DEF AlertInv, AlertTypeOK

\* A receipt takes the place of the message it tells of; a second one for the
\* same pair is the duplicate that is logged.
LEMMA MarkNextHolds ==
  ASSUME AlertInv, EveryCopyAccounted, NEW r \in Run, NEW p \in Pair, MarkNext(r, p)
  PROVE  AlertInv' /\ EveryCopyAccounted'
<1> USE DEF rows, site, web
<1>1. [Next]_vars  BY DEF Next, DigestStep
<1>2. /\ run \in [Run -> Digest] /\ DigestOK(r) /\ receipts \subseteq attempts
      /\ run[r].stage \in {"mark", "escaped"} /\ p \in Unmarked(r)
      /\ UNCHANGED <<site, web, lock, attempts, copies>>
      /\ receipts' = receipts \cup ({p} \cap attempts)
      /\ unseen' = IF p \in receipts THEN Tell(unseen, {p}) ELSE unseen
  BY DEF AlertInv, AlertTypeOK, MarkNext, mark_delivered
<1>3. /\ run' \in [Run -> Digest] /\ \A q \in Run \ {r} : run'[q] = run[q]
      /\ run'[r].stage = run[r].stage /\ run'[r].rows = run[r].rows \ {p}
      /\ run'[r].got = run[r].got
  BY <1>2 DEF MarkNext, Digest
<1>4. DigestOK(r)'  BY <1>2, <1>3 DEF DigestOK, Recorded
<1>5. search[p[1]] # "gone" => p \in attempts
  BY <1>2 DEF DigestOK, Recorded, Unmarked
<1>6. unseen' \in [Pair -> Nat] /\ receipts' \subseteq attempts' /\ attempts' \subseteq Pair
  BY <1>2 DEF AlertInv, AlertTypeOK, Tell
<1>7. ASSUME NEW q \in Pair, search[q[1]] # "gone"
      PROVE  copies'[q] = unseen'[q] + Cardinality(InPool(q)) + Cardinality(InDigests(q)')
                            + IF q \in receipts' THEN 1 ELSE 0
  <2>1. copies[q] = unseen[q] + Cardinality(InPool(q)) + Cardinality(InDigests(q))
                      + IF q \in receipts THEN 1 ELSE 0
    BY <1>7 DEF EveryCopyAccounted
  <2>2. Cardinality(InPool(q)) \in Nat /\ Cardinality(InDigests(q)) \in Nat
        /\ copies[q] \in Nat /\ unseen[q] \in Nat
    BY <1>2, <1>3, InDigestsMoved, CountIsNat, Finite DEF InPool, AlertInv, AlertTypeOK
  <2>3. CASE q = p
    <3>1. Cardinality(InDigests(q)') = Cardinality(InDigests(q)) - 1
      <4>1. q \in Unmarked(r) /\ q \notin Unmarked(r)'  BY <1>2, <1>3, <2>3 DEF Unmarked
      <4> QED BY <1>2, <1>3, <4>1, InDigestsMoved
    <3>2. Tell(unseen, {p})[q] = unseen[q] + 1  BY <1>7, <2>3 DEF Tell
    <3>3. \/ q \in receipts /\ q \in receipts' /\ unseen'[q] = unseen[q] + 1
          \/ q \notin receipts /\ q \in receipts' /\ unseen'[q] = unseen[q]
      BY <1>2, <1>5, <1>7, <2>3, <3>2
    <3> QED BY <1>2, <2>1, <2>2, <3>1, <3>3
  <2>4. CASE q # p
    <3>1. InDigests(q)' = InDigests(q)
      <4>1. q \in Unmarked(r) <=> q \in Unmarked(r)'  BY <1>3, <2>4 DEF Unmarked
      <4> QED BY <1>2, <1>3, <4>1, InDigestsMoved
    <3>2. unseen'[q] = unseen[q] /\ (q \in receipts' <=> q \in receipts)
      BY <1>2, <2>2, <2>4 DEF Tell
    <3> QED BY <1>2, <2>1, <3>1, <3>2
  <2> QED BY <2>3, <2>4
<1> QED BY <1>1, <1>2, <1>3, <1>4, <1>6, <1>7, DigestFrame DEF AlertInv, AlertTypeOK

\* What a killed digest had not marked is what it loses sight of.
LEMMA KillDigestHolds ==
  ASSUME AlertInv, EveryCopyAccounted, NEW r \in Run, KillDigest(r)
  PROVE  AlertInv' /\ EveryCopyAccounted'
<1> USE DEF rows, site, web
<1>1. [Next]_vars  BY DEF Next
<1>2. /\ run \in [Run -> Digest] /\ DigestOK(r) /\ receipts \subseteq attempts
      /\ lock \in Run \cup {None} /\ lock' = IF lock = r THEN None ELSE lock
      /\ UNCHANGED <<rows, site, web, copies>> /\ unseen' = Tell(unseen, Unmarked(r))
  BY DEF AlertInv, AlertTypeOK, KillDigest
<1>3. /\ run' \in [Run -> Digest] /\ \A q \in Run \ {r} : run'[q] = run[q]
      /\ run'[r].stage = "broken" /\ run'[r].rows = {}
  BY <1>2, FirstFilters DEF KillDigest, Become, NoDigest, Digest
<1>4. DigestOK(r)' /\ \A q \in Run \ {r} : lock' = q <=> lock = q
  BY <1>2, <1>3, NoneIsNoRun DEF DigestOK
<1>5. unseen' \in [Pair -> Nat]
  BY <1>2 DEF AlertInv, AlertTypeOK, Tell
<1>6. ASSUME NEW q \in Pair, search[q[1]] # "gone"
      PROVE  copies'[q] = unseen'[q] + Cardinality(InPool(q)) + Cardinality(InDigests(q)')
                            + IF q \in receipts' THEN 1 ELSE 0
  <2>1. copies[q] = unseen[q] + Cardinality(InPool(q)) + Cardinality(InDigests(q))
                      + IF q \in receipts THEN 1 ELSE 0
    BY <1>6 DEF EveryCopyAccounted
  <2>2. Cardinality(InPool(q)) \in Nat /\ Cardinality(InDigests(q)) \in Nat
        /\ copies[q] \in Nat /\ unseen[q] \in Nat
    BY <1>2, <1>3, InDigestsMoved, CountIsNat, Finite DEF InPool, AlertInv, AlertTypeOK
  <2>3. q \notin Unmarked(r)'  BY <1>3 DEF Unmarked
  <2>4. CASE q \in Unmarked(r)
    <3>1. Cardinality(InDigests(q)') = Cardinality(InDigests(q)) - 1
      BY <1>2, <1>3, <2>3, <2>4, InDigestsMoved
    <3>2. unseen'[q] = unseen[q] + 1  BY <1>2, <1>6, <2>4 DEF Tell
    <3> QED BY <1>2, <2>1, <2>2, <3>1, <3>2
  <2>5. CASE q \notin Unmarked(r)
    <3>1. InDigests(q)' = InDigests(q)
      BY <1>2, <1>3, <2>3, <2>5, InDigestsMoved
    <3>2. unseen'[q] = unseen[q]  BY <1>2, <2>2, <2>5 DEF Tell
    <3> QED BY <1>2, <2>1, <3>1, <3>2
  <2> QED BY <2>4, <2>5
<1> QED BY <1>1, <1>2, <1>3, <1>4, <1>5, <1>6, NoneIsNoRun, DigestFrame
        DEF AlertInv, AlertTypeOK

\* A user's digest is accepted, refused, failed, to be retried, or ends the loop:
\* each pair of his gains a message to mark, one no receipt will tell of, or none.
LEMMA SendUserDigestHolds ==
  ASSUME AlertInv, EveryCopyAccounted, NEW r \in Run, NEW u \in User, SendUserDigest(r, u)
  PROVE  AlertInv' /\ EveryCopyAccounted'
<1> USE DEF rows, site, web
<1>1. [Next]_vars  BY DEF Next, DigestStep
<1>2. /\ run \in [Run -> Digest] /\ run[r] \in Digest /\ DigestOK(r)
      /\ receipts \subseteq attempts /\ run[r].stage = "send"
      /\ u \notin run[r].got /\ UNCHANGED <<rows, site, web, lock>>
  BY DEF AlertInv, AlertTypeOK, SendUserDigest, DigestOK
<1>3. PICK left \in Digest :
        /\ left = Leave(r, u) /\ left.stage = "send" /\ left.rows = run[r].rows
        /\ left.users = run[r].users \ {u} /\ left.retry = {} /\ left.got = run[r].got
  <2> DEFINE e == [run[r] EXCEPT !.users = run[r].users \ {u}, !.retry = {}]
  <2>1. /\ e \in Digest /\ e.stage = "send" /\ e.rows = run[r].rows
        /\ e.users = run[r].users \ {u} /\ e.retry = {} /\ e.got = run[r].got
    BY <1>2 DEF Digest
  <2>2. e = Leave(r, u)  BY DEF Leave
  <2> HIDE DEF e
  <2> QED BY <2>1, <2>2
<1>4. PICK d \in Digest :
        /\ run' = [run EXCEPT ![r] = d] /\ d.rows = run[r].rows
        /\ d.stage \in {"send", "escaped"}
        /\ d.stage = "send" => d.got \cap (d.users \cup d.retry) = {}
        /\ \/ d.got = run[r].got
              /\ \/ UNCHANGED ghosts
                 \/ copies' = Tell(copies, PairsOf(r, u)) /\ unseen' = Tell(unseen, PairsOf(r, u))
           \/ /\ d.got = run[r].got \cup {u}
              /\ copies' = Tell(copies, PairsOf(r, u)) /\ unseen' = unseen
  <2>1. left.got \cap (left.users \cup left.retry) = {}
    BY <1>2, <1>3 DEF DigestOK
  <2>2. CASE Refused /\ Become(r, Leave(r, u))
    BY <1>3, <2>1, <2>2 DEF Refused, Become
  <2>3. CASE /\ Accepted(PairsOf(r, u))
             /\ Become(r, [Leave(r, u) EXCEPT !.got = @ \cup {u}])
    <3>1. PICK d \in Digest :
            /\ d = [left EXCEPT !.got = left.got \cup {u}] /\ d.stage = "send"
            /\ d.rows = left.rows /\ d.got = left.got \cup {u}
            /\ d.users = left.users /\ d.retry = left.retry
      <4> DEFINE e == [left EXCEPT !.got = left.got \cup {u}]
      <4>1. /\ e \in Digest /\ e.stage = "send" /\ e.rows = left.rows
            /\ e.got = left.got \cup {u} /\ e.users = left.users /\ e.retry = left.retry
        BY <1>3 DEF Digest
      <4> QED BY <4>1
    <3>2. run' = [run EXCEPT ![r] = d]  BY <1>3, <2>3, <3>1 DEF Become
    <3>3. d.got \cap (d.users \cup d.retry) = {}  BY <1>3, <2>1, <3>1
    <3> QED BY <1>3, <2>3, <3>1, <3>2, <3>3 DEF Accepted
  <2>4. CASE /\ Failed(PairsOf(r, u))
             /\ \/ Become(r, Leave(r, u))
                \/ Become(r, [Leave(r, u) EXCEPT !.retry = {u}])
                \/ Become(r, [Leave(r, u) EXCEPT !.stage = "escaped", !.users = {}])
    <3>1. \/ UNCHANGED ghosts
          \/ copies' = Tell(copies, PairsOf(r, u)) /\ unseen' = Tell(unseen, PairsOf(r, u))
      BY <2>4 DEF Failed
    <3>2. CASE Become(r, Leave(r, u))
      BY <1>3, <2>1, <3>1, <3>2 DEF Become
    <3>3. CASE Become(r, [Leave(r, u) EXCEPT !.retry = {u}])
      <4>1. PICK d \in Digest :
              /\ d = [left EXCEPT !.retry = {u}] /\ d.stage = "send"
              /\ d.rows = left.rows /\ d.got = left.got
              /\ d.users = left.users /\ d.retry = {u}
        <5> DEFINE e == [left EXCEPT !.retry = {u}]
        <5>1. /\ e \in Digest /\ e.stage = "send" /\ e.rows = left.rows
              /\ e.got = left.got /\ e.users = left.users /\ e.retry = {u}
          BY <1>3 DEF Digest
        <5> QED BY <5>1
      <4>2. run' = [run EXCEPT ![r] = d]  BY <1>3, <3>3, <4>1 DEF Become
      <4>3. d.got \cap (d.users \cup d.retry) = {}  BY <1>2, <1>3, <2>1, <4>1
      <4> QED BY <1>3, <3>1, <4>1, <4>2, <4>3
    <3>4. CASE Become(r, [Leave(r, u) EXCEPT !.stage = "escaped", !.users = {}])
      <4>1. PICK d \in Digest :
              /\ d = [left EXCEPT !.stage = "escaped", !.users = {}]
              /\ d.stage = "escaped" /\ d.rows = left.rows /\ d.got = left.got
        <5> DEFINE e == [left EXCEPT !.stage = "escaped", !.users = {}]
        <5>1. /\ e \in Digest /\ e.stage = "escaped" /\ e.rows = left.rows
              /\ e.got = left.got
          BY <1>3 DEF Digest
        <5> QED BY <5>1
      <4>2. run' = [run EXCEPT ![r] = d]  BY <1>3, <3>4, <4>1 DEF Become
      <4> QED BY <1>3, <3>1, <4>1, <4>2
    <3> QED BY <2>4, <3>2, <3>3, <3>4
  <2> QED BY <2>2, <2>3, <2>4 DEF SendUserDigest
<1>5. /\ run' \in [Run -> Digest] /\ \A q \in Run \ {r} : run'[q] = run[q]
      /\ run'[r] = d
  BY <1>2, <1>4
<1>6. DigestOK(r)'  BY <1>2, <1>4, <1>5 DEF DigestOK, Recorded
<1>7. copies' \in [Pair -> Nat] /\ unseen' \in [Pair -> Nat]
  <2>1. /\ Tell(copies, PairsOf(r, u)) \in [Pair -> Nat]
        /\ Tell(unseen, PairsOf(r, u)) \in [Pair -> Nat]
    BY DEF Tell, AlertInv, AlertTypeOK
  <2> QED BY <1>4, <2>1 DEF ghosts, AlertInv, AlertTypeOK
<1>8. ASSUME NEW q \in Pair, search[q[1]] # "gone"
      PROVE  copies'[q] = unseen'[q] + Cardinality(InPool(q)) + Cardinality(InDigests(q)')
                            + IF q \in receipts' THEN 1 ELSE 0
  <2>1. copies[q] = unseen[q] + Cardinality(InPool(q)) + Cardinality(InDigests(q))
                      + IF q \in receipts THEN 1 ELSE 0
    BY <1>8 DEF EveryCopyAccounted
  <2>2. Cardinality(InPool(q)) \in Nat /\ Cardinality(InDigests(q)) \in Nat
        /\ copies[q] \in Nat /\ unseen[q] \in Nat /\ (q \in receipts' <=> q \in receipts)
    BY <1>2, <1>5, InDigestsMoved, CountIsNat, Finite DEF InPool, AlertInv, AlertTypeOK
  <2>3. CASE q \in PairsOf(r, u)
    <3>1. /\ Tell(copies, PairsOf(r, u))[q] = copies[q] + 1
          /\ Tell(unseen, PairsOf(r, u))[q] = unseen[q] + 1
      BY <1>8, <2>3 DEF Tell
    <3>2. q \in run[r].rows /\ UserOf(q) = u /\ q \notin Unmarked(r)
      BY <1>2, <2>3 DEF PairsOf, Unmarked
    <3>3. CASE d.got = run[r].got
      <4>1. q \notin Unmarked(r)'  BY <1>2, <1>4, <1>5, <3>2, <3>3 DEF Unmarked
      <4>2. InDigests(q)' = InDigests(q)  BY <1>2, <1>5, <3>2, <4>1, InDigestsMoved
      <4>3. \/ copies' = copies /\ unseen' = unseen
            \/ /\ copies' = Tell(copies, PairsOf(r, u))
               /\ unseen' = Tell(unseen, PairsOf(r, u))
        BY <1>2, <1>4, <3>3 DEF ghosts
      <4> QED BY <2>1, <2>2, <3>1, <4>2, <4>3
    <3>4. CASE d.got # run[r].got
      <4>1. /\ copies' = Tell(copies, PairsOf(r, u)) /\ unseen' = unseen
            /\ d.got = run[r].got \cup {u}
        BY <1>4, <3>4
      <4>2. q \in Unmarked(r)'  BY <1>4, <1>5, <3>2, <4>1 DEF Unmarked
      <4>3. Cardinality(InDigests(q)') = Cardinality(InDigests(q)) + 1
        BY <1>2, <1>5, <3>2, <4>2, InDigestsMoved
      <4> QED BY <2>1, <2>2, <3>1, <4>1, <4>3
    <3> QED BY <3>3, <3>4
  <2>4. CASE q \notin PairsOf(r, u)
    <3>1. /\ Tell(copies, PairsOf(r, u))[q] = copies[q]
          /\ Tell(unseen, PairsOf(r, u))[q] = unseen[q]
      BY <2>2, <2>4 DEF Tell
    <3>2. q \in Unmarked(r) <=> q \in Unmarked(r)'
      BY <1>4, <1>5, <2>4 DEF Unmarked, PairsOf
    <3>3. InDigests(q)' = InDigests(q)  BY <1>2, <1>5, <3>2, InDigestsMoved
    <3>4. copies'[q] = copies[q] /\ unseen'[q] = unseen[q]
      BY <1>4, <3>1 DEF ghosts
    <3> QED BY <2>1, <2>2, <3>3, <3>4
  <2> QED BY <2>3, <2>4
<1>9. lock' \in Run \cup {None} /\ attempts' \subseteq Pair
  BY <1>2 DEF AlertInv, AlertTypeOK
<1> QED BY <1>1, <1>2, <1>5, <1>6, <1>7, <1>8, <1>9, DigestFrame

-----------------------------------------------------------------------------
(* Every step. *)

LEMMA StutterHolds ==
  ASSUME AlertInv, EveryCopyAccounted, UNCHANGED vars
  PROVE  AlertInv' /\ EveryCopyAccounted'
<1> USE DEF vars
<1>1. AlertTypeOK' /\ CounterExact' /\ (receipts \subseteq attempts)' /\ HookOK'
  BY DEF AlertInv, AlertTypeOK, CounterExact, HookOK, Recorded
<1>2. (Cardinality(Running) <= Threads)'
  <2>1. Running' = Running  BY DEF Running
  <2> QED BY <2>1 DEF AlertInv
<1>3. (\A i \in Slot : BatchOK(i))' /\ (\A r \in Run : DigestOK(r))'
  BY DEF AlertInv, BatchOK, DigestOK, Recorded
<1>4. EveryCopyAccounted'
  <2>1. \A p \in Pair : InPool(p)' = InPool(p) /\ InDigests(p)' = InDigests(p)
    BY DEF InPool, InDigests, Unmarked
  <2> QED BY <2>1 DEF EveryCopyAccounted
<1> QED BY <1>1, <1>2, <1>3, <1>4 DEF AlertInv

LEMMA StepHolds ==
  AlertInv /\ EveryCopyAccounted /\ [Next]_vars => AlertInv' /\ EveryCopyAccounted'
<1> SUFFICES ASSUME AlertInv, EveryCopyAccounted, [Next]_vars
             PROVE  AlertInv' /\ EveryCopyAccounted'
  OBVIOUS
<1>1. CASE UNCHANGED vars  BY <1>1, StutterHolds
<1>2. CASE Edit \/ \E s \in Search : delete_saved_search(s)
  BY <1>2, EditHolds, DeleteSearchHolds
<1>3. CASE worker_exit \/ Restart \/ Crash
  BY <1>3, WorkerExitHolds, HookHolds, CrashHolds
<1>4. CASE HookStep \/ \E a \in Ad : DeliverImmediateAlerts(a)
  BY <1>4, HookHolds, DispatchHolds DEF HookStep
<1>5. CASE \E i \in Slot : PoolStep(i)
  BY <1>5, StartBatchHolds, SendFinishedHolds, SendHolds, ReceiptHolds DEF PoolStep
<1>6. ASSUME NEW r \in Run, DigestStep(r) \/ KillDigest(r)
      PROVE  AlertInv' /\ EveryCopyAccounted'
  BY <1>6, BeginDigestHolds, PersistAlertsHolds, DigestsSentHolds, EndDigestHolds,
     CollectMemberHolds, SendUserDigestHolds, MarkNextHolds, KillDigestHolds
     DEF DigestStep
<1> QED BY <1>1, <1>2, <1>3, <1>4, <1>5, <1>6 DEF Next

(* The counter of the pool is exact, a message is in one place, and what is *)
(* sent was recorded, for any number of slots, threads and digests.         *)
THEOREM AlertInvariance == Spec => []AlertInv
<1> QED BY InitHolds, StepHolds, PTL DEF Spec

(* Every message a user got is accounted for: a receipt, one on its way, a  *)
(* logged duplicate, or a crash, a kill or an unanswered call.              *)
THEOREM EveryCopyAccountedHolds == Spec => []EveryCopyAccounted
<1> QED BY InitHolds, StepHolds, PTL DEF Spec

-----------------------------------------------------------------------------
(* The scheduler. *)

USE Commands, Days, NoneIsNoDay

\* Days and half days.
LEMMA Halves ==
  ASSUME NEW t \in 0..(2 * LastDay + 1), NEW u \in 0..(2 * LastDay + 1), t <= u
  PROVE  /\ DayOf(t) \in Day /\ DayOf(u) \in Day
         /\ DayOf(t) <= DayOf(u)
BY DEF DayOf, Day

\* Nothing has run and nothing is remembered.
LEMMA SchedulerBegins == SchedulerInit => SInv
BY DEF SchedulerInit, SInv, SchedulerTypeOK, Progressed, Remembered, RecordedDaysRan,
       Aggregated, YesNo, Day, Today, DayOf
-----------------------------------------------------------------------------
(* One step at a time. *)

\* The steps that touch neither what ran nor what is remembered of it.
Quiet == \/ Signal \/ Kill \/ LeaveLoop \/ BeginCycle \/ CycleRaises \/ Skip
         \/ RunHourly \/ AfterHourly \/ LeaveUnrecorded

LEMMA QuietTypes == ASSUME SchedulerTypeOK, Quiet PROVE SchedulerTypeOK'
<1> USE DEF SchedulerTypeOK, YesNo, Fault, clock, cycle, process, history, Finish
<1>1. CASE Signal           BY <1>1 DEF Signal
<1>2. CASE Kill             BY <1>2 DEF Kill
<1>3. CASE LeaveLoop            BY <1>3 DEF LeaveLoop
<1>4. CASE BeginCycle       BY <1>4 DEF BeginCycle
<1>5. CASE CycleRaises      BY <1>5 DEF CycleRaises
<1>6. CASE Skip             BY <1>6 DEF Skip
<1>7. CASE RunHourly
  <2>1. failed' \subseteq {"hourly", "daily"}  BY <1>7 DEF RunHourly
  <2>2. faults' \in Nat  BY <1>7 DEF RunHourly
  <2> QED BY <1>7, <2>1, <2>2 DEF RunHourly
<1>8. CASE AfterHourly      BY <1>8 DEF AfterHourly
<1>9. CASE LeaveUnrecorded  BY <1>9 DEF LeaveUnrecorded
<1> QED BY <1>1, <1>2, <1>3, <1>4, <1>5, <1>6, <1>7, <1>8, <1>9 DEF Quiet

LEMMA QuietHolds == ASSUME SInv, Quiet PROVE SInv'
<1> USE DEF SInv, Quiet, DayOf, Today, Day, YesNo, Fault, clock, cycle, process,
            history, Signal, Kill, LeaveLoop, BeginCycle, CycleRaises, Skip,
            RunHourly, AfterHourly, LeaveUnrecorded, Finish, Size, SchedulerTypeOK
<1>1. SchedulerTypeOK'  BY QuietTypes
<1>2. Progressed'       BY DEF Progressed, Remembered
<1>3. Remembered'       BY DEF Remembered
<1>4. RecordedDaysRan'  BY DEF Progressed, RecordedDaysRan
<1>5. Aggregated'       BY DEF Remembered, Aggregated
<1> QED BY <1>1, <1>2, <1>3, <1>4, <1>5

LEMMA TickHolds == ASSUME SInv, Tick PROVE SInv'
<1> USE DEF SInv, Tick, DayOf, Today, Day, YesNo, clock, cycle, process, history,
            SchedulerTypeOK
<1>1. SchedulerTypeOK'  OBVIOUS
<1>2. Progressed'       BY DEF Progressed
<1>3. Remembered'       BY DEF Remembered
<1>4. RecordedDaysRan'  BY DEF RecordedDaysRan
<1>5. Aggregated'       BY DEF Aggregated
<1> QED BY <1>1, <1>2, <1>3, <1>4, <1>5

LEMMA StartHolds == ASSUME SInv, Start PROVE SInv'
<1> USE DEF SInv, Start, DayOf, Today, Day, YesNo, Fault, clock, history,
            SchedulerTypeOK
<1>1. SchedulerTypeOK'  OBVIOUS
<1>2. Progressed'       BY DEF Progressed
<1>3. Remembered'       BY DEF Remembered
<1>4. RecordedDaysRan'  BY DEF RecordedDaysRan
<1>5. Aggregated'       BY DEF Aggregated
<1> QED BY <1>1, <1>2, <1>3, <1>4, <1>5

\* A rollup by hand makes a day partial only while it is not over, and the
\* days whose metrics are relied on are before one that has begun.
LEMMA RollUpByHandHolds ==
  ASSUME SInv, NEW d \in Day, RollUpByHand(d)
  PROVE  SInv'
<1> USE DEF SInv, RollUpByHand, RolledUp, DayOf, Today, Day, YesNo, clock, cycle,
            process, history, SchedulerTypeOK
<1>1. SchedulerTypeOK'  OBVIOUS
<1>2. Progressed'       BY DEF Progressed
<1>3. Remembered'       BY DEF Remembered
<1>4. RecordedDaysRan'  BY DEF RecordedDaysRan
<1>5. Aggregated'
  <2> SUFFICES ASSUME NEW e \in Day, e > 0, <<e, Rollup>> \in ran, e \notin late
               PROVE  metrics'[e - 1] = "whole"
    BY DEF Aggregated
  <2>1. e <= Today /\ metrics[e - 1] = "whole"
    BY DEF Remembered, Aggregated
  <2> QED BY <2>1
<1> QED BY <1>1, <1>2, <1>3, <1>4, <1>5

\* A command that fails leaves a trace in `failed`.  One that ends well
\* joins those run on the day of its cycle; if it is the rollup and still runs
\* on that day, yesterday is whole.
LEMMA RunDailyHolds == ASSUME SInv, RunDaily PROVE SInv'
<1> USE DEF SInv, YesNo, Fault, clock, process, SchedulerTypeOK
<1>1. /\ DayOf(now) \in Day /\ Today \in Day /\ DayOf(now) <= Today
      /\ next \in 1..Daily
  BY Halves DEF Today, RunDaily, Remembered, Progressed
<1>2. /\ pc = "daily" /\ next' = next + 1
      /\ UNCHANGED <<time, pc, now, stop, first, last, marker, touched, lost, blind>>
  BY DEF RunDaily
<1>3. CASE /\ failed' = failed \cup {"daily"} /\ Fault
           /\ UNCHANGED <<ran, metrics, late>>
  <2>1. SchedulerTypeOK'
    <3>1. failed' \subseteq {"hourly", "daily"} /\ faults' \in Nat  BY <1>3
    <3> QED BY <1>2, <1>3, <3>1
  <2>2. Progressed'       BY <1>2, <1>3 DEF Progressed
  <2>3. Remembered'       BY <1>2, <1>3 DEF Remembered, Today, DayOf
  <2>4. RecordedDaysRan'  BY <1>2, <1>3 DEF RecordedDaysRan
  <2>5. Aggregated'       BY <1>2, <1>3 DEF Aggregated
  <2> QED BY <2>1, <2>2, <2>3, <2>4, <2>5
<1>4. CASE /\ ran' = ran \cup {<<DayOf(now), next>>}
           /\ IF next = Rollup /\ Today > 0
                THEN metrics' = RolledUp(Today - 1, Today) ELSE UNCHANGED metrics
           /\ late' = IF next = Rollup /\ Today # DayOf(now)
                        THEN late \cup {DayOf(now)} ELSE late
           /\ UNCHANGED <<failed, faults>>
  <2>1. SchedulerTypeOK'
    <3>1. ran' \subseteq Day \X (1..Daily)  BY <1>1, <1>4
    <3>2. late' \subseteq Day               BY <1>1, <1>4
    <3>3. metrics' \in [Day -> {"none", "part", "whole"}]
      BY <1>1, <1>4 DEF RolledUp, Day
    <3> QED BY <1>2, <1>4, <3>1, <3>2, <3>3
  <2>2. Progressed'
    <3>1. \A c \in 1..next : c \in 1..Daily /\ stop = "no" /\ "daily" \notin failed
             => <<DayOf(now), c>> \in ran'
      BY <1>1, <1>2, <1>4 DEF Progressed
    <3> QED BY <1>1, <1>2, <1>4, <3>1 DEF Progressed, DayOf
  <2>3. Remembered'
    <3>1. \A d \in Day, c \in 1..Daily : <<d, c>> \in ran' => d <= Today
      BY <1>1, <1>4 DEF Remembered
    <3> QED BY <1>2, <1>4, <3>1 DEF Remembered, Today, DayOf
  <2>4. RecordedDaysRan'  BY <1>2, <1>4 DEF RecordedDaysRan
  <2>5. Aggregated'
    <3> SUFFICES ASSUME NEW d \in Day, d > 0, <<d, Rollup>> \in ran', d \notin late'
                 PROVE  metrics'[d - 1] = "whole"
      BY DEF Aggregated
    <3>1. CASE <<d, Rollup>> \in ran
      <4>1. metrics[d - 1] = "whole"  BY <1>4, <3>1 DEF Aggregated
      <4> QED BY <1>1, <1>4, <4>1 DEF RolledUp, Day
    <3>2. CASE <<d, Rollup>> \notin ran
      <4>1. d = DayOf(now) /\ next = Rollup  BY <1>4, <3>2
      <4>2. Today = d                        BY <1>4, <4>1
      <4> QED BY <1>1, <1>4, <4>1, <4>2 DEF RolledUp, Day
    <3> QED BY <3>1, <3>2
  <2> QED BY <2>1, <2>2, <2>3, <2>4, <2>5
<1> QED BY <1>3, <1>4 DEF RunDaily

\* The set is over and clean, so every command of it has run today.
LEMMA RecordDailyHolds == ASSUME SInv, RecordDaily PROVE SInv'
<1> USE DEF SInv, YesNo, Fault, clock, SchedulerTypeOK
<1>1. DayOf(now) \in Day /\ DayOf(now) <= Today
  BY Halves DEF Today, Remembered
<1>2. \A c \in 1..Daily : <<DayOf(now), c>> \in ran
  BY DEF RecordDaily, DailySetIsClean, Progressed
<1>3. /\ last' = DayOf(now) /\ marker' \in {marker, DayOf(now)}
      /\ lost' \in {lost, lost \cup {DayOf(now)}} /\ faults' \in Nat
      /\ pc' = "wait" /\ first' = "no" /\ touched' \in YesNo
      /\ UNCHANGED <<time, next, now, failed, stop, metrics, ran, blind, late>>
  BY DEF RecordDaily, Finish
<1>4. SchedulerTypeOK'
  <2>1. lost' \subseteq Day  BY <1>1, <1>3
  <2> QED BY <1>1, <1>3, <2>1
<1>5. Progressed'       BY <1>3 DEF Progressed
<1>6. Remembered'
  BY <1>1, <1>3 DEF Remembered, Today, DayOf, RecordDaily, Day
<1>7. RecordedDaysRan'
  <2> SUFFICES ASSUME NEW d \in {last', marker'} \ {NoDay}, NEW c \in 1..Daily
               PROVE  <<d, c>> \in ran
    BY <1>3 DEF RecordedDaysRan
  <2>1. CASE d = DayOf(now)  BY <1>2, <2>1
  <2>2. CASE d # DayOf(now)
    <3>1. d = marker  BY <1>3, <2>2
    <3> QED BY <3>1 DEF RecordedDaysRan
  <2> QED BY <2>1, <2>2
<1>8. Aggregated'       BY <1>3 DEF Aggregated
<1> QED BY <1>4, <1>5, <1>6, <1>7, <1>8

LEMMA SchedulerStands == ASSUME SInv, UNCHANGED schedulerVars PROVE SInv'
BY DEF SInv, schedulerVars, SchedulerTypeOK, Progressed, Remembered, RecordedDaysRan,
       Aggregated, Today, DayOf

LEMMA SchedulerGoesOn == SInv /\ [SchedulerNext]_schedulerVars => SInv'
<1> SUFFICES ASSUME SInv, [SchedulerNext]_schedulerVars PROVE SInv'
  OBVIOUS
<1>1. CASE Tick         BY <1>1, TickHolds
<1>2. CASE Start        BY <1>2, StartHolds
<1>3. CASE RunDaily     BY <1>3, RunDailyHolds
<1>4. CASE RecordDaily  BY <1>4, RecordDailyHolds
<1>5. CASE Quiet        BY <1>5, QuietHolds
<1>6. ASSUME NEW d \in Day, RollUpByHand(d) PROVE SInv'
  BY <1>6, RollUpByHandHolds
<1>7. CASE UNCHANGED schedulerVars  BY <1>7, SchedulerStands
<1> QED BY <1>1, <1>2, <1>3, <1>4, <1>5, <1>6, <1>7 DEF SchedulerNext, Step, Quiet

-----------------------------------------------------------------------------
(* The results. *)

(* What is remembered of the daily set, in memory and in the marker, is     *)
(* true of what ran, over any stops, kills, failures and restarts.          *)
THEOREM SchedulerInvariance == SchedulerSpec => []SInv
<1> QED BY SchedulerBegins, SchedulerGoesOn, PTL DEF SchedulerSpec

(* On a recorded day every daily command was run in a cycle of that day.    *)
THEOREM RecordedDaysRanHolds == SchedulerSpec => []RecordedDaysRan
<1>1. SInv => RecordedDaysRan  BY DEF SInv
<1> QED BY <1>1, SchedulerInvariance, PTL

(* On a recorded day whose rollup did not run over midnight, the metrics of *)
(* the day before are whole: the rollup is one of the commands that ran.    *)
THEOREM RecordedDaysRolledUpHolds == SchedulerSpec => []RecordedDaysRolledUp
<1>1. SInv => RecordedDaysRolledUp
  <2> SUFFICES ASSUME SInv, marker # NoDay, marker > 0, marker \notin late
               PROVE  metrics[marker - 1] = "whole"
    BY DEF RecordedDaysRolledUp
  <2>1. marker \in Day  BY DEF SInv, SchedulerTypeOK
  <2>2. <<marker, Rollup>> \in ran  BY DEF SInv, RecordedDaysRan
  <2> QED BY <2>1, <2>2 DEF SInv, Aggregated
<1> QED BY <1>1, SchedulerInvariance, PTL

\* A process that read the marker remembers a day at least as late, and never
\* one after the cycle's: the marker of this day would be the day it remembers.
LEMMA RepeatStep ==
  SInv /\ [SchedulerNext]_schedulerVars =>
    [pc = "hourly" /\ pc' = "daily" => marker # DayOf(now) \/ blind = "yes"]_schedulerVars
<1> SUFFICES ASSUME SInv, SchedulerNext, pc = "hourly", pc' = "daily", marker = DayOf(now),
                    blind # "yes"
             PROVE  FALSE
  OBVIOUS
<1>1. AfterHourly /\ should_run_daily(now, last)
  BY DEF SchedulerNext, Step, Tick, RollUpByHand, Signal, Kill, CycleRaises, Start, LeaveLoop,
         BeginCycle, Skip, RunHourly, AfterHourly, RunDaily, RecordDaily,
         LeaveUnrecorded, Finish, cycle
<1>2. DayOf(now) \in Day  BY Halves DEF SInv, SchedulerTypeOK
<1>3. last = DayOf(now)
  BY <1>2 DEF SInv, Remembered, SchedulerTypeOK, YesNo, Day
<1> QED BY <1>1, <1>3 DEF should_run_daily

(* A marker problem re-runs a day, and nothing else does.                   *)
THEOREM OnlyTheBlindRepeatHolds == SchedulerSpec => OnlyTheBlindRepeat
<1>1. SchedulerSpec => [][SchedulerNext]_schedulerVars  BY PTL DEF SchedulerSpec
<1> QED BY <1>1, RepeatStep, SchedulerInvariance, PTL DEF OnlyTheBlindRepeat

-----------------------------------------------------------------------------
(* Consent and the gates. *)

(* The bot's gate lets an ordinary update of a registered account through  *)
(* exactly when account_state_q, the rule of alerts and listings, admits   *)
(* it: the two tiers agree on who is barred.                               *)
THEOREM GatesAgree ==
  \A s \in SUBSET Flag : MayInteract(s, "plain") <=> account_state_q(s)
BY DEF MayInteract, account_state_q, Blocking, Flag

(* The support intake that the gate admits a deactivated account to is one *)
(* its own gate may accept: no flag but consent can refuse the ticket.     *)
THEOREM SupportIsOpen ==
  \A s \in SUBSET Flag :
    "active" \notin s /\ MayInteract(s, "support") /\ "accepted" \in s
      => can_store_personal_data(s)
BY DEF MayInteract, can_store_personal_data, Blocking, Flag

(* Whoever passes the /post gate of the bot may create the ad on the web,  *)
(* and conversely: the publishing flag is asked for twice, to no effect.   *)
THEOREM PostGatesAgree ==
  \A s \in SUBSET Flag : MayPost(s) <=> can_create_ad(s)
BY DEF MayPost, can_create_ad, can_publish_ad

-----------------------------------------------------------------------------
(* Records are never lost. *)

LEMMA WithdrawalsGrow ==
  ASSUME ledger \subseteq ledger'
  PROVE  \A u, l : Withdrawals(u, l) # {} => Withdrawals(u, l)' # {}
BY DEF Withdrawals

LEMMA WithdrawalsUnlinked ==
  ASSUME NEW U, ledger' = {Unlinked(r, U) : r \in ledger}, ledger \subseteq Record
  PROVE  \A u, l : Withdrawals(u, l) # {} => Withdrawals(u, l)' # {}
<1> SUFFICES ASSUME NEW u, NEW l, Withdrawals(u, l) # {}
             PROVE  Withdrawals(u, l)' # {}
  OBVIOUS
<1>1. PICK r \in ledger : r.of = u /\ r.life = l /\ r.choice = "withdrawn"
  BY DEF Withdrawals
<1>2. Unlinked(r, U) \in ledger'
  BY <1>1
<1>3. /\ Unlinked(r, U).of = u /\ Unlinked(r, U).life = l
      /\ Unlinked(r, U).choice = "withdrawn"
  BY <1>1 DEF Unlinked, Record
<1> QED BY <1>2, <1>3 DEF Withdrawals

LEMMA WithdrawalsPurged ==
  ASSUME NEW old, NEW older, Purge(old, older), ledger \subseteq Record
  PROVE  \A u, l : Withdrawals(u, l) # {} => Withdrawals(u, l)' # {}
<1> SUFFICES ASSUME NEW u, NEW l, Withdrawals(u, l) # {}
             PROVE  Withdrawals(u, l)' # {}
  OBVIOUS
<1>1. PICK r \in ledger : r.of = u /\ r.life = l /\ r.choice = "withdrawn"
  BY DEF Withdrawals
<1> DEFINE s == [r EXCEPT !.linked = "no",
                          !.actor = IF r \in older THEN Nobody ELSE @]
<1>2. CASE r \in old
  <2>1. s \in ledger'
    BY <1>1, <1>2 DEF Purge
  <2>2. s.of = u /\ s.life = l /\ s.choice = "withdrawn"
    BY <1>1 DEF Record
  <2> QED BY <2>1, <2>2 DEF Withdrawals
<1>3. CASE r \notin old
  BY <1>1, <1>3 DEF Purge, Withdrawals
<1> QED BY <1>2, <1>3

\* What Sound says of an instance survives a step that loses no record.
LEMMA SoundKept ==
  ASSUME \A u, l : Withdrawals(u, l) # {} => Withdrawals(u, l)' # {}
  PROVE  \A s, u, l : Sound(s, u, l) => Sound(s, u, l)'
BY DEF Sound

-----------------------------------------------------------------------------
(* The invariant. *)

USE StaffArePersons, NoneIsNobody, LivesAreBounded

LEMMA ConsentBegins == ConsentInit => CInv
<1> SUFFICES ASSUME ConsentInit PROVE CInv
  OBVIOUS
<1>1. TypeOK
  BY DEF ConsentInit, TypeOK, Request, Blank, RequestStep, NewAccount, Flag
<1>2. \A u \in Person : RowInv(u)
  BY DEF ConsentInit, RowInv, Sound, NewAccount
<1>3. \A h \in Handler : RequestInv(h)
  BY DEF ConsentInit, RequestInv, Blank
<1>4. \A r \in ledger : RecordInv(r)
  BY DEF ConsentInit
<1> QED BY <1>1, <1>2, <1>3, <1>4 DEF CInv

LEMMA EndHolds ==
  ASSUME CInv, NEW h \in Handler, End(h)
  PROVE  /\ request' \in [Handler -> Request]
         /\ \A k \in Handler : request'[k] = request[k] \/ request'[k].step = "done"
BY DEF CInv, TypeOK, End, Request, Blank, RequestStep

LEMMA LoadHolds ==
  ASSUME CInv, NEW h \in Handler, NEW u \in Person, NEW by \in Person,
         NEW step \in RequestStep, NEW saw,
         saw = {} \/ (saw = flags[u]), step = "form" => saw = flags[u],
         request[h].step = "new", row[u] # 0,
         request' = [request EXCEPT ![h] =
           [step |-> step, who |-> u, by |-> by, life |-> row[u], saw |-> saw]],
         UNCHANGED <<row, lives, flags, ledger>>
  PROVE  CInv'
<1> DEFINE new == [step |-> step, who |-> u, by |-> by, life |-> row[u], saw |-> saw]
<1>1. row[u] \in 1..MaxLives /\ row[u] <= lives[u] /\ new \in Request
  BY DEF CInv, TypeOK, RowInv, Request
<1>2. TypeOK'
  BY <1>1 DEF CInv, TypeOK
<1>3. Sound(flags[u], u, row[u])' /\ \A v \in Person : RowInv(v)'
  BY DEF CInv, RowInv, Sound, Withdrawals
<1>4. ASSUME NEW k \in Handler PROVE RequestInv(k)'
  <2>1. CASE k = h
    <3>1. request'[k] = new
      BY <2>1 DEF CInv, TypeOK
    <3>2. new.step = "form" => new.saw = flags[u]
      OBVIOUS
    <3> QED BY <1>1, <1>3, <3>1, <3>2 DEF RequestInv
  <2>2. CASE k # h
    <3>1. request'[k] = request[k]
      BY <2>2 DEF CInv, TypeOK
    <3> QED BY <3>1 DEF CInv, RequestInv, Sound, Withdrawals
  <2> QED BY <2>1, <2>2
<1>5. \A r \in ledger' : RecordInv(r)'
  BY DEF CInv, RecordInv
<1> QED BY <1>2, <1>3, <1>4, <1>5 DEF CInv

\* Load, and the step of LoadTicket, are instances of it.
LEMMA LoadsHold == ASSUME CInv, Loads PROVE CInv'
<1> PICK h \in Handler, u \in Person :
      \/ LoadConsent(h, u) \/ LoadWithdrawal(h, u) \/ LoadCity(h, u)
      \/ LoadLogin(h, u) \/ LoadTicket(h, u)
      \/ \E by \in Person : \/ StaffWithdraws(h, u, by)
                            \/ LoadLever(h, u, by)
                            \/ LoadAdmin(h, u, by)
  BY DEF Loads
<1>1. ASSUME NEW step \in RequestStep \ {"form"}, NEW by \in Person, Load(h, step, u, by, {})
      PROVE  CInv'
  BY <1>1, LoadHolds DEF Load
<1>2. ASSUME NEW by \in Person, Load(h, "form", u, by, flags[u]) PROVE CInv'
  <2>1. "form" \in RequestStep
    BY DEF RequestStep
  <2> QED BY <1>2, <2>1, LoadHolds DEF Load
<1>3. CASE LoadTicket(h, u)
  <2>1. "ticket" \in RequestStep
    BY DEF RequestStep
  <2> QED BY <1>3, <2>1, LoadHolds DEF LoadTicket
<1>4. CASE LoadConsent(h, u)
  BY <1>1, <1>4 DEF LoadConsent, RequestStep
<1>5. CASE LoadCity(h, u)
  BY <1>1, <1>5 DEF LoadCity, RequestStep
<1>6. CASE LoadLogin(h, u)
  BY <1>1, <1>6 DEF LoadLogin, RequestStep
<1>7. ASSUME NEW by \in Person, StaffWithdraws(h, u, by) PROVE CInv'
  BY <1>1, <1>7 DEF StaffWithdraws, RequestStep
<1>8. ASSUME NEW by \in Person, LoadLever(h, u, by) PROVE CInv'
  BY <1>1, <1>8 DEF LoadLever, RequestStep
<1>9. ASSUME NEW by \in Person, LoadAdmin(h, u, by) PROVE CInv'
  BY <1>1, <1>2, <1>9 DEF LoadAdmin, RequestStep
<1>10. CASE LoadWithdrawal(h, u)
  BY <1>1, <1>10 DEF LoadWithdrawal, RequestStep
<1> QED BY <1>3, <1>4, <1>5, <1>6, <1>7, <1>8, <1>9, <1>10

\* A step that ends or moves on requests, saves sound rows and loses no record.
LEMMA WriteHolds ==
  ASSUME CInv,
         row' \in [Person -> 0..MaxLives], lives' \in [Person -> 0..MaxLives],
         flags' \in [Person -> SUBSET Flag],
         ledger' \subseteq Record, \A r \in ledger' : RecordInv(r),
         \A u, l : Withdrawals(u, l) # {} => Withdrawals(u, l)' # {},
         \A u \in Person : RowInv(u)',
         \A u \in Person : lives[u] <= lives'[u],
         request' \in [Handler -> Request],
         \A k \in Handler :
           \/ request'[k] = request[k] \/ request'[k].step = "done"
           \/ /\ request'[k].step \in {"accepted", "declined"}
              /\ request[k].step \in {"accept", "decline"}
              /\ request'[k].who = request[k].who /\ request'[k].by = request[k].by
              /\ request'[k].life = request[k].life
  PROVE  CInv'
<1>1. TypeOK'
  BY DEF TypeOK
<1>2. ASSUME NEW k \in Handler PROVE RequestInv(k)'
  <2>1. CASE request'[k] = request[k]
    <3>1. request[k].step = "form" =>
            /\ request[k].who \in Person
            /\ Sound(request[k].saw, request[k].who, request[k].life)
            /\ request[k].life <= lives[request[k].who]
      BY DEF CInv, RequestInv
    <3>2. \A s, u, l : Sound(s, u, l) => Sound(s, u, l)'
      BY SoundKept
    <3>3. ASSUME NEW u \in Person, NEW l \in 0..MaxLives, l <= lives[u]
          PROVE  l <= lives'[u]
      BY <3>3 DEF CInv, TypeOK
    <3>4. request[k].life \in 0..MaxLives
      BY DEF CInv, TypeOK, Request
    <3>5. request[k].step \notin {"new", "done"} =>
            request[k].who \in Person /\ request[k].by \in Person
              /\ request[k].life \in 1..MaxLives
      BY DEF CInv, RequestInv
    <3>6. request[k].step = "form" =>
            Sound(request[k].saw, request[k].who, request[k].life)'
      BY <2>1, <3>1 DEF Sound, Withdrawals
    <3>7. request[k].step = "form" => request[k].life <= lives'[request[k].who]
      BY <3>1, <3>3, <3>4
    <3> QED BY <2>1, <3>5, <3>6, <3>7 DEF RequestInv
  <2>2. CASE request'[k].step = "done"
    BY <2>2 DEF RequestInv
  <2>3. CASE request'[k].step \in {"accepted", "declined"}
             /\ request[k].step \in {"accept", "decline"}
             /\ request'[k].who = request[k].who /\ request'[k].by = request[k].by
             /\ request'[k].life = request[k].life
    BY <2>3 DEF CInv, RequestInv
  <2> QED BY <2>1, <2>2, <2>3
<1>3. \A r \in ledger' : RecordInv(r)'
  BY DEF RecordInv
<1> QED BY <1>1, <1>2, <1>3 DEF CInv

LEMMA Pending ==
  ASSUME CInv, NEW h \in Handler, request[h].step \notin {"new", "done"}
  PROVE  /\ request[h].who \in Person /\ request[h].by \in Person
         /\ request[h].life \in 1..MaxLives /\ request[h] \in Request
BY DEF CInv, TypeOK, RequestInv

LEMMA SaveHolds ==
  ASSUME CInv, NEW h \in Handler, request[h].step \notin {"new", "done"},
         NEW drop, NEW add \in SUBSET Flag, Save(h, drop, add),
         \A u, l : Withdrawals(u, l) # {} => Withdrawals(u, l)' # {},
         "declined" \in add => "publishing" \in drop,
         "publishing" \in add => "declined" \in drop,
         {"declined", "publishing"} \cap add # {"declined", "publishing"},
         "linked" \notin add,
         "deleted" \in add =>
           /\ "linked" \in drop
           /\ {r \in ledger' : /\ r.of = request[h].who /\ r.life = request[h].life
                               /\ r.choice = "withdrawn"} # {}
  PROVE  /\ row' \in [Person -> 0..MaxLives] /\ lives' \in [Person -> 0..MaxLives]
         /\ flags' \in [Person -> SUBSET Flag]
         /\ \A u \in Person : RowInv(u)'
         /\ \A u \in Person : lives[u] <= lives'[u]
<1> DEFINE w == request[h].who
<1>1. w \in Person /\ row[w] = request[h].life /\ row[w] # 0
  BY Pending DEF Save
<1>2. flags' \in [Person -> SUBSET Flag]
  BY DEF CInv, TypeOK, Save
<1>3. ASSUME NEW u \in Person PROVE RowInv(u)'
  <2>1. CASE u = w
    <3>1. flags'[u] = (flags[u] \ drop) \cup add
      BY <1>1, <2>1 DEF CInv, TypeOK, Save
    <3>2. Sound(flags[u], u, row[u]) /\ row[u] <= lives[u]
      BY DEF CInv, RowInv
    <3>3. "declined" \in flags'[u] => "publishing" \notin flags'[u]
      BY <3>1, <3>2 DEF Sound
    <3>4. "deleted" \in flags'[u] => "linked" \notin flags'[u]
      BY <3>1, <3>2 DEF Sound
    <3>5. "deleted" \in flags'[u] => Withdrawals(u, row[u])' # {}
      <4>1. Withdrawals(u, row[u])' = {r \in ledger' : /\ r.of = u /\ r.life = row[u]
                                                     /\ r.choice = "withdrawn"}
        BY DEF Withdrawals, Save
      <4>2. CASE "deleted" \in flags[u]
        BY <3>2, <4>1, <4>2 DEF Sound, Withdrawals
      <4>3. CASE "deleted" \in add
        BY <1>1, <2>1, <4>1, <4>3 DEF Withdrawals, Save
      <4> QED BY <3>1, <4>2, <4>3
    <3>6. Sound(flags[u], u, row[u])'
      BY <3>3, <3>4, <3>5 DEF Sound
    <3>7. row'[u] = row[u] /\ lives'[u] = lives[u]
      BY DEF Save
    <3> QED BY <1>1, <2>1, <3>2, <3>6, <3>7 DEF RowInv
  <2>2. CASE u # w
    <3>1. flags'[u] = flags[u]
      BY <2>2 DEF CInv, TypeOK, Save
    <3>2. "deleted" \in flags[u] => Withdrawals(u, row[u])' # {}
      <4>1. "deleted" \in flags[u] => Withdrawals(u, row[u]) # {}
        BY DEF CInv, RowInv, Sound
      <4> QED BY <4>1 DEF Withdrawals, Save
    <3> QED BY <3>1, <3>2 DEF CInv, RowInv, Sound, Save
  <2> QED BY <2>1, <2>2
<1>4. \A u \in Person : lives[u] <= lives'[u]
  BY DEF CInv, TypeOK, Save
<1> QED BY <1>2, <1>3, <1>4 DEF CInv, TypeOK, Save

LEMMA ConsentsHold ==
  ASSUME CInv, NEW h \in Handler, give_consent(h) \/ decline_consent(h)
  PROVE  CInv'
<1>1. request[h].step \in {"accept", "decline"} /\ ledger' = ledger
  BY DEF give_consent, decline_consent
<1>2. \A u, l : Withdrawals(u, l) # {} => Withdrawals(u, l)' # {}
  BY <1>1, WithdrawalsGrow
<1>3. /\ row' \in [Person -> 0..MaxLives] /\ lives' \in [Person -> 0..MaxLives]
      /\ flags' \in [Person -> SUBSET Flag]
      /\ \A u \in Person : RowInv(u)'
      /\ \A u \in Person : lives[u] <= lives'[u]
  <2>1. CASE give_consent(h)
    BY <1>1, <1>2, <2>1, SaveHolds DEF give_consent, Flag
  <2>2. CASE decline_consent(h)
    BY <1>1, <1>2, <2>2, SaveHolds DEF decline_consent, Flag
  <2> QED BY <2>1, <2>2
<1>4. request' \in [Handler -> Request]
  BY DEF give_consent, decline_consent, Goto, CInv, TypeOK, Request, RequestStep
<1>5. \A k \in Handler :
        \/ request'[k] = request[k]
        \/ /\ request'[k].step \in {"accepted", "declined"}
           /\ request[k].step \in {"accept", "decline"}
           /\ request'[k].who = request[k].who /\ request'[k].by = request[k].by
           /\ request'[k].life = request[k].life
  BY <1>1 DEF give_consent, decline_consent, Goto, CInv, TypeOK, Request, RequestStep
<1>6. ledger' \subseteq Record /\ \A r \in ledger' : RecordInv(r)
  BY <1>1 DEF CInv, TypeOK
<1> QED BY <1>2, <1>3, <1>4, <1>5, <1>6, WriteHolds

LEMMA NewRecordHolds ==
  ASSUME CInv, NEW h \in Handler, request[h].step \notin {"new", "done"},
         NEW c \in Choice
  PROVE  /\ NewRecord(h, c) \in Record /\ RecordInv(NewRecord(h, c))
         /\ NewRecord(h, c).of = request[h].who
         /\ NewRecord(h, c).life = request[h].life /\ NewRecord(h, c).choice = c
BY Pending DEF NewRecord, Record, RecordInv

LEMMA RecordChoiceHolds ==
  ASSUME CInv, NEW h \in Handler, RecordChoice(h)
  PROVE  CInv'
<1>1. request[h].step \in Choice
  BY DEF RecordChoice, Choice
<1>2. /\ ledger' \subseteq Record /\ ledger \subseteq ledger'
      /\ \A r \in ledger' : RecordInv(r)
  <2>1. ledger' = ledger \cup {NewRecord(h, request[h].step)}
    BY DEF RecordChoice
  <2>2. NewRecord(h, request[h].step) \in Record
        /\ RecordInv(NewRecord(h, request[h].step))
    BY <1>1, NewRecordHolds DEF RecordChoice
  <2> QED BY <2>1, <2>2 DEF CInv, TypeOK
<1>3. \A u, l : Withdrawals(u, l) # {} => Withdrawals(u, l)' # {}
  BY <1>2, WithdrawalsGrow
<1>4. ASSUME NEW u \in Person PROVE RowInv(u)'
  BY <1>2 DEF RecordChoice, CInv, RowInv, Sound, Withdrawals
<1>5. \A u \in Person : lives[u] <= lives'[u]
  BY DEF RecordChoice, CInv, TypeOK
<1>6. End(h)
  BY DEF RecordChoice
<1>7. /\ row' \in [Person -> 0..MaxLives] /\ lives' \in [Person -> 0..MaxLives]
      /\ flags' \in [Person -> SUBSET Flag]
  BY DEF RecordChoice, CInv, TypeOK
<1> QED BY <1>2, <1>3, <1>4, <1>5, <1>6, <1>7, EndHolds, WriteHolds

LEMMA WithdrawHolds ==
  ASSUME CInv, NEW h \in Handler, withdraw_consent(h)
  PROVE  CInv'
<1> DEFINE new == NewRecord(h, "withdrawn")
<1>1. request[h].step \notin {"new", "done"} /\ ledger' = ledger \cup {new}
  BY DEF withdraw_consent
<1>2. /\ new \in Record /\ RecordInv(new) /\ new.of = request[h].who
      /\ new.life = request[h].life /\ new.choice = "withdrawn"
  BY <1>1, NewRecordHolds DEF Choice
<1>3. /\ ledger' \subseteq Record /\ ledger \subseteq ledger'
      /\ \A r \in ledger' : RecordInv(r)
  BY <1>1, <1>2 DEF CInv, TypeOK
<1>4. \A u, l : Withdrawals(u, l) # {} => Withdrawals(u, l)' # {}
  BY <1>3, WithdrawalsGrow
<1>5. {r \in ledger' : /\ r.of = request[h].who /\ r.life = request[h].life
                       /\ r.choice = "withdrawn"} # {}
  BY <1>1, <1>2
<1>6. /\ row' \in [Person -> 0..MaxLives] /\ lives' \in [Person -> 0..MaxLives]
      /\ flags' \in [Person -> SUBSET Flag]
      /\ \A u \in Person : RowInv(u)'
      /\ \A u \in Person : lives[u] <= lives'[u]
  <2>1. Save(h, {"linked", "accepted", "city", "ticket"}, {"deleted", "revoked"})
    BY DEF withdraw_consent
  <2> DEFINE drop == {"linked", "accepted", "city", "ticket"}
             add  == {"deleted", "revoked"}
  <2>2. /\ add \in SUBSET Flag /\ "linked" \in drop
        /\ "declined" \notin add /\ "publishing" \notin add /\ "linked" \notin add
    BY DEF Flag
  <2>3. {"declined", "publishing"} \cap add # {"declined", "publishing"}
    BY <2>2
  <2>4. Save(h, drop, add)
    BY <2>1
  <2> HIDE DEF drop, add
  <2> QED BY <1>1, <1>4, <1>5, <2>2, <2>3, <2>4, SaveHolds
<1>7. End(h)
  BY DEF withdraw_consent
<1> QED BY <1>3, <1>4, <1>6, <1>7, EndHolds, WriteHolds

LEMMA PlainSavesHold ==
  ASSUME CInv, NEW h \in Handler, SaveCity(h) \/ CreateTicket(h) \/ PullLever(h)
  PROVE  CInv'
<1>1. request[h].step \notin {"new", "done"} /\ ledger' = ledger /\ End(h)
  BY DEF SaveCity, CreateTicket, PullLever
<1>2. \A u, l : Withdrawals(u, l) # {} => Withdrawals(u, l)' # {}
  BY <1>1, WithdrawalsGrow
<1>3. \E drop \in {{}, {"city"}, {"active"}} :
        \E add \in {{}, {"city"}, {"ticket"}, {"active"}, {"banned"}} :
          Save(h, drop, add)
  BY DEF SaveCity, CreateTicket, PullLever
<1>4. /\ row' \in [Person -> 0..MaxLives] /\ lives' \in [Person -> 0..MaxLives]
      /\ flags' \in [Person -> SUBSET Flag]
      /\ \A u \in Person : RowInv(u)'
      /\ \A u \in Person : lives[u] <= lives'[u]
  <2>1. PICK drop \in {{}, {"city"}, {"active"}},
             add \in {{}, {"city"}, {"ticket"}, {"active"}, {"banned"}} :
          Save(h, drop, add)
    BY <1>3
  <2>2. /\ add \in SUBSET Flag
        /\ "declined" \notin add /\ "publishing" \notin add
        /\ "linked" \notin add /\ "deleted" \notin add
    BY <2>1 DEF Flag
  <2> QED BY <1>1, <1>2, <2>1, <2>2, SaveHolds
<1>5. ledger' \subseteq Record /\ \A r \in ledger' : RecordInv(r)
  BY <1>1 DEF CInv, TypeOK
<1> QED BY <1>1, <1>2, <1>4, <1>5, EndHolds, WriteHolds

LEMMA DeleteHolds ==
  ASSUME CInv, NEW U \in SUBSET Person, DeleteRows(U)
  PROVE  /\ row' \in [Person -> 0..MaxLives] /\ lives' \in [Person -> 0..MaxLives]
         /\ flags' \in [Person -> SUBSET Flag]
         /\ ledger' \subseteq Record /\ \A r \in ledger' : RecordInv(r)
         /\ \A u, l : Withdrawals(u, l) # {} => Withdrawals(u, l)' # {}
         /\ \A u \in Person : RowInv(u)'
         /\ \A u \in Person : lives[u] <= lives'[u]
<1>1. /\ row' \in [Person -> 0..MaxLives] /\ lives' \in [Person -> 0..MaxLives]
      /\ flags' \in [Person -> SUBSET Flag]
  BY DEF CInv, TypeOK, DeleteRows
<1>2. ledger' \subseteq Record /\ \A r \in ledger' : RecordInv(r)
  <2>1. ASSUME NEW r \in ledger
        PROVE  Unlinked(r, U) \in Record /\ RecordInv(Unlinked(r, U))
    <3>1. r \in Record /\ r.actor # r.of
      BY DEF CInv, TypeOK, RecordInv
    <3> QED BY <3>1 DEF Unlinked, Record, RecordInv
  <2> QED BY <2>1 DEF DeleteRows
<1>3. \A u, l : Withdrawals(u, l) # {} => Withdrawals(u, l)' # {}
  BY WithdrawalsUnlinked DEF DeleteRows, CInv, TypeOK
<1>4. ASSUME NEW u \in Person PROVE RowInv(u)'
  <2>1. CASE u \in U
    <3>1. row'[u] = 0 /\ flags'[u] = {} /\ lives'[u] = lives[u] /\ lives[u] \in Nat
      BY <2>1 DEF DeleteRows, CInv, TypeOK
    <3> QED BY <3>1 DEF RowInv, Sound
  <2>2. CASE u \notin U
    <3>1. row'[u] = row[u] /\ flags'[u] = flags[u] /\ lives'[u] = lives[u]
      BY <2>2 DEF DeleteRows, CInv, TypeOK
    <3>2. Sound(flags[u], u, row[u]) => Sound(flags[u], u, row[u])'
      BY <1>3, <3>1 DEF Sound, Withdrawals
    <3> QED BY <3>1, <3>2 DEF CInv, RowInv
  <2> QED BY <2>1, <2>2
<1>5. \A u \in Person : lives[u] <= lives'[u]
  BY DEF DeleteRows, CInv, TypeOK
<1> QED BY <1>1, <1>2, <1>3, <1>4, <1>5

LEMMA DeletionsHold ==
  ASSUME CInv,
         \/ \E h \in Handler : StaffDelete(h)
         \/ \E U \in SUBSET Person : HardDelete(U)
  PROVE  CInv'
<1>1. ASSUME NEW h \in Handler, StaffDelete(h) PROVE CInv'
  <2>1. {request[h].who} \in SUBSET Person /\ DeleteRows({request[h].who}) /\ End(h)
    BY <1>1, Pending DEF StaffDelete
  <2> QED BY <2>1, DeleteHolds, EndHolds, WriteHolds
<1>2. ASSUME NEW U \in SUBSET Person, HardDelete(U) PROVE CInv'
  <2>1. DeleteRows(U) /\ request' = request
    BY <1>2 DEF HardDelete
  <2>2. request' \in [Handler -> Request]
    BY <2>1 DEF CInv, TypeOK
  <2> QED BY <2>1, <2>2, DeleteHolds, WriteHolds
<1> QED BY <1>1, <1>2

\* The instance the form saves was sound when it was loaded, and still is.
LEMMA FormHolds ==
  ASSUME CInv, NEW h \in Handler, SaveForm(h)
  PROVE  CInv'
<1> DEFINE w == request[h].who
           saw == request[h].saw
<1>1. /\ w \in Person /\ request[h].life \in 1..MaxLives /\ request[h] \in Request
      /\ Sound(saw, w, request[h].life) /\ request[h].life <= lives[w]
  BY Pending DEF SaveForm, CInv, RequestInv
<1>2. /\ ledger' = ledger /\ lives' = lives /\ End(h)
      /\ row' = [row EXCEPT ![w] = request[h].life]
  BY DEF SaveForm
<1>3. PICK new \in SUBSET Flag :
        /\ flags' = [flags EXCEPT ![w] = new]
        /\ \A f \in {"declined", "publishing", "deleted", "linked"} :
             f \in new <=> f \in saw
  <2>1. PICK city \in {{}, {"city"}}, kept \in {{}, flags[w] \cap {"ticket"}} :
          flags' = [flags EXCEPT ![w] = (saw \ {"city", "ticket"}) \cup city \cup kept]
    BY DEF SaveForm
  <2>2. (saw \ {"city", "ticket"}) \cup city \cup kept \in SUBSET Flag
    <3>1. saw \in SUBSET Flag /\ flags[w] \in SUBSET Flag
      BY <1>1 DEF Request, CInv, TypeOK
    <3> QED BY <3>1 DEF Flag
  <2> QED BY <2>1, <2>2
<1>4. \A u, l : Withdrawals(u, l) # {} => Withdrawals(u, l)' # {}
  BY <1>2, WithdrawalsGrow
<1>5. ASSUME NEW u \in Person PROVE RowInv(u)'
  <2>1. CASE u = w
    <3>1. /\ flags'[u] = new /\ row'[u] = request[h].life
          /\ lives'[u] = lives[u] /\ row'[u] # 0 /\ row'[u] <= lives'[u]
      BY <1>1, <1>2, <1>3, <2>1 DEF CInv, TypeOK
    <3>2. "declined" \in new => "publishing" \notin new
      BY <1>1, <1>3 DEF Sound
    <3>3. "deleted" \in new => "linked" \notin new
      BY <1>1, <1>3 DEF Sound
    <3>4. "deleted" \in new =>
            {r \in ledger : r.of = w /\ r.life = request[h].life
                            /\ r.choice = "withdrawn"} # {}
      BY <1>1, <1>3 DEF Sound, Withdrawals
    <3>5. "deleted" \in flags'[u] => Withdrawals(u, row[u])' # {}
      BY <1>2, <2>1, <3>1, <3>4 DEF Withdrawals
    <3>6. Sound(flags[u], u, row[u])'
      BY <3>1, <3>2, <3>3, <3>5 DEF Sound
    <3> QED BY <3>1, <3>6 DEF RowInv
  <2>2. CASE u # w
    <3>1. flags'[u] = flags[u] /\ row'[u] = row[u] /\ lives'[u] = lives[u]
      BY <1>2, <1>3, <2>2 DEF CInv, TypeOK
    <3>2. Sound(flags[u], u, row[u]) => Sound(flags[u], u, row[u])'
      BY <1>4, <3>1 DEF Sound, Withdrawals
    <3> QED BY <3>1, <3>2 DEF CInv, RowInv
  <2> QED BY <2>1, <2>2
<1>6. /\ row' \in [Person -> 0..MaxLives] /\ lives' \in [Person -> 0..MaxLives]
      /\ flags' \in [Person -> SUBSET Flag]
      /\ ledger' \subseteq Record /\ \A r \in ledger' : RecordInv(r)
      /\ \A u \in Person : lives[u] <= lives'[u]
  BY <1>1, <1>2, <1>3 DEF CInv, TypeOK
<1> QED BY <1>2, <1>4, <1>5, <1>6, EndHolds, WriteHolds

LEMMA FailHolds ==
  ASSUME CInv, NEW h \in Handler, Fail(h)
  PROVE  CInv'
<1>1. UNCHANGED <<row, lives, flags, ledger>> /\ End(h)
  BY DEF Fail
<1>2. \A u, l : Withdrawals(u, l) # {} => Withdrawals(u, l)' # {}
  BY <1>1, WithdrawalsGrow
<1>3. \A u \in Person : RowInv(u)' /\ lives[u] <= lives'[u]
  BY <1>1 DEF CInv, TypeOK, RowInv, Sound, Withdrawals
<1>4. /\ row' \in [Person -> 0..MaxLives] /\ lives' \in [Person -> 0..MaxLives]
      /\ flags' \in [Person -> SUBSET Flag]
      /\ ledger' \subseteq Record /\ \A r \in ledger' : RecordInv(r)
  BY <1>1 DEF CInv, TypeOK
<1> QED BY <1>1, <1>2, <1>3, <1>4, EndHolds, WriteHolds

LEMMA RegisterHolds ==
  ASSUME CInv, NEW u \in Person, Register(u)
  PROVE  CInv'
<1>1. ledger' = ledger /\ request' = request
  BY DEF Register
<1>2. \A v, l : Withdrawals(v, l) # {} => Withdrawals(v, l)' # {}
  BY <1>1, WithdrawalsGrow
<1>3. /\ row' \in [Person -> 0..MaxLives] /\ lives' \in [Person -> 0..MaxLives]
      /\ flags' \in [Person -> SUBSET Flag]
  BY DEF Register, CInv, TypeOK, NewAccount, Flag
<1>4. \A v \in Person : lives[v] <= lives'[v]
  BY DEF Register, CInv, TypeOK
<1>5. ASSUME NEW v \in Person PROVE RowInv(v)'
  <2>1. CASE v = u
    <3>1. flags'[v] = NewAccount /\ row'[v] = lives'[v] /\ row'[v] \in Nat \ {0}
      BY <2>1 DEF Register, CInv, TypeOK
    <3>2. Sound(flags[v], v, row[v])'
      BY <3>1 DEF Sound, NewAccount
    <3> QED BY <3>1, <3>2 DEF RowInv
  <2>2. CASE v # u
    <3>1. flags'[v] = flags[v] /\ row'[v] = row[v] /\ lives'[v] = lives[v]
      BY <2>2 DEF Register, CInv, TypeOK
    <3>2. Sound(flags[v], v, row[v]) => Sound(flags[v], v, row[v])'
      BY <1>1, <3>1 DEF Sound, Withdrawals
    <3> QED BY <3>1, <3>2 DEF CInv, RowInv
  <2> QED BY <2>1, <2>2
<1>6. ledger' \subseteq Record /\ \A r \in ledger' : RecordInv(r)
  BY <1>1 DEF CInv, TypeOK
<1>7. request' \in [Handler -> Request]
  BY <1>1 DEF CInv, TypeOK
<1> QED BY <1>1, <1>2, <1>3, <1>4, <1>5, <1>6, <1>7, WriteHolds

LEMMA PurgeHolds ==
  ASSUME CInv, NEW old, NEW older, Purge(old, older)
  PROVE  CInv'
<1>1. UNCHANGED <<row, lives, flags, request>>
  BY DEF Purge
<1>2. ledger' \subseteq Record /\ \A r \in ledger' : RecordInv(r)
  <2>1. ASSUME NEW r \in ledger
        PROVE  LET s == [r EXCEPT !.linked = "no",
                                  !.actor = IF r \in older THEN Nobody ELSE @]
               IN  s \in Record /\ RecordInv(s)
    <3>1. r \in Record /\ r.actor # r.of
      BY DEF CInv, TypeOK, RecordInv
    <3> QED BY <3>1 DEF Record, RecordInv
  <2> QED BY <2>1 DEF Purge, CInv, TypeOK
<1>3. \A u, l : Withdrawals(u, l) # {} => Withdrawals(u, l)' # {}
  BY WithdrawalsPurged DEF CInv, TypeOK
<1>4. ASSUME NEW u \in Person PROVE RowInv(u)'
  <2>1. Sound(flags[u], u, row[u]) => Sound(flags[u], u, row[u])'
    BY <1>1, <1>3 DEF Sound, Withdrawals
  <2> QED BY <1>1, <2>1 DEF CInv, RowInv
<1>5. /\ row' \in [Person -> 0..MaxLives] /\ lives' \in [Person -> 0..MaxLives]
      /\ flags' \in [Person -> SUBSET Flag] /\ request' \in [Handler -> Request]
      /\ \A u \in Person : lives[u] <= lives'[u]
  BY <1>1 DEF CInv, TypeOK
<1> QED BY <1>1, <1>2, <1>3, <1>4, <1>5, WriteHolds

LEMMA ConsentGoesOn == CInv /\ [ConsentNext]_consentVars => CInv'
<1> SUFFICES ASSUME CInv, [ConsentNext]_consentVars PROVE CInv'
  OBVIOUS
<1>1. CASE Loads
  BY <1>1, LoadsHold
<1>2. CASE Writes
  BY <1>2, ConsentsHold, RecordChoiceHolds, WithdrawHolds, PlainSavesHold,
     DeletionsHold, FormHolds, FailHolds DEF Writes
<1>3. CASE BotAndCommands
  BY <1>3, RegisterHolds, DeletionsHold, PurgeHolds DEF BotAndCommands
<1>4. CASE UNCHANGED consentVars
  BY <1>4 DEF consentVars, CInv, TypeOK, RowInv, RequestInv, RecordInv, Sound, Withdrawals
<1> QED BY <1>1, <1>2, <1>3, <1>4 DEF ConsentNext

(* The invariant: rows and the instances requests hold are sound. *)
THEOREM ConsentInvariance == ConsentSpec => []CInv
BY ConsentBegins, ConsentGoesOn, PTL DEF ConsentSpec

(* The state is well typed. *)
THEOREM ConsentTypes == ConsentSpec => []TypeOK
<1>1. CInv => TypeOK
  BY DEF CInv
<1> QED BY <1>1, ConsentInvariance, PTL

(* A decline keeps its holder from publishing, whatever was saved when. *)
THEOREM DeclineHolds == ConsentSpec => []DeclineBlocksPublishing
<1>1. CInv => DeclineBlocksPublishing
  BY DEF CInv, RowInv, Sound, DeclineBlocksPublishing, can_publish_ad
<1> QED BY <1>1, ConsentInvariance, PTL

(* An erased identity keeps its evidence. *)
THEOREM EvidenceHolds == ConsentSpec => []EvidenceOfWithdrawal
<1>1. CInv => EvidenceOfWithdrawal
  BY DEF CInv, RowInv, Sound, EvidenceOfWithdrawal
<1> QED BY <1>1, ConsentInvariance, PTL

-----------------------------------------------------------------------------
(* Nothing but the form restores. *)

LEMMA SaveRestoresNothing ==
  ASSUME CInv, NEW h \in Handler, NEW drop, NEW add, Save(h, drop, add),
         "deleted" \notin drop, "linked" \notin add, NEW u \in Person
  PROVE  ~Restored(u)
<1>1. row' = row
  BY DEF Save
<1>2. flags'[u] = flags[u] \/ flags'[u] = (flags[u] \ drop) \cup add
  BY DEF Save, CInv, TypeOK
<1> QED BY <1>1, <1>2 DEF Restored

LEMMA DeleteRestoresNothing ==
  ASSUME CInv, NEW U, DeleteRows(U), NEW u \in Person
  PROVE  ~Restored(u)
<1>1. row'[u] \in {0, row[u]} /\ (row'[u] = row[u] => flags'[u] \in {{}, flags[u]})
  BY DEF DeleteRows
<1>2. row[u] # 0 /\ row'[u] = row[u] => u \notin U /\ flags'[u] = flags[u]
  BY DEF DeleteRows
<1> QED BY <1>1, <1>2 DEF Restored

LEMMA FormRestoresItsOwn ==
  ASSUME CInv, NEW h \in Handler, SaveForm(h), NEW u \in Person, Restored(u)
  PROVE  FormSaved(h, u)
<1>1. request[h].who = u
  <2> SUFFICES ASSUME request[h].who # u PROVE FALSE
    OBVIOUS
  <2>1. row'[u] = row[u] /\ flags'[u] = flags[u]
    BY DEF SaveForm, CInv, TypeOK
  <2> QED BY <2>1 DEF Restored
<1>2. request'[h].step = "done"
  BY DEF SaveForm, End, CInv, TypeOK, Request, Blank
<1> QED BY <1>1, <1>2 DEF SaveForm, FormSaved

LEMMA RestoringStep ==
  ASSUME CInv, [ConsentNext]_consentVars, NEW u \in Person, Restored(u)
  PROVE  \E h \in Handler : FormSaved(h, u)
<1>1. ASSUME UNCHANGED <<row, lives, flags>> PROVE FALSE
  BY <1>1 DEF Restored
<1>2. CASE Loads
  <2>1. UNCHANGED <<row, lives, flags>>
    BY <1>2 DEF Loads, LoadConsent, LoadCity, LoadLogin, LoadTicket, LoadWithdrawal,
                StaffWithdraws,
                LoadLever, LoadAdmin, Load
  <2> QED BY <1>1, <2>1
<1>3. ASSUME NEW h \in Handler,
             \/ give_consent(h) \/ decline_consent(h) \/ withdraw_consent(h)
             \/ SaveCity(h) \/ CreateTicket(h) \/ PullLever(h)
      PROVE  FALSE
  <2>1. CASE give_consent(h)
    BY <2>1, SaveRestoresNothing DEF give_consent
  <2>2. CASE decline_consent(h)
    BY <2>2, SaveRestoresNothing DEF decline_consent
  <2>3. CASE withdraw_consent(h)
    BY <2>3, SaveRestoresNothing DEF withdraw_consent
  <2>4. CASE SaveCity(h)
    BY <2>4, SaveRestoresNothing DEF SaveCity
  <2>5. CASE CreateTicket(h)
    BY <2>5, SaveRestoresNothing DEF CreateTicket
  <2>6. CASE PullLever(h)
    BY <2>6, SaveRestoresNothing DEF PullLever
  <2> QED BY <1>3, <2>1, <2>2, <2>3, <2>4, <2>5, <2>6
<1>4. ASSUME NEW h \in Handler, RecordChoice(h) \/ Fail(h) PROVE FALSE
  BY <1>1, <1>4 DEF RecordChoice, Fail
<1>5. ASSUME NEW h \in Handler, StaffDelete(h) PROVE FALSE
  BY <1>5, DeleteRestoresNothing DEF StaffDelete
<1>6. CASE Writes
  BY <1>3, <1>4, <1>5, <1>6, FormRestoresItsOwn DEF Writes
<1>7. ASSUME NEW U, HardDelete(U) PROVE FALSE
  BY <1>7, DeleteRestoresNothing DEF HardDelete
<1>8. ASSUME NEW v \in Person, Register(v) PROVE FALSE
  <2>1. CASE v = u
    <3>1. row[u] = 0 /\ lives'[u] # lives[u]
      BY <1>8, <2>1 DEF Register, CInv, TypeOK
    <3> QED BY <3>1 DEF Restored
  <2>2. CASE v # u
    <3>1. row'[u] = row[u] /\ flags'[u] = flags[u]
      BY <1>8, <2>2 DEF Register, CInv, TypeOK
    <3> QED BY <3>1 DEF Restored
  <2> QED BY <2>1, <2>2
<1>9. ASSUME NEW old, NEW older, Purge(old, older) PROVE FALSE
  BY <1>1, <1>9 DEF Purge
<1>10. CASE BotAndCommands
  BY <1>7, <1>8, <1>9, <1>10 DEF BotAndCommands
<1>11. CASE UNCHANGED consentVars
  BY <1>1, <1>11 DEF consentVars
<1> QED BY <1>2, <1>6, <1>10, <1>11 DEF ConsentNext

(* No request but the staff's change form gives a withdrawn account back.  *)
THEOREM NothingElseRestores == ConsentSpec => OnlyTheFormRestores
<1> DEFINE A == \A u \in Person : Restored(u) => \E h \in Handler : FormSaved(h, u)
<1>1. CInv /\ [ConsentNext]_consentVars => [A]_consentVars
  BY RestoringStep
<1>2. ConsentSpec => [][ConsentNext]_consentVars
  BY PTL DEF ConsentSpec
<1>3. ConsentSpec => [][A]_consentVars
  BY <1>1, <1>2, ConsentInvariance, PTL
<1> QED BY <1>3 DEF OnlyTheFormRestores
=============================================================================
