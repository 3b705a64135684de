------------------------- MODULE StaleCacheProperties -------------------------
(***************************************************************************)
(* What the caches promise to those who read them.                         *)
(***************************************************************************)
EXTENDS StaleCache

(* Single flight: two requests compute one versioned key at the same time   *)
(* only after one of them took longer than its lock lives, although every   *)
(* winner deletes the lock without a look at whose it is by then.           *)
SingleFlight ==
  Locked => \A v \in Version : Cardinality(Working(v)) > 1 => v \in overran

(* Whatever fails -- a bump, a worker, a rollback, a race between a bump    *)
(* inside a transaction and a reader -- no answer lacks a change that was   *)
(* committed longer ago than an entry lives and two requests take.          *)
BoundedStaleness == overdue = {}

(* "the next cached read must observe the committed is_declined value"      *)
(* (search/signals.py): a request that begins after the bump of a committed *)
(* account change is answered with it, stale or fresh -- but for two first  *)
(* bumps of a new backend that reset each other's counter.                  *)
AccountChangesRetire == raced = "no" => forgot = {}

(* A key somebody keeps asking for is answered again and again: the lock of *)
(* a worker that died never starves it, nor do the empty answers of those   *)
(* who found the lock taken.                                                *)
AnswersComeBack ==
  []<>(\E r \in Request : req[r].pc \notin {"idle", "out"}) => []<>(last = "value")

-----------------------------------------------------------------------------
(* Why they hold. *)

CacheTypeOK ==
  /\ kind \in Kinds /\ version \in Version /\ seeding \subseteq Change
  /\ entry \in [Version -> Entry] /\ \A v \in Version : entry[v].age <= Gone
  /\ lock \in [Version -> 0..LockTtl]
  /\ phase \in [Change -> Phase] /\ since \in [Change -> 0..(Bound + 1)]
  /\ req \in [Request -> Req] /\ \A r \in Request : req[r].run <= MaxRun
  /\ last \in {"none", "value", "empty", "error"}
  /\ retired \subseteq Deferred /\ overran \subseteq Version
  /\ raced \in {"no", "yes"}

\* The changes that have made their bump, or never will need to: each makes one,
\* so the counter does not outgrow them.
Spent == {c \in Change : IF c \in Deferred THEN phase[c] = "live" ELSE phase[c] # "none"}

CounterBounded ==
  /\ version + Cardinality(seeding) <= Cardinality(Spent)
  /\ \A c \in seeding : phase[c] = IF c \in Deferred THEN "live" ELSE "open"
  /\ \A c \in Change \ Deferred : phase[c] # "due"
  /\ retired \subseteq Live
  /\ \A c \in Change \ Live : since[c] = 0

\* A worker whose lock has not ended is alone at its key.
LockOK(v) ==
  Locked /\ v \notin overran =>
    /\ Working(v) # {} => lock[v] > 0
    /\ \A r, s \in Working(v) : r = s

\* Until two first bumps reset each other's counter, a version is one of a kind.
Separate == Versioned /\ raced = "no"

\* What an entry lacks was committed after it was computed; there is none under a
\* version still to come, and one under this version has the retired changes.
EntryOK(v) ==
  LET e == entry[v] IN
  /\ e.age < Gone => \A c \in Live \ e.value : since[c] <= e.age + MaxRun
  /\ Separate /\ v > version => e.age = Gone
  /\ Separate /\ v = version /\ e.age < Gone => retired \subseteq e.value

Revalidates(r) == \/ req[r].pc = "stale"
                  \/ req[r].pc \in {"produce", "store", "release"} /\ req[r].held = "stale"
Computed(r) == \/ req[r].pc = "store"
               \/ req[r].pc = "release" /\ req[r].held # "stale"

\* What a request holds lacks only what was committed since it began, or since
\* the entry it holds was computed, and nothing it must have; what it computed
\* under this version has the retired changes.
RequestOK(r) ==
  LET q == req[r] IN
  /\ Computed(r) => \A c \in Live \ q.value : since[c] <= q.run
  /\ Revalidates(r) => \A c \in Live \ q.old : since[c] < Gone + MaxRun + q.run
  /\ q.must \subseteq (IF Versioned THEN retired ELSE {})
  /\ raced = "no" /\ Computed(r) => q.must \subseteq q.value
  /\ raced = "no" /\ Revalidates(r) => q.must \subseteq q.old
  /\ Separate => q.key <= version
  /\ Separate /\ q.pc = "store" /\ q.key = version => retired \subseteq q.value

CacheInd == /\ CacheTypeOK /\ CounterBounded
            /\ \A v \in Version : LockOK(v) /\ EntryOK(v)
            /\ \A r \in Request : RequestOK(r)

CacheInv == CacheInd /\ SingleFlight
=============================================================================
