------------------------------ MODULE StaleCache ------------------------------
(***************************************************************************)
(* The caches of the site, one key at a time: requests of several workers  *)
(* read and fill it while transactions change what it was computed from.   *)
(* There are four kinds of key:                                            *)
(*   search   ids of a search: versioned, served stale, a request that     *)
(*            finds the lock taken computes the answer itself;             *)
(*   menu     submenus and lookups: the same, but that request gets an     *)
(*            empty answer;                                                *)
(*   names    names of the categories: versioned, no lock;                 *)
(*   setting  site name, contacts, criteria: no version, deleted on a save.*)
(* What is cached is the set of the changes it reflects.  An unreachable   *)
(* cache ends a request with an error, but for `setting`, where it is a    *)
(* miss.                                                                   *)
(***************************************************************************)
EXTENDS Integers, FiniteSets

CONSTANTS
  Kinds,      \* the kinds of key to look at
  Request,    \* requests that may overlap
  Change,     \* changes of the content
  Deferred,   \* those of an account, whose bump waits for the commit
  Ttl, StaleTtl, LockTtl,
  MaxRun,     \* gunicorn's timeout, which kills a request
  MaxActors,  \* bound: requests and changes of one behaviour
  MaxFaults   \* bound: errors, kills, outages and rollbacks

ASSUME Times == /\ Ttl \in Nat \ {0} /\ StaleTtl \in Nat /\ LockTtl \in Nat \ {0}
                /\ MaxRun \in Nat /\ MaxActors \in Nat /\ MaxFaults \in Nat
ASSUME Changes == IsFiniteSet(Change) /\ Deferred \subseteq Change
ASSUME KindsKnown == Kinds \subseteq {"search", "menu", "names", "setting"}

VARIABLES
  kind,     \* of the key, for the whole behaviour
  version,  \* the version counter; 0 is absent
  entry,    \* [Version -> Entry], the cached value by the version in its key
  lock,     \* [Version -> 0..LockTtl], the time the lock has left, 0 is free
  phase,    \* [Change -> Phase], where the transaction of a change stands
  seeding,  \* SUBSET Change, bumps that found no counter and will set it to 1
  req,      \* [Request -> Req]
  last,     \* the latest outcome: "none", "value", "empty" or "error"
  since,    \* history: [Change -> Nat], the time since its commit, up to Bound + 1
  retired,  \* history: SUBSET Change, committed and bumped after that
  overran,  \* history: versions whose lock ended before its holder's work, as
            \* long as anybody is at work
  raced,    \* history: did a bump reset a counter another one had set
  overdue,  \* history: changes an answer lacked for longer than Bound
  forgot,   \* history: retired changes the answer to a later request lacked
  faults

database == <<phase, since>>
counter == <<version, seeding, raced, retired>>
ghosts == <<overdue, forgot>>
vars == <<kind, version, entry, lock, phase, seeding, req, last, since, retired,
          overran, raced, overdue, forgot, faults>>

Version == 0..Cardinality(Change)
Phase == {"none", "open", "due", "live", "undone"}
Bound == Ttl + StaleTtl + 2 * MaxRun

Entry == [value : SUBSET Change, age : Nat] \* an age of Gone is no entry
Gone == Ttl + StaleTtl
NoEntry == [value |-> {}, age |-> Gone]

Req == [pc : {"out", "idle", "stale", "miss", "produce", "store", "release"},
        key : Version, held : {"cold", "stale", "no"}, value : SUBSET Change,
        old : SUBSET Change, must : SUBSET Change, run : Nat]
Idle == [pc |-> "idle", key |-> 0, held |-> "no", value |-> {}, old |-> {},
         must |-> {}, run |-> 0]

Versioned == kind # "setting"
Locked == kind \in {"search", "menu"}
Live == {c \in Change : phase[c] \in {"due", "live"}}

\* The requests that compute the value of key v.
Working(v) ==
  {r \in Request : req[r].key = v /\ req[r].pc \in {"produce", "store", "release"}}

Fault == faults < MaxFaults /\ faults' = faults + 1

Init ==
  /\ kind \in Kinds /\ version = 0 /\ seeding = {} /\ raced = "no"
  /\ entry = [v \in Version |-> NoEntry] /\ lock = [v \in Version |-> 0]
  /\ \E C \in SUBSET Change, R \in SUBSET Request :
       /\ Cardinality(C) + Cardinality(R) <= MaxActors
       /\ C \cap Deferred # {} => kind = "search"
       /\ phase = [c \in Change |-> IF c \in C THEN "none" ELSE "undone"]
       /\ req = [r \in Request |-> IF r \in R THEN Idle ELSE [Idle EXCEPT !.pc = "out"]]
  /\ since = [c \in Change |-> 0]
  /\ last = "none"
  /\ retired = {} /\ overran = {} /\ overdue = {} /\ forgot = {} /\ faults = 0

-----------------------------------------------------------------------------
(* Time.  A request that has used up its time ends before time goes on. *)

Saturated(n, bound) == IF n > bound THEN n ELSE n + 1

\* Mutant: an entry is stored without a timeout.
AgedNever(e) == e

Aged(e) == IF e.age + 1 < Gone THEN [e EXCEPT !.age = @ + 1] ELSE NoEntry

\* Mutant: the lock is taken without a timeout.
LeftForEver(n) == n

LeftOf(n) == IF n > 0 THEN n - 1 ELSE 0

Tick ==
  /\ \A r \in Request : req[r].run < MaxRun
  /\ entry' = [v \in Version |-> Aged(entry[v])]
  /\ lock' = [v \in Version |-> LeftOf(lock[v])]
  /\ overran' = overran \cup {v \in Version : lock[v] = 1 /\ Working(v) # {}}
  /\ since' = [c \in Change |-> IF c \in Live THEN Saturated(since[c], Bound)
                                              ELSE since[c]]
  /\ req' = [r \in Request |-> IF req[r].pc \in {"idle", "out"} THEN req[r]
                               ELSE [req[r] EXCEPT !.run = @ + 1]]
  /\ UNCHANGED <<kind, counter, phase, last, ghosts, faults>>

-----------------------------------------------------------------------------
(* The writers. *)

\* Mutant: cache.add in place of cache.incr.
BumpOnce(c) ==
  /\ IF version = 0 THEN seeding' = seeding \cup {c} ELSE UNCHANGED seeding
  /\ UNCHANGED <<version, entry, raced>>

\* bump_version_key: incr, or, when there is no counter, set it to 1.
Bump(c) ==
  /\ IF version = 0 THEN seeding' = seeding \cup {c} /\ UNCHANGED version
                    ELSE version' = version + 1 /\ UNCHANGED seeding
  /\ UNCHANGED <<entry, raced>>

\* invalidate_site_config and its like.
Delete == entry' = [entry EXCEPT ![0] = NoEntry]
          /\ UNCHANGED <<version, seeding, raced>>

\* Done, once the counter is set.
Retire(c) == retired' = IF c \in Deferred /\ seeding' = seeding
                          THEN retired \cup {c} ELSE retired

Kept == UNCHANGED <<version, seeding, raced, entry>>

\* A save inside its transaction, by the receivers it meets: those of Ad, its
\* features, Category and LookupItem bump at once, and pass over an unreachable
\* cache; that of User defers to the commit; that of a setting deletes at once,
\* and an unreachable cache fails the save.
SaveContent(c) ==
  /\ c \notin Deferred /\ Versioned /\ phase' = [phase EXCEPT ![c] = "open"]
  /\ \/ Bump(c) /\ UNCHANGED faults
     \/ Fault /\ Kept

SaveAccount(c) ==
  /\ c \in Deferred /\ phase' = [phase EXCEPT ![c] = "open"]
  /\ Kept /\ UNCHANGED faults

SaveSetting(c) ==
  /\ c \notin Deferred /\ ~Versioned
  /\ \/ Delete /\ UNCHANGED faults /\ phase' = [phase EXCEPT ![c] = "open"]
     \/ Fault /\ Kept /\ phase' = [phase EXCEPT ![c] = "undone"]

Save(c) ==
  /\ phase[c] = "none" /\ (SaveContent(c) \/ SaveAccount(c) \/ SaveSetting(c))
  /\ UNCHANGED <<kind, lock, req, last, since, retired, overran, ghosts>>

\* cache.set(key, 1), whatever was set in the meantime.
Seed(c) ==
  /\ c \in seeding /\ seeding' = seeding \ {c} /\ version' = 1
  /\ raced' = IF version = 0 THEN raced ELSE "yes"
  /\ retired' = IF c \in Deferred THEN retired \cup {c} ELSE retired
  /\ UNCHANGED <<kind, entry, lock, database, req, last, overran, ghosts, faults>>

Commit(c) ==
  /\ phase[c] = "open" /\ c \notin seeding
  /\ phase' = [phase EXCEPT ![c] = IF c \in Deferred THEN "due" ELSE "live"]
  /\ UNCHANGED <<kind, counter, entry, lock, req, last, since, overran, ghosts, faults>>

Rollback(c) ==
  /\ phase[c] = "open" /\ c \notin seeding /\ Fault
  /\ phase' = [phase EXCEPT ![c] = "undone"]
  /\ UNCHANGED <<kind, counter, entry, lock, req, last, since, overran, ghosts>>

\* on_commit: the bump is made, or it fails, or the process dies before it.
OnCommit(c) ==
  /\ phase[c] = "due" /\ phase' = [phase EXCEPT ![c] = "live"]
  /\ \/ Bump(c) /\ Retire(c) /\ UNCHANGED faults
     \/ Fault /\ UNCHANGED <<version, seeding, raced, retired, entry>>
  /\ UNCHANGED <<kind, lock, req, last, since, overran, ghosts>>

-----------------------------------------------------------------------------
(* The readers: get_with_stale_revalidate and its callers. *)

Proceed(r, pc) == req' = [req EXCEPT ![r].pc = pc]

\* The request of r ends with an answer that reflects the changes `value`.
Answer(r, value) ==
  /\ req' = [req EXCEPT ![r] = Idle] /\ last' = "value"
  /\ overdue' = overdue \cup ({c \in Live : since[c] > Bound} \ value)
  /\ forgot' = forgot \cup (req[r].must \ value)

Fresh(e) == e.age < Ttl
Servable(e) == e.age < Ttl + StaleTtl

\* A request builds its key, of which the version is a part, and reads the
\* entry: a fresh one is the answer, a stale or a missing one leads to the
\* lock, where there is one.
KeyNow == IF Versioned THEN version ELSE 0
Begun(pc) == [Idle EXCEPT !.pc = pc, !.key = KeyNow,
                          !.must = IF Versioned THEN retired ELSE {}]

GetFresh(r) ==
  /\ req[r].pc = "idle" /\ Fresh(entry[KeyNow]) /\ last' = "value"
  /\ overdue' = overdue \cup ({c \in Live : since[c] > Bound} \ entry[KeyNow].value)
  /\ forgot' = forgot \cup (Begun("idle").must \ entry[KeyNow].value)
  /\ UNCHANGED <<kind, counter, entry, lock, database, req, overran, faults>>

GetStale(r) ==
  /\ req[r].pc = "idle" /\ Locked /\ ~Fresh(entry[KeyNow]) /\ Servable(entry[KeyNow])
  /\ req' = [req EXCEPT ![r] = [Begun("stale") EXCEPT !.old = entry[KeyNow].value]]
  /\ UNCHANGED <<kind, counter, entry, lock, database, last, overran, ghosts, faults>>

GetNothing(r) ==
  /\ req[r].pc = "idle" /\ ~Fresh(entry[KeyNow]) /\ (Locked => ~Servable(entry[KeyNow]))
  /\ req' = [req EXCEPT ![r] = Begun(IF Locked THEN "miss" ELSE "produce")]
  /\ UNCHANGED <<kind, counter, entry, lock, database, last, overran, ghosts, faults>>

\* Mutant: cache.set in place of cache.add.
TakeAnyway(k) == lock' = [lock EXCEPT ![k] = LockTtl]

\* cache.add(lock_key, "1", lock_ttl), of one that succeeds.
Take(k) == lock[k] = 0 /\ lock' = [lock EXCEPT ![k] = LockTtl]

Win(r) ==
  /\ req[r].pc \in {"stale", "miss"} /\ Take(req[r].key)
  /\ overran' = IF Working(req[r].key) = {} THEN overran \ {req[r].key} ELSE overran
  /\ req' = [req EXCEPT ![r].pc = "produce",
                        ![r].held = IF req[r].pc = "stale" THEN "stale" ELSE "cold"]
  /\ UNCHANGED <<kind, counter, entry, database, last, ghosts, faults>>

\* The loser: stale data, a direct computation, or nothing.
Lose(r) ==
  /\ lock[req[r].key] > 0
  /\ \/ req[r].pc = "stale" /\ Answer(r, req[r].old)
     \/ req[r].pc = "miss" /\ kind = "search" /\ Answer(r, Live)
     \/ /\ req[r].pc = "miss" /\ kind = "menu"
        /\ req' = [req EXCEPT ![r] = Idle] /\ last' = "empty"
        /\ UNCHANGED ghosts
  /\ UNCHANGED <<kind, counter, entry, lock, database, overran, faults>>

Produce(r) ==
  /\ req[r].pc = "produce"
  /\ req' = [req EXCEPT ![r].pc = "store", ![r].value = Live]
  /\ UNCHANGED <<kind, counter, entry, lock, database, last, overran, ghosts, faults>>

\* _store, stamped with the time of the storing.
Store(r) ==
  /\ req[r].pc = "store"
  /\ entry' = [entry EXCEPT ![req[r].key] = [value |-> req[r].value, age |-> 0]]
  /\ IF Locked THEN Proceed(r, "release") /\ UNCHANGED <<last, ghosts>>
               ELSE Answer(r, req[r].value)
  /\ UNCHANGED <<kind, counter, lock, database, overran, faults>>

\* cache.delete(lock_key), whoever holds it by now.
Release(r) ==
  /\ req[r].pc = "release" /\ lock' = [lock EXCEPT ![req[r].key] = 0]
  /\ Answer(r, IF req[r].held = "stale" THEN req[r].old ELSE req[r].value)
  /\ UNCHANGED <<kind, counter, entry, database, overran, faults>>

\* _recompute_and_store swallows what fails before the release.
RecomputeFails(r) ==
  /\ req[r].pc \in {"produce", "store"} /\ req[r].held = "stale" /\ Fault
  /\ Proceed(r, "release")
  /\ UNCHANGED <<kind, counter, entry, lock, database, last, overran, ghosts>>

\* An unreachable cache is a miss for a setting, and its write is passed over.
SettingUncached(r) ==
  /\ kind = "setting" /\ Fault
  /\ \/ req[r].pc = "idle" /\ UNCHANGED <<last, ghosts>>
        /\ req' = [req EXCEPT ![r] = Begun("produce")]
     \/ req[r].pc = "store" /\ Answer(r, req[r].value)
  /\ UNCHANGED <<kind, counter, entry, lock, database, overran>>

\* Any other error and the kill of the worker: the lock is left behind.
Die(r) ==
  /\ req[r].pc \notin {"idle", "out"} /\ Fault
  /\ req' = [req EXCEPT ![r] = Idle] /\ last' = "error"
  /\ UNCHANGED <<kind, counter, entry, lock, database, overran, ghosts>>

-----------------------------------------------------------------------------
Ask(r) == GetFresh(r) \/ GetStale(r) \/ GetNothing(r)
Serve(r) == \/ Win(r) \/ Lose(r) \/ Produce(r) \/ Store(r) \/ Release(r)

Write(c) == Save(c) \/ Seed(c) \/ Commit(c) \/ Rollback(c) \/ OnCommit(c)

Next ==
  \/ Tick
  \/ \E c \in Change : Write(c)
  \/ \E r \in Request :
       \/ Ask(r) \/ Serve(r) \/ RecomputeFails(r) \/ SettingUncached(r) \/ Die(r)

Spec == Init /\ [][Next]_vars

\* The clock runs and requests are served; nobody has to ask.
FairSpec == Spec /\ WF_vars(Tick) /\ \A r \in Request : WF_vars(Serve(r))
=============================================================================
