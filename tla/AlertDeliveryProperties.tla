----------------------- MODULE AlertDeliveryProperties -----------------------
(***************************************************************************)
(* What the two ways of delivery promise together.                         *)
(***************************************************************************)
EXTENDS AlertDelivery

(* Accepted messages whose receipts the pool, or a digest, has still to write. *)
InPool(p) == {i \in Slot : p \in batch[i].accepted}
InDigests(p) == {r \in Run : p \in Unmarked(r)}

(* mark_delivered "is the duplicate DETECTOR": every message a user got for *)
(* a search and an ad has the pair's receipt, or a receipt on its way, or   *)
(* was logged as a duplicate, or was lost sight of with a crash, a kill or  *)
(* an unanswered call.  No alert is taken for delivered that was not sent,  *)
(* and no second copy goes unexplained, however the immediate alert and     *)
(* overlapping digests interleave.                                          *)
EveryCopyAccounted ==
  \A p \in Pair : search[p[1]] # "gone" =>
    copies[p] = unseen[p] + Cardinality(InPool(p)) + Cardinality(InDigests(p))
                + IF p \in receipts THEN 1 ELSE 0

(* "the daily and immediate paths read identically" (immediate_alerts.py):  *)
(* the searches that ask for a published ad, in Python, are those the       *)
(* digest would find it for, in SQL, after any edit of any filter.          *)
MatchersAgree ==
  \A a \in shown :
    find_matching_saved_searches(a)
      = {s \in Search : Audible(s) /\ a \in Matching(s, filter[s])}

Alertable(p) ==
  /\ Audible(p[1]) /\ p[2] \in shown /\ AdMatchesSavedSearch(p[2], Terms[filter[p[1]]])
  /\ UserOf(p) \notin NoChat \cup Dead

(* "retried by the daily send_alerts command rather than lost": whatever is *)
(* shed, refused, capped or killed, an ad that a search keeps asking for is *)
(* receipted in the end.                                                    *)
AlertsArrive ==
  \A p \in Pair : Alertable(p) ~> (p \in receipts \/ ~Alertable(p))

-----------------------------------------------------------------------------
(* Why they hold. *)

AlertTypeOK ==
  /\ shown \subseteq Ad /\ barred \subseteq User
  /\ search \in [Search -> {"new", "on", "off", "gone"}]
  /\ filter \in [Search -> Filters]
  /\ attempts \subseteq Pair /\ receipts \subseteq Pair
  /\ hook \in Hook /\ batch \in [Slot -> Batch] /\ run \in [Run -> Digest]
  /\ inFlight \in Nat /\ pool \in {"up", "down"} /\ lock \in Run \cup {None}
  /\ copies \in [Pair -> Nat] /\ unseen \in [Pair -> Nat]

\* The in-flight counter is exact, so neither does the pool fill up beyond
\* its threshold nor is a batch shed while there is room.
CounterExact ==
  inFlight = Cardinality({i \in Slot : batch[i].stage # "free"})

\* What is sent was recorded before, unless its search is gone.
Recorded(ps) == \A p \in ps : search[p[1]] # "gone" => p \in attempts

\* The hook dispatches what it has recorded.
HookOK ==
  /\ hook.stage # "idle" => Recorded(hook.payloads \ hook.todo)
  /\ hook.stage = "dispatch" => hook.todo = {}

\* A message of a batch is in one place, and in none once the batch is over.
BatchOK(i) ==
  LET b == batch[i] IN
  /\ Recorded(b.first \cup b.retry \cup b.accepted)
  /\ b.first \cap b.retry = {} /\ b.accepted \cap (b.first \cup b.retry) = {}
  /\ b.stage # "running" => b.accepted = {}
  /\ b.stage = "free" => b = NoBatch

\* A user who got his digest is not asked again by it, and a digest sends what
\* it has recorded.
DigestOK(r) ==
  LET d == run[r] IN
  /\ d.stage = "collect" <=> lock = r
  /\ d.stage \in {"send", "mark", "escaped"} => Recorded(d.rows)
  /\ d.stage = "send" => d.got \cap (d.users \cup d.retry) = {}
  /\ d.stage = "collect" => d.got = {}
  /\ d.stage \in {"idle", "ok", "error", "broken"} => d.rows = {}

AlertInv ==
  /\ AlertTypeOK /\ CounterExact
  /\ receipts \subseteq attempts
  /\ Cardinality(Running) <= Threads
  /\ HookOK
  /\ \A i \in Slot : BatchOK(i)
  /\ \A r \in Run : DigestOK(r)
=============================================================================
