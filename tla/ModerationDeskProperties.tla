----------------------- MODULE ModerationDeskProperties -----------------------
(***************************************************************************)
(* What the desk promises to moderators, sellers and those who read its    *)
(* audit log.                                                              *)
(***************************************************************************)
EXTENDS ModerationDesk

Status(a) == ads[a].row.status
Entries(action) == {e \in audit : e[1] = action}
Untouched == Ad \ (byHand \cup overwritten)

\* The number of bans session s has been told of.
Told(s) == IF Deed(s) = "ban" THEN ses[s].total ELSE 0

(* "no BAN_ACCOUNT row exists for a ban that did not happen", nor a ban      *)
(* without one, and the numbers reported to the moderators add up to the     *)
(* accounts banned, although a bulk ban locks nothing before its UPDATE.     *)
(* (A bulk ban overtaken by another keeps its audit rows, for a ban the      *)
(* other one has made.)                                                      *)
BansAddUp ==
  /\ {e[2] : e \in Entries("ban")} = banned
  /\ SumFunction([s \in Session |-> Told(s)]) = Cardinality(banned)

(* Nobody bans himself, and only a superuser bans staff.                     *)
PrivilegedSpared ==
  \A e \in Entries("ban") : /\ e[2] # req[e[3]].by
                            /\ e[2] \in Privileged => req[e[3]].by \in Super

(* What the public reads has met the criteria as it stands, whoever edits it *)
(* while others approve it, unless a change form entered or published it.    *)
PublishedWasChecked ==
  \A a \in Ad \ byHand : Status(a) = "published" => ads[a].text = "fit"

(* A rejection stands, and two moderators never both make it: only a form    *)
(* that was loaded before brings the ad back.                                *)
RejectionsStand ==
  \A a \in Ad \ overwritten :
    LET by == {e \in Entries("reject") : e[2] = a}
    IN Cardinality(by) <= 1 /\ (by # {} => Status(a) \in {"rejected", "deleted"})

(* The normalized price of an ad is of the price it has, however an edit and *)
(* the recomputation meet.                                                   *)
PricesMatch ==
  \A a \in Untouched : ads[a].norm = None \/ ads[a].norm[1] = ads[a].amount

(* Nothing brings a price back to an older rate than a recomputation of it *)
(* used, unless the shared cache was filled with a rate that was no more:  *)
(* then that lasts until the next one.                                     *)
PricesConverge ==
  lapsed = "no" =>
    \A a \in Untouched : ads[a].norm = None \/ ads[a].norm[2] >= repriced[a]

(* The quota of a seller holds, however many moderators, bulk actions, forms *)
(* and edits publish his ads at once, and a bulk approval counts what it has *)
(* itself published; but for ads on which a form put back an old status.     *)
CapKept ==
  \A u \in User :
    Cardinality({a \in Ad \ overwritten : Owner[a] = u /\ Status(a) = "published"})
      <= MaxAds

DeskTypeOK ==
  /\ ads \in [Ad -> AdRec] /\ banned \subseteq User
  /\ priority \in [Ad -> AdPriorityLevel \cup {None}]
  /\ audit \subseteq Remark \X (Ad \cup User) \X Session
  /\ rate \in Nat /\ cached \in Nat \cup {None} /\ lapsed \in {"no", "yes"}
  /\ rowLock \in [Ad -> Session \cup {None}]
  /\ userLock \in [User -> Session \cup {None}]
  /\ req \in [Session -> Req]
  /\ ses \in [Session -> Ses] /\ byHand \subseteq Ad /\ overwritten \subseteq Ad
  /\ repriced \in [Ad -> Nat]
  /\ \A a \in Ad : CheckConstraints(ads[a].row)

DeskInv ==
  /\ DeskTypeOK /\ BansAddUp /\ PrivilegedSpared /\ PublishedWasChecked
  /\ RejectionsStand /\ PricesMatch /\ PricesConverge /\ CapKept

-----------------------------------------------------------------------------
(* Why they hold: what the rows are, and what every open request knows.    *)

RejectedBefore(a) == \E e \in Entries("reject") : e[2] = a

\* A row as it may be committed.
Fine(a, r) ==
  /\ r \in AdRec /\ CheckConstraints(r.row)
  /\ a \notin byHand /\ r.row.status = "published" => r.text = "fit"
  /\ a \in Untouched => r.norm = None \/ r.norm[1] = r.amount
  /\ a \in Untouched /\ lapsed = "no" => r.norm = None \/ r.norm[2] >= repriced[a]
  /\ a \notin overwritten /\ RejectedBefore(a) => r.row.status \in {"rejected", "deleted"}

Locked(s) == {a \in Ad : rowLock[a] = s}

\* Where a request can be, and the ads it has then in hand.
KnowsItsWay(s, e) ==
  /\ e.at = "judge" => Deed(s) \in {"approve", "edit"}
  /\ e.at \in {"owner", "count"} => \/ Deed(s) \in {"approve", "edit", "ban"}
                                    \/ Way(s) = "form" /\ req[s].to = "published"
  /\ e.at \in {"rate", "query", "fill", "apply"} => Deed(s) \in {"edit", "recompute"}
  /\ e.at \in {"peek", "stamp", "route"} => Way(s) = "form"
  /\ e.at = "save" => Way(s) \in {"form", "rates"}
  /\ e.at = "aim" => Way(s) = "bulk" /\ Deed(s) = "ban"
  /\ e.at = "lock" => e.todo # {} /\ ~(Way(s) = "bulk" /\ Deed(s) = "ban")
  /\ e.at \in {"lock", "work"} => Way(s) \notin {"form", "rates"}
  /\ e.at \in {"work", "judge", "owner", "count", "rate", "query", "fill", "apply", "route"}
       => e.held # {}
  /\ e.at = "aim" \/ (e.at = "commit" /\ Way(s) # "form") => e.held = {}
  /\ e.held \subseteq Locked(s)
  /\ e.at \in {"start", "end", "peek", "save", "stamp"} \/ Way(s) = "rates" => Locked(s) = {}
  /\ Way(s) \in {"view", "seller"} => \E a \in Ad : e.todo \subseteq {a}
  /\ Deed(s) \in {"ban", "edit"} /\ e.at # "lock" => e.todo = {}

\* What it holds and is no form's may be committed as it stands; the texts the
\* verdict is about are judged already.
KnowsItsRows(s, e) ==
  /\ \A a \in Locked(s) : /\ e.work[a] \in AdRec /\ CheckConstraints(e.work[a].row)
                          /\ Way(s) # "form" => Fine(a, e.work[a])
  /\ e.at \in {"owner", "count"} /\ Deed(s) \in {"approve", "edit"}
       => e.work[Min(e.held)].text = "fit"

\* The audit rows are of what it holds; the one of a rejection, of an ad nobody
\* has rejected before.
KnowsItsNotes(s, e) ==
  \A n \in e.notes :
    /\ n \in Remark \X (Ad \cup User) \X {s}
    /\ n[1] # "ban" => n[2] \in Locked(s)
    /\ n[1] = "reject" =>
         /\ Deed(s) = "reject" /\ n[2] \notin e.held
         /\ n[2] \notin overwritten => /\ ~RejectedBefore(n[2])
                                       /\ e.work[n[2]].row.status \in {"rejected", "deleted"}

\* The owner is locked when his ads are counted, and so are the accounts it bans;
\* those it has noted are banned, or will be.
KnowsItsBans(s, e) ==
  /\ e.at = "count" => \E u \in User : u = Owner[Min(e.held)] /\ userLock[u] = s
  /\ Deed(s) # "ban" => e.bans = {} /\ \A n \in e.notes : n[1] # "ban"
  /\ Deed(s) = "ban" =>
       /\ \A n \in e.notes : /\ n[1] = "ban" /\ n[2] \in Permitted(s)
                             /\ n[2] \in banned \cup e.bans \cup e.aim
       /\ \A u \in e.bans \cup e.aim : <<"ban", u, s>> \in e.notes
       /\ \A u \in e.bans : userLock[u] = s /\ u \notin banned
       /\ e.at # "aim" => e.aim = {}
       /\ e.count = Cardinality(e.bans)
       /\ e.at # "end" => e.total = 0

\* The rate it goes by is later than any its ads were recomputed with.
KnowsItsRate(s, e) ==
  /\ e.rate # None => e.rate \in Nat /\ e.rate <= rate
  /\ e.at = "fill" => e.rate # None
  /\ e.at = "apply" /\ Deed(s) = "recompute" => e.rate # None
  /\ e.at \in {"start", "lock"} /\ Deed(s) = "edit" => e.rate = None
  /\ e.at \in {"start", "rate", "query"} => e.rate = None
  /\ lapsed = "no" /\ e.rate # None =>
       /\ Deed(s) = "edit" => \A a \in Locked(s) : e.rate >= repriced[a]
       /\ Deed(s) = "recompute" /\ e.at # "end" => \A a \in Ad : e.rate >= repriced[a]
  /\ Deed(s) = "recompute" =>
       \A a \in Locked(s) \ e.held :
         e.rate # None /\ (e.work[a].norm = None \/ e.work[a].norm[2] >= e.rate)

ByHandForm(s) == req[s].to \in {"fit", "unfit", "price", "published", "draft"}

\* A form writes what it has seen, and what was typed into it.
KnowsItsForm(s, e) ==
  LET a == TheAd(s)
      r == e.work[a]
  IN Way(s) = "form" =>
       /\ e.todo = {} /\ Locked(s) \subseteq {a}
       /\ e.at \notin {"start", "end"} => e.seen \in AdRec
       /\ e.at \in {"peek", "save"} /\ a \notin byHand /\ e.seen.row.status = "published"
            => e.seen.text = "fit"
       /\ e.at \in {"stamp", "route"} =>
            req[s].to \in AdStatus \ {"rejected", "on_moderation_failed"}
       /\ a \in Locked(s) =>
            /\ r.norm = e.seen.norm
            /\ req[s].to # "price" => r.amount = e.seen.amount
            /\ e.seen.row.status \in {"rejected", "deleted"}
                 => r.row.status \in {"rejected", "deleted"}
            /\ e.at = "commit" /\ a \notin byHand /\ ~ByHandForm(s)
                 /\ r.row.status = "published" => r.text = "fit"

Knows(s, e) ==
  /\ KnowsItsWay(s, e) /\ KnowsItsRows(s, e) /\ KnowsItsNotes(s, e)
  /\ KnowsItsBans(s, e) /\ KnowsItsRate(s, e) /\ KnowsItsForm(s, e)

\* Nobody rejects what another has rejected, and recomputations are one at a time.
OneRejection ==
  \A e, f \in Entries("reject") : e[2] = f[2] /\ e[2] \notin overwritten => e = f
OneSweep ==
  \A s, t \in Session :
    /\ s # t /\ Deed(s) = "recompute" /\ Deed(t) = "recompute"
    => ses[s].at \in {"start", "end"} \/ ses[t].at \in {"start", "end"}

\* Nothing goes by a rate that never was.
RatesKnown ==
  /\ cached # None => cached <= rate
  /\ lapsed = "no" => cached = None \/ cached >= rate
  /\ \A a \in Ad : repriced[a] <= rate

(* The inductive invariant: the committed rows are fine, what is counted is *)
(* right, and every open request knows enough to keep it so.                *)
DeskIInv ==
  /\ DeskTypeOK /\ BansAddUp /\ PrivilegedSpared /\ OneRejection /\ OneSweep /\ RatesKnown
  /\ \A a \in Ad : Fine(a, ads[a])
  /\ \A s \in Session : Offered(req[s]) /\ Knows(s, ses[s])

\* A form whose ad has changed since it was loaded.
Stale(s) == Way(s) = "form" /\ ses[s].seen # ads[TheAd(s)]

\* An ad that goes public when s commits.
NewlyOut(s, a) == /\ rowLock[a] = s /\ ses[s].work[a].row.status = "published"
                  /\ Status(a) # "published" /\ ~Stale(s)

\* What counts for the quota of u when s commits.
Out(s, u) == {b \in Ad \ overwritten : /\ Owner[b] = u
                                       /\ Seen(s, b).row.status = "published"}

\* From the count to the commit the owner is locked, so there is still room.
KeepsTheRoom(s) ==
  /\ ses[s].todo \cup Locked(s) \subseteq req[s].ads
  /\ \A a \in Ad : NewlyOut(s, a) =>
       /\ a \notin ses[s].held /\ <<"publish", a, s>> \in ses[s].notes
       /\ userLock[Owner[a]] = s
       /\ Cardinality(Out(s, Owner[a])) <= MaxAds

(* Why the quota holds, given the invariant above.                          *)
RoomInv == CapKept /\ \A s \in Session : KeepsTheRoom(s)

\* How far a request has yet to go, at most: the ads it has still to lock and to
\* decide, the accounts it has still to visit, and the steps on the one at hand.
Distance(at) ==
  CASE at = "end" -> 0   [] at = "lock" -> 1  [] at = "commit" -> 2
    [] at = "count" -> 3 [] at = "aim" -> 3   [] at = "owner" -> 4
    [] at = "judge" -> 5 [] at = "route" -> 5 [] at = "apply" -> 6
    [] at = "fill" -> 7  [] at = "query" -> 8 [] at = "rate" -> 9
    [] at = "work" -> 10 [] at = "save" -> 30 [] at = "stamp" -> 30
    [] at = "peek" -> 31
    [] at = "start" -> 40 * Cardinality(Ad) + Cardinality(User) + 40

Aimless(e) == e.at = "aim" /\ e.notes = {}

Effort(e) ==
  40 * Cardinality(e.todo) + 20 * Cardinality(e.held) + Cardinality(e.aim)
    + Distance(e.at) + (IF Aimless(e) THEN Cardinality(User) + 1 ELSE 0)

\* Expire is a step of nobody: the shared cache forgets the rate.
StepCounts ==
  \/ Expire
  \/ \E s \in Session : /\ Effort(ses[s])' < Effort(ses[s])
                         /\ \A t \in Session \ {s} : ses'[t] = ses[t]

(* Every step brings one request nearer to its answer and sets none back: no *)
(* retry, batch or refusal makes a request go round, whatever the others do. *)
EveryStepCounts == [][StepCounts]_vars

(* Every request is answered, though two bulk actions lock the ads by their  *)
(* keys and the sellers in whatever order these give.                        *)
DeskEnds == <>(\A s \in Session : Pc(s) = "end")
=============================================================================
