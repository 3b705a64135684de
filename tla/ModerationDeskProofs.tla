------------------------- MODULE ModerationDeskProofs -------------------------
(***************************************************************************)
(* Proofs about the moderation desk, for any number of requests of any     *)
(* kind, ads, sellers and staff.                                           *)
(***************************************************************************)
EXTENDS ModerationDeskProperties, SumFacts, FiniteSetTheorems, TLAPS

\* The least of some ads is one of them.
LEMMA MinIsMember ==
  ASSUME NEW S, IsFiniteSet(S), \A x \in S : x \in Nat, S # {}
  PROVE  Min(S) \in S /\ \A y \in S : Min(S) <= y
<1> DEFINE UpTo(n) == {x \in S : x <= n}
           Starters == {UpTo(n) : n \in S}
<1>1. Starters \subseteq SUBSET S /\ Starters # {}  OBVIOUS
<1>2. \E t \in Starters : \A y \in Starters : y \subseteq t => y = t
  <2> HIDE DEF Starters
  <2> QED BY <1>1, OneIsSmallest
<1>3. PICK m \in S : \A y \in Starters : y \subseteq UpTo(m) => y = UpTo(m)  BY <1>2
<1>4. ASSUME NEW y \in S, y < m PROVE FALSE
  <2>1. \A x \in S : x <= y => x <= m  BY <1>4
  <2>2. UpTo(y) \in Starters /\ UpTo(y) \subseteq UpTo(m)  BY <2>1
  <2>3. UpTo(y) = UpTo(m)  BY <2>2, <1>3
  <2>4. m \in UpTo(m) /\ m \notin UpTo(y)  BY <1>4
  <2> QED BY <2>3, <2>4
<1>5. \A y \in S : m <= y  BY <1>4
<1> QED BY <1>5 DEF Min

-----------------------------------------------------------------------------
(* What a step of one request leaves alone. *)

\* What is fine stays so while less is promised of it.
LEMMA FineStays ==
  ASSUME NEW a \in Ad, NEW r, Fine(a, r),
         byHand \subseteq byHand', overwritten \subseteq overwritten',
         lapsed' = "no" => lapsed = "no", repriced'[a] = repriced[a],
         RejectedBefore(a)' => RejectedBefore(a)
  PROVE  Fine(a, r)'
BY DEF Fine, Untouched

\* The other requests know what they knew.
LEMMA OthersKnow ==
  ASSUME NEW t \in Session, Knows(t, ses[t]), ses'[t] = ses[t], req' = req,
         Locked(t)' = Locked(t), \A u \in User : userLock[u] = t => userLock'[u] = t,
         ses[t].bans \subseteq User, ses[t].notes \subseteq Remark \X (Ad \cup User) \X Session,
         banned \subseteq banned', \A u \in User : userLock[u] = t => u \in banned \/ u \notin banned',
         byHand \subseteq byHand', overwritten \subseteq overwritten',
         lapsed' = "no" => lapsed = "no",
         rate \in Nat, rate' \in Nat, rate <= rate',
         \A a \in Locked(t) : repriced'[a] = repriced[a]
                              /\ (RejectedBefore(a)' => RejectedBefore(a)),
         Deed(t) = "recompute" /\ ses[t].at \notin {"start", "end"} => repriced' = repriced
  PROVE  Knows(t, ses[t])'
<1> USE DEF Deed, Way
<1>1. KnowsItsWay(t, ses[t])'  BY DEF Knows, KnowsItsWay
<1>2. KnowsItsRows(t, ses[t])'
  <2>1. \A a \in Locked(t) : a \in Ad  BY DEF Locked
  <2>2. ASSUME NEW a \in Locked(t), Fine(a, ses[t].work[a]) PROVE Fine(a, ses[t].work[a])'
    <3> DEFINE r == ses[t].work[a]
    <3>1. r' = r  OBVIOUS
    <3> QED BY <2>1, <2>2, <3>1 DEF Fine, Untouched
  <2> QED BY <2>1, <2>2 DEF Knows, KnowsItsRows
<1>3. KnowsItsNotes(t, ses[t])'  BY DEF Knows, KnowsItsNotes
<1>4. KnowsItsBans(t, ses[t])'  BY DEF Knows, KnowsItsBans, Permitted
<1>5. KnowsItsRate(t, ses[t])'  BY DEF Knows, KnowsItsRate, Locked
<1>6. KnowsItsForm(t, ses[t])'  BY DEF Knows, KnowsItsForm, TheAd, ByHandForm
<1> QED BY <1>1, <1>2, <1>3, <1>4, <1>5, <1>6 DEF Knows

\* A request that changes neither rows nor audit log, and knows enough after it.
LEMMA OneMoves ==
  ASSUME DeskIInv, NEW s \in Session, UNCHANGED <<desk, req>>,
         ses' = [ses EXCEPT ![s] = ses'[s]], ses'[s] \in Ses,
         Deed(s) = "ban" => ses'[s].total = ses[s].total,
         rate' \in Nat, rate <= rate', cached' \in Nat \cup {None}, lapsed' \in {"no", "yes"},
         lapsed' = "no" => lapsed = "no", RatesKnown',
         rowLock' \in [Ad -> Session \cup {None}], userLock' \in [User -> Session \cup {None}],
         \A t \in Session \ {s} :
           Locked(t)' = Locked(t) /\ \A u \in User : userLock[u] = t => userLock'[u] = t,
         Deed(s) = "recompute" /\ ses'[s].at \notin {"start", "end"} =>
           ses[s].at \notin {"start", "end"} \/ ~Sweeping(s),
         Knows(s, ses[s])'
  PROVE  DeskIInv'
<1> USE DEF desk
<1>1. DeskTypeOK'  BY DEF DeskTypeOK, DeskIInv
<1>2. \A t \in Session : Told(t)' = Told(t)  BY DEF Told, Deed, DeskIInv, DeskTypeOK
<1>3. BansAddUp'
  <2>1. [t \in Session |-> Told(t)]' = [t \in Session |-> Told(t)]  BY <1>2
  <2> QED BY <2>1 DEF BansAddUp, DeskIInv, Entries
<1>4. PrivilegedSpared' /\ OneRejection'
  BY DEF DeskIInv, PrivilegedSpared, OneRejection, Entries
<1>5. OneSweep'  BY DEF DeskIInv, DeskTypeOK, OneSweep, Sweeping, Deed, Pc
<1>6. \A a \in Ad : RejectedBefore(a)' <=> RejectedBefore(a)  BY DEF RejectedBefore, Entries
<1>7. ASSUME NEW a \in Ad PROVE Fine(a, ads[a])'
  BY <1>6, FineStays DEF DeskIInv, Fine, Untouched
<1>8. ASSUME NEW t \in Session PROVE Offered(req[t])' /\ Knows(t, ses[t])'
  <2>1. CASE t = s  BY <2>1 DEF DeskIInv
  <2>2. CASE t # s
    <3>1. ses[t] \in Ses /\ ses'[t] = ses[t]  BY <2>2 DEF DeskIInv, DeskTypeOK
    <3>2. ses[t].bans \subseteq User /\ ses[t].notes \subseteq Remark \X (Ad \cup User) \X Session
      BY <3>1 DEF Ses
    <3>3. rate \in Nat  BY DEF DeskIInv, DeskTypeOK
    <3>4. \A a \in Locked(t) : repriced'[a] = repriced[a] /\ (RejectedBefore(a)' => RejectedBefore(a))
      BY <1>6 DEF Locked
    <3>5. Knows(t, ses[t])  BY DEF DeskIInv
    <3>6. Knows(t, ses[t])'  BY <2>2, <3>1, <3>2, <3>3, <3>4, <3>5, OthersKnow
    <3> QED BY <3>6 DEF DeskIInv
  <2> QED BY <2>1, <2>2
<1> QED BY <1>1, <1>3, <1>4, <1>5, <1>7, <1>8 DEF DeskIInv

\* What it may do to the accounts' locks: take one that is free, or give up its own.
OwnLocks(s) ==
  /\ userLock' \in [User -> Session \cup {None}]
  /\ \A u \in User : userLock[u] \notin {None, s} => userLock'[u] = userLock[u]

\* And one that touches neither the rows' locks nor the money.
LEMMA OneThinks ==
  ASSUME DeskIInv, NEW s \in Session, UNCHANGED <<desk, money, rowLock, req>>, OwnLocks(s),
         NEW e \in Ses, ses' = [ses EXCEPT ![s] = e], e.total = ses[s].total,
         Deed(s) = "recompute" /\ e.at \notin {"start", "end"} =>
           ses[s].at \notin {"start", "end"} \/ ~Sweeping(s),
         KnowsItsWay(s, e), KnowsItsRows(s, e), KnowsItsNotes(s, e),
         KnowsItsBans(s, e)', KnowsItsRate(s, e), KnowsItsForm(s, e)
  PROVE  DeskIInv'
<1>1. /\ ses'[s] = e /\ ses' = [ses EXCEPT ![s] = ses'[s]]
      /\ ses'[s] \in Ses /\ ses'[s].total = ses[s].total
  BY DEF DeskIInv, DeskTypeOK
<1>2. Knows(s, ses[s])'
  <2>1. KnowsItsWay(s, e)' /\ KnowsItsRows(s, e)' /\ KnowsItsNotes(s, e)'
    BY DEF KnowsItsWay, KnowsItsRows, KnowsItsNotes, Fine, Untouched, RejectedBefore,
           Entries, Locked, Deed, Way, desk, money
  <2>2. KnowsItsRate(s, e)' /\ KnowsItsForm(s, e)'
    BY DEF KnowsItsRate, KnowsItsForm, TheAd, ByHandForm, Locked, Deed, Way, desk, money
  <2> QED BY <1>1, <2>1, <2>2 DEF Knows
<1>3. \A t \in Session \ {s} :
        Locked(t)' = Locked(t) /\ \A u \in User : userLock[u] = t => userLock'[u] = t
  BY DeskNone DEF Locked, OwnLocks
<1>4. RatesKnown'  BY DEF DeskIInv, RatesKnown, money, desk
<1>5. /\ rate' \in Nat /\ rate <= rate' /\ cached' \in Nat \cup {None}
      /\ lapsed' \in {"no", "yes"} /\ (lapsed' = "no" => lapsed = "no")
      /\ rowLock' \in [Ad -> Session \cup {None}] /\ userLock' \in [User -> Session \cup {None}]
  BY DEF DeskIInv, DeskTypeOK, money, OwnLocks
<1>6. UNCHANGED <<desk, req>>  OBVIOUS
<1>7. Deed(s) = "recompute" /\ ses'[s].at \notin {"start", "end"} =>
        ses[s].at \notin {"start", "end"} \/ ~Sweeping(s)
  BY <1>1
<1> QED BY <1>1, <1>2, <1>3, <1>4, <1>5, <1>6, <1>7, OneMoves

-----------------------------------------------------------------------------
(* The ad at hand, and what a request does with it. *)

LEMMA AtHand ==
  ASSUME DeskIInv, NEW s \in Session, ses[s].held # {}
  PROVE  /\ Here(s) \in ses[s].held /\ Here(s) \in Locked(s) /\ Here(s) \in Ad
         /\ Mine(s) \in AdRec /\ CheckConstraints(Mine(s).row)
         /\ Way(s) # "form" => Fine(Here(s), Mine(s))
         /\ Pc(s) \notin {"start", "end", "peek", "save", "stamp"}
         /\ Way(s) = "form" => ses[s].held = {Here(s)} /\ Here(s) = TheAd(s)
<1>1. ses[s] \in Ses  BY DEF DeskIInv, DeskTypeOK
<1>2. ses[s].held \subseteq Ad  BY <1>1 DEF Ses
<1>3. IsFiniteSet(ses[s].held)  BY <1>2, FS_Subset, DeskFinite
<1>4. \A x \in ses[s].held : x \in Nat  BY <1>2, DeskOwners
<1>5. Here(s) \in ses[s].held  BY <1>3, <1>4, MinIsMember DEF Here
<1>6. Knows(s, ses[s])  BY DEF DeskIInv
<1>7. Here(s) \in Locked(s)  BY <1>5, <1>6 DEF Knows, KnowsItsWay
<1>8. Mine(s) \in AdRec /\ CheckConstraints(Mine(s).row) /\ (Way(s) # "form" => Fine(Here(s), Mine(s)))
  BY <1>6, <1>7 DEF Knows, KnowsItsRows, Mine
<1>9. Pc(s) \notin {"start", "end", "peek", "save", "stamp"}
  BY <1>6, <1>7 DEF Knows, KnowsItsWay, Pc
<1>10. Way(s) = "form" => ses[s].held = {Here(s)} /\ Here(s) = TheAd(s)
  BY <1>5, <1>6, <1>7 DEF Knows, KnowsItsWay, KnowsItsForm
<1> QED BY <1>2, <1>5, <1>7, <1>8, <1>9, <1>10

\* It leaves the ad at hand with a row that may be committed.
LEMMA Leaves ==
  ASSUME DeskIInv, NEW s \in Session, UNCHANGED <<desk, money, rowLock, req>>, OwnLocks(s),
         Deed(s) = "ban" => UNCHANGED userLock, ses[s].held # {}, Pc(s) \notin {"lock", "aim"}, Way(s) # "rates",
         NEW r \in AdRec, CheckConstraints(r.row), NEW n \in Nat,
         NEW notes \in SUBSET (Remark \X Ad \X {s}), Leave(s, r, notes, n),
         Way(s) # "form" => Fine(Here(s), r),
         \A m \in notes : m[2] = Here(s) /\ m[1] # "ban",
         \A m \in notes : m[1] = "reject" =>
           /\ Deed(s) = "reject"
           /\ Here(s) \notin overwritten =>
                ~RejectedBefore(Here(s)) /\ r.row.status \in {"rejected", "deleted"},
         Deed(s) = "ban" => notes = {} /\ n = 0,
         Deed(s) = "recompute" =>
           ses[s].rate # None /\ (r.norm = None \/ r.norm[2] >= ses[s].rate),
         Way(s) = "form" =>
           /\ r.norm = ses[s].seen.norm
           /\ req[s].to # "price" => r.amount = ses[s].seen.amount
           /\ ses[s].seen.row.status \in {"rejected", "deleted"}
                => r.row.status \in {"rejected", "deleted"}
           /\ Here(s) \notin byHand /\ ~ByHandForm(s) /\ r.row.status = "published"
                => r.text = "fit"
  PROVE  DeskIInv'
<1> DEFINE h == Here(s)
<1>0. PICK e : e = [ses[s] EXCEPT !.work = [@ EXCEPT ![h] = r], !.notes = @ \cup notes,
                                  !.count = @ + n, !.held = @ \ {h}, !.at = After(s)]
  OBVIOUS
<1>1. /\ h \in ses[s].held /\ h \in Locked(s) /\ h \in Ad
      /\ Pc(s) \notin {"start", "end", "peek", "save", "stamp"}
      /\ Way(s) = "form" => ses[s].held = {h} /\ h = TheAd(s)
  BY AtHand
<1>2. ses[s] \in Ses /\ Knows(s, ses[s])  BY DEF DeskIInv, DeskTypeOK
<1> HIDE DEF h
<1>3. /\ After(s) \in {"commit", "work"} /\ (After(s) = "work" => ses[s].held \ {h} # {})
      /\ After(s) = "commit" => ses[s].held \ {h} = {}
  BY <1>1 DEF After, h
<1>4. ses' = [ses EXCEPT ![s] = e]  BY <1>0, <1>2 DEF Leave, h, Ses
<1>5. e \in Ses
  <2>1. After(s) \in At  BY <1>3 DEF At
  <2>2. notes \subseteq Remark \X (Ad \cup User) \X Session  OBVIOUS
  <2>3. [ses[s].work EXCEPT ![h] = r] \in [Ad -> AdRec \cup {None}]  BY <1>1, <1>2 DEF Ses
  <2>4. ses[s].count + n \in Nat /\ ses[s].held \ {h} \subseteq Ad
        /\ ses[s].notes \cup notes \subseteq Remark \X (Ad \cup User) \X Session
    BY <1>2, <2>2 DEF Ses
  <2> QED BY <1>0, <1>2, <2>1, <2>3, <2>4 DEF Ses
<1>6. /\ e.at = After(s) /\ e.held = ses[s].held \ {h} /\ e.todo = ses[s].todo
      /\ e.work[h] = r /\ \A a \in Ad \ {h} : e.work[a] = ses[s].work[a]
      /\ e.notes = ses[s].notes \cup notes /\ e.count = ses[s].count + n
      /\ e.aim = ses[s].aim /\ e.bans = ses[s].bans /\ e.rate = ses[s].rate
      /\ e.seen = ses[s].seen /\ e.total = ses[s].total
  BY <1>0, <1>1, <1>2 DEF Ses
<1>7. Locked(s) \subseteq Ad  BY DEF Locked
<1>8. Way(s) = "form" => After(s) = "commit"  BY <1>1 DEF After, h
<1>9. KnowsItsWay(s, e)  BY <1>1, <1>2, <1>3, <1>6, <1>8 DEF Knows, KnowsItsWay, Pc
<1>10. KnowsItsRows(s, e)  BY <1>1, <1>2, <1>3, <1>6, <1>7 DEF Knows, KnowsItsRows, h
<1>11. KnowsItsNotes(s, e)
  <2> SUFFICES ASSUME NEW m \in ses[s].notes \cup notes
               PROVE  /\ m \in Remark \X (Ad \cup User) \X {s}
                      /\ m[1] # "ban" => m[2] \in Locked(s)
                      /\ m[1] = "reject" =>
                           /\ Deed(s) = "reject" /\ m[2] \notin e.held
                           /\ m[2] \notin overwritten =>
                                /\ ~RejectedBefore(m[2])
                                /\ e.work[m[2]].row.status \in {"rejected", "deleted"}
    BY <1>6 DEF KnowsItsNotes
  <2>1. CASE m \in ses[s].notes  BY <2>1, <1>1, <1>2, <1>6, <1>7 DEF Knows, KnowsItsNotes
  <2>2. CASE m \in notes  BY <2>2, <1>1, <1>6 DEF h
  <2> QED BY <2>1, <2>2
<1>12. KnowsItsBans(s, e)'
  <2>1. KnowsItsBans(s, ses[s])  BY <1>2 DEF Knows
  <2>2. e.at \notin {"aim", "end", "count"} /\ ses[s].at # "end"  BY <1>1, <1>3, <1>6 DEF Pc
  <2>3. Deed(s) = "ban" => e.count = ses[s].count /\ e.notes = ses[s].notes
    BY <1>2, <1>6 DEF Ses
  <2>4. Deed(s) = "ban" => e.aim = {}
    BY <1>1, <1>2, <1>6, <2>1 DEF KnowsItsBans, Knows, KnowsItsWay, Pc
  <2>5. UNCHANGED <<Deed(s), Permitted(s), banned>>  BY DEF desk, Deed, Permitted
  <2> QED BY <1>6, <2>1, <2>2, <2>3, <2>4, <2>5 DEF KnowsItsBans
<1>13. KnowsItsRate(s, e)  BY <1>1, <1>2, <1>3, <1>6, <1>7 DEF Knows, KnowsItsRate, Pc
<1>14. KnowsItsForm(s, e)
  BY <1>1, <1>2, <1>3, <1>6, <1>8 DEF Knows, KnowsItsForm, Pc, h
<1>15. Deed(s) = "recompute" /\ e.at \notin {"start", "end"} =>
         ses[s].at \notin {"start", "end"} \/ ~Sweeping(s)
  BY <1>1 DEF Pc
<1> QED BY <1>4, <1>5, <1>6, <1>9, <1>10, <1>11, <1>12, <1>13, <1>14, <1>15, OneThinks

\* It goes on with the ad at hand, and maybe a rate it has read.
LEMMA Goes ==
  ASSUME DeskIInv, NEW s \in Session, UNCHANGED <<desk, money, rowLock, req>>, OwnLocks(s),
         \A u \in User : userLock[u] = s => userLock'[u] = s,
         ses[s].held # {}, Pc(s) \notin {"lock", "aim"},
         NEW p \in {"judge", "owner", "count", "rate", "query", "fill", "apply"},
         NEW q \in Nat \cup {None}, ses' = [ses EXCEPT ![s].at = p, ![s].rate = q],
         p = "judge" => Deed(s) \in {"approve", "edit"},
         p \in {"owner", "count"} =>
           \/ Deed(s) \in {"approve", "edit"} /\ Mine(s).text = "fit"
           \/ Deed(s) = "ban"
           \/ Way(s) = "form" /\ req[s].to = "published" /\ Deed(s) \notin {"approve", "edit"},
         p = "count" => userLock'[Owner[Here(s)]] = s,
         p \in {"rate", "query", "fill", "apply"} => Deed(s) \in {"edit", "recompute"},
         p \in {"rate", "query"} => q = None,
         p = "fill" \/ (p = "apply" /\ Deed(s) = "recompute") => q # None,
         q # ses[s].rate =>
           \/ Deed(s) = "edit" /\ q = None
           \/ /\ Deed(s) \in {"edit", "recompute"} /\ ses[s].rate = None
              /\ q \in Nat /\ q <= rate /\ (lapsed = "no" => q = rate)
  PROVE  DeskIInv'
<1>0. PICK e : e = [ses[s] EXCEPT !.at = p, !.rate = q]  OBVIOUS
<1>1. Pc(s) \notin {"start", "end", "peek", "save", "stamp"}  BY AtHand
<1>2. ses[s] \in Ses /\ Knows(s, ses[s])  BY DEF DeskIInv, DeskTypeOK
<1>3. ses' = [ses EXCEPT ![s] = e]  BY <1>0, <1>2 DEF Ses
<1>4. e \in Ses
  <2>1. p \in At  BY DEF At
  <2> QED BY <1>0, <1>2, <2>1 DEF Ses
<1>5. /\ e.at = p /\ e.held = ses[s].held /\ e.todo = ses[s].todo /\ e.work = ses[s].work
      /\ e.notes = ses[s].notes /\ e.count = ses[s].count /\ e.rate = q
      /\ e.aim = ses[s].aim /\ e.bans = ses[s].bans
      /\ e.seen = ses[s].seen /\ e.total = ses[s].total
  BY <1>0, <1>2 DEF Ses
<1>6. KnowsItsWay(s, e)  BY <1>1, <1>2, <1>5 DEF Knows, KnowsItsWay, Pc
<1>7. KnowsItsRows(s, e)  BY <1>1, <1>2, <1>5 DEF Knows, KnowsItsRows, Mine, Here
<1>8. KnowsItsNotes(s, e)  BY <1>2, <1>5 DEF Knows, KnowsItsNotes
<1>9. KnowsItsBans(s, e)'
  <2>1. KnowsItsBans(s, ses[s])  BY <1>2 DEF Knows
  <2>2. ses[s].at \notin {"aim", "end"}  BY <1>1 DEF Pc
  <2>3. UNCHANGED <<Deed(s), Permitted(s), banned>>  BY DEF desk, Deed, Permitted
  <2>4. ses[s].bans \subseteq User  BY <1>2 DEF Ses
  <2>5. Here(s) = Min(e.held) /\ Owner[Here(s)] \in User  BY <1>5, AtHand, DeskOwners DEF Here
  <2> QED BY <1>5, <2>1, <2>2, <2>3, <2>4, <2>5 DEF KnowsItsBans
<1>10. KnowsItsRate(s, e)
  <2>1. KnowsItsRate(s, ses[s]) /\ RatesKnown  BY <1>2 DEF Knows, DeskIInv
  <2>2. Locked(s) \subseteq Ad /\ rate \in Nat /\ repriced \in [Ad -> Nat]
    BY DEF Locked, DeskIInv, DeskTypeOK
  <2>3. CASE q = ses[s].rate  BY <1>1, <1>5, <2>1, <2>2, <2>3 DEF KnowsItsRate, Pc
  <2>4. CASE q # ses[s].rate
    BY <1>1, <1>5, <2>1, <2>2, <2>4 DEF KnowsItsRate, RatesKnown, Pc
  <2> QED BY <2>3, <2>4
<1>11. KnowsItsForm(s, e)  BY <1>1, <1>2, <1>5 DEF Knows, KnowsItsForm, Pc
<1>12. Deed(s) = "recompute" /\ e.at \notin {"start", "end"} =>
         ses[s].at \notin {"start", "end"} \/ ~Sweeping(s)
  BY <1>1 DEF Pc
<1> QED BY <1>3, <1>4, <1>5, <1>6, <1>7, <1>8, <1>9, <1>10, <1>11, <1>12, OneThinks

-----------------------------------------------------------------------------
(* Rows that move, and rows that stay. *)

Target == {"on_moderation", "published", "archived", "rejected", "on_moderation_failed", "deleted"}

\* A transition the matrix allows keeps the constraints, and the rest of the ad.
LEMMA MovedRow ==
  ASSUME NEW r \in AdRec, CheckConstraints(r.row), NEW to \in Target
  PROVE  /\ Moved(r, to) \in AdRec /\ CheckConstraints(Moved(r, to).row)
         /\ Moved(r, to).row.status = to /\ Moved(r, to).text = r.text
         /\ Moved(r, to).amount = r.amount /\ Moved(r, to).norm = r.norm
<1> DEFINE t == TransitionTo(r.row, to)
<1>1. r.row \in Row  BY DEF AdRec
<1>2. t.status = to /\ t.stamps = (r.row.stamps \ Cleared[to]) \cup Stamped[to]
  BY DEF TransitionTo
<1>3. to \in AdStatus /\ Stamped[to] \subseteq Stamp
  BY DEF Target, AdStatus, Stamped, Stamp
<1>4. t \in Row  BY <1>1, <1>3 DEF Row, TransitionTo
<1>5. CheckConstraints(t)
  BY <1>2 DEF CheckConstraints, Target, Stamped, Cleared
<1> HIDE DEF t
<1> QED BY <1>2, <1>4, <1>5 DEF Moved, AdRec, t

LEMMA MovedIsFine ==
  ASSUME NEW a \in Ad, NEW r, Fine(a, r), NEW to \in Target,
         MayTransition(r.row, to) \/ to = "deleted", to = "published" => r.text = "fit"
  PROVE  Fine(a, Moved(r, to))
<1>1. r \in AdRec /\ CheckConstraints(r.row)  BY DEF Fine
<1>2. r.row.status \in {"rejected", "deleted"} => to = "deleted"
  BY DEF MayTransition, ALLOWED_TRANSITIONS, AdStatus
<1> QED BY <1>1, <1>2, MovedRow DEF Fine

LEMMA WaysOfDeeds ==
  ASSUME DeskIInv, NEW s \in Session
  PROVE  /\ Way(s) = "rates" <=> Deed(s) = "set"
         /\ Way(s) = "form" <=> Deed(s) = "save"
         /\ Way(s) = "seller" <=> Deed(s) = "edit"
         /\ Way(s) = "command" <=> Deed(s) = "recompute"
         /\ Way(s) = "view" => \E a \in Ad : req[s].ads = {a}
         /\ Way(s) \in {"form", "seller"} => \E a \in Ad : req[s].ads = {a}
<1>1. req[s] \in Req /\ Offered(req[s])  BY DEF DeskIInv, DeskTypeOK
<1> QED BY <1>1 DEF Req, Offered, Way, Deed

\* An ad is passed over.
LEMMA Skips ==
  ASSUME DeskIInv, NEW s \in Session, UNCHANGED <<desk, money, rowLock, req>>, OwnLocks(s),
         Deed(s) = "ban" => UNCHANGED userLock, ses[s].held # {},
         Pc(s) \notin {"lock", "aim"}, Deed(s) \notin {"set", "recompute"}, Skip(s),
         Way(s) = "form" => ByHandForm(s) \/ Mine(s).row.status # "published"
  PROVE  DeskIInv'
<1>1. /\ Mine(s) \in AdRec /\ CheckConstraints(Mine(s).row)
      /\ Way(s) # "form" => Fine(Here(s), Mine(s))
      /\ Here(s) \in Locked(s) /\ (Way(s) = "form" => Here(s) = TheAd(s))
  BY AtHand
<1>2. Way(s) = "form" =>
        /\ Mine(s).norm = ses[s].seen.norm
        /\ req[s].to # "price" => Mine(s).amount = ses[s].seen.amount
        /\ ses[s].seen.row.status \in {"rejected", "deleted"}
             => Mine(s).row.status \in {"rejected", "deleted"}
  BY <1>1 DEF DeskIInv, Knows, KnowsItsForm, Mine
<1>3. Way(s) # "rates"  BY WaysOfDeeds
<1>4. Leave(s, Mine(s), {}, 0)  BY DEF Skip
<1> QED BY <1>1, <1>2, <1>3, <1>4, Leaves

\* A locking SELECT and the like leave the locks of the accounts.
LEMMA SameLocks ==
  ASSUME DeskIInv, NEW s \in Session, UNCHANGED userLock
  PROVE  OwnLocks(s) /\ \A u \in User : userLock[u] = s => userLock'[u] = s
BY DEF OwnLocks, DeskIInv, DeskTypeOK

LEMMA Failed ==
  ASSUME DeskIInv, NEW s \in Session, UNCHANGED <<desk, money, rowLock, req>>, OwnLocks(s),
         ses[s].held # {}, Pc(s) \notin {"lock", "aim"}, Deed(s) \in {"approve", "edit"}, Fail(s)
  PROVE  DeskIInv'
<1>1. Way(s) \notin {"form", "rates"} /\ Deed(s) \notin {"ban", "set", "recompute"}
  BY WaysOfDeeds
<1>2. /\ Mine(s) \in AdRec /\ CheckConstraints(Mine(s).row) /\ Fine(Here(s), Mine(s))
      /\ Here(s) \in Ad
  BY <1>1, AtHand
<1>3. CASE MayTransition(Mine(s).row, "on_moderation_failed")
  <2> DEFINE r == Moved(Mine(s), "on_moderation_failed")
             notes == Note("fail", Here(s), s)
  <2>1. r \in AdRec /\ CheckConstraints(r.row) /\ Fine(Here(s), r)
    BY <1>2, <1>3, MovedRow, MovedIsFine DEF Target
  <2>2. /\ notes \in SUBSET (Remark \X Ad \X {s})
        /\ \A m \in notes : m[2] = Here(s) /\ m[1] = "fail"
    BY <1>2 DEF Note, Remark
  <2>3. Leave(s, r, notes, 0)  BY <1>3 DEF Fail
  <2> HIDE DEF r, notes
  <2> QED BY <1>1, <2>1, <2>2, <2>3, Leaves
<1>4. CASE ~MayTransition(Mine(s).row, "on_moderation_failed")
  <2>1. Skip(s)  BY <1>4 DEF Fail
  <2> QED BY <1>1, <2>1, Skips
<1> QED BY <1>3, <1>4

-----------------------------------------------------------------------------
(* The verdicts. *)

LEMMA InHand ==
  ASSUME DeskIInv, NEW s \in Session,
         Pc(s) \in {"work", "judge", "owner", "count", "rate", "query", "fill", "apply", "route"}
  PROVE  ses[s].held # {}
BY DEF DeskIInv, Knows, KnowsItsWay, Pc

\* Goto, with the ad at hand and the locks there are.
LEMMA GoesOn ==
  ASSUME DeskIInv, NEW s \in Session, UNCHANGED <<desk, money, locks, req>>,
         ses[s].held # {}, Pc(s) \notin {"lock", "aim"},
         NEW p \in {"judge", "owner", "rate", "query", "apply"}, Goto(s, p),
         p = "judge" => Deed(s) \in {"approve", "edit"},
         p = "owner" =>
           \/ Deed(s) \in {"approve", "edit"} /\ Mine(s).text = "fit"
           \/ Deed(s) = "ban"
           \/ Way(s) = "form" /\ req[s].to = "published" /\ Deed(s) \notin {"approve", "edit"},
         p \in {"rate", "query", "apply"} => Deed(s) \in {"edit", "recompute"},
         p \in {"rate", "query"} => ses[s].rate = None,
         p = "apply" /\ Deed(s) = "recompute" => ses[s].rate # None
  PROVE  DeskIInv'
<1>1. ses[s] \in Ses /\ ses \in [Session -> Ses]  BY DEF DeskIInv, DeskTypeOK
<1>2. ses[s].rate \in Nat \cup {None}  BY <1>1 DEF Ses
<1>3. ses' = [ses EXCEPT ![s].at = p, ![s].rate = ses[s].rate]  BY <1>1 DEF Goto, Ses
<1>4. OwnLocks(s) /\ \A u \in User : userLock[u] = s => userLock'[u] = s
  BY SameLocks DEF locks
<1>5. UNCHANGED <<desk, money, rowLock, req>>  BY DEF locks
<1> QED BY <1>2, <1>3, <1>4, <1>5, Goes

LEMMA ApproveKeeps ==
  ASSUME DeskIInv, NEW s \in Session, Approve(s)  PROVE DeskIInv'
<1>1. /\ Pc(s) = "work" /\ Deed(s) = "approve" /\ UNCHANGED <<desk, money, locks, req>>
      /\ Goto(s, "judge") \/ Skip(s)
  BY DEF Approve
<1>2. ses[s].held # {} /\ OwnLocks(s)  BY <1>1, InHand, SameLocks DEF locks
<1>3. CASE Goto(s, "judge")  BY <1>1, <1>2, <1>3, GoesOn
<1>4. CASE Skip(s)
  <2>1. Way(s) # "form"  BY <1>1, WaysOfDeeds
  <2> QED BY <1>1, <1>2, <1>4, <2>1, Skips DEF locks
<1> QED BY <1>1, <1>3, <1>4

LEMMA JudgeKeeps ==
  ASSUME DeskIInv, NEW s \in Session, Judge(s)  PROVE DeskIInv'
<1>1. /\ Pc(s) = "judge" /\ UNCHANGED <<desk, money, locks, req>>
      /\ (Mine(s).text = "fit" /\ Goto(s, "owner")) \/ Fail(s)
  BY DEF Judge
<1>2. ses[s].held # {} /\ OwnLocks(s)  BY <1>1, InHand, SameLocks DEF locks
<1>3. Deed(s) \in {"approve", "edit"}  BY <1>1 DEF DeskIInv, Knows, KnowsItsWay, Pc
<1>4. CASE Goto(s, "owner") /\ Mine(s).text = "fit"  BY <1>1, <1>2, <1>3, <1>4, GoesOn
<1>5. CASE Fail(s)  BY <1>1, <1>2, <1>3, <1>5, Failed DEF locks
<1> QED BY <1>1, <1>4, <1>5

\* At "owner" and "count" the text is known, or does not matter.
LEMMA AtOwner ==
  ASSUME DeskIInv, NEW s \in Session, Pc(s) \in {"owner", "count"}
  PROVE  \/ Deed(s) \in {"approve", "edit"} /\ Mine(s).text = "fit"
         \/ Deed(s) = "ban"
         \/ Way(s) = "form" /\ req[s].to = "published" /\ Deed(s) \notin {"approve", "edit"}
<1>1. Knows(s, ses[s])  BY DEF DeskIInv
<1>2. Way(s) = "form" => Deed(s) \notin {"approve", "edit"}  BY WaysOfDeeds
<1> QED BY <1>1, <1>2 DEF Knows, KnowsItsWay, KnowsItsRows, Pc, Mine, Here

LEMMA LockOwnerKeeps ==
  ASSUME DeskIInv, NEW s \in Session, LockOwner(s)  PROVE DeskIInv'
<1> DEFINE u == Owner[Here(s)]
<1>1. /\ Pc(s) = "owner" /\ UNCHANGED <<desk, money, rowLock, req>> /\ Goto(s, "count")
      /\ userLock[u] \in {None, s} /\ userLock' = [userLock EXCEPT ![u] = s]
  BY DEF LockOwner
<1>2. ses[s].held # {}  BY <1>1, InHand
<1>3. u \in User  BY <1>2, AtHand, DeskOwners
<1>4. ses \in [Session -> Ses] /\ userLock \in [User -> Session \cup {None}]
  BY DEF DeskIInv, DeskTypeOK
<1>5. ses[s].rate \in Nat \cup {None}  BY <1>4 DEF Ses
<1>6. ses' = [ses EXCEPT ![s].at = "count", ![s].rate = ses[s].rate]
  BY <1>1, <1>4 DEF Goto, Ses
<1>7. /\ OwnLocks(s) /\ userLock'[u] = s
      /\ \A v \in User : userLock[v] = s => userLock'[v] = s
  BY <1>1, <1>3, <1>4 DEF OwnLocks
<1> QED BY <1>1, <1>2, <1>5, <1>6, <1>7, AtOwner, Goes

LEMMA PublishKeeps ==
  ASSUME DeskIInv, NEW s \in Session, Publish(s)  PROVE DeskIInv'
<1> DEFINE h == Here(s)
           r == Moved(Mine(s), "published")
           notes == Note("publish", h, s)
<1>1. /\ Pc(s) = "count" /\ Deed(s) # "ban" /\ UNCHANGED <<desk, money, rowLock, req>>
      /\ \/ Leave(s, r, notes, 1) /\ MayTransition(Mine(s).row, "published")
         \/ Way(s) = "form" /\ Skip(s)
         \/ Way(s) # "form" /\ Fail(s)
      /\ userLock' = userLock \/ userLock' = [userLock EXCEPT ![Owner[h]] = None]
  BY DEF Publish
<1>2. ses[s].held # {}  BY <1>1, InHand
<1>3. /\ Mine(s) \in AdRec /\ CheckConstraints(Mine(s).row)
      /\ Way(s) # "form" => Fine(Here(s), Mine(s))
      /\ h \in Locked(s) /\ h \in Ad /\ (Way(s) = "form" => h = TheAd(s))
  BY <1>2, AtHand
<1>4. \/ Deed(s) \in {"approve", "edit"} /\ Mine(s).text = "fit" /\ Way(s) \notin {"form", "rates"}
      \/ Deed(s) = "save" /\ Way(s) = "form" /\ req[s].to = "published"
  BY <1>1, AtOwner, WaysOfDeeds
<1>5. OwnLocks(s)
  <2>1. userLock[Owner[h]] = s
    BY <1>1 DEF DeskIInv, Knows, KnowsItsBans, Here, Pc
  <2> QED BY <1>1, <2>1 DEF OwnLocks, DeskIInv, DeskTypeOK
<1>6. CASE Leave(s, r, notes, 1) /\ MayTransition(Mine(s).row, "published")
  <2>1. /\ r \in AdRec /\ CheckConstraints(r.row) /\ r.norm = Mine(s).norm
        /\ r.amount = Mine(s).amount
    BY <1>3, MovedRow DEF Target
  <2>2. Way(s) # "form" => Fine(h, r)  BY <1>3, <1>4, <1>6, MovedIsFine DEF Target
  <2>3. /\ notes \in SUBSET (Remark \X Ad \X {s})
        /\ \A m \in notes : m[2] = h /\ m[1] = "publish"
    BY <1>3 DEF Note, Remark
  <2>4. Way(s) = "form" =>
          /\ r.norm = ses[s].seen.norm
          /\ req[s].to # "price" => r.amount = ses[s].seen.amount
          /\ ses[s].seen.row.status \notin {"rejected", "deleted"}
          /\ ByHandForm(s)
    <3>1. Way(s) = "form" => KnowsItsForm(s, ses[s])  BY DEF DeskIInv, Knows
    <3>2. Mine(s).row.status \notin {"rejected", "deleted"}
      BY <1>6 DEF MayTransition, ALLOWED_TRANSITIONS, AdStatus
    <3> HIDE DEF r
    <3> QED BY <1>3, <1>4, <2>1, <3>1, <3>2 DEF KnowsItsForm, Mine, ByHandForm
  <2> HIDE DEF r, notes
  <2> QED BY <1>1, <1>2, <1>4, <1>5, <1>6, <2>1, <2>2, <2>3, <2>4, Leaves
<1>7. CASE Way(s) = "form" /\ Skip(s)
  BY <1>1, <1>2, <1>4, <1>5, <1>7, Skips DEF ByHandForm
<1>8. CASE Way(s) # "form" /\ Fail(s)  BY <1>1, <1>2, <1>4, <1>5, <1>8, Failed
<1> QED BY <1>1, <1>6, <1>7, <1>8

LEMMA RejectKeeps ==
  ASSUME DeskIInv, NEW s \in Session, Reject(s)  PROVE DeskIInv'
<1> DEFINE h == Here(s)
           r == Moved(Mine(s), "rejected")
           notes == Note("reject", h, s)
<1>1. /\ Pc(s) = "work" /\ Deed(s) = "reject" /\ UNCHANGED <<desk, money, locks, req>>
      /\ \/ Leave(s, Mine(s), {}, 1)
         \/ Leave(s, r, notes, 1) /\ MayTransition(Mine(s).row, "rejected")
         \/ Skip(s)
  BY DEF Reject
<1>2. ses[s].held # {} /\ OwnLocks(s)  BY <1>1, InHand, SameLocks DEF locks
<1>3. Way(s) \notin {"form", "rates"}  BY <1>1, WaysOfDeeds
<1>4. /\ Mine(s) \in AdRec /\ CheckConstraints(Mine(s).row) /\ Fine(h, Mine(s))
      /\ h \in Ad
  BY <1>2, <1>3, AtHand
<1>5. CASE Leave(s, Mine(s), {}, 1)  BY <1>1, <1>2, <1>3, <1>4, <1>5, Leaves DEF locks
<1>6. CASE Leave(s, r, notes, 1) /\ MayTransition(Mine(s).row, "rejected")
  <2>1. /\ r \in AdRec /\ CheckConstraints(r.row) /\ r.row.status = "rejected" /\ Fine(h, r)
    BY <1>4, <1>6, MovedRow, MovedIsFine DEF Target
  <2>2. h \notin overwritten => ~RejectedBefore(h)
    BY <1>4, <1>6 DEF Fine, MayTransition, ALLOWED_TRANSITIONS, AdStatus
  <2>3. /\ notes \in SUBSET (Remark \X Ad \X {s})
        /\ \A m \in notes : m[2] = h /\ m[1] = "reject"
    BY <1>4 DEF Note, Remark
  <2> HIDE DEF r, notes
  <2> QED BY <1>1, <1>2, <1>3, <1>6, <2>1, <2>2, <2>3, Leaves DEF locks
<1>7. CASE Skip(s)  BY <1>1, <1>2, <1>3, <1>7, Skips DEF locks
<1> QED BY <1>1, <1>5, <1>6, <1>7

LEMMA FlagKeeps ==
  ASSUME DeskIInv, NEW s \in Session, Flag(s)  PROVE DeskIInv'
<1>1. /\ Pc(s) = "work" /\ Deed(s) = "flag" /\ UNCHANGED <<desk, money, locks, req>>
      /\ \E level \in Levels(Mine(s)) : Leave(s, Mine(s), {<<level, Here(s), s>>}, 1)
  BY DEF Flag
<1>2. PICK level \in AdPriorityLevel : Leave(s, Mine(s), {<<level, Here(s), s>>}, 1)
  BY <1>1 DEF Levels, AdPriorityLevel
<1>3. ses[s].held # {} /\ OwnLocks(s)  BY <1>1, InHand, SameLocks DEF locks
<1>4. Way(s) \notin {"form", "rates"}  BY <1>1, WaysOfDeeds
<1>5. /\ Mine(s) \in AdRec /\ CheckConstraints(Mine(s).row) /\ Fine(Here(s), Mine(s))
      /\ Here(s) \in Ad
  BY <1>3, <1>4, AtHand
<1>6. level \in Remark /\ level \notin {"ban", "reject"}  BY <1>2 DEF AdPriorityLevel, Remark
<1>7. /\ {<<level, Here(s), s>>} \in SUBSET (Remark \X Ad \X {s})
      /\ \A m \in {<<level, Here(s), s>>} : m[2] = Here(s) /\ m[1] \notin {"ban", "reject"}
  BY <1>5, <1>6
<1> QED BY <1>1, <1>2, <1>3, <1>4, <1>5, <1>7, Leaves DEF locks

LEMMA SoftDeleteKeeps ==
  ASSUME DeskIInv, NEW s \in Session, SoftDelete(s)  PROVE DeskIInv'
<1> DEFINE h == Here(s)
           r == Moved(Mine(s), "deleted")
           notes == Note("delete", h, s)
<1>1. /\ Pc(s) = "work" /\ Deed(s) = "delete" /\ UNCHANGED <<desk, money, locks, req>>
      /\ Leave(s, r, notes, 1)
  BY DEF SoftDelete
<1>2. ses[s].held # {} /\ OwnLocks(s)  BY <1>1, InHand, SameLocks DEF locks
<1>3. Way(s) \notin {"form", "rates"}  BY <1>1, WaysOfDeeds
<1>4. /\ Mine(s) \in AdRec /\ CheckConstraints(Mine(s).row) /\ Fine(h, Mine(s))
      /\ h \in Ad
  BY <1>2, <1>3, AtHand
<1>5. /\ r \in AdRec /\ CheckConstraints(r.row) /\ Fine(h, r)
  BY <1>4, MovedRow, MovedIsFine DEF Target
<1>6. /\ notes \in SUBSET (Remark \X Ad \X {s})
      /\ \A m \in notes : m[2] = h /\ m[1] = "delete"
  BY <1>4 DEF Note, Remark
<1> HIDE DEF r, notes
<1> QED BY <1>1, <1>2, <1>3, <1>5, <1>6, Leaves DEF locks

-----------------------------------------------------------------------------
(* Bans. *)

LEMMA ToOwnerKeeps ==
  ASSUME DeskIInv, NEW s \in Session, ToOwner(s)  PROVE DeskIInv'
<1>1. /\ Pc(s) = "work" /\ Deed(s) = "ban" /\ UNCHANGED <<desk, money, locks, req>>
      /\ Goto(s, "owner")
  BY DEF ToOwner
<1> QED BY <1>1, InHand, GoesOn

LEMMA BanOwnerKeeps ==
  ASSUME DeskIInv, NEW s \in Session, BanOwner(s)  PROVE DeskIInv'
<1> DEFINE u == Owner[Here(s)]
<1>1. /\ Pc(s) = "count" /\ Deed(s) = "ban" /\ UNCHANGED <<desk, money, locks, req>>
      /\ \/ /\ u \in Permitted(s) \ banned
            /\ ses' = [ses EXCEPT ![s].bans = {u}, ![s].notes = Note("ban", u, s),
                                  ![s].count = 1, ![s].held = {}, ![s].at = "commit"]
         \/ Skip(s)
  BY DEF BanOwner
<1>2. ses[s].held # {} /\ OwnLocks(s)  BY <1>1, InHand, SameLocks DEF locks
<1>3. Way(s) \notin {"form", "rates"}  BY <1>1, WaysOfDeeds
<1>4. CASE Skip(s)  BY <1>1, <1>2, <1>3, <1>4, Skips DEF locks
<1>5. CASE /\ u \in Permitted(s) \ banned
           /\ ses' = [ses EXCEPT ![s].bans = {u}, ![s].notes = Note("ban", u, s),
                                 ![s].count = 1, ![s].held = {}, ![s].at = "commit"]
  <2>0. PICK e : e = [ses[s] EXCEPT !.bans = {u}, !.notes = Note("ban", u, s),
                                    !.count = 1, !.held = {}, !.at = "commit"]
    OBVIOUS
  <2>1. ses[s] \in Ses /\ ses \in [Session -> Ses] /\ Knows(s, ses[s])
    BY DEF DeskIInv, DeskTypeOK
  <2>2. ses' = [ses EXCEPT ![s] = e]  BY <1>5, <2>0, <2>1 DEF Ses
  <2>3. u \in User /\ userLock[u] = s
    BY <1>1, <1>5, <2>1 DEF Knows, KnowsItsBans, Here, Pc, Permitted
  <2>4. Note("ban", u, s) = {<<"ban", u, s>>}  BY DEF Note
  <2>5. /\ e.at = "commit" /\ e.held = {} /\ e.todo = ses[s].todo /\ e.work = ses[s].work
        /\ e.notes = {<<"ban", u, s>>} /\ e.count = 1 /\ e.rate = ses[s].rate
        /\ e.aim = ses[s].aim /\ e.bans = {u} /\ e.seen = ses[s].seen
        /\ e.total = ses[s].total
    BY <2>0, <2>1, <2>4 DEF Ses
  <2>6. e \in Ses
    <3>1. "commit" \in At /\ {<<"ban", u, s>>} \subseteq Remark \X (Ad \cup User) \X Session
      BY <2>3 DEF At, Remark
    <3> QED BY <2>0, <2>1, <2>3, <2>4, <3>1 DEF Ses
  <2>7. KnowsItsWay(s, e)  BY <1>1, <2>1, <2>5 DEF Knows, KnowsItsWay, Pc
  <2>8. KnowsItsRows(s, e)  BY <2>1, <2>5 DEF Knows, KnowsItsRows
  <2>9. KnowsItsNotes(s, e)  BY <2>3, <2>5 DEF KnowsItsNotes, Remark
  <2>10. KnowsItsBans(s, e)'
    <3>1. UNCHANGED <<Deed(s), Permitted(s), banned, userLock>>
      BY <1>1 DEF desk, locks, Deed, Permitted
    <3>2. ses[s].aim = {} /\ ses[s].total = 0
      BY <1>1, <2>1 DEF Knows, KnowsItsBans, Pc
    <3>3. Cardinality({u}) = 1  BY FS_Singleton
    <3> HIDE DEF u
    <3> QED BY <1>1, <1>5, <2>3, <2>5, <3>1, <3>2, <3>3 DEF KnowsItsBans
  <2>11. KnowsItsRate(s, e)  BY <1>1, <2>1, <2>5 DEF Knows, KnowsItsRate
  <2>12. KnowsItsForm(s, e)  BY <1>3 DEF KnowsItsForm
  <2>13. UNCHANGED <<desk, money, rowLock, req>> /\ Deed(s) # "recompute"  BY <1>1 DEF locks
  <2> QED BY <1>2, <2>2, <2>5, <2>6, <2>7, <2>8, <2>9, <2>10, <2>11, <2>12, <2>13, OneThinks
<1> QED BY <1>1, <1>4, <1>5

LEMMA AimKeeps ==
  ASSUME DeskIInv, NEW s \in Session, Aim(s)  PROVE DeskIInv'
<1>0. PICK found : found = {Owner[a] : a \in req[s].ads} \cap (Permitted(s) \ banned)
  OBVIOUS
<1>1. /\ found \subseteq Permitted(s) \ banned /\ found \subseteq User
      /\ Pc(s) = "aim" /\ ses[s].notes = {}
      /\ ses' = [ses EXCEPT ![s].aim = found,
                            ![s].notes = UNION {Note("ban", u, s) : u \in found},
                            ![s].at = IF found = {} THEN "commit" ELSE "aim"]
      /\ UNCHANGED <<desk, money, locks, req>>
  BY <1>0 DEF Aim, Permitted
<1> DEFINE notes == UNION {Note("ban", u, s) : u \in found}
           at == IF found = {} THEN "commit" ELSE "aim"
<1>2. PICK e : e = [ses[s] EXCEPT !.aim = found, !.notes = notes, !.at = at]  OBVIOUS
<1>3. ses[s] \in Ses /\ ses \in [Session -> Ses] /\ Knows(s, ses[s])
  BY DEF DeskIInv, DeskTypeOK
<1>4. notes = {<<"ban", u, s>> : u \in found}  BY DEF Note
<1> HIDE DEF notes
<1>5. notes \subseteq Remark \X (Ad \cup User) \X {s} /\ at \in At
  <2>1. at \in At  BY DEF At
  <2>2. ASSUME NEW n \in notes PROVE n \in Remark \X (Ad \cup User) \X {s}
    <3>1. PICK u \in found : n = <<"ban", u, s>>  BY <1>4
    <3>2. u \in User /\ "ban" \in Remark  BY <1>1 DEF Remark
    <3> QED BY <3>1, <3>2
  <2> QED BY <2>1, <2>2
<1>6. ses' = [ses EXCEPT ![s] = e]  BY <1>1, <1>2, <1>3 DEF Ses, notes
<1>7. e \in Ses
  <2>1. notes \subseteq Remark \X (Ad \cup User) \X Session  BY <1>5
  <2> QED BY <1>1, <1>2, <1>3, <1>5, <2>1 DEF Ses
<1>8. /\ e.at \in {"commit", "aim"} /\ (e.at = "commit" => found = {})
      /\ e.held = ses[s].held /\ e.todo = ses[s].todo /\ e.work = ses[s].work
      /\ e.notes = notes /\ e.count = ses[s].count /\ e.rate = ses[s].rate
      /\ e.aim = found /\ e.bans = ses[s].bans /\ e.seen = ses[s].seen
      /\ e.total = ses[s].total
  BY <1>2, <1>3 DEF Ses
<1>9. Way(s) = "bulk" /\ Deed(s) = "ban"  BY <1>1, <1>3 DEF Knows, KnowsItsWay, Pc
<1>10. KnowsItsWay(s, e)  BY <1>1, <1>3, <1>8, <1>9 DEF Knows, KnowsItsWay, Pc
<1>11. KnowsItsRows(s, e)  BY <1>3, <1>8 DEF Knows, KnowsItsRows
<1>12. KnowsItsNotes(s, e)
  <2>1. \A n \in notes : n[1] = "ban"  BY <1>4
  <2> QED BY <1>5, <1>8, <2>1 DEF KnowsItsNotes
<1>13. KnowsItsBans(s, e)'
  <2>1. UNCHANGED <<Deed(s), Permitted(s), banned, userLock>>
    BY <1>1 DEF desk, locks, Deed, Permitted
  <2>2. ses[s].bans = {} /\ ses[s].total = 0 /\ ses[s].count = Cardinality({})
    BY <1>1, <1>3, <1>9 DEF Knows, KnowsItsBans, Pc
  <2>3. \A n \in notes : n[1] = "ban" /\ n[2] \in found  BY <1>4
  <2>4. \A u \in found : <<"ban", u, s>> \in e.notes  BY <1>4, <1>8
  <2> QED BY <1>1, <1>8, <1>9, <2>1, <2>2, <2>3, <2>4 DEF KnowsItsBans
<1>14. KnowsItsRate(s, e)  BY <1>3, <1>8, <1>9 DEF Knows, KnowsItsRate
<1>15. KnowsItsForm(s, e)  BY <1>9 DEF KnowsItsForm
<1>16. /\ UNCHANGED <<desk, money, rowLock, req>> /\ OwnLocks(s) /\ Deed(s) # "recompute"
  BY <1>1, <1>9, SameLocks DEF locks
<1> QED
  BY <1>6, <1>7, <1>8, <1>10, <1>11, <1>12, <1>13, <1>14, <1>15, <1>16, OneThinks

LEMMA BanNextKeeps ==
  ASSUME DeskIInv, NEW s \in Session, BanNext(s)  PROVE DeskIInv'
<1>1. PICK u \in ses[s].aim :
        /\ Pc(s) = "aim" /\ userLock[u] = None /\ UNCHANGED <<desk, money, rowLock, req>>
        /\ \/ /\ u \in banned /\ UNCHANGED userLock
              /\ ses' = [ses EXCEPT ![s].aim = @ \ {u}, ![s].at = Visited(s, u)]
           \/ /\ u \notin banned /\ userLock' = [userLock EXCEPT ![u] = s]
              /\ ses' = [ses EXCEPT ![s].aim = @ \ {u}, ![s].at = Visited(s, u),
                                    ![s].bans = @ \cup {u}, ![s].count = @ + 1]
  BY DEF BanNext
<1>2. ses[s] \in Ses /\ ses \in [Session -> Ses] /\ Knows(s, ses[s])
      /\ userLock \in [User -> Session \cup {None}]
  BY DEF DeskIInv, DeskTypeOK
<1>3. PICK e : e = IF u \in banned
                   THEN [ses[s] EXCEPT !.aim = @ \ {u}, !.at = Visited(s, u)]
                   ELSE [ses[s] EXCEPT !.aim = @ \ {u}, !.at = Visited(s, u),
                                       !.bans = @ \cup {u}, !.count = @ + 1]
  OBVIOUS
<1>4. u \in User /\ ses[s].bans \subseteq User /\ ses[s].count \in Nat  BY <1>2 DEF Ses
<1>5. /\ Visited(s, u) \in At /\ Visited(s, u) \in {"commit", "aim"}
      /\ Visited(s, u) = "commit" => ses[s].aim \ {u} = {}
  BY DEF Visited, At
<1>6. ses' = [ses EXCEPT ![s] = e]  BY <1>1, <1>2, <1>3 DEF Ses
<1>7. e \in Ses
  <2>1. ses[s].bans \cup {u} \subseteq User /\ ses[s].count + 1 \in Nat
        /\ ses[s].aim \ {u} \subseteq User
    BY <1>2, <1>4 DEF Ses
  <2>2. CASE u \in banned  BY <1>2, <1>3, <1>5, <2>1, <2>2 DEF Ses
  <2>3. CASE u \notin banned  BY <1>2, <1>3, <1>5, <2>1, <2>3 DEF Ses
  <2> QED BY <2>2, <2>3
<1>8. /\ e.at = Visited(s, u) /\ e.aim = ses[s].aim \ {u}
      /\ e.held = ses[s].held /\ e.todo = ses[s].todo /\ e.work = ses[s].work
      /\ e.notes = ses[s].notes /\ e.rate = ses[s].rate
      /\ e.seen = ses[s].seen /\ e.total = ses[s].total
      /\ u \in banned => e.bans = ses[s].bans /\ e.count = ses[s].count
      /\ u \notin banned => e.bans = ses[s].bans \cup {u} /\ e.count = ses[s].count + 1
  BY <1>2, <1>3 DEF Ses
<1>9. Way(s) = "bulk" /\ Deed(s) = "ban"  BY <1>1, <1>2 DEF Knows, KnowsItsWay, Pc
<1>10. KnowsItsWay(s, e)  BY <1>1, <1>2, <1>5, <1>8, <1>9 DEF Knows, KnowsItsWay, Pc
<1>11. KnowsItsRows(s, e)  BY <1>2, <1>5, <1>8 DEF Knows, KnowsItsRows
<1>12. KnowsItsNotes(s, e)  BY <1>2, <1>8 DEF Knows, KnowsItsNotes
<1>13. KnowsItsBans(s, e)'
  <2>1. UNCHANGED <<Deed(s), Permitted(s), banned>>  BY <1>1 DEF desk, Deed, Permitted
  <2>2. KnowsItsBans(s, ses[s])  BY <1>2 DEF Knows
  <2>3. e.count = Cardinality(e.bans)
    <3>1. IsFiniteSet(ses[s].bans)  BY <1>4, DeskFinite, FS_Subset
    <3>2. ses[s].count = Cardinality(ses[s].bans)  BY <1>9, <2>2 DEF KnowsItsBans
    <3>3. u \notin banned => u \notin ses[s].bans
      BY <1>1, <1>9, <2>2, DeskNone DEF KnowsItsBans
    <3>4. u \notin banned => Cardinality(ses[s].bans \cup {u}) = Cardinality(ses[s].bans) + 1
      BY <3>1, <3>3, FS_AddElement
    <3> QED BY <1>8, <3>2, <3>4
  <2>4. \A v \in e.bans : userLock'[v] = s /\ v \notin banned
    BY <1>1, <1>2, <1>4, <1>8, <1>9, <2>2 DEF KnowsItsBans
  <2> QED BY <1>1, <1>5, <1>8, <1>9, <2>1, <2>2, <2>3, <2>4 DEF KnowsItsBans, Pc
<1>14. KnowsItsRate(s, e)  BY <1>2, <1>5, <1>8, <1>9 DEF Knows, KnowsItsRate
<1>15. KnowsItsForm(s, e)  BY <1>9 DEF KnowsItsForm
<1>16. OwnLocks(s)  BY <1>1, <1>2 DEF OwnLocks
<1> QED
  BY <1>1, <1>6, <1>7, <1>8, <1>9, <1>10, <1>11, <1>12, <1>13, <1>14, <1>15, <1>16, OneThinks

-----------------------------------------------------------------------------
(* Prices. *)

\* The rate or the cached one changes: what was known is still true.
LEMMA MoneyMoves ==
  ASSUME DeskIInv, NEW s \in Session, UNCHANGED <<desk, locks, req>>,
         NEW p \in {"apply", "commit", "end"}, Goto(s, p),
         Knows(s, [ses[s] EXCEPT !.at = p]),
         rate' \in Nat, rate <= rate', cached' \in Nat \cup {None}, Lapsed,
         cached' # None => cached' <= rate',
         p = "apply" => ses[s].held # {}, Deed(s) = "recompute" => p = "apply"
  PROVE  DeskIInv'
<1>0. PICK e : e = [ses[s] EXCEPT !.at = p]  OBVIOUS
<1>1. /\ ses \in [Session -> Ses] /\ ses[s] \in Ses /\ lapsed \in {"no", "yes"} /\ rate \in Nat
      /\ repriced \in [Ad -> Nat] /\ userLock \in [User -> Session \cup {None}]
      /\ rowLock \in [Ad -> Session \cup {None}] /\ RatesKnown
  BY DEF DeskIInv, DeskTypeOK
<1>2. p \in At  BY DEF At
<1>3. /\ ses'[s] = e /\ ses' = [ses EXCEPT ![s] = ses'[s]]
      /\ ses'[s] \in Ses /\ ses'[s].total = ses[s].total /\ ses'[s].at = p
  BY <1>0, <1>1, <1>2 DEF Goto, Ses
<1>4. lapsed' \in {"no", "yes"} /\ (lapsed' = "no" => lapsed = "no")
      /\ (lapsed' = "no" => cached' = None \/ cached' >= rate')
  BY <1>1 DEF Lapsed, RatesKnown
<1>5. Knows(s, ses[s])'
  <2>1. KnowsItsWay(s, e)' /\ KnowsItsNotes(s, e)' /\ KnowsItsBans(s, e)' /\ KnowsItsForm(s, e)'
    BY <1>0 DEF Knows, KnowsItsWay, KnowsItsNotes, KnowsItsBans, KnowsItsForm, TheAd, ByHandForm,
       RejectedBefore, Entries, Locked, Deed, Way, desk, locks, Permitted
  <2>2. KnowsItsRows(s, e)'
    BY <1>0, <1>4 DEF Knows, KnowsItsRows, Fine, Untouched, RejectedBefore, Entries, Locked,
       Deed, Way, desk, locks
  <2>3. KnowsItsRate(s, e)'
    BY <1>0, <1>1, <1>4 DEF Knows, KnowsItsRate, Locked, Deed, desk, locks
  <2> QED BY <1>3, <2>1, <2>2, <2>3 DEF Knows
<1>6. \A t \in Session \ {s} :
        Locked(t)' = Locked(t) /\ \A u \in User : userLock[u] = t => userLock'[u] = t
  BY DEF Locked, locks
<1>7. RatesKnown'
  <2>1. \A a \in Ad : repriced'[a] <= rate'  BY <1>1 DEF RatesKnown, desk
  <2> QED BY <1>4, <2>1 DEF RatesKnown
<1>8. rowLock' \in [Ad -> Session \cup {None}] /\ userLock' \in [User -> Session \cup {None}]
  BY <1>1 DEF locks
<1>9. Deed(s) = "recompute" /\ ses'[s].at \notin {"start", "end"} =>
        ses[s].at \notin {"start", "end"} \/ ~Sweeping(s)
  BY AtHand DEF Pc
<1>10. UNCHANGED <<desk, req>>  OBVIOUS
<1> QED BY <1>3, <1>4, <1>5, <1>6, <1>7, <1>8, <1>9, <1>10, OneMoves

LEMMA NeedRateKeeps ==
  ASSUME DeskIInv, NEW s \in Session, NeedRate(s)  PROVE DeskIInv'
<1>1. /\ Pc(s) = "work" /\ Deed(s) \in {"edit", "recompute"}
      /\ UNCHANGED <<desk, money, locks, req>>
      /\ \/ Deed(s) = "edit" /\ Skip(s)
         \/ Goto(s, "rate") /\ ses[s].rate = None
         \/ Goto(s, "apply") /\ ses[s].rate # None
  BY DEF NeedRate
<1>2. ses[s].held # {} /\ OwnLocks(s)  BY <1>1, InHand, SameLocks DEF locks
<1>3. CASE Deed(s) = "edit" /\ Skip(s)
  <2>1. Way(s) # "form"  BY <1>3, WaysOfDeeds
  <2> QED BY <1>1, <1>2, <1>3, <2>1, Skips DEF locks
<1>4. CASE Goto(s, "rate") /\ ses[s].rate = None  BY <1>1, <1>2, <1>4, GoesOn
<1>5. CASE Goto(s, "apply") /\ ses[s].rate # None  BY <1>1, <1>2, <1>5, GoesOn
<1> QED BY <1>1, <1>3, <1>4, <1>5

LEMMA AtRate ==
  ASSUME DeskIInv, NEW s \in Session, Pc(s) \in {"rate", "query", "fill", "apply"}
  PROVE  /\ Deed(s) \in {"edit", "recompute"} /\ ses[s].held # {}
         /\ Pc(s) \in {"rate", "query"} => ses[s].rate = None
         /\ Pc(s) = "fill" \/ (Pc(s) = "apply" /\ Deed(s) = "recompute") => ses[s].rate # None
         /\ ses[s].rate # None => ses[s].rate \in Nat /\ ses[s].rate <= rate
         /\ Way(s) \notin {"form", "rates"}
<1>1. Knows(s, ses[s])  BY DEF DeskIInv
<1>2. Deed(s) \in {"edit", "recompute"}  BY <1>1 DEF Knows, KnowsItsWay, Pc
<1> QED BY <1>1, <1>2, InHand, WaysOfDeeds DEF Knows, KnowsItsRate, Pc

LEMMA CacheGetKeeps ==
  ASSUME DeskIInv, NEW s \in Session, CacheGet(s)  PROVE DeskIInv'
<1>1. /\ Pc(s) = "rate" /\ UNCHANGED <<desk, money, locks, req>>
      /\ \/ Goto(s, "query")
         \/ cached # None /\ ses' = [ses EXCEPT ![s].rate = cached, ![s].at = "apply"]
  BY DEF CacheGet
<1>2. /\ ses[s].held # {} /\ ses[s].rate = None /\ Deed(s) \in {"edit", "recompute"}
      /\ OwnLocks(s) /\ \A u \in User : userLock[u] = s => userLock'[u] = s
  BY <1>1, AtRate, SameLocks DEF locks
<1>3. CASE Goto(s, "query")  BY <1>1, <1>2, <1>3, GoesOn
<1>4. CASE cached # None /\ ses' = [ses EXCEPT ![s].rate = cached, ![s].at = "apply"]
  <2>1. cached \in Nat /\ rate \in Nat /\ RatesKnown /\ ses \in [Session -> Ses]
    BY <1>4 DEF DeskIInv, DeskTypeOK
  <2>2. cached <= rate /\ (lapsed = "no" => cached = rate)  BY <1>4, <2>1 DEF RatesKnown
  <2>3. ses' = [ses EXCEPT ![s].at = "apply", ![s].rate = cached]  BY <1>4, <2>1 DEF Ses
  <2>4. UNCHANGED <<desk, money, rowLock, req>>  BY <1>1 DEF locks
  <2> QED BY <1>1, <1>2, <1>4, <2>1, <2>2, <2>3, <2>4, Goes
<1> QED BY <1>1, <1>3, <1>4

LEMMA QueryKeeps ==
  ASSUME DeskIInv, NEW s \in Session, Query(s)  PROVE DeskIInv'
<1>1. /\ Pc(s) = "query" /\ UNCHANGED <<desk, money, rowLock, userLock, req>>
      /\ ses' = [ses EXCEPT ![s].rate = rate, ![s].at = "fill"]
  BY DEF Query, locks
<1>2. /\ ses[s].held # {} /\ ses[s].rate = None /\ Deed(s) \in {"edit", "recompute"}
      /\ OwnLocks(s) /\ \A u \in User : userLock[u] = s => userLock'[u] = s
  BY <1>1, AtRate, SameLocks
<1>3. rate \in Nat /\ ses \in [Session -> Ses]  BY DEF DeskIInv, DeskTypeOK
<1>4. ses' = [ses EXCEPT ![s].at = "fill", ![s].rate = rate]  BY <1>1, <1>3 DEF Ses
<1>5. rate # None /\ rate \in Nat \cup {None} /\ rate <= rate  BY <1>3, DeskNone
<1>6. UNCHANGED <<desk, money, rowLock, req>>  BY <1>1
<1>7. Pc(s) \notin {"lock", "aim"}  BY <1>1
<1> QED BY <1>2, <1>3, <1>4, <1>5, <1>6, <1>7, Goes

LEMMA CacheSetKeeps ==
  ASSUME DeskIInv, NEW s \in Session, CacheSet(s)  PROVE DeskIInv'
<1>1. /\ Pc(s) = "fill" /\ cached' = ses[s].rate /\ rate' = rate /\ Lapsed
      /\ Goto(s, "apply") /\ UNCHANGED <<desk, locks, req>>
  BY DEF CacheSet
<1>2. /\ ses[s] \in Ses /\ ses[s].held # {} /\ ses[s].rate \in Nat /\ ses[s].rate <= rate
      /\ Deed(s) \in {"edit", "recompute"} /\ ses[s].rate # None /\ rate \in Nat
      /\ Way(s) \notin {"form", "rates"} /\ Knows(s, ses[s])
  BY <1>1, AtRate DEF DeskIInv, DeskTypeOK
<1>3. Knows(s, [ses[s] EXCEPT !.at = "apply"])
  <2>0. PICK e : e = [ses[s] EXCEPT !.at = "apply"]  OBVIOUS
  <2>1. /\ e.at = "apply" /\ e.held = ses[s].held /\ e.todo = ses[s].todo
        /\ e.work = ses[s].work /\ e.notes = ses[s].notes /\ e.count = ses[s].count
        /\ e.rate = ses[s].rate /\ e.aim = ses[s].aim /\ e.bans = ses[s].bans
        /\ e.seen = ses[s].seen /\ e.total = ses[s].total
    BY <1>2, <2>0 DEF Ses
  <2>2. KnowsItsWay(s, e)  BY <1>1, <1>2, <2>1 DEF Knows, KnowsItsWay, Pc
  <2>3. KnowsItsRows(s, e) /\ KnowsItsNotes(s, e)
    BY <1>2, <2>1 DEF Knows, KnowsItsRows, KnowsItsNotes
  <2>4. KnowsItsBans(s, e)  BY <1>2, <2>1 DEF Knows, KnowsItsBans
  <2>5. KnowsItsRate(s, e)  BY <1>1, <1>2, <2>1 DEF Knows, KnowsItsRate, Pc
  <2>6. KnowsItsForm(s, e)  BY <1>2 DEF KnowsItsForm
  <2> QED BY <2>0, <2>2, <2>3, <2>4, <2>5, <2>6 DEF Knows
<1>4. /\ rate' \in Nat /\ rate <= rate' /\ cached' \in Nat \cup {None}
      /\ cached' # None => cached' <= rate'
  BY <1>1, <1>2
<1>5. UNCHANGED <<desk, locks, req>> /\ "apply" \in {"apply", "commit", "end"}  BY <1>1
<1> QED BY <1>1, <1>2, <1>3, <1>4, <1>5, MoneyMoves

LEMMA RecomputeKeeps ==
  ASSUME DeskIInv, NEW s \in Session, Recompute(s)  PROVE DeskIInv'
<1> DEFINE r == [Mine(s) EXCEPT !.norm = Norm(s, Mine(s).amount)]
<1>1. /\ Pc(s) = "apply" /\ Deed(s) = "recompute" /\ UNCHANGED <<desk, money, locks, req>>
      /\ Leave(s, r, {}, 0)
  BY DEF Recompute
<1>2. /\ ses[s].held # {} /\ ses[s].rate \in Nat /\ ses[s].rate # None
      /\ Way(s) \notin {"form", "rates"} /\ OwnLocks(s)
  BY <1>1, AtRate, SameLocks DEF locks
<1>3. /\ Here(s) \in Ad /\ Mine(s) \in AdRec /\ CheckConstraints(Mine(s).row)
      /\ Fine(Here(s), Mine(s))
  BY <1>2, AtHand
<1>4. Norm(s, Mine(s).amount) = <<Mine(s).amount, ses[s].rate>>  BY <1>2 DEF Norm
<1>5. /\ r \in AdRec /\ r.row = Mine(s).row /\ r.text = Mine(s).text
      /\ r.amount = Mine(s).amount /\ r.norm = <<Mine(s).amount, ses[s].rate>>
  BY <1>2, <1>3, <1>4 DEF AdRec
<1> HIDE DEF r
<1>6. lapsed = "no" => ses[s].rate >= repriced[Here(s)]
  BY <1>1, <1>2, <1>3 DEF DeskIInv, Knows, KnowsItsRate, Pc
<1>7. Fine(Here(s), r)  BY <1>3, <1>5, <1>6 DEF Fine
<1>8. r.norm[2] >= ses[s].rate /\ CheckConstraints(r.row)  BY <1>2, <1>3, <1>5
<1>9. {} \in SUBSET (Remark \X Ad \X {s}) /\ 0 \in Nat  OBVIOUS
<1>10. UNCHANGED <<desk, money, rowLock, req>> /\ Pc(s) \notin {"lock", "aim"}
  BY <1>1 DEF locks
<1> QED BY <1>1, <1>2, <1>5, <1>7, <1>8, <1>9, <1>10, Leaves

\* Of rates, nobody else than the one who saves them comes this far.
LEMMA RatesKnow ==
  ASSUME DeskIInv, NEW s \in Session, Way(s) = "rates", NEW p \in {"commit", "end"}
  PROVE  Knows(s, [ses[s] EXCEPT !.at = p])
<1>0. PICK e : e = [ses[s] EXCEPT !.at = p]  OBVIOUS
<1>1. ses[s] \in Ses /\ Knows(s, ses[s]) /\ Deed(s) = "set"
  BY WaysOfDeeds DEF DeskIInv, DeskTypeOK
<1>2. /\ e.at = p /\ e.held = ses[s].held /\ e.todo = ses[s].todo
      /\ e.work = ses[s].work /\ e.notes = ses[s].notes /\ e.count = ses[s].count
      /\ e.rate = ses[s].rate /\ e.aim = ses[s].aim /\ e.bans = ses[s].bans
      /\ e.seen = ses[s].seen /\ e.total = ses[s].total
  BY <1>0, <1>1 DEF Ses
<1>3. KnowsItsWay(s, e)  BY <1>1, <1>2 DEF Knows, KnowsItsWay
<1>4. KnowsItsRows(s, e) /\ KnowsItsNotes(s, e)
  BY <1>1, <1>2 DEF Knows, KnowsItsRows, KnowsItsNotes
<1>5. KnowsItsBans(s, e) /\ KnowsItsRate(s, e)
  BY <1>1, <1>2 DEF Knows, KnowsItsBans, KnowsItsRate
<1>6. KnowsItsForm(s, e)  BY DEF KnowsItsForm
<1> QED BY <1>0, <1>3, <1>4, <1>5, <1>6 DEF Knows

LEMMA SaveRateKeeps ==
  ASSUME DeskIInv, NEW s \in Session, SaveRate(s)  PROVE DeskIInv'
<1>1. /\ Pc(s) = "save" /\ Way(s) = "rates" /\ (cached' = None \/ cached' = cached)
      /\ Goto(s, "commit") /\ rate' = rate /\ lapsed' = lapsed /\ UNCHANGED <<desk, locks, req>>
  BY DEF SaveRate
<1>2. /\ rate \in Nat /\ cached \in Nat \cup {None} /\ RatesKnown
      /\ Knows(s, [ses[s] EXCEPT !.at = "commit"]) /\ Deed(s) # "recompute"
  BY <1>1, RatesKnow, WaysOfDeeds DEF DeskIInv, DeskTypeOK
<1>3. /\ rate' \in Nat /\ rate <= rate' /\ cached' \in Nat \cup {None}
      /\ cached' # None => cached' <= rate'
  BY <1>1, <1>2 DEF RatesKnown
<1>4. UNCHANGED <<desk, locks, req>>  BY <1>1
<1>5. Lapsed
  <2>1. lapsed \in {"no", "yes"}  BY DEF DeskIInv, DeskTypeOK
  <2> QED BY <1>1, <1>2, <2>1 DEF Lapsed, RatesKnown
<1> QED BY <1>1, <1>2, <1>3, <1>4, <1>5, MoneyMoves

LEMMA CommitRateKeeps ==
  ASSUME DeskIInv, NEW s \in Session, CommitRate(s)  PROVE DeskIInv'
<1>1. /\ Way(s) = "rates" /\ rate' = rate + 1 /\ cached' = cached /\ Lapsed
      /\ Goto(s, "end") /\ UNCHANGED <<desk, locks, req>>
  BY DEF CommitRate
<1>2. /\ rate \in Nat /\ cached \in Nat \cup {None} /\ RatesKnown
      /\ Knows(s, [ses[s] EXCEPT !.at = "end"]) /\ Deed(s) # "recompute"
  BY <1>1, RatesKnow, WaysOfDeeds DEF DeskIInv, DeskTypeOK
<1>3. /\ rate' \in Nat /\ rate <= rate' /\ cached' \in Nat \cup {None}
      /\ cached' # None => cached' <= rate'
  BY <1>1, <1>2 DEF RatesKnown
<1>4. UNCHANGED <<desk, locks, req>>  BY <1>1
<1> QED BY <1>1, <1>2, <1>3, <1>4, MoneyMoves

LEMMA ExpireKeeps ==
  ASSUME DeskIInv, Expire  PROVE DeskIInv'
<1>1. cached' = None /\ UNCHANGED <<desk, rate, lapsed, locks, req, ses>>  BY DEF Expire
<1> USE DEF desk, locks
<1>2. DeskTypeOK' /\ RatesKnown'  BY <1>1 DEF DeskIInv, DeskTypeOK, RatesKnown
<1>3. BansAddUp'
  <2>1. \A t \in Session : Told(t)' = Told(t)  BY <1>1 DEF Told, Deed
  <2>2. [t \in Session |-> Told(t)]' = [t \in Session |-> Told(t)]  BY <2>1
  <2> QED BY <1>1, <2>2 DEF BansAddUp, DeskIInv, Entries
<1>4. PrivilegedSpared' /\ OneRejection' /\ OneSweep'
  BY <1>1 DEF DeskIInv, PrivilegedSpared, OneRejection, OneSweep, Entries, Deed
<1>5. \A a \in Ad : RejectedBefore(a)' <=> RejectedBefore(a)
  BY <1>1 DEF RejectedBefore, Entries
<1>6. ASSUME NEW a \in Ad PROVE Fine(a, ads[a])'
  BY <1>1, <1>5 DEF DeskIInv, Fine, Untouched
<1>7. ASSUME NEW t \in Session PROVE Offered(req[t])' /\ Knows(t, ses[t])'
  <2>1. ses[t] \in Ses /\ Knows(t, ses[t]) /\ rate \in Nat  BY DEF DeskIInv, DeskTypeOK
  <2>2. ses[t].bans \subseteq User /\ ses[t].notes \subseteq Remark \X (Ad \cup User) \X Session
    BY <2>1 DEF Ses
  <2>3. /\ Locked(t)' = Locked(t) /\ \A u \in User : userLock[u] = t => userLock'[u] = t
        /\ \A a \in Locked(t) : repriced'[a] = repriced[a] /\ (RejectedBefore(a)' => RejectedBefore(a))
    BY <1>1, <1>5 DEF Locked
  <2>4. Knows(t, ses[t])'  BY <1>1, <2>1, <2>2, <2>3, OthersKnow
  <2> QED BY <1>1, <2>4 DEF DeskIInv
<1> QED BY <1>2, <1>3, <1>4, <1>6, <1>7 DEF DeskIInv

-----------------------------------------------------------------------------
(* The ends. *)

\* What a transaction holds is given up, and nothing comes of it.
LEMMA Drops ==
  ASSUME DeskIInv, NEW s \in Session, UNCHANGED <<desk, money, req>>, Release(s),
         NEW e, NEW left \in SUBSET Ad, NEW q \in Nat \cup {None}, NEW n \in Nat,
         e = [Fresh EXCEPT !.todo = left, !.rate = q, !.total = n,
                           !.at = IF left = {} THEN "end" ELSE "lock"],
         ses' = [ses EXCEPT ![s] = e],
         left # {} => Way(s) = "api", q # None => q <= rate,
         Deed(s) = "ban" => n = ses[s].total
  PROVE  DeskIInv'
<1>1. /\ ses[s] \in Ses /\ Knows(s, ses[s]) /\ rowLock \in [Ad -> Session \cup {None}]
      /\ userLock \in [User -> Session \cup {None}] /\ ses \in [Session -> Ses]
  BY DEF DeskIInv, DeskTypeOK
<1>2. /\ e.at = IF left = {} THEN "end" ELSE "lock"
      /\ e.todo = left /\ e.held = {} /\ e.notes = {} /\ e.bans = {} /\ e.aim = {}
      /\ e.count = 0 /\ e.total = n /\ e.rate = q
  BY DEF Fresh
<1>3. e \in Ses
  <2>1. Fresh \in Ses  BY DEF Fresh, Ses, At
  <2>2. "end" \in At /\ "lock" \in At  BY DEF At
  <2> QED BY <2>1, <2>2 DEF Ses
<1>4. /\ ses'[s] = e /\ ses' = [ses EXCEPT ![s] = ses'[s]] /\ ses'[s] \in Ses
      /\ Deed(s) = "ban" => ses'[s].total = ses[s].total
  BY <1>1, <1>2, <1>3
<1>5. /\ rowLock' \in [Ad -> Session \cup {None}] /\ userLock' \in [User -> Session \cup {None}]
      /\ Locked(s)' = {}
      /\ \A t \in Session \ {s} :
           Locked(t)' = Locked(t) /\ \A u \in User : userLock[u] = t => userLock'[u] = t
  BY <1>1, DeskNone DEF Release, Locked
<1>6. /\ Way(s) = "api" => Deed(s) \in {"approve", "reject", "flag"}
      /\ Way(s) \in {"view", "seller"} => Ad # {}
      /\ UNCHANGED <<Deed(s), Way(s)>>
  <2>1. req[s] \in Req /\ Offered(req[s])  BY DEF DeskIInv, DeskTypeOK
  <2> QED BY <2>1 DEF Req, Offered, Way, Deed
<1>7. KnowsItsWay(s, e)'  BY <1>2, <1>5, <1>6 DEF KnowsItsWay
<1>8. KnowsItsRows(s, e)' /\ KnowsItsNotes(s, e)' /\ KnowsItsForm(s, e)'
  BY <1>2, <1>5, <1>6 DEF KnowsItsRows, KnowsItsNotes, KnowsItsForm
<1>9. KnowsItsBans(s, e)'  BY <1>2, <1>6, FS_EmptySet DEF KnowsItsBans
<1>10. KnowsItsRate(s, e)'
  <2>1. rate' = rate /\ lapsed' = lapsed /\ repriced' = repriced  BY DEF money, desk
  <2> QED BY <1>2, <1>5, <1>6, <2>1 DEF KnowsItsRate
<1>11. Knows(s, ses[s])'  BY <1>4, <1>7, <1>8, <1>9, <1>10 DEF Knows
<1>12. /\ rate' \in Nat /\ rate <= rate' /\ cached' \in Nat \cup {None}
       /\ lapsed' \in {"no", "yes"} /\ (lapsed' = "no" => lapsed = "no")
  BY DEF DeskIInv, DeskTypeOK, money
<1>13. RatesKnown'  BY DEF DeskIInv, RatesKnown, money, desk
<1>14. Deed(s) = "recompute" /\ ses'[s].at \notin {"start", "end"} =>
         ses[s].at \notin {"start", "end"} \/ ~Sweeping(s)
  BY <1>2, <1>4, <1>6, WaysOfDeeds
<1>15. UNCHANGED <<desk, req>>  OBVIOUS
<1> QED BY <1>4, <1>5, <1>11, <1>12, <1>13, <1>14, <1>15, OneMoves

LEMMA Quits ==
  ASSUME DeskIInv, NEW s \in Session, UNCHANGED <<desk, money, req>>, Quit(s),
         Pc(s) # "end"
  PROVE  DeskIInv'
<1>1. PICK e : e = [Fresh EXCEPT !.todo = {}, !.rate = None, !.total = 0,
                                 !.at = IF {} = {} THEN "end" ELSE "lock"]
  OBVIOUS
<1>2. e = [Fresh EXCEPT !.at = "end"]
  <2> DEFINE f == [at |-> "end", todo |-> {}, held |-> {}, work |-> [a \in Ad |-> None],
                   aim |-> {}, notes |-> {}, bans |-> {}, rate |-> None, seen |-> None,
                   count |-> 0, total |-> 0]
  <2>1. e = f  BY <1>1 DEF Fresh
  <2>2. [Fresh EXCEPT !.at = "end"] = f  BY DEF Fresh
  <2> QED BY <2>1, <2>2
<1>3. ses' = [ses EXCEPT ![s] = e] /\ Release(s)  BY <1>2 DEF Quit
<1>4. Deed(s) = "ban" => 0 = ses[s].total
  BY DEF DeskIInv, Knows, KnowsItsBans, Pc
<1> QED BY <1>1, <1>3, <1>4, Drops

LEMMA NoCacheKeeps ==
  ASSUME DeskIInv, NEW s \in Session, NoCache(s)  PROVE DeskIInv'
<1>1. /\ Pc(s) \in {"rate", "fill"} /\ UNCHANGED <<desk, money, req>>
      /\ \/ /\ Deed(s) = "edit" /\ UNCHANGED <<rowLock, userLock>>
            /\ ses' = [ses EXCEPT ![s].rate = None, ![s].at = "apply"]
         \/ Quit(s)
  BY DEF NoCache, locks
<1>2. ses[s].held # {}  BY <1>1, AtRate
<1>3. CASE /\ Deed(s) = "edit" /\ UNCHANGED <<rowLock, userLock>>
           /\ ses' = [ses EXCEPT ![s].rate = None, ![s].at = "apply"]
  <2>1. OwnLocks(s) /\ \A u \in User : userLock[u] = s => userLock'[u] = s
    BY <1>3, SameLocks
  <2>2. ses \in [Session -> Ses]  BY DEF DeskIInv, DeskTypeOK
  <2>3. ses' = [ses EXCEPT ![s].at = "apply", ![s].rate = None]  BY <1>3, <2>2 DEF Ses
  <2>4. UNCHANGED <<desk, money, rowLock, req>>  BY <1>1, <1>3
  <2> QED BY <1>1, <1>2, <1>3, <2>1, <2>3, <2>4, Goes
<1>4. CASE Quit(s)  BY <1>1, <1>4, Quits
<1> QED BY <1>1, <1>3, <1>4

-----------------------------------------------------------------------------
(* Finding and locking the ads. *)

\* It has found what it works on.
LEMMA Begins ==
  ASSUME DeskIInv, NEW s \in Session, Pc(s) = "start", ~Sweeping(s),
         UNCHANGED <<desk, money, rowLock, userLock, req>>, NEW at, NEW todo, NEW seen,
         ses' = [ses EXCEPT ![s] = [ses[s] EXCEPT !.at = at, !.todo = todo, !.seen = seen]],
         \/ at = "end" /\ todo \in {{}, ses[s].todo}
         \/ /\ at = "lock" /\ todo # {} /\ todo \subseteq req[s].ads
            /\ Way(s) \notin {"form", "rates"} /\ ~(Way(s) = "bulk" /\ Deed(s) = "ban")
         \/ at = "aim" /\ todo = ses[s].todo /\ Way(s) = "bulk" /\ Deed(s) = "ban"
         \/ at = "peek" /\ todo = ses[s].todo /\ Way(s) = "form" /\ seen = ads[TheAd(s)]
         \/ at = "save" /\ todo = ses[s].todo /\ Way(s) = "rates",
         seen # ses[s].seen => at = "peek",
         Way(s) = "form" => todo = ses[s].todo
  PROVE  DeskIInv'
<1>1. /\ ses[s] \in Ses /\ ses \in [Session -> Ses] /\ Knows(s, ses[s])
      /\ req[s] \in Req /\ Offered(req[s]) /\ ads \in [Ad -> AdRec]
  BY DEF DeskIInv, DeskTypeOK
<1>3. PICK e : e = [ses[s] EXCEPT !.at = at, !.todo = todo, !.seen = seen]  OBVIOUS
<1>4. /\ e.at = at /\ e.held = ses[s].held /\ e.todo = todo
      /\ e.work = ses[s].work /\ e.notes = ses[s].notes /\ e.count = ses[s].count
      /\ e.rate = ses[s].rate /\ e.aim = ses[s].aim /\ e.bans = ses[s].bans
      /\ e.seen = seen /\ e.total = ses[s].total
  BY <1>1, <1>3 DEF Ses
<1>5. Way(s) \in {"view", "form", "seller"} => \E a \in Ad : req[s].ads = {a}
  BY <1>1 DEF Offered, Way
<1>6. Way(s) = "form" => TheAd(s) \in Ad /\ ads[TheAd(s)] \in AdRec /\ Fine(TheAd(s), ads[TheAd(s)])
  BY <1>1, <1>5 DEF TheAd, DeskIInv
<1>7. e \in Ses
  <2>1. at \in At /\ todo \in SUBSET Ad /\ seen \in AdRec \cup {None}
    BY <1>1, <1>6 DEF At, Ses, Req
  <2> QED BY <1>1, <1>3, <2>1 DEF Ses
<1>8. ses[s].rate = None /\ Locked(s) = {} /\ ses[s].held = {}
  BY <1>1 DEF Knows, KnowsItsWay, KnowsItsRate, Pc
<1>9. KnowsItsWay(s, e)
  <2>1. Deed(s) \in {"ban", "edit"} => Way(s) \in {"view", "bulk", "seller"}
    BY <1>1 DEF Offered, Req, Deed, Way
  <2> QED BY <1>1, <1>4, <1>5, <1>8, <2>1 DEF Knows, KnowsItsWay, Pc
<1>10. KnowsItsRows(s, e) /\ KnowsItsNotes(s, e)
  BY <1>1, <1>4, <1>8 DEF Knows, KnowsItsRows, KnowsItsNotes
<1>11. KnowsItsBans(s, e)'
  <2>1. UNCHANGED <<Deed(s), Permitted(s), banned, userLock>>
    BY DEF desk, Deed, Permitted
  <2> QED BY <1>1, <1>4, <2>1 DEF Knows, KnowsItsBans, Pc
<1>12. KnowsItsRate(s, e)  BY <1>4, <1>8 DEF KnowsItsRate
<1>13. KnowsItsForm(s, e)
  BY <1>1, <1>4, <1>6, <1>8 DEF Knows, KnowsItsForm, Fine, Pc
<1>14. OwnLocks(s) /\ UNCHANGED <<desk, money, rowLock, req>>  BY SameLocks
<1>15. ses' = [ses EXCEPT ![s] = e]  BY <1>3
<1> QED
  BY <1>1, <1>4, <1>7, <1>9, <1>10, <1>11, <1>12, <1>13, <1>14, <1>15, OneThinks

LEMMA BeginKeeps ==
  ASSUME DeskIInv, NEW s \in Session, Begin(s)  PROVE DeskIInv'
<1> DEFINE found == {a \in req[s].ads : Eligible(s, ads[a])}
           now(at, todo, seen) == [ses[s] EXCEPT !.at = at, !.todo = todo, !.seen = seen]
<1>1. /\ Pc(s) = "start" /\ ~Sweeping(s) /\ UNCHANGED <<desk, money, rowLock, userLock, req>>
      /\ ses[s] \in Ses /\ ses \in [Session -> Ses]
  BY DEF Begin, DeskIInv, DeskTypeOK, locks
<1>2. CASE Way(s) = "bulk" /\ Deed(s) # "ban"
  <2> DEFINE at == IF found = {} THEN "end" ELSE "lock"
  <2>1. ses' = [ses EXCEPT ![s].todo = found, ![s].at = at]  BY <1>2 DEF Begin
  <2>2. found \subseteq req[s].ads /\ ((at = "end" /\ found = {}) \/ (at = "lock" /\ found # {}))
    OBVIOUS
  <2> HIDE DEF found, at
  <2>3. ses' = [ses EXCEPT ![s] = now(at, found, ses[s].seen)]  BY <1>1, <2>1 DEF Ses
  <2> HIDE DEF now
  <2> QED BY <1>1, <1>2, <2>2, <2>3, Begins DEF now
<1>3. CASE Way(s) = "bulk" /\ Deed(s) = "ban"
  <2>1. ses' = [ses EXCEPT ![s].at = "aim"]  BY <1>3 DEF Begin, Goto
  <2>2. ses' = [ses EXCEPT ![s] = now("aim", ses[s].todo, ses[s].seen)]
    BY <1>1, <2>1 DEF Ses
  <2> QED BY <1>1, <1>3, <2>2, Begins
<1>4. CASE Way(s) = "form"
  <2>1. ses' = [ses EXCEPT ![s].at = "peek", ![s].seen = ads[TheAd(s)]]
    BY <1>4 DEF Begin, TheAd
  <2>2. ses' = [ses EXCEPT ![s] = now("peek", ses[s].todo, ads[TheAd(s)])]
    BY <1>1, <2>1 DEF Ses
  <2> QED BY <1>1, <1>4, <2>2, Begins
<1>5. CASE Way(s) = "rates"
  <2>1. ses' = [ses EXCEPT ![s].at = "save"]  BY <1>5 DEF Begin, Goto
  <2>2. ses' = [ses EXCEPT ![s] = now("save", ses[s].todo, ses[s].seen)]
    BY <1>1, <2>1 DEF Ses
  <2> QED BY <1>1, <1>5, <2>2, Begins
<1>6. CASE Way(s) = "seller" /\ req[s].by \in banned
  <2>1. ses' = [ses EXCEPT ![s].at = "end"]  BY <1>6 DEF Begin, Goto
  <2>2. ses' = [ses EXCEPT ![s] = now("end", ses[s].todo, ses[s].seen)]
    BY <1>1, <2>1 DEF Ses
  <2> QED BY <1>1, <1>6, <2>2, Begins
<1>7. CASE Way(s) \notin {"bulk", "form", "rates"} /\ ~(Way(s) = "seller" /\ req[s].by \in banned)
  <2> DEFINE at == IF req[s].ads = {} THEN "end" ELSE "lock"
  <2>1. ses' = [ses EXCEPT ![s].todo = req[s].ads, ![s].at = at]  BY <1>7 DEF Begin
  <2>2. (at = "end" /\ req[s].ads = {}) \/ (at = "lock" /\ req[s].ads # {})  OBVIOUS
  <2> HIDE DEF at
  <2>3. ses' = [ses EXCEPT ![s] = now(at, req[s].ads, ses[s].seen)]  BY <1>1, <2>1 DEF Ses
  <2> QED BY <1>1, <1>7, <2>2, <2>3, Begins
<1> QED BY <1>2, <1>3, <1>4, <1>5, <1>6, <1>7

LEMMA LockKeeps ==
  ASSUME DeskIInv, NEW s \in Session, Lock(s)  PROVE DeskIInv'
<1>0. PICK a, rest, more : a = Min(ses[s].todo) /\ rest = ses[s].todo \ {a}
                           /\ more = (Way(s) = "bulk" /\ rest # {})
  OBVIOUS
<1>1. /\ Pc(s) = "lock" /\ rowLock[a] = None /\ UNCHANGED <<desk, money, userLock, req>>
      /\ ses[s] \in Ses /\ ses \in [Session -> Ses] /\ Knows(s, ses[s])
      /\ req[s] \in Req /\ Offered(req[s]) /\ ads \in [Ad -> AdRec]
      /\ rowLock \in [Ad -> Session \cup {None}] /\ userLock \in [User -> Session \cup {None}]
      /\ \/ /\ rowLock' = [rowLock EXCEPT ![a] = s]
            /\ ses' = [ses EXCEPT ![s].todo = rest, ![s].held = @ \cup {a}, ![s].work[a] = ads[a],
                                  ![s].at = IF more THEN "lock" ELSE "work"]
         \/ /\ UNCHANGED rowLock
            /\ ses' = [ses EXCEPT ![s].todo = rest,
                                  ![s].at = IF more THEN "lock"
                                            ELSE IF ses[s].held # {} THEN "work"
                                            ELSE "commit"]
  BY <1>0 DEF Lock, DeskIInv, DeskTypeOK
<1>2. a \in ses[s].todo /\ a \in Ad
  <2>1. ses[s].todo # {} /\ ses[s].todo \subseteq Ad
    BY <1>1 DEF Knows, KnowsItsWay, Pc, Ses
  <2>2. IsFiniteSet(ses[s].todo)  BY <2>1, DeskFinite, FS_Subset
  <2>3. \A x \in ses[s].todo : x \in Nat  BY <2>1, DeskOwners
  <2> QED BY <1>0, <2>1, <2>2, <2>3, MinIsMember
<1>3. /\ Way(s) \notin {"form", "rates"} /\ ~(Way(s) = "bulk" /\ Deed(s) = "ban")
      /\ Deed(s) \in {"ban", "edit"} => rest = {} /\ Way(s) \in {"view", "seller"}
      /\ Way(s) \in {"view", "seller"} => \E b \in Ad : ses[s].todo \subseteq {b}
      /\ Deed(s) # "save"
  <2>1. Deed(s) \in {"ban", "edit"} => Way(s) \in {"view", "bulk", "seller"}
    BY <1>1 DEF Offered, Req, Deed, Way
  <2> QED BY <1>0, <1>1, <1>2, <2>1, WaysOfDeeds DEF Knows, KnowsItsWay, Pc
<1>4. a \notin Locked(s)  BY <1>1, DeskNone DEF Locked
<1>5. CASE /\ rowLock' = [rowLock EXCEPT ![a] = s]
           /\ ses' = [ses EXCEPT ![s].todo = rest, ![s].held = @ \cup {a}, ![s].work[a] = ads[a],
                                 ![s].at = IF more THEN "lock" ELSE "work"]
  <2>1. PICK e : e = [ses[s] EXCEPT !.todo = rest, !.held = @ \cup {a},
                                    !.work = [@ EXCEPT ![a] = ads[a]],
                                    !.at = IF more THEN "lock" ELSE "work"]
    OBVIOUS
  <2>2. /\ e.at \in {"lock", "work"} /\ (e.at = "lock" => rest # {})
        /\ e.held = ses[s].held \cup {a} /\ e.todo = rest
        /\ e.work[a] = ads[a] /\ \A b \in Ad \ {a} : e.work[b] = ses[s].work[b]
        /\ e.notes = ses[s].notes /\ e.count = ses[s].count
        /\ e.rate = ses[s].rate /\ e.aim = ses[s].aim /\ e.bans = ses[s].bans
        /\ e.seen = ses[s].seen /\ e.total = ses[s].total
        /\ (e.at # "lock" /\ Deed(s) \in {"ban", "edit"}) => rest = {}
    BY <1>0, <1>1, <1>2, <1>3, <2>1 DEF Ses
  <2>3. e \in Ses
    <3>1. [ses[s].work EXCEPT ![a] = ads[a]] \in [Ad -> AdRec \cup {None}]
          /\ ses[s].held \cup {a} \subseteq Ad /\ rest \subseteq Ad
      BY <1>0, <1>1, <1>2 DEF Ses
    <3>2. "lock" \in At /\ "work" \in At  BY DEF At
    <3> QED BY <1>1, <2>1, <3>1, <3>2 DEF Ses
  <2>4. /\ ses'[s] = e /\ ses' = [ses EXCEPT ![s] = ses'[s]] /\ ses'[s] \in Ses
        /\ Deed(s) = "ban" => ses'[s].total = ses[s].total
    <3>1. ses' = [ses EXCEPT ![s] = e]  BY <1>1, <1>5, <2>1 DEF Ses
    <3> QED BY <1>1, <2>2, <2>3, <3>1
  <2>5. /\ Locked(s)' = Locked(s) \cup {a} /\ rowLock' \in [Ad -> Session \cup {None}]
        /\ \A t \in Session \ {s} :
             Locked(t)' = Locked(t) /\ \A u \in User : userLock[u] = t => userLock'[u] = t
    BY <1>1, <1>2, <1>5, DeskNone DEF Locked
  <2>6. UNCHANGED <<Deed(s), Way(s), Permitted(s), banned, rate, lapsed, repriced, userLock,
                    overwritten>>
    BY <1>1 DEF desk, money, Deed, Way, Permitted
  <2>7. \A b \in Ad : \A r : Fine(b, r) => Fine(b, r)'
    BY <1>1 DEF desk, money, Fine, Untouched, RejectedBefore, Entries
  <2>8. KnowsItsWay(s, e)'
    BY <1>0, <1>1, <1>3, <2>2, <2>5, <2>6 DEF Knows, KnowsItsWay, Pc
  <2>9. KnowsItsRows(s, e)'
    <3>1. Fine(a, ads[a]) /\ \A b \in Locked(s) : b \in Ad /\ b # a
      BY <1>2, <1>4 DEF DeskIInv, Locked
    <3>2. ads[a] \in AdRec /\ CheckConstraints(ads[a].row)  BY <3>1 DEF Fine
    <3> QED BY <1>1, <1>2, <2>2, <2>5, <2>6, <2>7, <3>1, <3>2 DEF Knows, KnowsItsRows
  <2>10. KnowsItsNotes(s, e)'
    <3>1. \A b \in Locked(s) : b \in Ad /\ b # a  BY <1>4 DEF Locked
    <3>2. \A b : RejectedBefore(b)' <=> RejectedBefore(b)
      BY <1>1 DEF RejectedBefore, Entries, desk
    <3> QED BY <1>1, <2>2, <2>5, <2>6, <3>1, <3>2 DEF Knows, KnowsItsNotes
  <2>11. KnowsItsBans(s, e)'  BY <1>1, <2>2, <2>6 DEF Knows, KnowsItsBans, Pc
  <2>12. KnowsItsRate(s, e)'
    <3>1. \A b \in Locked(s) : b \in Ad /\ b # a  BY <1>4 DEF Locked
    <3> QED BY <1>1, <2>2, <2>5, <2>6, <3>1 DEF Knows, KnowsItsRate, Pc
  <2>13. KnowsItsForm(s, e)'  BY <1>3, <2>6 DEF KnowsItsForm
  <2>14. Knows(s, ses[s])'  BY <2>4, <2>8, <2>9, <2>10, <2>11, <2>12, <2>13 DEF Knows
  <2>15. /\ rate' \in Nat /\ rate <= rate' /\ cached' \in Nat \cup {None}
         /\ lapsed' \in {"no", "yes"} /\ (lapsed' = "no" => lapsed = "no")
    BY <1>1 DEF DeskIInv, DeskTypeOK, money
  <2>16. RatesKnown' /\ userLock' \in [User -> Session \cup {None}]
    BY <1>1 DEF DeskIInv, RatesKnown, money, desk
  <2>17. Deed(s) = "recompute" /\ ses'[s].at \notin {"start", "end"} =>
          ses[s].at \notin {"start", "end"} \/ ~Sweeping(s)
    BY <1>1 DEF Pc
  <2>18. UNCHANGED <<desk, req>>  BY <1>1
  <2> QED BY <2>4, <2>5, <2>14, <2>15, <2>16, <2>17, <2>18, OneMoves
<1>6. CASE /\ UNCHANGED rowLock
           /\ ses' = [ses EXCEPT ![s].todo = rest,
                                 ![s].at = IF more THEN "lock"
                                           ELSE IF ses[s].held # {} THEN "work"
                                           ELSE "commit"]
  <2>1. PICK e : e = [ses[s] EXCEPT !.todo = rest,
                                    !.at = IF more THEN "lock"
                                           ELSE IF ses[s].held # {} THEN "work"
                                           ELSE "commit"]
    OBVIOUS
  <2>2. /\ e.at \in {"lock", "work", "commit"} /\ (e.at = "lock" => rest # {})
        /\ e.at = "work" => ses[s].held # {}
        /\ e.at = "commit" => ses[s].held = {}
        /\ e.held = ses[s].held /\ e.todo = rest /\ e.work = ses[s].work
        /\ e.notes = ses[s].notes /\ e.count = ses[s].count
        /\ e.rate = ses[s].rate /\ e.aim = ses[s].aim /\ e.bans = ses[s].bans
        /\ e.seen = ses[s].seen /\ e.total = ses[s].total
    BY <1>0, <1>1, <2>1 DEF Ses
  <2>3. e \in Ses
    <3>1. rest \subseteq Ad  BY <1>0, <1>1 DEF Ses
    <3>2. "lock" \in At /\ "work" \in At /\ "commit" \in At  BY DEF At
    <3> QED BY <1>1, <2>1, <3>1, <3>2 DEF Ses
  <2>4. ses' = [ses EXCEPT ![s] = e]  BY <1>1, <1>6, <2>1 DEF Ses
  <2>5. KnowsItsWay(s, e)  BY <1>0, <1>1, <1>3, <2>2 DEF Knows, KnowsItsWay, Pc
  <2>6. KnowsItsRows(s, e) /\ KnowsItsNotes(s, e)
    BY <1>1, <2>2 DEF Knows, KnowsItsRows, KnowsItsNotes
  <2>7. KnowsItsBans(s, e)'
    <3>1. UNCHANGED <<Deed(s), Permitted(s), banned, userLock>>
      BY <1>1 DEF desk, Deed, Permitted
    <3> QED BY <1>1, <2>2, <3>1 DEF Knows, KnowsItsBans, Pc
  <2>8. KnowsItsRate(s, e)  BY <1>1, <2>2 DEF Knows, KnowsItsRate, Pc
  <2>9. KnowsItsForm(s, e)  BY <1>3 DEF KnowsItsForm
  <2>10. OwnLocks(s) /\ UNCHANGED <<desk, money, rowLock, req>>  BY <1>1, <1>6, SameLocks
  <2>11. ses[s].at \notin {"start", "end"}  BY <1>1 DEF Pc
  <2> QED BY <2>2, <2>3, <2>4, <2>5, <2>6, <2>7, <2>8, <2>9, <2>10, <2>11, OneThinks
<1> QED BY <1>1, <1>5, <1>6

-----------------------------------------------------------------------------
(* A seller's edit. *)

\* The score a save may give is one audit row of the ad.
LEMMA ScoreIsANote ==
  ASSUME NEW s \in Session, NEW a \in Ad, NEW r, NEW score \in Scores(s, a, r)
  PROVE  /\ score \in SUBSET (Remark \X Ad \X {s})
         /\ \A m \in score : m[2] = a /\ m[1] \notin {"ban", "reject"}
<1>1. ASSUME NEW level \in AdPriorityLevel, score = {<<level, a, s>>}
      PROVE  /\ score \in SUBSET (Remark \X Ad \X {s})
             /\ \A m \in score : m[2] = a /\ m[1] \notin {"ban", "reject"}
  <2>1. level \in Remark /\ level \notin {"ban", "reject"}  BY DEF AdPriorityLevel, Remark
  <2> QED BY <1>1, <2>1
<1>2. score = {} \/ \E level \in AdPriorityLevel : score = {<<level, a, s>>}
  BY DEF Scores, Levels, AdPriorityLevel
<1> QED BY <1>1, <1>2

LEMMA EditKeeps ==
  ASSUME DeskIInv, NEW s \in Session, Edit(s)  PROVE DeskIInv'
<1> DEFINE h == Here(s)
           m == Mine(s)
           r == Changed(s, m)
<1>1. /\ Pc(s) = "apply" /\ Deed(s) = "edit" /\ UNCHANGED <<desk, money, rowLock, userLock, req>>
      /\ ses[s] \in Ses /\ ses \in [Session -> Ses] /\ Knows(s, ses[s]) /\ rate \in Nat
  BY DEF Edit, locks, DeskIInv, DeskTypeOK
<1>2. /\ ses[s].held # {} /\ Way(s) \notin {"form", "rates"} /\ OwnLocks(s)
      /\ ses[s].rate # None => ses[s].rate \in Nat
  BY <1>1, AtRate, SameLocks
<1>3. /\ h \in Ad /\ h \in Locked(s) /\ m \in AdRec /\ CheckConstraints(m.row) /\ Fine(h, m)
  BY <1>2, AtHand
<1>4. /\ r \in AdRec /\ r.row = m.row /\ r.norm = Norm(s, r.amount)
      /\ m.row.status = "published" /\ ~Resubmits(s, m) => r.text = m.text
  <2> DEFINE amount == IF req[s].to = "price" THEN m.amount + 1 ELSE m.amount
             text == IF req[s].to \in {"fit", "unfit"} THEN req[s].to ELSE m.text
  <2>1. amount \in Nat /\ text \in {"fit", "unfit"}  BY <1>3 DEF AdRec
  <2>2. Norm(s, amount) \in (Nat \X Nat) \cup {None}  BY <1>2, <2>1 DEF Norm
  <2>3. r = [m EXCEPT !.text = text, !.amount = amount, !.norm = Norm(s, amount)]
    BY <1>3 DEF Changed, AdRec
  <2> HIDE DEF amount, text, m
  <2>4. r \in AdRec /\ r.row = m.row /\ r.norm = Norm(s, r.amount)
    BY <1>3, <2>1, <2>2, <2>3 DEF AdRec
  <2> QED BY <2>4 DEF Resubmits
<1>5. lapsed = "no" /\ ses[s].rate # None => ses[s].rate >= repriced[h]
  BY <1>1, <1>3 DEF Knows, KnowsItsRate
<1>6. r.norm = None \/ r.norm = <<r.amount, ses[s].rate>>  BY <1>4 DEF Norm
<1>7. r.norm # None => r.norm = <<r.amount, ses[s].rate>> /\ ses[s].rate # None
  BY <1>4 DEF Norm
<1>8. /\ r.norm = None \/ r.norm[1] = r.amount
      /\ lapsed = "no" => r.norm = None \/ r.norm[2] >= repriced[h]
  BY <1>5, <1>7
<1> HIDE DEF h, m, r
<1>9. CASE Resubmits(s, m)
  <2> DEFINE w == Moved(r, "on_moderation")
  <2>1. PICK score \in Scores(s, h, w) :
          ses' = [ses EXCEPT ![s].at = "judge", ![s].notes = score, ![s].work[h] = w]
    BY <1>9 DEF Edit, h, m, r
  <2>2. /\ w \in AdRec /\ CheckConstraints(w.row) /\ w.row.status = "on_moderation"
        /\ w.norm = r.norm /\ w.amount = r.amount
    BY <1>3, <1>4, MovedRow DEF Target
  <2>3. h \notin overwritten => ~RejectedBefore(h)
    BY <1>3, <1>9 DEF Fine, Resubmits
  <2> HIDE DEF w
  <2>4. Fine(h, w)  BY <1>8, <2>2, <2>3 DEF Fine
  <2>5. /\ score \in SUBSET (Remark \X Ad \X {s})
        /\ \A x \in score : x[2] = h /\ x[1] \notin {"ban", "reject"}
    BY <1>3, ScoreIsANote
  <2>6. PICK e : e = [ses[s] EXCEPT !.at = "judge", !.notes = score,
                                    !.work = [@ EXCEPT ![h] = w]]
    OBVIOUS
  <2>7. ses' = [ses EXCEPT ![s] = e]  BY <1>1, <2>1, <2>6 DEF Ses
  <2>8. e \in Ses
    <3>1. [ses[s].work EXCEPT ![h] = w] \in [Ad -> AdRec \cup {None}]
      BY <1>1, <1>3, <2>2 DEF Ses
    <3>2. score \subseteq Remark \X (Ad \cup User) \X Session /\ "judge" \in At
      BY <2>5 DEF At
    <3> QED BY <1>1, <2>6, <3>1, <3>2 DEF Ses
  <2>9. /\ e.at = "judge" /\ e.held = ses[s].held /\ e.todo = ses[s].todo
        /\ e.work[h] = w /\ \A a \in Ad \ {h} : e.work[a] = ses[s].work[a]
        /\ e.notes = score /\ e.count = ses[s].count /\ e.rate = ses[s].rate
        /\ e.aim = ses[s].aim /\ e.bans = ses[s].bans
        /\ e.seen = ses[s].seen /\ e.total = ses[s].total
    BY <1>1, <1>3, <2>6 DEF Ses
  <2>10. Locked(s) \subseteq Ad  BY DEF Locked
  <2>11. KnowsItsWay(s, e)  BY <1>1, <1>2, <2>9 DEF Knows, KnowsItsWay, Pc
  <2>12. KnowsItsRows(s, e)  BY <1>1, <2>2, <2>4, <2>9, <2>10 DEF Knows, KnowsItsRows
  <2>13. KnowsItsNotes(s, e)  BY <1>3, <2>5, <2>9 DEF KnowsItsNotes
  <2>14. KnowsItsBans(s, e)'
    <3>1. Deed(s)' = "edit"  BY <1>1 DEF Deed
    <3> QED BY <1>1, <2>5, <2>9, <3>1 DEF Knows, KnowsItsBans
  <2>15. KnowsItsRate(s, e)  BY <1>1, <2>9 DEF Knows, KnowsItsRate
  <2>16. KnowsItsForm(s, e)  BY <1>2 DEF KnowsItsForm
  <2>17. UNCHANGED <<desk, money, rowLock, req>> /\ Deed(s) # "recompute"  BY <1>1
  <2> QED
    BY <1>2, <2>7, <2>8, <2>9, <2>11, <2>12, <2>13, <2>14, <2>15, <2>16, <2>17, OneThinks
<1>10. CASE ~Resubmits(s, m)
  <2>1. PICK score \in Scores(s, h, r) : Leave(s, r, score, 0)
    BY <1>10 DEF Edit, h, m, r
  <2>2. Fine(h, r)  BY <1>3, <1>4, <1>8, <1>10 DEF Fine
  <2>3. /\ score \in SUBSET (Remark \X Ad \X {s})
        /\ \A x \in score : x[2] = h /\ x[1] \notin {"ban", "reject"}
    BY <1>3, ScoreIsANote
  <2>4. CheckConstraints(r.row) /\ UNCHANGED <<desk, money, rowLock, req>>
        /\ Pc(s) \notin {"lock", "aim"}
    BY <1>1, <1>3, <1>4
  <2> QED BY <1>1, <1>2, <1>4, <2>1, <2>2, <2>3, <2>4, Leaves DEF h
<1> QED BY <1>9, <1>10

-----------------------------------------------------------------------------
(* The change form. *)

\* What a form is of, and what it holds.
LEMMA FormFacts ==
  ASSUME DeskIInv, NEW s \in Session, Way(s) = "form"
  PROVE  /\ TheAd(s) \in Ad /\ req[s].ads = {TheAd(s)} /\ Deed(s) = "save"
         /\ ads[TheAd(s)] \in AdRec
         /\ Pc(s) \in {"peek", "save", "stamp"} => Locked(s) = {} /\ ses[s].held = {}
         /\ Pc(s) \notin {"start", "end"} => ses[s].seen \in AdRec
<1>1. (\E a \in Ad : req[s].ads = {a}) /\ Deed(s) = "save"  BY WaysOfDeeds
<1>2. TheAd(s) \in Ad /\ req[s].ads = {TheAd(s)}  BY <1>1 DEF TheAd
<1> QED BY <1>1, <1>2 DEF DeskIInv, DeskTypeOK, Knows, KnowsItsWay, KnowsItsForm, Pc

LEMMA PeekKeeps ==
  ASSUME DeskIInv, NEW s \in Session, Peek(s)  PROVE DeskIInv'
<1> DEFINE now == [ses[s].seen EXCEPT !.row = [@ EXCEPT !.status = ads[TheAd(s)].row.status]]
<1>1. /\ Pc(s) = "peek" /\ UNCHANGED <<desk, money, rowLock, userLock, req>>
      /\ ses[s] \in Ses /\ ses \in [Session -> Ses] /\ Knows(s, ses[s])
  BY DEF Peek, locks, DeskIInv, DeskTypeOK
<1>2. Way(s) = "form"  BY <1>1 DEF Knows, KnowsItsWay, Pc
<1>3. /\ TheAd(s) \in Ad /\ Deed(s) = "save" /\ Locked(s) = {} /\ ses[s].held = {}
      /\ ses[s].seen \in AdRec /\ ads[TheAd(s)] \in AdRec
  BY <1>1, <1>2, FormFacts
<1>4. PICK p, q :
        /\ ses' = [ses EXCEPT ![s].at = p, ![s].seen = q]
        /\ \/ p \in {"end", "save"} /\ q = ses[s].seen
           \/ /\ p = "stamp" /\ q = now
              /\ req[s].to \in AdStatus \ {"rejected", "on_moderation_failed"}
  <2>1. CASE Unclean(s)
    <3>1. ses' = [ses EXCEPT ![s].at = "end"]  BY <2>1 DEF Peek, Goto
    <3>2. ses' = [ses EXCEPT ![s].at = "end", ![s].seen = ses[s].seen]
      BY <1>1, <3>1 DEF Ses
    <3> QED BY <3>2
  <2>2. CASE ~Unclean(s) /\ ~NewStatus(s)
    <3>1. ses' = [ses EXCEPT ![s].at = "save"]  BY <2>2 DEF Peek, Goto
    <3>2. ses' = [ses EXCEPT ![s].at = "save", ![s].seen = ses[s].seen]
      BY <1>1, <3>1 DEF Ses
    <3> QED BY <3>2
  <2>3. CASE ~Unclean(s) /\ NewStatus(s)
    <3>1. ses' = [ses EXCEPT ![s].at = "stamp", ![s].seen.row.status = ads[TheAd(s)].row.status]
      BY <2>3 DEF Peek
    <3>2. ses' = [ses EXCEPT ![s].at = "stamp", ![s].seen = now]
      BY <1>1, <1>3, <3>1 DEF Ses
    <3>3. req[s].to \in AdStatus \ {"rejected", "on_moderation_failed"}
      BY <2>3 DEF Unclean, NewStatus
    <3> QED BY <3>2, <3>3
  <2> QED BY <2>1, <2>2, <2>3
<1>5. now \in AdRec
  <2>1. ses[s].seen.row \in Row /\ ads[TheAd(s)].row.status \in AdStatus \cup NoRow
    BY <1>3 DEF AdRec, Row
  <2>2. [ses[s].seen.row EXCEPT !.status = ads[TheAd(s)].row.status] \in Row
    BY <2>1 DEF Row
  <2> QED BY <1>3, <2>2 DEF AdRec
<1> HIDE DEF now
<1>6. PICK e : e = [ses[s] EXCEPT !.at = p, !.seen = q]  OBVIOUS
<1>7. q \in AdRec /\ p \in {"end", "save", "stamp"}  BY <1>3, <1>4, <1>5
<1>8. e \in Ses
  <2>1. p \in At  BY <1>7 DEF At
  <2> QED BY <1>1, <1>6, <1>7, <2>1 DEF Ses
<1>9. /\ e.at = p /\ e.held = {} /\ e.todo = ses[s].todo /\ e.work = ses[s].work
      /\ e.notes = ses[s].notes /\ e.count = ses[s].count /\ e.rate = ses[s].rate
      /\ e.aim = ses[s].aim /\ e.bans = ses[s].bans /\ e.seen = q
      /\ e.total = ses[s].total
  BY <1>1, <1>3, <1>6 DEF Ses
<1>10. ses' = [ses EXCEPT ![s] = e]  BY <1>1, <1>4, <1>6 DEF Ses
<1>11. KnowsItsWay(s, e)
  BY <1>1, <1>2, <1>3, <1>7, <1>9 DEF Knows, KnowsItsWay, Pc
<1>12. KnowsItsRows(s, e) /\ KnowsItsNotes(s, e)
  BY <1>1, <1>3, <1>7, <1>9 DEF Knows, KnowsItsRows, KnowsItsNotes
<1>13. KnowsItsBans(s, e)'
  <2>1. Deed(s)' = "save"  BY <1>1, <1>3 DEF Deed
  <2> QED BY <1>1, <1>3, <1>7, <1>9, <2>1 DEF Knows, KnowsItsBans
<1>14. KnowsItsRate(s, e)  BY <1>1, <1>3, <1>7, <1>9 DEF Knows, KnowsItsRate
<1>15. KnowsItsForm(s, e)
  BY <1>1, <1>2, <1>3, <1>4, <1>7, <1>9 DEF Knows, KnowsItsForm, Pc
<1>16. UNCHANGED <<desk, money, rowLock, req>> /\ Deed(s) # "recompute" /\ OwnLocks(s)
  BY <1>1, <1>3, SameLocks
<1> QED
  BY <1>8, <1>9, <1>10, <1>11, <1>12, <1>13, <1>14, <1>15, <1>16, OneThinks

\* What the form writes: what it has seen, and what was typed.
LEMMA TypedRow ==
  ASSUME DeskIInv, NEW s \in Session, ses[s].seen \in AdRec
  PROVE  /\ Typed(s) \in AdRec /\ Typed(s).row.status = ses[s].seen.row.status
         /\ Typed(s).norm = ses[s].seen.norm
         /\ req[s].to # "price" => Typed(s).amount = ses[s].seen.amount
         /\ req[s].to \notin {"fit", "unfit"} => Typed(s).text = ses[s].seen.text
<1> DEFINE q == ses[s].seen
           to == req[s].to
           stamp == CASE to = "published" -> {"published_at"}
                      [] to = "archived" -> {"archived_at"}
                      [] to = "deleted" -> {"deleted_at"}
                      [] OTHER -> {}
           stamps == IF Pc(s) = "stamp" THEN q.row.stamps \cup stamp ELSE q.row.stamps
           text == IF to \in {"fit", "unfit"} THEN to ELSE q.text
           amount == IF to = "price" THEN q.amount + 1 ELSE q.amount
           row == [q.row EXCEPT !.stamps = stamps]
<1>1. stamp \subseteq Stamp  BY DEF Stamp
<1>2. q.row \in Row /\ q.row.stamps \subseteq Stamp  BY DEF AdRec, Row
<1>3. stamps \subseteq Stamp  BY <1>1, <1>2
<1>4. row \in Row /\ row.status = q.row.status  BY <1>2, <1>3 DEF Row
<1>5. text \in {"fit", "unfit"} /\ amount \in Nat  BY DEF AdRec
<1>6. Typed(s) = [q EXCEPT !.row = row, !.text = text, !.amount = amount]
  BY DEF Typed, AdRec
<1>7. (to # "price" => amount = q.amount) /\ (to \notin {"fit", "unfit"} => text = q.text)
  OBVIOUS
<1> HIDE DEF row, text, amount
<1> QED BY <1>4, <1>5, <1>6, <1>7 DEF AdRec

LEMMA SaveFormKeeps ==
  ASSUME DeskIInv, NEW s \in Session, SaveForm(s)  PROVE DeskIInv'
<1>0. PICK a, w : a = TheAd(s) /\ w = Typed(s)  OBVIOUS
<1>1. /\ Pc(s) \in {"save", "stamp"} /\ Way(s) = "form" /\ rowLock[a] = None
      /\ UNCHANGED <<desk, money, userLock, req>>
      /\ ses[s] \in Ses /\ ses \in [Session -> Ses] /\ Knows(s, ses[s])
      /\ rowLock \in [Ad -> Session \cup {None}] /\ userLock \in [User -> Session \cup {None}]
  BY <1>0 DEF SaveForm, locks, DeskIInv, DeskTypeOK
<1>2. /\ a \in Ad /\ Deed(s) = "save" /\ Locked(s) = {} /\ ses[s].held = {}
      /\ ses[s].seen \in AdRec
  BY <1>0, <1>1, FormFacts
<1>3. /\ w \in AdRec /\ w.row.status = ses[s].seen.row.status
      /\ w.norm = ses[s].seen.norm
      /\ req[s].to # "price" => w.amount = ses[s].seen.amount
      /\ req[s].to \notin {"fit", "unfit"} => w.text = ses[s].seen.text
  BY <1>0, <1>2, TypedRow
<1>4. CASE ~CheckConstraints(w.row)
  <2>1. Goto(s, "end") /\ UNCHANGED rowLock  BY <1>0, <1>4 DEF SaveForm
  <2>2. PICK e : e = [ses[s] EXCEPT !.at = "end"]  OBVIOUS
  <2>3. e \in Ses
    <3>1. "end" \in At  BY DEF At
    <3> QED BY <1>1, <2>2, <3>1 DEF Ses
  <2>4. /\ e.at = "end" /\ e.held = {} /\ e.todo = ses[s].todo /\ e.work = ses[s].work
        /\ e.notes = ses[s].notes /\ e.count = ses[s].count /\ e.rate = ses[s].rate
        /\ e.aim = ses[s].aim /\ e.bans = ses[s].bans /\ e.seen = ses[s].seen
        /\ e.total = ses[s].total
    BY <1>1, <1>2, <2>2 DEF Ses
  <2>5. ses' = [ses EXCEPT ![s] = e]  BY <1>1, <2>1, <2>2 DEF Goto, Ses
  <2>6. KnowsItsWay(s, e)  BY <1>1, <1>2, <2>4 DEF Knows, KnowsItsWay
  <2>7. KnowsItsRows(s, e) /\ KnowsItsNotes(s, e)
    BY <1>1, <1>2, <2>4 DEF Knows, KnowsItsRows, KnowsItsNotes
  <2>8. KnowsItsBans(s, e)'
    <3>1. Deed(s)' = "save"  BY <1>1, <1>2 DEF Deed
    <3> QED BY <1>1, <1>2, <2>4, <3>1 DEF Knows, KnowsItsBans
  <2>9. KnowsItsRate(s, e) /\ KnowsItsForm(s, e)
    BY <1>0, <1>1, <1>2, <2>4 DEF Knows, KnowsItsRate, KnowsItsForm
  <2>10. UNCHANGED <<desk, money, rowLock, req>> /\ Deed(s) # "recompute" /\ OwnLocks(s)
    BY <1>1, <1>2, <2>1, SameLocks
  <2> QED BY <2>3, <2>4, <2>5, <2>6, <2>7, <2>8, <2>9, <2>10, OneThinks
<1>5. CASE CheckConstraints(w.row)
  <2>1. PICK score \in Scores(s, a, w) :
          /\ rowLock' = [rowLock EXCEPT ![a] = s]
          /\ ses' = [ses EXCEPT ![s].work[a] = w, ![s].held = {a}, ![s].notes = score,
                                ![s].at = IF @ = "stamp" THEN "route" ELSE "commit"]
    BY <1>0, <1>5 DEF SaveForm
  <2>2. PICK p : p = IF ses[s].at = "stamp" THEN "route" ELSE "commit"  OBVIOUS
  <2>3. PICK e : e = [ses[s] EXCEPT !.work = [@ EXCEPT ![a] = w], !.held = {a},
                                    !.notes = score, !.at = p]
    OBVIOUS
  <2>4. /\ score \in SUBSET (Remark \X Ad \X {s})
        /\ \A x \in score : x[2] = a /\ x[1] \notin {"ban", "reject"}
    BY <1>2, ScoreIsANote
  <2>5. /\ e.at = p /\ e.held = {a} /\ e.todo = ses[s].todo /\ e.work[a] = w
        /\ e.notes = score /\ e.count = ses[s].count /\ e.rate = ses[s].rate
        /\ e.aim = ses[s].aim /\ e.bans = ses[s].bans /\ e.seen = ses[s].seen
        /\ e.total = ses[s].total
    BY <1>1, <1>2, <2>3 DEF Ses
  <2>6. e \in Ses
    <3>1. [ses[s].work EXCEPT ![a] = w] \in [Ad -> AdRec \cup {None}]
      BY <1>1, <1>2, <1>3 DEF Ses
    <3>2. score \subseteq Remark \X (Ad \cup User) \X Session /\ p \in At
      BY <2>2, <2>4 DEF At
    <3> QED BY <1>1, <1>2, <2>3, <3>1, <3>2 DEF Ses
  <2>7. /\ ses'[s] = e /\ ses' = [ses EXCEPT ![s] = ses'[s]] /\ ses'[s] \in Ses
        /\ Deed(s) = "ban" => ses'[s].total = ses[s].total
    <3>1. ses' = [ses EXCEPT ![s] = e]  BY <1>1, <2>1, <2>2, <2>3 DEF Ses
    <3> QED BY <1>1, <2>5, <2>6, <3>1
  <2>8. /\ Locked(s)' = {a} /\ rowLock' \in [Ad -> Session \cup {None}]
        /\ \A t \in Session \ {s} :
             Locked(t)' = Locked(t) /\ \A u \in User : userLock[u] = t => userLock'[u] = t
    BY <1>1, <1>2, <2>1, DeskNone DEF Locked
  <2>9. UNCHANGED <<Deed(s), Way(s), TheAd(s), ByHandForm(s), req, banned, byHand, userLock>>
    BY <1>1 DEF desk, Deed, Way, TheAd, ByHandForm
  <2>10. KnowsItsWay(s, e)'
    BY <1>1, <1>2, <2>2, <2>5, <2>8, <2>9 DEF Knows, KnowsItsWay
  <2>11. KnowsItsRows(s, e)'
    BY <1>1, <1>2, <1>3, <1>5, <2>2, <2>5, <2>8, <2>9 DEF KnowsItsRows
  <2>12. KnowsItsNotes(s, e)'  BY <2>4, <2>5, <2>8 DEF KnowsItsNotes
  <2>13. KnowsItsBans(s, e)'
    BY <1>1, <1>2, <2>2, <2>4, <2>5, <2>9 DEF Knows, KnowsItsBans
  <2>14. KnowsItsRate(s, e)'
    <3>1. rate' = rate /\ lapsed' = lapsed  BY <1>1 DEF money
    <3> QED BY <1>1, <1>2, <2>2, <2>5, <2>9, <3>1 DEF Knows, KnowsItsRate
  <2>15. KnowsItsForm(s, e)'
    <3>1. KnowsItsForm(s, ses[s])  BY <1>1 DEF Knows
    <3>2. /\ ses[s].todo = {}
          /\ ses[s].at = "save" /\ a \notin byHand /\ ses[s].seen.row.status = "published"
               => ses[s].seen.text = "fit"
          /\ ses[s].at = "stamp" => req[s].to \in AdStatus \ {"rejected", "on_moderation_failed"}
      BY <1>0, <1>1, <3>1 DEF KnowsItsForm
    <3> QED BY <1>0, <1>1, <1>2, <1>3, <2>2, <2>5, <2>8, <2>9, <3>2
          DEF KnowsItsForm, ByHandForm, Pc
  <2>16. Knows(s, ses[s])'  BY <2>7, <2>10, <2>11, <2>12, <2>13, <2>14, <2>15 DEF Knows
  <2>17. /\ rate' \in Nat /\ rate <= rate' /\ cached' \in Nat \cup {None}
         /\ lapsed' \in {"no", "yes"} /\ (lapsed' = "no" => lapsed = "no")
    BY <1>1 DEF DeskIInv, DeskTypeOK, money
  <2>18. RatesKnown' /\ userLock' \in [User -> Session \cup {None}]
    BY <1>1 DEF DeskIInv, RatesKnown, money, desk
  <2>19. UNCHANGED <<desk, req>> /\ Deed(s) # "recompute"  BY <1>1, <1>2
  <2> QED BY <2>7, <2>8, <2>16, <2>17, <2>18, <2>19, OneMoves
<1> QED BY <1>4, <1>5

LEMMA RouteKeeps ==
  ASSUME DeskIInv, NEW s \in Session, Route(s)  PROVE DeskIInv'
<1> DEFINE h == Here(s)
           m == Mine(s)
           to == req[s].to
           w == Moved(m, to)
<1>1. /\ Pc(s) = "route" /\ UNCHANGED <<desk, money, rowLock, userLock, req>>
      /\ ses[s] \in Ses /\ Knows(s, ses[s]) /\ ses[s].held # {} /\ OwnLocks(s)
  BY InHand, SameLocks DEF Route, locks, DeskIInv, DeskTypeOK
<1>2. /\ Way(s) = "form" /\ Deed(s) = "save"
      /\ to \in AdStatus \ {"rejected", "on_moderation_failed"}
  BY <1>1, WaysOfDeeds DEF Knows, KnowsItsWay, KnowsItsForm, Pc
<1>3. /\ h \in Ad /\ h \in Locked(s) /\ h = TheAd(s)
      /\ m \in AdRec /\ CheckConstraints(m.row)
  BY <1>1, <1>2, AtHand
<1>4. /\ m.norm = ses[s].seen.norm
      /\ to # "price" => m.amount = ses[s].seen.amount
      /\ ses[s].seen.row.status \in {"rejected", "deleted"} => m.row.status \in {"rejected", "deleted"}
  BY <1>1, <1>2, <1>3 DEF Knows, KnowsItsForm, Mine
<1>5. CASE Skip(s) /\ (ByHandForm(s) \/ m.row.status # "published")
  BY <1>1, <1>2, <1>5, Skips
<1>6. CASE to = "published" /\ Goto(s, "owner")
  BY <1>1, <1>2, <1>6, GoesOn DEF locks
<1>7. CASE /\ to # "published" /\ MayTransition(m.row, to)
           /\ \E score \in Scores(s, h, w) :
                Leave(s, w, IF to = "deleted" THEN Note("delete", h, s) ELSE score, 0)
  <2>1. PICK score \in Scores(s, h, w) :
          Leave(s, w, IF to = "deleted" THEN Note("delete", h, s) ELSE score, 0)
    BY <1>7
  <2>2. PICK notes : notes = IF to = "deleted" THEN Note("delete", h, s) ELSE score  OBVIOUS
  <2>3. /\ notes \in SUBSET (Remark \X Ad \X {s})
        /\ \A x \in notes : x[2] = h /\ x[1] \notin {"ban", "reject"}
    <3>1. CASE to = "deleted"  BY <1>3, <2>2, <3>1 DEF Note, Remark
    <3>2. CASE to # "deleted"  BY <1>3, <2>2, <3>2, ScoreIsANote
    <3> QED BY <3>1, <3>2
  <2>4. to \in Target  BY <1>7 DEF MayTransition, ALLOWED_TRANSITIONS, AdStatus, Target
  <2>5. m.row.status \in {"rejected", "deleted"} => to = "deleted"
    BY <1>7 DEF MayTransition, ALLOWED_TRANSITIONS, AdStatus
  <2>6. /\ w \in AdRec /\ CheckConstraints(w.row) /\ w.row.status = to
        /\ w.amount = m.amount /\ w.norm = m.norm
    BY <1>3, <2>4, MovedRow
  <2>7. Leave(s, w, notes, 0)  BY <2>1, <2>2
  <2> HIDE DEF w, m, h, to
  <2>8. UNCHANGED <<desk, money, rowLock, req>> /\ Pc(s) \notin {"lock", "aim"}  BY <1>1
  <2>9. /\ w.norm = ses[s].seen.norm
        /\ to # "price" => w.amount = ses[s].seen.amount
        /\ ses[s].seen.row.status \in {"rejected", "deleted"} => w.row.status \in {"rejected", "deleted"}
        /\ w.row.status # "published"
    BY <1>4, <1>7, <2>5, <2>6
  <2> QED BY <1>1, <1>2, <2>3, <2>6, <2>7, <2>8, <2>9, Leaves DEF h, to
<1>8. \/ Skip(s) /\ (ByHandForm(s) \/ m.row.status # "published")
      \/ to = "published" /\ Goto(s, "owner")
      \/ /\ to # "published" /\ MayTransition(m.row, to)
         /\ \E score \in Scores(s, h, w) :
              Leave(s, w, IF to = "deleted" THEN Note("delete", h, s) ELSE score, 0)
  <2>1. CASE m.row.status = to  BY <2>1 DEF Route, ByHandForm
  <2>2. CASE m.row.status # to /\ to = "published"  BY <2>2 DEF Route
  <2>3. CASE m.row.status # to /\ to # "published" /\ MayTransition(m.row, to)
    BY <2>3 DEF Route
  <2>4. CASE m.row.status # to /\ to # "published" /\ ~MayTransition(m.row, to)
    <3>1. Skip(s)  BY <2>4 DEF Route
    <3>2. m.row.status = "published" => to = "draft"
      BY <1>2, <2>4 DEF MayTransition, ALLOWED_TRANSITIONS, AdStatus
    <3> QED BY <3>1, <3>2 DEF ByHandForm
  <2> QED BY <2>1, <2>2, <2>3, <2>4
<1> QED BY <1>5, <1>6, <1>7, <1>8

-----------------------------------------------------------------------------
(* The commit. *)

\* What is written to the audit log, and what comes of the rows.
Logged(s) == {m \in ses[s].notes : m[1] \notin AdPriorityLevel}

LEMMA CommitFacts ==
  ASSUME DeskIInv, NEW s \in Session, Commit(s)
  PROVE  /\ Pc(s) = "commit" /\ Way(s) # "rates" /\ UNCHANGED <<money, req>>
         /\ ads' = [a \in Ad |-> IF rowLock[a] = s THEN ses[s].work[a] ELSE ads[a]]
         /\ audit' = audit \cup Logged(s) /\ banned' = banned \cup ses[s].bans
         /\ byHand' = IF Way(s) = "form" /\ ByHandForm(s)
                      THEN byHand \cup req[s].ads ELSE byHand
         /\ overwritten' = IF Way(s) = "form" /\ ses[s].seen # ads[TheAd(s)]
                           THEN overwritten \cup req[s].ads ELSE overwritten
         /\ repriced' = [a \in Ad |-> IF /\ Deed(s) = "recompute" /\ rowLock[a] = s
                                         /\ ses[s].rate > repriced[a]
                                      THEN ses[s].rate ELSE repriced[a]]
         /\ Over(s, ses[s].count, ses[s].todo)
         /\ priority' \in [Ad -> AdPriorityLevel \cup {None}]
<1> DEFINE flags == {e \in ses[s].notes : e[1] \in AdPriorityLevel}
<1>1. ses[s].notes \ flags = Logged(s)  BY DEF Logged
<1>2. priority' \in [Ad -> AdPriorityLevel \cup {None}]
  <2>1. priority' = [a \in Ad |-> IF \E e \in flags : e[2] = a
                                  THEN (CHOOSE e \in flags : e[2] = a)[1] ELSE priority[a]]
    BY DEF Commit
  <2>2. ASSUME NEW a \in Ad, \E e \in flags : e[2] = a
        PROVE  (CHOOSE e \in flags : e[2] = a)[1] \in AdPriorityLevel
    <3>1. (CHOOSE e \in flags : e[2] = a) \in flags  BY <2>2
    <3> QED BY <3>1
  <2>3. priority \in [Ad -> AdPriorityLevel \cup {None}]  BY DEF DeskIInv, DeskTypeOK
  <2> HIDE DEF flags
  <2> QED BY <2>1, <2>2, <2>3
<1> QED BY <1>1, <1>2 DEF Commit, ByHandForm

LEMMA CommitKeeps ==
  ASSUME DeskIInv, NEW s \in Session, Commit(s)  PROVE DeskIInv'
<1>0. PICK e : e = [Fresh EXCEPT !.todo = ses[s].todo, !.rate = ses[s].rate,
                                 !.total = ses[s].total + ses[s].count,
                                 !.at = IF ses[s].todo = {} THEN "end" ELSE "lock"]
  OBVIOUS
<1>1. /\ Pc(s) = "commit" /\ Way(s) # "rates" /\ UNCHANGED <<money, req>>
      /\ ads' = [a \in Ad |-> IF rowLock[a] = s THEN ses[s].work[a] ELSE ads[a]]
      /\ audit' = audit \cup Logged(s) /\ banned' = banned \cup ses[s].bans
      /\ byHand' = IF Way(s) = "form" /\ ByHandForm(s)
                   THEN byHand \cup req[s].ads ELSE byHand
      /\ overwritten' = IF Way(s) = "form" /\ ses[s].seen # ads[TheAd(s)]
                        THEN overwritten \cup req[s].ads ELSE overwritten
      /\ repriced' = [a \in Ad |-> IF /\ Deed(s) = "recompute" /\ rowLock[a] = s
                                      /\ ses[s].rate > repriced[a]
                                   THEN ses[s].rate ELSE repriced[a]]
      /\ ses' = [ses EXCEPT ![s] = e] /\ Release(s)
      /\ priority' \in [Ad -> AdPriorityLevel \cup {None}]
  BY <1>0, CommitFacts DEF Over
<1>2. /\ ses[s] \in Ses /\ ses \in [Session -> Ses] /\ Knows(s, ses[s]) /\ DeskTypeOK
      /\ RatesKnown /\ rate \in Nat /\ repriced \in [Ad -> Nat] /\ ads \in [Ad -> AdRec]
      /\ rowLock \in [Ad -> Session \cup {None}] /\ userLock \in [User -> Session \cup {None}]
      /\ req \in [Session -> Req] /\ Offered(req[s])
  BY DEF DeskIInv, DeskTypeOK
<1>3. /\ Locked(s) \subseteq Ad /\ \A a \in Ad : a \in Locked(s) <=> rowLock[a] = s
  BY DEF Locked
<1>4. /\ e.at = IF ses[s].todo = {} THEN "end" ELSE "lock"
      /\ e.todo = ses[s].todo /\ e.held = {} /\ e.notes = {} /\ e.bans = {} /\ e.aim = {}
      /\ e.count = 0 /\ e.total = ses[s].total + ses[s].count /\ e.rate = ses[s].rate
  BY <1>0 DEF Fresh
<1>5. e \in Ses
  <2>1. Fresh \in Ses  BY DEF Fresh, Ses, At
  <2>2. "end" \in At /\ "lock" \in At  BY DEF At
  <2>3. /\ ses[s].total + ses[s].count \in Nat /\ ses[s].todo \subseteq Ad
        /\ ses[s].rate \in Nat \cup {None}
    BY <1>2 DEF Ses
  <2> QED BY <1>0, <2>1, <2>2, <2>3 DEF Ses
<1>6. ses'[s] = e /\ \A t \in Session \ {s} : ses'[t] = ses[t]  BY <1>1, <1>2
<1>7. /\ rowLock' \in [Ad -> Session \cup {None}] /\ userLock' \in [User -> Session \cup {None}]
      /\ Locked(s)' = {}
      /\ \A t \in Session \ {s} :
           Locked(t)' = Locked(t) /\ \A u \in User : userLock[u] = t => userLock'[u] = t
  BY <1>1, <1>2, DeskNone DEF Release, Locked
<1>8. UNCHANGED <<rate, cached, lapsed, req, Deed(s), Way(s)>>  BY <1>1 DEF money, Deed, Way
\* The prices that were recomputed.
<1>9. Deed(s) = "recompute" => /\ ses[s].held = {} /\ Way(s) # "form"
                               /\ \A a \in Locked(s) : /\ ses[s].rate \in Nat /\ ses[s].rate <= rate
                                                       /\ \/ ses[s].work[a].norm = None
                                                          \/ ses[s].work[a].norm[2] >= ses[s].rate
  <2>1. Deed(s) = "recompute" => Way(s) # "form"  BY WaysOfDeeds
  <2>2. Deed(s) = "recompute" => ses[s].held = {}
    BY <1>1, <1>2, <2>1 DEF Knows, KnowsItsWay, Pc
  <2> QED BY <1>2, <2>1, <2>2 DEF Knows, KnowsItsRate
<1>10. /\ repriced' \in [Ad -> Nat] /\ \A a \in Ad : repriced'[a] <= rate
       /\ \A a \in Ad \ Locked(s) : repriced'[a] = repriced[a]
       /\ Deed(s) # "recompute" => repriced' = repriced
       /\ \A a \in Ad : \/ repriced'[a] = repriced[a]
                        \/ Deed(s) = "recompute" /\ rowLock[a] = s /\ repriced'[a] = ses[s].rate
  BY <1>1, <1>2, <1>3, <1>9 DEF RatesKnown
<1>11. byHand \subseteq byHand' /\ overwritten \subseteq overwritten'  BY <1>1
\* The audit log, and who is banned.
<1>12. /\ \A m \in Logged(s) : /\ m \in ses[s].notes /\ m \in Remark \X (Ad \cup User) \X {s}
                               /\ m[1] # "ban" => m[2] \in Locked(s)
       /\ \A m \in ses[s].notes : m[1] \in {"ban", "reject"} => m \in Logged(s)
  BY <1>2 DEF Logged, AdPriorityLevel, Knows, KnowsItsNotes
<1>13. \A a : RejectedBefore(a)' => \/ RejectedBefore(a)
                                    \/ /\ a \in Locked(s) /\ Deed(s) = "reject"
                                       /\ a \notin overwritten =>
                                            ses[s].work[a].row.status \in {"rejected", "deleted"}
  <2>1. \A m \in Logged(s) : m[1] = "reject" =>
          /\ m[2] \in Locked(s) /\ Deed(s) = "reject"
          /\ m[2] \notin overwritten => ses[s].work[m[2]].row.status \in {"rejected", "deleted"}
    BY <1>2, <1>12 DEF Knows, KnowsItsNotes
  <2> QED BY <1>1, <2>1 DEF RejectedBefore, Entries
<1>14. ses[s].bans \subseteq User /\ ses[s].count \in Nat /\ ses[s].total \in Nat
  BY <1>2 DEF Ses
<1>15. BansAddUp'
  <2>1. BansAddUp  BY DEF DeskIInv
  <2>2. CASE Deed(s) # "ban"
    <3>1. ses[s].bans = {} /\ \A m \in ses[s].notes : m[1] # "ban"
      BY <1>2, <2>2 DEF Knows, KnowsItsBans
    <3>2. Entries("ban")' = Entries("ban")  BY <1>1, <1>12, <3>1 DEF Entries
    <3>3. banned' = banned  BY <1>1, <3>1
    <3>4. \A t \in Session : Told(t)' = Told(t)
      BY <1>6, <1>8, <2>2 DEF Told, Deed
    <3>5. [t \in Session |-> Told(t)]' = [t \in Session |-> Told(t)]  BY <3>4
    <3> QED BY <2>1, <3>2, <3>3, <3>5 DEF BansAddUp
  <2>3. CASE Deed(s) = "ban"
    <3>1. /\ \A m \in ses[s].notes : /\ m[1] = "ban" /\ m[2] \in Permitted(s)
                                     /\ m[2] \in banned \cup ses[s].bans
          /\ \A u \in ses[s].bans : <<"ban", u, s>> \in ses[s].notes /\ u \notin banned
          /\ ses[s].count = Cardinality(ses[s].bans) /\ ses[s].total = 0
      BY <1>1, <1>2, <2>3 DEF Knows, KnowsItsBans, Pc
    <3>2. Logged(s) = ses[s].notes  BY <3>1 DEF Logged, AdPriorityLevel
    <3>3. Entries("ban")' = Entries("ban") \cup ses[s].notes
      BY <1>1, <3>1, <3>2 DEF Entries
    <3>4. {m[2] : m \in Entries("ban")'} = banned'
      <4>1. {m[2] : m \in Entries("ban")} = banned  BY <2>1 DEF BansAddUp
      <4>2. \A m \in Entries("ban")' : m[2] \in banned'
        BY <1>1, <3>1, <3>3, <4>1
      <4>3. ASSUME NEW u \in banned' PROVE \E m \in Entries("ban")' : m[2] = u
        <5>1. CASE u \in banned  BY <3>3, <4>1, <5>1
        <5>2. CASE u \in ses[s].bans
          <6>1. <<"ban", u, s>> \in Entries("ban")'  BY <3>1, <3>3, <5>2
          <6> QED BY <6>1
        <5> QED BY <1>1, <5>1, <5>2
      <4> QED BY <4>2, <4>3
    <3>5. Cardinality(banned') = Cardinality(banned) + Cardinality(ses[s].bans)
      <4> DEFINE A == banned
                 B == ses[s].bans
      <4>1. IsFiniteSet(A) /\ IsFiniteSet(B)
        BY <1>2, <1>14, DeskFinite, FS_Subset DEF DeskTypeOK
      <4>2. A \cap B = {}  BY <3>1
      <4>3. banned' = A \cup B  BY <1>1
      <4> HIDE DEF A, B
      <4>4. Cardinality(A \cup B) = Cardinality(A) + Cardinality(B) - Cardinality(A \cap B)
        BY <4>1, FS_Union
      <4>5. Cardinality(A \cap B) = 0  BY <4>2, FS_EmptySet
      <4>6. Cardinality(A) \in Nat /\ Cardinality(B) \in Nat  BY <4>1, FS_CardinalityType
      <4>7. Cardinality(A \cup B) = Cardinality(A) + Cardinality(B)  BY <4>4, <4>5, <4>6
      <4> QED BY <4>3, <4>7 DEF A, B
    <3>6. SumFunction([t \in Session |-> Told(t)]') = SumFunction([t \in Session |-> Told(t)]) + ses[s].count
      <4> DEFINE f == [t \in Session |-> Told(t)]
                 g == [t \in Session |-> Told(t)']
      <4>1. \A t \in Session : ses[t].total \in Nat /\ ses'[t].total \in Nat
        BY <1>2, <1>5, <1>6 DEF Ses
      <4>2. f \in [Session -> Nat] /\ g \in [Session -> Nat]  BY <4>1 DEF Told
      <4>3. g[s] = f[s] + ses[s].count
        BY <1>4, <1>6, <1>8, <1>14, <2>3 DEF Told
      <4>4. \A t \in Session \ {s} : g[t] = f[t]  BY <1>6, <1>8 DEF Told, Deed
      <4>5. IsFiniteSet(Session)  BY DeskFinite
      <4> HIDE DEF f, g
      <4>6. SumFunction(g) = SumFunction(f) + ses[s].count
        BY <1>14, <4>2, <4>3, <4>4, <4>5, SumGrows
      <4> QED BY <4>6 DEF f, g
    <3> QED BY <2>1, <3>1, <3>4, <3>5, <3>6 DEF BansAddUp
  <2> QED BY <2>2, <2>3
<1>16. PrivilegedSpared'
  <2>1. ASSUME NEW m \in Logged(s), m[1] = "ban"
        PROVE  m[3] = s /\ m[2] \in Permitted(s)
    BY <1>2, <1>12, <2>1 DEF Knows, KnowsItsBans
  <2>2. \A m \in Entries("ban")' : m \in Entries("ban") \/ (m \in Logged(s) /\ m[1] = "ban")
    BY <1>1 DEF Entries
  <2>3. PrivilegedSpared  BY DEF DeskIInv
  <2> QED BY <1>8, <2>1, <2>2, <2>3 DEF PrivilegedSpared, Permitted
<1>17. OneRejection'
  <2> SUFFICES ASSUME NEW m \in Entries("reject")', NEW n \in Entries("reject")',
                      m[2] = n[2], m[2] \notin overwritten'
               PROVE  m = n
    BY DEF OneRejection
  <2>1. \A x \in Logged(s) : x[1] = "reject" =>
          /\ x = <<"reject", x[2], s>>
          /\ x[2] \notin overwritten => ~RejectedBefore(x[2])
    BY <1>2, <1>12 DEF Knows, KnowsItsNotes
  <2>2. \A x \in Entries("reject")' : x \in Entries("reject") \/ (x \in Logged(s) /\ x[1] = "reject")
    BY <1>1 DEF Entries
  <2>3. m[2] \notin overwritten  BY <1>11
  <2>4. \A x \in Entries("reject") : RejectedBefore(x[2])  BY DEF RejectedBefore
  <2>5. OneRejection  BY DEF DeskIInv
  <2> QED BY <2>1, <2>2, <2>3, <2>4, <2>5 DEF OneRejection
<1>18. OneSweep'
  <2>1. \A t \in Session : ses'[t].at \notin {"start", "end"} => ses[t].at \notin {"start", "end"}
    BY <1>1, <1>6 DEF Pc
  <2>2. OneSweep  BY DEF DeskIInv
  <2> QED BY <1>8, <2>1, <2>2 DEF OneSweep, Deed
<1>19. RatesKnown'  BY <1>2, <1>8, <1>10 DEF RatesKnown
<1>20. ASSUME NEW a \in Ad PROVE Fine(a, ads[a])'
  <2>1. Fine(a, ads[a])  BY DEF DeskIInv
  <2>2. CASE a \notin Locked(s)
    <3>1. ads'[a] = ads[a] /\ repriced'[a] = repriced[a] /\ (RejectedBefore(a)' => RejectedBefore(a))
      BY <1>1, <1>3, <1>10, <1>13, <2>2
    <3>2. Fine(a, ads[a])'
      <4> DEFINE r == ads[a]
      <4>1. ads'[a] = r  BY <3>1
      <4>2. Fine(a, r)  BY <2>1
      <4> HIDE DEF r
      <4> QED BY <1>8, <1>11, <3>1, <4>1, <4>2 DEF Fine, Untouched
    <3> QED BY <3>2
  <2>3. CASE a \in Locked(s) /\ Way(s) # "form"
    <3>1. PICK r : r = ses[s].work[a]  OBVIOUS
    <3>2. ads'[a] = r  BY <1>1, <1>3, <2>3, <3>1
    <3>3. Fine(a, r)  BY <1>2, <2>3, <3>1 DEF Knows, KnowsItsRows
    <3>4. byHand' = byHand /\ overwritten' = overwritten  BY <1>1, <2>3
    <3>5. lapsed = "no" /\ a \in Untouched => r.norm = None \/ r.norm[2] >= repriced'[a]
      BY <1>9, <1>10, <2>3, <3>1, <3>3 DEF Fine
    <3>6. a \notin overwritten /\ RejectedBefore(a)' => r.row.status \in {"rejected", "deleted"}
      BY <1>13, <3>1, <3>3 DEF Fine
    <3> QED BY <1>8, <3>2, <3>3, <3>4, <3>5, <3>6 DEF Fine, Untouched
  <2>4. CASE a \in Locked(s) /\ Way(s) = "form"
    <3>1. PICK r : r = ses[s].work[a]  OBVIOUS
    <3>2. ads'[a] = r  BY <1>1, <1>3, <2>4, <3>1
    <3>3. a = TheAd(s) /\ req[s].ads = {a} /\ Deed(s) = "save"
      BY <1>2, <2>4, FormFacts DEF Knows, KnowsItsForm
    <3>4. /\ r.norm = ses[s].seen.norm
          /\ req[s].to # "price" => r.amount = ses[s].seen.amount
          /\ ses[s].seen.row.status \in {"rejected", "deleted"}
               => r.row.status \in {"rejected", "deleted"}
          /\ a \notin byHand /\ ~ByHandForm(s) /\ r.row.status = "published" => r.text = "fit"
      BY <1>1, <1>2, <2>4, <3>1, <3>3 DEF Knows, KnowsItsForm, Pc
    <3>5. r \in AdRec /\ CheckConstraints(r.row)
      BY <1>2, <2>4, <3>1 DEF Knows, KnowsItsRows
    <3>6. /\ a \notin byHand' => a \notin byHand /\ ~ByHandForm(s)
          /\ a \notin overwritten' => a \notin overwritten /\ ses[s].seen = ads[a]
      BY <1>1, <2>4, <3>3
    <3>7. ~ByHandForm(s) => req[s].to # "price"  BY DEF ByHandForm
    <3>8. repriced' = repriced /\ (RejectedBefore(a)' => RejectedBefore(a))
      BY <1>10, <1>13, <3>3
    <3>9. a \notin overwritten' =>
            /\ r.norm = ads[a].norm
            /\ RejectedBefore(a) => r.row.status \in {"rejected", "deleted"}
      BY <2>1, <3>4, <3>6 DEF Fine
    <3>10. a \in Untouched' => a \in Untouched /\ r.norm = ads[a].norm /\ r.amount = ads[a].amount
      BY <3>4, <3>6, <3>7, <3>9 DEF Untouched
    <3> QED BY <1>8, <2>1, <3>2, <3>4, <3>5, <3>6, <3>8, <3>9, <3>10 DEF Fine
  <2> QED BY <2>2, <2>3, <2>4
<1>21. DeskTypeOK'
  <2>1. \A a \in Ad : ads'[a] \in AdRec /\ CheckConstraints(ads'[a].row)
    BY <1>20 DEF Fine
  <2>2. ads' \in [Ad -> AdRec]  BY <1>1, <2>1
  <2>3. banned' \subseteq User  BY <1>1, <1>2, <1>14 DEF DeskTypeOK
  <2>4. audit' \subseteq Remark \X (Ad \cup User) \X Session
    BY <1>1, <1>2, <1>12 DEF DeskTypeOK
  <2>5. byHand' \subseteq Ad /\ overwritten' \subseteq Ad
    BY <1>1, <1>2 DEF DeskTypeOK, Req
  <2>6. ses' \in [Session -> Ses]  BY <1>1, <1>2, <1>5
  <2> QED BY <1>1, <1>2, <1>7, <1>8, <1>10, <2>1, <2>2, <2>3, <2>4, <2>5, <2>6 DEF DeskTypeOK
<1>22. ASSUME NEW t \in Session PROVE Offered(req[t])' /\ Knows(t, ses[t])'
  <2>1. CASE t = s
    <3>1. \/ e.at = "end"
          \/ /\ e.at = "lock" /\ e.todo # {} /\ Way(s) \notin {"form", "rates"}
             /\ Deed(s) \notin {"ban", "edit"}
      BY <1>1, <1>2, <1>4 DEF Knows, KnowsItsWay, KnowsItsForm, Pc
    <3>2. /\ Way(s) \in {"view", "seller"} => \E a \in Ad : e.todo \subseteq {a}
          /\ Way(s) = "form" \/ Deed(s) \in {"ban", "edit"} => e.todo = {}
          /\ Deed(s) = "ban" => e.at = "end"
      BY <1>1, <1>2, <1>4 DEF Knows, KnowsItsWay, KnowsItsForm, Pc
    <3>3. KnowsItsWay(s, e)'  BY <1>4, <1>7, <1>8, <3>1, <3>2 DEF KnowsItsWay
    <3>4. KnowsItsRows(s, e)' /\ KnowsItsNotes(s, e)'
      BY <1>4, <1>7, <3>1 DEF KnowsItsRows, KnowsItsNotes
    <3>5. KnowsItsBans(s, e)'
      BY <1>4, <1>8, <3>1, <3>2, FS_EmptySet DEF KnowsItsBans
    <3>6. KnowsItsRate(s, e)'
      <4>1. e.rate # None => e.rate \in Nat /\ e.rate <= rate
        BY <1>2, <1>4 DEF Knows, KnowsItsRate
      <4>2. lapsed = "no" /\ e.rate # None /\ Deed(s) = "recompute" =>
              \A a \in Ad : e.rate >= repriced'[a]
        BY <1>1, <1>2, <1>4, <1>10, <4>1 DEF Knows, KnowsItsRate, Pc
      <4> QED BY <1>4, <1>7, <1>8, <3>1, <4>1, <4>2 DEF KnowsItsRate
    <3>7. KnowsItsForm(s, e)'  BY <1>7, <1>8, <3>1, <3>2 DEF KnowsItsForm
    <3> QED BY <1>2, <1>6, <1>8, <2>1, <3>3, <3>4, <3>5, <3>6, <3>7 DEF Knows
  <2>2. CASE t # s
    <3>1. ses[t] \in Ses /\ ses'[t] = ses[t]  BY <1>2, <1>6, <2>2
    <3>2. ses[t].bans \subseteq User /\ ses[t].notes \subseteq Remark \X (Ad \cup User) \X Session
      BY <3>1 DEF Ses
    <3>3. \A a \in Locked(t) : a \in Ad /\ a \notin Locked(s)
      BY <2>2 DEF Locked
    <3>4. \A a \in Locked(t) : repriced'[a] = repriced[a] /\ (RejectedBefore(a)' => RejectedBefore(a))
      BY <1>10, <1>13, <3>3
    <3>5. \A u \in User : userLock[u] = t => u \in banned \/ u \notin banned'
      <4>1. \A u \in ses[s].bans : userLock[u] = s
        BY <1>2 DEF Knows, KnowsItsBans
      <4> QED BY <1>1, <2>2, <4>1
    <3>6. Deed(t) = "recompute" /\ ses[t].at \notin {"start", "end"} => repriced' = repriced
      <4>1. OneSweep /\ ses[s].at \notin {"start", "end"}  BY <1>1 DEF DeskIInv, Pc
      <4> QED BY <1>10, <2>2, <4>1 DEF OneSweep
    <3>7. Knows(t, ses[t])  BY DEF DeskIInv
    <3>8. /\ banned \subseteq banned' /\ (lapsed' = "no" => lapsed = "no")
          /\ rate' \in Nat /\ rate <= rate' /\ req' = req
      BY <1>1, <1>2, <1>8
    <3>9. /\ Locked(t)' = Locked(t) /\ \A u \in User : userLock[u] = t => userLock'[u] = t
      BY <1>7, <2>2
    <3>10. Knows(t, ses[t])'
      BY <1>2, <1>8, <1>11, <3>1, <3>2, <3>4, <3>5, <3>6, <3>7, <3>8, <3>9, OthersKnow
    <3> QED BY <1>8, <3>10 DEF DeskIInv
  <2> QED BY <2>1, <2>2
<1> QED BY <1>15, <1>16, <1>17, <1>18, <1>19, <1>20, <1>21, <1>22 DEF DeskIInv

\* A wait ends in an error, an answer or the next ad.
LEMMA GiveUpKeeps ==
  ASSUME DeskIInv, NEW s \in Session, GiveUp(s)  PROVE DeskIInv'
<1>1. /\ UNCHANGED <<desk, money, req>> /\ Waits(s)
      /\ Pc(s) \in {"start", "lock", "save", "stamp", "owner", "aim", "commit"}
  BY DEF GiveUp, Waits
<1>2. ses[s] \in Ses  BY DEF DeskIInv, DeskTypeOK
<1>3. CASE Pc(s) = "owner" /\ Deed(s) \in {"approve", "edit"}
  <2>1. Fail(s) /\ UNCHANGED rowLock /\ UNCHANGED userLock  BY <1>3 DEF GiveUp, locks
  <2>2. ses[s].held # {} /\ OwnLocks(s)  BY <1>3, <2>1, InHand, SameLocks
  <2>3. UNCHANGED <<desk, money, rowLock, req>>  BY <1>1, <2>1
  <2>4. Pc(s) \notin {"lock", "aim"}  BY <1>3
  <2> QED BY <1>3, <2>1, <2>2, <2>3, <2>4, Failed
<1>4. CASE Pc(s) # "owner" /\ Way(s) = "api"
  <2>1. PICK left : left = IF Pc(s) = "lock" THEN ses[s].todo \ {Min(ses[s].todo)}
                                            ELSE ses[s].todo
    OBVIOUS
  <2>2. Over(s, 0, left)  BY <1>4, <2>1 DEF GiveUp
  <2>3. left \in SUBSET Ad  BY <1>2, <2>1 DEF Ses
  <2>4. PICK e : e = [Fresh EXCEPT !.todo = left, !.rate = ses[s].rate,
                                   !.total = ses[s].total,
                                   !.at = IF left = {} THEN "end" ELSE "lock"]
    OBVIOUS
  <2>5. ses[s].total \in Nat /\ ses[s].rate \in Nat \cup {None}  BY <1>2 DEF Ses
  <2>6. ses[s].total + 0 = ses[s].total  BY <2>5
  <2>7. ses' = [ses EXCEPT ![s] = e] /\ Release(s)  BY <2>2, <2>4, <2>6 DEF Over
  <2>8. ses[s].rate # None => ses[s].rate <= rate  BY DEF DeskIInv, Knows, KnowsItsRate
  <2> QED BY <1>1, <1>4, <2>3, <2>4, <2>5, <2>7, <2>8, Drops
<1>5. CASE Quit(s)  BY <1>1, <1>5, Quits
<1> QED BY <1>3, <1>4, <1>5 DEF GiveUp

-----------------------------------------------------------------------------
(* The whole. *)

LEMMA DeskBegins == Init => DeskIInv
<1> SUFFICES ASSUME Init PROVE DeskIInv  OBVIOUS
<1>1. PICK start \in Starts : ads = start.ads /\ req = start.req /\ priority = start.score
  BY DEF Init
<1>2. /\ ads \in [Ad -> AdRec] /\ \A a \in Ad : Sound(ads[a])
      /\ req \in [Session -> Req] /\ \A s \in Session : Offered(req[s])
      /\ priority \in [Ad -> AdPriorityLevel \cup {None}]
  BY <1>1, DeskStarts
<1>3. /\ banned = {} /\ audit = {} /\ byHand = {} /\ overwritten = {}
      /\ repriced = [a \in Ad |-> 0] /\ rate = 0 /\ cached = None /\ lapsed = "no"
      /\ rowLock = [a \in Ad |-> None] /\ userLock = [u \in User |-> None]
      /\ ses = [s \in Session |-> Fresh]
  BY DEF Init
<1>4. Fresh \in Ses  BY DEF Fresh, Ses, At
<1>5. DeskTypeOK  BY <1>2, <1>3, <1>4 DEF DeskTypeOK, Sound
<1>6. BansAddUp
  <2>1. [s \in Session |-> Told(s)] = [s \in Session |-> 0]  BY <1>3 DEF Told, Fresh
  <2>2. SumFunction([s \in Session |-> Told(s)]) = 0
    <3> DEFINE f == [s \in Session |-> Told(s)]
    <3>1. f \in [Session -> Nat] /\ \A s \in Session : f[s] = 0  BY <2>1
    <3> HIDE DEF f
    <3>2. SumFunction(f) = 0  BY <3>1, SumOfNothing, DeskFinite
    <3> QED BY <3>2 DEF f
  <2>3. {n[2] : n \in Entries("ban")} = {}  BY <1>3 DEF Entries
  <2> QED BY <1>3, <2>2, <2>3, FS_EmptySet DEF BansAddUp
<1>7. PrivilegedSpared /\ OneRejection /\ \A a \in Ad : ~RejectedBefore(a)
  BY <1>3 DEF PrivilegedSpared, OneRejection, RejectedBefore, Entries
<1>8. OneSweep /\ RatesKnown  BY <1>3 DEF OneSweep, RatesKnown, Fresh
<1>9. ASSUME NEW a \in Ad PROVE Fine(a, ads[a])
  <2>1. ads[a].norm = None \/ ads[a].norm[2] >= repriced[a]
    BY <1>2, <1>3 DEF AdRec
  <2> QED BY <1>2, <1>7, <2>1 DEF Fine, Sound
<1>10. ASSUME NEW s \in Session PROVE Knows(s, ses[s])
  <2>1. ses[s] = Fresh /\ Locked(s) = {}  BY <1>3, DeskNone DEF Locked
  <2>2. req[s] \in Req /\ Offered(req[s])  BY <1>2
  <2>3. Way(s) \in {"view", "seller"} => Ad # {}  BY <2>2 DEF Offered, Way
  <2>4. KnowsItsWay(s, Fresh)  BY <2>1, <2>3 DEF KnowsItsWay, Fresh
  <2>5. KnowsItsRows(s, Fresh) /\ KnowsItsNotes(s, Fresh) /\ KnowsItsForm(s, Fresh)
    BY <2>1 DEF KnowsItsRows, KnowsItsNotes, KnowsItsForm, Fresh
  <2>6. KnowsItsBans(s, Fresh) /\ KnowsItsRate(s, Fresh)
    BY <2>1, FS_EmptySet DEF KnowsItsBans, KnowsItsRate, Fresh
  <2> QED BY <2>1, <2>4, <2>5, <2>6 DEF Knows
<1> QED BY <1>2, <1>5, <1>6, <1>7, <1>8, <1>9, <1>10 DEF DeskIInv

LEMMA DeskStands == ASSUME DeskIInv, UNCHANGED vars PROVE DeskIInv'
<1> USE DEF vars, desk, money, locks
<1>1. DeskTypeOK'  BY DEF DeskIInv, DeskTypeOK
<1>2. \A s \in Session : Told(s)' = Told(s)  BY DEF Told, Deed
<1>3. BansAddUp'
  <2>1. [s \in Session |-> Told(s)]' = [s \in Session |-> Told(s)]  BY <1>2
  <2> QED BY <2>1 DEF BansAddUp, DeskIInv, Entries
<1>4. PrivilegedSpared' /\ OneRejection' /\ OneSweep' /\ RatesKnown'
  BY DEF DeskIInv, PrivilegedSpared, OneRejection, Entries, OneSweep, RatesKnown, Deed
<1>5. ASSUME NEW a \in Ad PROVE RejectedBefore(a)' = RejectedBefore(a) /\ Fine(a, ads[a])'
  <2>1. RejectedBefore(a)' = RejectedBefore(a)  BY DEF RejectedBefore, Entries
  <2> QED BY <2>1 DEF DeskIInv, Fine, Untouched
<1>6. ASSUME NEW s \in Session PROVE Offered(req[s])' /\ Knows(s, ses[s])'
  <2>1. ses[s] \in Ses  BY DEF DeskIInv, DeskTypeOK
  <2>2. ses[s].bans \subseteq User /\ ses[s].notes \subseteq Remark \X (Ad \cup User) \X Session
    BY <2>1 DEF Ses
  <2>3. /\ rate \in Nat /\ rate' \in Nat /\ rate <= rate'  BY DEF DeskIInv, DeskTypeOK
  <2>4. /\ ses'[s] = ses[s] /\ Locked(s)' = Locked(s)
        /\ \A a \in Locked(s) : repriced'[a] = repriced[a]
                                /\ (RejectedBefore(a)' => RejectedBefore(a))
    BY <1>5 DEF Locked
  <2>5. Knows(s, ses[s])'  BY <2>2, <2>3, <2>4, OthersKnow DEF DeskIInv
  <2> QED BY <2>5 DEF DeskIInv
<1> QED BY <1>1, <1>3, <1>4, <1>5, <1>6 DEF DeskIInv

LEMMA DeskGoesOn == DeskIInv /\ [Next]_vars => DeskIInv'
<1> SUFFICES ASSUME DeskIInv, [Next]_vars PROVE DeskIInv'  OBVIOUS
<1>1. CASE UNCHANGED vars  BY <1>1, DeskStands
<1>2. CASE Expire  BY <1>2, ExpireKeeps
<1>3. ASSUME NEW s \in Session, Go(s) PROVE DeskIInv'
  <2>1. CASE \/ Begin(s) \/ Lock(s) \/ Approve(s) \/ Judge(s) \/ LockOwner(s) \/ Publish(s)
             \/ Reject(s) \/ Flag(s) \/ SoftDelete(s)
    BY <2>1, BeginKeeps, LockKeeps, ApproveKeeps, JudgeKeeps, LockOwnerKeeps, PublishKeeps,
       RejectKeeps, FlagKeeps, SoftDeleteKeeps
  <2>2. CASE \/ ToOwner(s) \/ BanOwner(s) \/ Aim(s) \/ BanNext(s)
             \/ NeedRate(s) \/ CacheGet(s) \/ Query(s) \/ CacheSet(s) \/ Recompute(s)
    BY <2>2, ToOwnerKeeps, BanOwnerKeeps, AimKeeps, BanNextKeeps, NeedRateKeeps, CacheGetKeeps,
       QueryKeeps, CacheSetKeeps, RecomputeKeeps
  <2>3. CASE \/ SaveRate(s) \/ CommitRate(s) \/ Edit(s) \/ Peek(s) \/ SaveForm(s) \/ Route(s)
             \/ Commit(s) \/ GiveUp(s)
    BY <2>3, SaveRateKeeps, CommitRateKeeps, EditKeeps, PeekKeeps, SaveFormKeeps, RouteKeeps,
       CommitKeeps, GiveUpKeeps
  <2> QED BY <1>3, <2>1, <2>2, <2>3 DEF Go
<1>4. ASSUME NEW s \in Session, NoCache(s) PROVE DeskIInv'  BY <1>4, NoCacheKeeps
<1> QED BY <1>1, <1>2, <1>3, <1>4 DEF Next

-----------------------------------------------------------------------------
(* The quota: why there is room for what goes public. *)

\* A step of s that commits nothing, seen by the others.
OnlyMoves(s) ==
  /\ UNCHANGED <<ads, overwritten, req>>
  /\ \A t \in Session \ {s} :
       /\ ses'[t] = ses[t]
       /\ \A a \in Ad : rowLock'[a] = t <=> rowLock[a] = t
       /\ \A u \in User : userLock[u] = t => userLock'[u] = t

\* And by s itself: it brings no ad to the public, and keeps what it has for
\* those that it has brought there.
HoldsOn(s) ==
  /\ ses'[s].todo \cup Locked(s)' \subseteq req[s].ads
  /\ \A a \in Ad : /\ rowLock[a] = s => rowLock'[a] = s
                   /\ rowLock'[a] = s /\ ses'[s].work[a].row.status = "published"
                        => Seen(s, a).row.status = "published"
  /\ \A a \in Ad : NewlyOut(s, a) =>
       /\ a \notin ses'[s].held /\ <<"publish", a, s>> \in ses'[s].notes
       /\ userLock'[Owner[a]] = s
  /\ Locked(s) # {} => ses'[s].seen = ses[s].seen

LEMMA OutIsFinite ==
  ASSUME NEW s \in Session, NEW u \in User
  PROVE  IsFiniteSet(Out(s, u)) /\ Cardinality(Out(s, u)) \in Nat
<1>1. Out(s, u) \subseteq Ad  BY DEF Out
<1> QED BY <1>1, DeskFinite, FS_Subset, FS_CardinalityType

LEMMA RoomHeld ==
  ASSUME DeskIInv, NEW s \in Session, KeepsTheRoom(s), OnlyMoves(s), HoldsOn(s)
  PROVE  KeepsTheRoom(s)'
<1> USE DEF OnlyMoves, HoldsOn
<1>1. ASSUME NEW a \in Ad, NewlyOut(s, a)'
      PROVE  NewlyOut(s, a)
  <2>1. /\ rowLock'[a] = s /\ ses'[s].work[a].row.status = "published"
        /\ ads[a].row.status # "published"
    BY <1>1 DEF NewlyOut, Status
  <2>2. rowLock[a] = s /\ ses[s].work[a].row.status = "published"  BY <2>1 DEF Seen
  <2>3. Stale(s)' = Stale(s)  BY <2>2 DEF Stale, Way, TheAd, Locked
  <2> QED BY <1>1, <2>1, <2>2, <2>3 DEF NewlyOut, Status
<1>2. ASSUME NEW u \in User  PROVE Out(s, u)' \subseteq Out(s, u)
  <2> SUFFICES ASSUME NEW b \in Ad \ overwritten, Owner[b] = u,
                      (Seen(s, b).row.status = "published")'
               PROVE  Seen(s, b).row.status = "published"
    BY DEF Out
  <2> QED BY DEF Seen
<1>3. ASSUME NEW a \in Ad, NewlyOut(s, a)'
      PROVE  Cardinality(Out(s, Owner[a]))' <= MaxAds
  <2> DEFINE u == Owner[a]
             now == Out(s, u)'
  <2>1. u \in User  BY DeskOwners
  <2>2. Cardinality(Out(s, u)) <= MaxAds  BY <1>1, <1>3 DEF KeepsTheRoom
  <2>3. now \subseteq Out(s, u) /\ IsFiniteSet(Out(s, u)) /\ Cardinality(Out(s, u)) \in Nat
    BY <1>2, <2>1, OutIsFinite
  <2> HIDE DEF now
  <2>4. IsFiniteSet(now) /\ Cardinality(now) <= Cardinality(Out(s, u))
    BY <2>3, FS_Subset
  <2>5. Cardinality(now) \in Nat /\ MaxAds \in Nat  BY <2>4, FS_CardinalityType, DeskBounds
  <2>6. Cardinality(now) <= MaxAds  BY <2>2, <2>3, <2>4, <2>5
  <2> QED BY <2>6 DEF now
<1> QED BY <1>1, <1>3 DEF KeepsTheRoom

LEMMA OthersKeepRoom ==
  ASSUME NEW s \in Session, NEW t \in Session \ {s}, KeepsTheRoom(t), OnlyMoves(s)
  PROVE  KeepsTheRoom(t)'
<1> USE DEF OnlyMoves
<1>1. \A a \in Ad : NewlyOut(t, a)' = NewlyOut(t, a)
  BY DEF NewlyOut, Status, Stale, Way, TheAd
<1>2. \A u \in User : Out(t, u)' = Out(t, u)  BY DEF Out, Seen
<1>3. Locked(t)' = Locked(t)  BY DEF Locked
<1> QED BY <1>1, <1>2, <1>3, DeskOwners DEF KeepsTheRoom

\* A step that touches neither rows nor locks.
LEMMA Rests ==
  ASSUME DeskIInv, NEW s \in Session, KeepsTheRoom(s), UNCHANGED rowLock,
         ses'[s].work = ses[s].work, ses'[s].todo = ses[s].todo,
         ses'[s].held \subseteq ses[s].held, ses[s].notes \subseteq ses'[s].notes,
         \A u \in User : userLock[u] = s => userLock'[u] = s,
         Locked(s) # {} => ses'[s].seen = ses[s].seen
  PROVE  HoldsOn(s)
<1>1. Locked(s)' = Locked(s)  BY DEF Locked
<1>2. \A a \in Ad : rowLock[a] = s => Seen(s, a) = ses[s].work[a]  BY DEF Seen
<1> QED BY <1>1, <1>2, DeskOwners DEF HoldsOn, KeepsTheRoom

\* It leaves the ad at hand no more public than it was.
LEMMA LeavesRoom ==
  ASSUME DeskIInv, NEW s \in Session, KeepsTheRoom(s), UNCHANGED rowLock, ses[s].held # {},
         NEW r, NEW notes, NEW n, Leave(s, r, notes, n),
         r.row.status = "published" => Mine(s).row.status = "published",
         \A a \in Ad : NewlyOut(s, a) => userLock'[Owner[a]] = s
  PROVE  HoldsOn(s)
<1>1. Here(s) \in ses[s].held /\ Here(s) \in Ad /\ rowLock[Here(s)] = s
  BY AtHand DEF Locked
<1>2. ses[s] \in Ses /\ ses \in [Session -> Ses]  BY DEF DeskIInv, DeskTypeOK
<1>3. /\ ses'[s].work = [ses[s].work EXCEPT ![Here(s)] = r]
      /\ ses'[s].notes = ses[s].notes \cup notes /\ ses'[s].held = ses[s].held \ {Here(s)}
      /\ ses'[s].todo = ses[s].todo /\ ses'[s].seen = ses[s].seen
  BY <1>2 DEF Leave, Ses
<1>4. \A a \in Ad : ses'[s].work[a] = IF a = Here(s) THEN r ELSE ses[s].work[a]
  BY <1>1, <1>2, <1>3 DEF Ses
<1>5. Locked(s)' = Locked(s)  BY DEF Locked
<1>6. \A a \in Ad : rowLock[a] = s => Seen(s, a) = ses[s].work[a]  BY DEF Seen
<1>7. Mine(s) = ses[s].work[Here(s)]  BY DEF Mine
<1> QED BY <1>1, <1>3, <1>4, <1>5, <1>6, <1>7 DEF HoldsOn, KeepsTheRoom

LEMMA StillLocked ==
  ASSUME NEW s \in Session, KeepsTheRoom(s), \A u \in User : userLock[u] = s => userLock'[u] = s
  PROVE  \A a \in Ad : NewlyOut(s, a) => userLock'[Owner[a]] = s
BY DeskOwners DEF KeepsTheRoom

LEMMA FailsInRoom ==
  ASSUME DeskIInv, NEW s \in Session, KeepsTheRoom(s), UNCHANGED rowLock, ses[s].held # {},
         Fail(s), \A a \in Ad : NewlyOut(s, a) => userLock'[Owner[a]] = s
  PROVE  HoldsOn(s)
<1>1. Moved(Mine(s), "on_moderation_failed").row.status = "on_moderation_failed"
  <2>1. Mine(s) \in AdRec /\ CheckConstraints(Mine(s).row)  BY AtHand
  <2> QED BY <2>1, MovedRow DEF Target
<1>2. CASE MayTransition(Mine(s).row, "on_moderation_failed")
  <2>1. Leave(s, Moved(Mine(s), "on_moderation_failed"), Note("fail", Here(s), s), 0)
    BY <1>2 DEF Fail
  <2> QED BY <1>1, <2>1, LeavesRoom
<1>3. CASE ~MayTransition(Mine(s).row, "on_moderation_failed")
  <2>1. Leave(s, Mine(s), {}, 0)  BY <1>3 DEF Fail, Skip
  <2> QED BY <2>1, LeavesRoom
<1> QED BY <1>2, <1>3

\* Nothing is locked any more.
LEMMA Empties ==
  ASSUME DeskIInv, NEW s \in Session, Release(s), ses'[s].todo \subseteq req[s].ads,
         UNCHANGED req
  PROVE  KeepsTheRoom(s)'
<1>1. \A a \in Ad : rowLock'[a] # s  BY DeskNone DEF Release
<1> QED BY <1>1 DEF KeepsTheRoom, NewlyOut, Locked

\* What a request that holds no ad does is of no concern yet.
LEMMA FreeHand ==
  ASSUME DeskIInv, NEW s \in Session, Locked(s) = {}, UNCHANGED rowLock,
         ses'[s].todo \subseteq req[s].ads
  PROVE  HoldsOn(s)
BY DEF HoldsOn, Locked, NewlyOut

LEMMA BeginInRoom ==
  ASSUME DeskIInv, NEW s \in Session, KeepsTheRoom(s), Begin(s)  PROVE HoldsOn(s)
<1>1. Locked(s) = {}  BY DEF Begin, Pc, DeskIInv, Knows, KnowsItsWay
<1>2. ses[s].todo \subseteq req[s].ads  BY DEF KeepsTheRoom
<1>3. ses[s] \in Ses /\ ses \in [Session -> Ses]  BY DEF DeskIInv, DeskTypeOK
<1>4. ses'[s].todo \subseteq req[s].ads
  <2> DEFINE found == {a \in req[s].ads : Eligible(s, ads[a])}
  <2>1. CASE Way(s) = "bulk" /\ Deed(s) # "ban"
    <3>1. ses'[s].todo = found  BY <1>3, <2>1 DEF Begin, Ses
    <3> QED BY <3>1
  <2>2. CASE Way(s) = "bulk" /\ Deed(s) = "ban"
    BY <1>2, <1>3, <2>2 DEF Begin, Goto, Ses
  <2>3. CASE Way(s) = "form"
    <3>1. ses'[s].todo = ses[s].todo  BY <1>3, <2>3 DEF Begin, Ses
    <3> QED BY <1>2, <3>1
  <2>4. CASE Way(s) = "rates"  BY <1>2, <1>3, <2>4 DEF Begin, Goto, Ses
  <2>5. CASE Way(s) = "seller" /\ req[s].by \in banned
    BY <1>2, <1>3, <2>5 DEF Begin, Goto, Ses
  <2>6. CASE /\ Way(s) \notin {"bulk", "form", "rates"}
             /\ ~(Way(s) = "seller" /\ req[s].by \in banned)
    <3>1. ses'[s].todo = req[s].ads  BY <1>3, <2>6 DEF Begin, Ses
    <3> QED BY <3>1
  <2> QED BY <2>1, <2>2, <2>3, <2>4, <2>5, <2>6
<1>5. UNCHANGED rowLock  BY DEF Begin, locks
<1> QED BY <1>1, <1>4, <1>5, FreeHand

LEMMA LockInRoom ==
  ASSUME DeskIInv, NEW s \in Session, KeepsTheRoom(s), Lock(s)  PROVE HoldsOn(s)
<1>0. PICK a : a = Min(ses[s].todo)  OBVIOUS
<1>1. /\ ses[s] \in Ses /\ ses \in [Session -> Ses] /\ Pc(s) = "lock"
      /\ rowLock \in [Ad -> Session \cup {None}] /\ rowLock[a] = None
      /\ UNCHANGED userLock
  BY <1>0 DEF DeskIInv, DeskTypeOK, Lock
<1>2. a \in ses[s].todo /\ a \in Ad
  <2>1. ses[s].todo # {} /\ ses[s].todo \subseteq Ad
    BY <1>1 DEF DeskIInv, Knows, KnowsItsWay, Pc, Ses
  <2>2. IsFiniteSet(ses[s].todo)  BY <2>1, DeskFinite, FS_Subset
  <2>3. \A x \in ses[s].todo : x \in Nat  BY <2>1, DeskOwners
  <2> QED BY <1>0, <2>1, <2>2, <2>3, MinIsMember
<1>3. CASE Eligible(s, ads[a])
  <2>1. /\ rowLock' = [rowLock EXCEPT ![a] = s]
        /\ ses'[s].todo = ses[s].todo \ {a} /\ ses'[s].held = ses[s].held \cup {a}
        /\ ses'[s].work = [ses[s].work EXCEPT ![a] = ads[a]]
        /\ ses'[s].seen = ses[s].seen /\ ses'[s].notes = ses[s].notes
    BY <1>0, <1>1, <1>3 DEF Lock, Ses
  <2>2. \A b \in Ad : ses'[s].work[b] = IF b = a THEN ads[a] ELSE ses[s].work[b]
    BY <1>1, <1>2, <2>1 DEF Ses
  <2>3. \A b \in Ad : rowLock'[b] = IF b = a THEN s ELSE rowLock[b]  BY <1>1, <2>1
  <2>4. Locked(s)' = Locked(s) \cup {a}  BY <1>2, <2>3 DEF Locked
  <2>5. \A b \in Ad : Seen(s, b) = IF rowLock[b] = s THEN ses[s].work[b] ELSE ads[b]
    BY DEF Seen
  <2>6. ~NewlyOut(s, a)  BY <1>1, DeskNone DEF NewlyOut
  <2> QED BY <1>1, <1>2, <2>1, <2>2, <2>3, <2>4, <2>5, <2>6, DeskNone, StillLocked
          DEF HoldsOn, KeepsTheRoom
<1>4. CASE ~Eligible(s, ads[a])
  <2>1. /\ UNCHANGED rowLock /\ ses'[s].todo = ses[s].todo \ {a}
        /\ ses'[s].held = ses[s].held /\ ses'[s].work = ses[s].work
        /\ ses'[s].seen = ses[s].seen /\ ses'[s].notes = ses[s].notes
    BY <1>0, <1>1, <1>4 DEF Lock, Ses
  <2>2. Locked(s)' = Locked(s)  BY <2>1 DEF Locked
  <2> QED BY <1>1, <2>1, <2>2, StillLocked DEF HoldsOn, KeepsTheRoom, Seen
<1> QED BY <1>3, <1>4

\* Goto, and what else leaves the ads, the audit rows and the locks.
LEMMA GoesInRoom ==
  ASSUME DeskIInv, NEW s \in Session, KeepsTheRoom(s),
         \A u \in User : userLock[u] = s => userLock'[u] = s, UNCHANGED rowLock,
         NEW p, NEW q, \/ Goto(s, p)
                       \/ ses' = [ses EXCEPT ![s].at = p, ![s].rate = q]
                       \/ ses' = [ses EXCEPT ![s].rate = q, ![s].at = p]
  PROVE  HoldsOn(s)
<1>1. ses[s] \in Ses /\ ses \in [Session -> Ses]  BY DEF DeskIInv, DeskTypeOK
<1>2. /\ ses'[s].work = ses[s].work /\ ses'[s].todo = ses[s].todo
      /\ ses'[s].held = ses[s].held /\ ses'[s].notes = ses[s].notes
      /\ ses'[s].seen = ses[s].seen
  BY <1>1 DEF Goto, Ses
<1> QED BY <1>2, Rests

LEMMA VerdictsInRoom ==
  ASSUME DeskIInv, NEW s \in Session, KeepsTheRoom(s),
         \/ Approve(s) \/ Judge(s) \/ LockOwner(s) \/ Reject(s) \/ Flag(s) \/ SoftDelete(s)
         \/ ToOwner(s)
  PROVE  HoldsOn(s)
<1>1. Pc(s) \in {"work", "judge", "owner"} /\ UNCHANGED rowLock /\ ses[s].held # {}
  <2>1. Pc(s) \in {"work", "judge", "owner"} /\ UNCHANGED rowLock
    BY DEF Approve, Judge, LockOwner, Reject, Flag, SoftDelete, ToOwner, locks
  <2> QED BY <2>1, InHand
<1>2. \A u \in User : userLock[u] = s => userLock'[u] = s
  <2>1. CASE LockOwner(s)
    <3>1. userLock \in [User -> Session \cup {None}]  BY DEF DeskIInv, DeskTypeOK
    <3> QED BY <2>1, <3>1 DEF LockOwner
  <2>2. CASE ~LockOwner(s)
    BY <2>2 DEF Approve, Judge, Reject, Flag, SoftDelete, ToOwner, locks
  <2> QED BY <2>1, <2>2
<1>3. \A a \in Ad : NewlyOut(s, a) => userLock'[Owner[a]] = s  BY <1>2, StillLocked
<1>4. Mine(s) \in AdRec /\ CheckConstraints(Mine(s).row)  BY <1>1, AtHand
<1>5. /\ Moved(Mine(s), "rejected").row.status = "rejected"
      /\ Moved(Mine(s), "deleted").row.status = "deleted"
  BY <1>4, MovedRow DEF Target
<1>6. CASE Skip(s)
  <2>1. Leave(s, Mine(s), {}, 0)  BY <1>6 DEF Skip
  <2> QED BY <1>1, <1>3, <2>1, LeavesRoom
<1>7. CASE \E p : Goto(s, p)  BY <1>1, <1>2, <1>7, GoesInRoom
<1>8. CASE Fail(s)  BY <1>1, <1>3, <1>8, FailsInRoom
<1>9. CASE \E notes : Leave(s, Mine(s), notes, 1)
  <2>1. PICK notes : Leave(s, Mine(s), notes, 1)  BY <1>9
  <2> QED BY <1>1, <1>3, <2>1, LeavesRoom
<1>10. CASE \/ Leave(s, Moved(Mine(s), "rejected"), Note("reject", Here(s), s), 1)
            \/ Leave(s, Moved(Mine(s), "deleted"), Note("delete", Here(s), s), 1)
  BY <1>1, <1>3, <1>5, <1>10, LeavesRoom
<1>11. CASE Approve(s)  BY <1>6, <1>7, <1>11 DEF Approve
<1>12. CASE Judge(s)  BY <1>7, <1>8, <1>12 DEF Judge
<1>13. CASE LockOwner(s) \/ ToOwner(s)  BY <1>7, <1>13 DEF LockOwner, ToOwner
<1>14. CASE Reject(s)  BY <1>6, <1>9, <1>10, <1>14 DEF Reject
<1>15. CASE Flag(s)  BY <1>9, <1>15 DEF Flag
<1>16. CASE SoftDelete(s)  BY <1>10, <1>16 DEF SoftDelete
<1> QED BY <1>11, <1>12, <1>13, <1>14, <1>15, <1>16

\* The count under the owner's lock leaves room for one more.
LEMMA OneMore ==
  ASSUME DeskIInv, NEW s \in Session, ses[s].held # {}, ~Full(s, Here(s)),
         NEW S \in SUBSET Ad, S \subseteq Active(s, Here(s)) \cup {Here(s)}
  PROVE  Cardinality(S) <= MaxAds
<1> DEFINE h == Here(s)
           A == Active(s, h)
<1>1. h \in Ad  BY AtHand
<1>2. A \subseteq Ad  BY DEF Active
<1>3. IsFiniteSet(A) /\ Cardinality(A) \in Nat  BY <1>2, DeskFinite, FS_Subset, FS_CardinalityType
<1>4. ~(Cardinality(A) >= MaxAds) /\ MaxAds \in Nat  BY DeskBounds DEF Full
<1> HIDE DEF A, h
<1>5. /\ IsFiniteSet(A \cup {h}) /\ Cardinality(A \cup {h}) \in Nat
      /\ Cardinality(A \cup {h}) <= Cardinality(A) + 1
  <2>1. IsFiniteSet(A \cup {h})
        /\ Cardinality(A \cup {h}) = IF h \in A THEN Cardinality(A) ELSE Cardinality(A) + 1
    BY <1>3, FS_AddElement
  <2> QED BY <1>3, <2>1
<1>6. IsFiniteSet(S) /\ Cardinality(S) <= Cardinality(A \cup {h})
  BY <1>5, FS_Subset DEF A, h
<1>7. Cardinality(S) \in Nat  BY <1>6, FS_CardinalityType
<1> QED BY <1>3, <1>4, <1>5, <1>6, <1>7

LEMMA PublishInRoom ==
  ASSUME DeskIInv, NEW s \in Session, KeepsTheRoom(s), OnlyMoves(s), Publish(s)
  PROVE  KeepsTheRoom(s)'
<1>0. PICK h, u, r, notes : /\ h = Here(s) /\ u = Owner[h] /\ r = Moved(Mine(s), "published")
                            /\ notes = Note("publish", h, s)
  OBVIOUS
<1> DEFINE passes == ~Full(s, h) /\ MayTransition(Mine(s).row, "published")
           earlier == \E b \in Ad : Owner[b] = u /\ <<"publish", b, s>> \in ses[s].notes
<1>1. /\ Pc(s) = "count" /\ UNCHANGED rowLock /\ UNCHANGED <<ads, req, overwritten>>
      /\ IF passes THEN Leave(s, r, notes, 1)
         ELSE IF Way(s) = "form" THEN Skip(s) ELSE Fail(s)
      /\ userLock' = IF passes \/ earlier THEN userLock ELSE [userLock EXCEPT ![u] = None]
      /\ ses[s] \in Ses /\ ses \in [Session -> Ses]
      /\ userLock \in [User -> Session \cup {None}]
  BY <1>0 DEF Publish, desk, DeskIInv, DeskTypeOK
<1>2. ses[s].held # {}  BY <1>1, InHand
<1>3. /\ h \in ses[s].held /\ h \in Ad /\ rowLock[h] = s /\ u \in User
      /\ Way(s) = "form" => Locked(s) = {h}
      /\ userLock[u] = s
  <2>1. /\ h \in ses[s].held /\ h \in Ad /\ rowLock[h] = s
        /\ Way(s) = "form" => h = TheAd(s)
    BY <1>0, <1>2, AtHand DEF Locked
  <2>2. Way(s) = "form" => Locked(s) \subseteq {TheAd(s)}  BY DEF DeskIInv, Knows, KnowsItsForm
  <2>3. userLock[u] = s  BY <1>0, <1>1 DEF DeskIInv, Knows, KnowsItsBans, Pc, Here
  <2> QED BY <2>1, <2>2, <2>3, <1>0, DeskOwners DEF Locked
<1>4. CASE passes
  <2>1. /\ ses'[s].work = [ses[s].work EXCEPT ![h] = r]
        /\ ses'[s].notes = ses[s].notes \cup notes /\ ses'[s].held = ses[s].held \ {h}
        /\ ses'[s].todo = ses[s].todo /\ ses'[s].seen = ses[s].seen /\ userLock' = userLock
    BY <1>0, <1>1, <1>4 DEF Leave, Ses
  <2>2. \A a \in Ad : ses'[s].work[a] = IF a = h THEN r ELSE ses[s].work[a]
    BY <1>1, <1>3, <2>1 DEF Ses
  <2>3. <<"publish", h, s>> \in notes  BY <1>0 DEF Note
  <2>4. ASSUME NEW a \in Ad \ {h}, NewlyOut(s, a)'  PROVE NewlyOut(s, a)
    BY <1>1, <2>1, <2>2, <2>4 DEF NewlyOut, Status, Stale, Way, TheAd
  <2>5. \A b \in Ad \ {h} : Seen(s, b)' = Seen(s, b)  BY <1>1, <2>2 DEF Seen
  <2>6. Cardinality(Out(s, u))' <= MaxAds
    <3> DEFINE now == Out(s, u)'
    <3>1. now \subseteq Active(s, h) \cup {h}  BY <1>0, <1>1, <2>5 DEF Out, Active
    <3>2. now \subseteq Ad  BY DEF Out
    <3> HIDE DEF now
    <3>3. Cardinality(now) <= MaxAds  BY <1>2, <1>4, <3>1, <3>2, <1>0, OneMore
    <3> QED BY <3>3 DEF now
  <2>7. ASSUME NEW v \in User \ {u}  PROVE Out(s, v)' = Out(s, v)
    BY <1>0, <1>1, <2>5 DEF Out
  <2>8. Locked(s)' = Locked(s)  BY <1>1 DEF Locked
  <2>9. ses'[s].todo \cup Locked(s)' \subseteq req'[s].ads
    BY <1>1, <2>1, <2>8 DEF KeepsTheRoom
  <2>10. ASSUME NEW a \in Ad, NewlyOut(s, a)'
         PROVE  /\ a \notin ses'[s].held /\ <<"publish", a, s>> \in ses'[s].notes
                /\ userLock'[Owner[a]] = s
                /\ Cardinality(Out(s, Owner[a]))' <= MaxAds
    <3>1. CASE a = h  BY <1>0, <1>3, <2>1, <2>3, <2>6, <3>1
    <3>2. CASE a # h
      <4>1. /\ a \notin ses[s].held /\ <<"publish", a, s>> \in ses[s].notes
            /\ userLock[Owner[a]] = s /\ Cardinality(Out(s, Owner[a])) <= MaxAds
        BY <2>4, <2>10, <3>2 DEF KeepsTheRoom
      <4>2. Cardinality(Out(s, Owner[a]))' <= MaxAds
        <5>1. CASE Owner[a] = u  BY <2>6, <5>1
        <5>2. CASE Owner[a] # u  BY <2>7, <4>1, <5>2, DeskOwners
        <5> QED BY <5>1, <5>2
      <4> QED BY <2>1, <4>1, <4>2
    <3> QED BY <3>1, <3>2
  <2> QED BY <2>9, <2>10 DEF KeepsTheRoom
<1>5. CASE ~passes
  <2>1. \A a \in Ad : NewlyOut(s, a) => userLock'[Owner[a]] = s
    <3> SUFFICES ASSUME NEW a \in Ad, NewlyOut(s, a)  PROVE userLock'[Owner[a]] = s
      OBVIOUS
    <3>1. <<"publish", a, s>> \in ses[s].notes /\ userLock[Owner[a]] = s  BY DEF KeepsTheRoom
    <3>2. CASE Owner[a] = u  BY <1>1, <3>1, <3>2
    <3>3. CASE Owner[a] # u  BY <1>1, <3>1, <3>3
    <3> QED BY <3>2, <3>3
  <2>2. CASE Way(s) = "form"
    <3>1. Leave(s, Mine(s), {}, 0)  BY <1>1, <1>5, <2>2 DEF Skip
    <3>2. HoldsOn(s)  BY <1>1, <1>2, <2>1, <3>1, LeavesRoom
    <3> QED BY <3>2, RoomHeld
  <2>3. CASE Way(s) # "form"
    <3>1. HoldsOn(s)  BY <1>1, <1>2, <1>5, <2>1, <2>3, FailsInRoom
    <3> QED BY <3>1, RoomHeld
  <2> QED BY <2>2, <2>3
<1> QED BY <1>4, <1>5

\* A request that bans brings no ad to the public.
LEMMA BansInRoom ==
  ASSUME DeskIInv, NEW s \in Session, KeepsTheRoom(s), BanOwner(s) \/ Aim(s) \/ BanNext(s)
  PROVE  HoldsOn(s)
<1>1. /\ Deed(s) = "ban" /\ UNCHANGED rowLock /\ ses[s] \in Ses /\ ses \in [Session -> Ses]
  <2>1. Pc(s) = "aim" => Deed(s) = "ban"  BY DEF DeskIInv, Knows, KnowsItsWay, Pc
  <2> QED BY <2>1 DEF BanOwner, Aim, BanNext, locks, DeskIInv, DeskTypeOK
<1>2. \A a \in Ad : ~NewlyOut(s, a)
  <2>1. \A a \in Ad : <<"publish", a, s>> \notin ses[s].notes
    BY <1>1 DEF DeskIInv, Knows, KnowsItsBans
  <2> QED BY <2>1 DEF KeepsTheRoom
<1>3. /\ ses'[s].work = ses[s].work /\ ses'[s].todo = ses[s].todo
      /\ ses'[s].seen = ses[s].seen
  <2>1. CASE BanOwner(s)
    <3>1. CASE Skip(s)
      <4>1. ses[s].held # {}  BY <2>1, InHand DEF BanOwner
      <4>2. Here(s) \in Ad  BY <4>1, AtHand
      <4> QED BY <1>1, <3>1, <4>2 DEF Skip, Leave, Mine, Ses
    <3>2. CASE ~Skip(s)  BY <1>1, <2>1, <3>2 DEF BanOwner, Ses
    <3> QED BY <3>1, <3>2
  <2>2. CASE Aim(s)  BY <1>1, <2>2 DEF Aim, Ses
  <2>3. CASE BanNext(s)
    <3>1. PICK u \in ses[s].aim :
            \/ ses' = [ses EXCEPT ![s].aim = @ \ {u}, ![s].at = Visited(s, u)]
            \/ ses' = [ses EXCEPT ![s].aim = @ \ {u}, ![s].at = Visited(s, u),
                                  ![s].bans = @ \cup {u}, ![s].count = @ + 1]
      BY <2>3 DEF BanNext
    <3> QED BY <1>1, <3>1 DEF Ses
  <2> QED BY <2>1, <2>2, <2>3
<1>4. Locked(s)' = Locked(s)  BY <1>1 DEF Locked
<1> QED BY <1>1, <1>2, <1>3, <1>4 DEF HoldsOn, KeepsTheRoom, Seen

LEMMA PricesInRoom ==
  ASSUME DeskIInv, NEW s \in Session, KeepsTheRoom(s),
         \/ NeedRate(s) \/ CacheGet(s) \/ Query(s) \/ CacheSet(s) \/ Recompute(s)
         \/ SaveRate(s) \/ CommitRate(s)
  PROVE  HoldsOn(s)
<1>1. UNCHANGED rowLock /\ UNCHANGED userLock
  BY DEF NeedRate, CacheGet, Query, CacheSet, Recompute, SaveRate, CommitRate, locks
<1>2. \A a \in Ad : NewlyOut(s, a) => userLock'[Owner[a]] = s  BY <1>1, StillLocked
<1>3. CASE NeedRate(s) /\ Skip(s)
  <2>1. Leave(s, Mine(s), {}, 0)  BY <1>3 DEF Skip
  <2>2. ses[s].held # {}  BY <1>3, InHand DEF NeedRate
  <2> QED BY <1>1, <1>2, <2>1, <2>2, LeavesRoom
<1>4. CASE Recompute(s)
  <2>1. PICK r : r = [Mine(s) EXCEPT !.norm = Norm(s, Mine(s).amount)]  OBVIOUS
  <2>2. Leave(s, r, {}, 0) /\ ses[s].held # {}  BY <1>4, <2>1, InHand DEF Recompute
  <2>3. r.row = Mine(s).row
    <3>1. Mine(s) \in AdRec  BY <2>2, AtHand
    <3> QED BY <2>1, <3>1 DEF AdRec
  <2> QED BY <1>1, <1>2, <2>2, <2>3, LeavesRoom
<1>5. CASE Query(s)
  <2>1. ses' = [ses EXCEPT ![s].rate = rate, ![s].at = "fill"]  BY <1>5 DEF Query
  <2> QED BY <1>1, <2>1, GoesInRoom
<1>6. CASE CacheGet(s)
  <2>1. Goto(s, "query") \/ ses' = [ses EXCEPT ![s].rate = cached, ![s].at = "apply"]
    BY <1>6 DEF CacheGet
  <2> QED BY <1>1, <2>1, GoesInRoom
<1>7. CASE \E p : Goto(s, p)  BY <1>1, <1>7, GoesInRoom
<1>8. CASE NeedRate(s)  BY <1>3, <1>7, <1>8 DEF NeedRate
<1>9. CASE CacheSet(s) \/ SaveRate(s) \/ CommitRate(s)
  BY <1>7, <1>9 DEF CacheSet, SaveRate, CommitRate
<1> QED BY <1>4, <1>5, <1>6, <1>8, <1>9

LEMMA EditInRoom ==
  ASSUME DeskIInv, NEW s \in Session, KeepsTheRoom(s), Edit(s)  PROVE HoldsOn(s)
<1> DEFINE h == Here(s)
           r == Changed(s, Mine(s))
<1>1. /\ Pc(s) = "apply" /\ Deed(s) = "edit" /\ UNCHANGED <<rowLock, userLock>>
      /\ ses[s] \in Ses /\ ses \in [Session -> Ses]
  BY DEF Edit, locks, DeskIInv, DeskTypeOK
<1>2. ses[s].held # {} /\ Way(s) = "seller"  BY <1>1, InHand, WaysOfDeeds
<1>3. h \in ses[s].held /\ h \in Ad /\ rowLock[h] = s /\ Mine(s) \in AdRec
      /\ CheckConstraints(Mine(s).row)
  BY <1>2, AtHand DEF Locked
<1>4. \A a \in Ad : ~NewlyOut(s, a)
  <2>1. Locked(s) \subseteq {h}
    <3>1. PICK a \in Ad : req[s].ads = {a}  BY <1>2, WaysOfDeeds
    <3>2. h \in Locked(s) /\ Locked(s) \subseteq {a}  BY <1>3, <3>1 DEF KeepsTheRoom, Locked
    <3> QED BY <3>2
  <2> QED BY <1>3, <2>1 DEF KeepsTheRoom, NewlyOut, Locked
<1>5. r.row = Mine(s).row  BY <1>3 DEF Changed, AdRec
<1>6. CASE Resubmits(s, Mine(s))
  <2>1. PICK score : ses' = [ses EXCEPT ![s].at = "judge", ![s].notes = score,
                               ![s].work[h] = Moved(r, "on_moderation")]
    BY <1>6 DEF Edit
  <2>2. /\ ses'[s].work = [ses[s].work EXCEPT ![h] = Moved(r, "on_moderation")]
        /\ ses'[s].todo = ses[s].todo /\ ses'[s].seen = ses[s].seen
    BY <1>1, <2>1 DEF Ses
  <2>3. \A a \in Ad : ses'[s].work[a] =
                        IF a = h THEN Moved(r, "on_moderation") ELSE ses[s].work[a]
    BY <1>1, <1>3, <2>2 DEF Ses
  <2>4. Moved(r, "on_moderation").row.status = "on_moderation"
    BY <1>3 DEF Moved, TransitionTo, Changed, AdRec
  <2>5. Locked(s)' = Locked(s)  BY <1>1 DEF Locked
  <2> HIDE DEF h, r
  <2> QED BY <1>1, <1>4, <2>2, <2>3, <2>4, <2>5 DEF HoldsOn, KeepsTheRoom, Seen
<1>7. CASE ~Resubmits(s, Mine(s))
  <2>1. PICK score : Leave(s, r, score, 0)  BY <1>7 DEF Edit
  <2> HIDE DEF r
  <2> QED BY <1>1, <1>2, <1>4, <1>5, <2>1, LeavesRoom
<1> QED BY <1>6, <1>7

LEMMA PeekInRoom ==
  ASSUME DeskIInv, NEW s \in Session, KeepsTheRoom(s), Peek(s)  PROVE HoldsOn(s)
<1>1. Pc(s) = "peek" /\ UNCHANGED rowLock /\ ses[s] \in Ses /\ ses \in [Session -> Ses]
  BY DEF Peek, locks, DeskIInv, DeskTypeOK
<1>2. Locked(s) = {}  BY <1>1 DEF DeskIInv, Knows, KnowsItsWay, Pc
<1>3. ses'[s].todo = ses[s].todo
  <2>1. CASE \E p : Goto(s, p)  BY <1>1, <2>1 DEF Goto, Ses
  <2>2. CASE ses' = [ses EXCEPT ![s].at = "stamp",
                                ![s].seen.row.status = ads[TheAd(s)].row.status]
    BY <1>1, <2>2 DEF Ses
  <2> QED BY <2>1, <2>2 DEF Peek
<1> QED BY <1>1, <1>2, <1>3, FreeHand DEF KeepsTheRoom

\* What a form writes is new only if what it has seen is old.
LEMMA SaveFormInRoom ==
  ASSUME DeskIInv, NEW s \in Session, KeepsTheRoom(s), OnlyMoves(s), SaveForm(s)
  PROVE  KeepsTheRoom(s)'
<1>0. PICK a, w : a = TheAd(s) /\ w = Typed(s)  OBVIOUS
<1>1. /\ Pc(s) \in {"save", "stamp"} /\ Way(s) = "form"
      /\ UNCHANGED <<ads, req, overwritten, userLock>>
      /\ ses[s] \in Ses /\ ses \in [Session -> Ses]
      /\ rowLock \in [Ad -> Session \cup {None}]
  BY DEF SaveForm, desk, DeskIInv, DeskTypeOK
<1>2. /\ a \in Ad /\ req[s].ads = {a} /\ Locked(s) = {} /\ ses[s].seen \in AdRec
  BY <1>0, <1>1, FormFacts
<1>3. w.row.status = ses[s].seen.row.status  BY <1>0, <1>2, TypedRow
<1>4. CASE ~CheckConstraints(w.row)
  <2>1. Goto(s, "end") /\ UNCHANGED rowLock  BY <1>0, <1>4 DEF SaveForm
  <2>2. HoldsOn(s)  BY <1>1, <2>1, GoesInRoom
  <2> QED BY <2>2, RoomHeld
<1>5. CASE CheckConstraints(w.row)
  <2>1. PICK score :
          /\ rowLock' = [rowLock EXCEPT ![a] = s]
          /\ ses' = [ses EXCEPT ![s].work[a] = w, ![s].held = {a}, ![s].notes = score,
                                ![s].at = IF @ = "stamp" THEN "route" ELSE "commit"]
    BY <1>0, <1>5 DEF SaveForm
  <2>2. /\ ses'[s].work[a] = w /\ ses'[s].todo = ses[s].todo /\ ses'[s].seen = ses[s].seen
    BY <1>1, <1>2, <2>1 DEF Ses
  <2>3. Locked(s)' = {a}  BY <1>1, <1>2, <2>1 DEF Locked
  <2>4. ASSUME NEW b \in Ad, NewlyOut(s, b)'  PROVE FALSE
    <3>1. b = a  BY <2>3, <2>4 DEF NewlyOut, Locked
    <3>2. ses[s].seen = ads[a]
      BY <1>0, <1>1, <2>2, <2>4 DEF NewlyOut, Stale, Way, TheAd
    <3>3. w.row.status = "published" /\ ads[a].row.status # "published"
      BY <1>1, <2>2, <2>4, <3>1 DEF NewlyOut, Status
    <3> QED BY <1>3, <3>2, <3>3
  <2> QED BY <1>1, <1>2, <2>2, <2>3, <2>4 DEF KeepsTheRoom
<1> QED BY <1>4, <1>5

LEMMA RouteInRoom ==
  ASSUME DeskIInv, NEW s \in Session, KeepsTheRoom(s), Route(s)  PROVE HoldsOn(s)
<1>0. PICK to, w : to = req[s].to /\ w = Moved(Mine(s), to)  OBVIOUS
<1>1. Pc(s) = "route" /\ UNCHANGED <<rowLock, userLock>> /\ ses[s].held # {}
  BY InHand DEF Route, locks
<1>2. \A a \in Ad : NewlyOut(s, a) => userLock'[Owner[a]] = s  BY <1>1, StillLocked
<1>3. Mine(s) \in AdRec /\ CheckConstraints(Mine(s).row)  BY <1>1, AtHand
<1>4. CASE Skip(s)
  <2>1. Leave(s, Mine(s), {}, 0)  BY <1>4 DEF Skip
  <2> QED BY <1>1, <1>2, <2>1, LeavesRoom
<1>5. CASE Goto(s, "owner")  BY <1>1, <1>5, GoesInRoom
<1>6. CASE to # "published" /\ MayTransition(Mine(s).row, to) /\ \E notes : Leave(s, w, notes, 0)
  <2>1. PICK notes : Leave(s, w, notes, 0)  BY <1>6
  <2>2. to \in Target
    BY <1>6 DEF MayTransition, ALLOWED_TRANSITIONS, AdStatus, Target
  <2>3. w.row.status # "published"  BY <1>0, <1>3, <1>6, <2>2, MovedRow
  <2> QED BY <1>1, <1>2, <2>1, <2>3, LeavesRoom
<1>7. CASE Mine(s).row.status # to /\ to # "published" /\ MayTransition(Mine(s).row, to)
  BY <1>0, <1>6, <1>7 DEF Route
<1>8. CASE ~(Mine(s).row.status # to /\ to # "published" /\ MayTransition(Mine(s).row, to))
  BY <1>0, <1>4, <1>5, <1>8 DEF Route
<1> QED BY <1>7, <1>8

\* The ends but the commit: nothing is locked any more, or the ad has failed.
LEMMA GiveUpInRoom ==
  ASSUME DeskIInv, NEW s \in Session, KeepsTheRoom(s), OnlyMoves(s), GiveUp(s)
  PROVE  KeepsTheRoom(s)'
<1>1. ses[s] \in Ses /\ ses \in [Session -> Ses] /\ UNCHANGED req
  BY DEF GiveUp, DeskIInv, DeskTypeOK
<1>2. ses[s].todo \subseteq req[s].ads  BY DEF KeepsTheRoom
<1>3. CASE Pc(s) = "owner" /\ Deed(s) \in {"approve", "edit"}
  <2>1. Fail(s) /\ UNCHANGED <<rowLock, userLock>> /\ ses[s].held # {}
    BY <1>3, InHand DEF GiveUp, locks
  <2>2. HoldsOn(s)  BY <2>1, StillLocked, FailsInRoom
  <2> QED BY <2>2, RoomHeld
<1>4. CASE Pc(s) # "owner" /\ Way(s) = "api"
  <2>1. PICK left \in SUBSET req[s].ads : Over(s, 0, left)
    <3>1. ses[s].todo \ {Min(ses[s].todo)} \in SUBSET req[s].ads  BY <1>2
    <3> QED BY <1>2, <1>4, <3>1 DEF GiveUp
  <2>2. Release(s) /\ ses'[s].todo = left  BY <1>1, <2>1 DEF Over, Fresh
  <2> QED BY <1>1, <2>2, Empties
<1>5. CASE Quit(s)
  <2>1. Release(s) /\ ses'[s].todo = {}  BY <1>1, <1>5 DEF Quit, Fresh
  <2> QED BY <1>1, <2>1, Empties
<1> QED BY <1>3, <1>4, <1>5 DEF GiveUp

LEMMA NoCacheInRoom ==
  ASSUME DeskIInv, NEW s \in Session, KeepsTheRoom(s), OnlyMoves(s), NoCache(s)
  PROVE  KeepsTheRoom(s)'
<1>1. ses[s] \in Ses /\ ses \in [Session -> Ses] /\ UNCHANGED req
  BY DEF NoCache, DeskIInv, DeskTypeOK
<1>2. CASE Deed(s) = "edit"
  <2>1. /\ UNCHANGED <<rowLock, userLock>>
        /\ ses' = [ses EXCEPT ![s].rate = None, ![s].at = "apply"]
    BY <1>2 DEF NoCache, locks
  <2>2. HoldsOn(s)  BY <2>1, GoesInRoom
  <2> QED BY <2>2, RoomHeld
<1>3. CASE Deed(s) # "edit"
  <2>1. Quit(s)  BY <1>3 DEF NoCache
  <2>2. Release(s) /\ ses'[s].todo = {}  BY <1>1, <2>1 DEF Quit, Fresh
  <2> QED BY <1>1, <2>2, Empties
<1> QED BY <1>2, <1>3

\* What commits is public already, or has its room; or a form puts it back.
LEMMA CommitOut ==
  ASSUME DeskIInv, NEW s \in Session, KeepsTheRoom(s), Commit(s),
         NEW b \in Ad \ overwritten', (Status(b) = "published")', Status(b) # "published"
  PROVE  NewlyOut(s, b)
<1>1. /\ ads' = [a \in Ad |-> IF rowLock[a] = s THEN ses[s].work[a] ELSE ads[a]]
      /\ overwritten' = IF Way(s) = "form" /\ ses[s].seen # ads[TheAd(s)]
                        THEN overwritten \cup req[s].ads ELSE overwritten
  BY CommitFacts
<1>2. rowLock[b] = s /\ ses[s].work[b].row.status = "published"  BY <1>1 DEF Status
<1>3. b \in req[s].ads  BY <1>2 DEF KeepsTheRoom, Locked
<1>4. ~Stale(s)  BY <1>1, <1>3 DEF Stale
<1> QED BY <1>2, <1>4 DEF NewlyOut

LEMMA CommitInRoom ==
  ASSUME DeskIInv, RoomInv, NEW s \in Session, Commit(s)  PROVE RoomInv'
<1>1. /\ ads' = [a \in Ad |-> IF rowLock[a] = s THEN ses[s].work[a] ELSE ads[a]]
      /\ overwritten \subseteq overwritten' /\ UNCHANGED req
      /\ Over(s, ses[s].count, ses[s].todo)
  BY CommitFacts
<1>2. /\ ses \in [Session -> Ses] /\ KeepsTheRoom(s)
      /\ rowLock \in [Ad -> Session \cup {None}] /\ userLock \in [User -> Session \cup {None}]
  BY DEF DeskIInv, DeskTypeOK, RoomInv
<1>3. /\ Release(s) /\ ses'[s].todo = ses[s].todo /\ \A t \in Session \ {s} : ses'[t] = ses[t]
  BY <1>1, <1>2 DEF Over, Fresh
<1>4. KeepsTheRoom(s)'
  <2>1. ses[s].todo \subseteq req[s].ads  BY <1>2 DEF KeepsTheRoom
  <2> QED BY <1>1, <1>3, <2>1, Empties
<1>5. ASSUME NEW t \in Session \ {s}  PROVE KeepsTheRoom(t)'
  <2>1. KeepsTheRoom(t) /\ ses'[t] = ses[t]  BY <1>3 DEF RoomInv
  <2>2. /\ \A a \in Ad : rowLock'[a] = t <=> rowLock[a] = t
        /\ \A u \in User : userLock[u] = t => userLock'[u] = t
    BY <1>2, <1>3, DeskNone DEF Release
  <2>3. Locked(t)' = Locked(t)  BY <2>2 DEF Locked
  <2>4. \A a \in Locked(t) : a \in Ad /\ ads'[a] = ads[a]  BY <1>1 DEF Locked
  <2>5. ASSUME NEW a \in Ad, NewlyOut(t, a)'  PROVE NewlyOut(t, a)
    <3>1. rowLock[a] = t /\ a \in Locked(t)  BY <2>2, <2>5 DEF NewlyOut, Locked
    <3>2. Way(t) = "form" => TheAd(t) = a
      <4>1. a \in req[t].ads  BY <2>1, <3>1 DEF KeepsTheRoom
      <4> QED BY <4>1, FormFacts
    <3>3. Stale(t)' = Stale(t)  BY <1>1, <2>1, <2>4, <3>1, <3>2 DEF Stale, Way, TheAd
    <3> QED BY <2>1, <2>4, <2>5, <3>1, <3>3 DEF NewlyOut, Status
  <2>6. ASSUME NEW u \in User, userLock[u] = t  PROVE Out(t, u)' \subseteq Out(t, u)
    <3> SUFFICES ASSUME NEW b \in Ad \ overwritten', Owner[b] = u,
                        (Seen(t, b).row.status = "published")'
                 PROVE  Seen(t, b).row.status = "published"
      BY <1>1 DEF Out
    <3>1. CASE rowLock[b] = t  BY <2>1, <2>2, <3>1 DEF Seen
    <3>2. CASE rowLock[b] # t
      <4>1. Seen(t, b) = ads[b] /\ (Status(b) = "published")'
        BY <2>2, <3>2 DEF Seen, Status
      <4>2. userLock[u] # s  BY <2>6
      <4>3. ~NewlyOut(s, b)  BY <1>2, <4>2 DEF KeepsTheRoom
      <4> QED BY <1>2, <4>1, <4>3, CommitOut DEF Status
    <3> QED BY <3>1, <3>2
  <2>7. ASSUME NEW a \in Ad, NewlyOut(t, a)'
        PROVE  Cardinality(Out(t, Owner[a]))' <= MaxAds
    <3> DEFINE u == Owner[a]
               now == Out(t, u)'
    <3>1. u \in User  BY DeskOwners
    <3>2. Cardinality(Out(t, u)) <= MaxAds /\ userLock[u] = t
      BY <2>1, <2>5, <2>7 DEF KeepsTheRoom
    <3>3. now \subseteq Out(t, u) /\ IsFiniteSet(Out(t, u)) /\ Cardinality(Out(t, u)) \in Nat
      BY <2>6, <3>1, <3>2, OutIsFinite
    <3> HIDE DEF now
    <3>4. IsFiniteSet(now) /\ Cardinality(now) <= Cardinality(Out(t, u))
      BY <3>3, FS_Subset
    <3>5. Cardinality(now) \in Nat /\ MaxAds \in Nat  BY <3>4, FS_CardinalityType, DeskBounds
    <3>6. Cardinality(now) <= MaxAds  BY <3>2, <3>3, <3>4, <3>5
    <3> QED BY <3>6 DEF now
  <2> QED BY <1>1, <2>1, <2>2, <2>3, <2>5, <2>7, DeskOwners DEF KeepsTheRoom
<1>6. ASSUME NEW u \in User
      PROVE  Cardinality({a \in Ad \ overwritten : Owner[a] = u /\ Status(a) = "published"})'
               <= MaxAds
  <2> DEFINE old == {a \in Ad \ overwritten : Owner[a] = u /\ Status(a) = "published"}
             now == old'
  <2>1. PICK S \in {old, Out(s, u)} : now \subseteq S /\ Cardinality(S) <= MaxAds
    <3>1. CASE \E b \in now : Status(b) # "published"
      <4>1. PICK b \in now : Status(b) # "published"  BY <3>1
      <4>2. NewlyOut(s, b) /\ Owner[b] = u /\ b \in Ad  BY <1>2, <4>1, CommitOut
      <4>3. Cardinality(Out(s, u)) <= MaxAds  BY <1>2, <4>2 DEF KeepsTheRoom
      <4>4. now \subseteq Out(s, u)  BY <1>1 DEF Out, Seen, Status
      <4> QED BY <4>3, <4>4
    <3>2. CASE \A b \in now : Status(b) = "published"
      <4>1. now \subseteq old  BY <1>1, <3>2
      <4>2. Cardinality(old) <= MaxAds  BY DEF RoomInv, CapKept
      <4> QED BY <4>1, <4>2
    <3> QED BY <3>1, <3>2
  <2>2. S \subseteq Ad  BY <2>1 DEF Out
  <2>3. IsFiniteSet(S)  BY <2>2, DeskFinite, FS_Subset
  <2> HIDE DEF now, old
  <2>4. IsFiniteSet(now) /\ Cardinality(now) <= Cardinality(S)  BY <2>1, <2>3, FS_Subset
  <2>5. Cardinality(now) \in Nat /\ Cardinality(S) \in Nat /\ MaxAds \in Nat
    BY <2>3, <2>4, FS_CardinalityType, DeskBounds
  <2>6. Cardinality(now) <= MaxAds  BY <2>1, <2>4, <2>5
  <2> QED BY <2>6 DEF now, old
<1>7. CapKept'  BY <1>6 DEF CapKept
<1> QED BY <1>4, <1>5, <1>7 DEF RoomInv

\* All steps but the commits leave the public ads and what the others hold.
LEMMA StepsMove ==
  ASSUME DeskIInv, NEW s \in Session, Go(s) \/ NoCache(s), ~Commit(s)
  PROVE  OnlyMoves(s)
<1>1. /\ rowLock \in [Ad -> Session \cup {None}] /\ userLock \in [User -> Session \cup {None}]
      /\ ses \in [Session -> Ses]
  BY DEF DeskIInv, DeskTypeOK
<1>2. UNCHANGED <<ads, overwritten, req>>
  BY DEF Go, NoCache, Begin, Lock, Approve, Judge, LockOwner, Publish, Reject, Flag, SoftDelete,
         ToOwner, BanOwner, Aim, BanNext, NeedRate, CacheGet, Query, CacheSet, Recompute,
         SaveRate, CommitRate, Edit, Peek, SaveForm, Route, GiveUp, desk
<1>3. \A t \in Session \ {s} : ses'[t] = ses[t]
  <2>1. CASE Begin(s) \/ Lock(s) \/ Approve(s) \/ Judge(s) \/ LockOwner(s) \/ Publish(s)
    BY <1>1, <2>1
       DEF Begin, Lock, Approve, Judge, LockOwner, Publish, Fail, Skip, Leave, Goto
  <2>2. CASE \/ Reject(s) \/ Flag(s) \/ SoftDelete(s) \/ ToOwner(s) \/ BanOwner(s) \/ Aim(s)
             \/ BanNext(s)
    BY <1>1, <2>2 DEF Reject, Flag, SoftDelete, ToOwner, BanOwner, Aim, BanNext, Skip, Leave, Goto
  <2>3. CASE \/ NeedRate(s) \/ CacheGet(s) \/ Query(s) \/ CacheSet(s) \/ Recompute(s)
             \/ SaveRate(s) \/ CommitRate(s)
    BY <1>1, <2>3 DEF NeedRate, CacheGet, Query, CacheSet, Recompute, SaveRate, CommitRate,
                      Skip, Leave, Goto
  <2>4. CASE Edit(s) \/ Peek(s) \/ SaveForm(s) \/ Route(s)
    BY <1>1, <2>4 DEF Edit, Peek, SaveForm, Route, Skip, Leave, Goto
  <2>5. CASE GiveUp(s) \/ NoCache(s)
    BY <1>1, <2>5 DEF GiveUp, NoCache, Fail, Skip, Leave, Over, Quit
  <2> QED BY <2>1, <2>2, <2>3, <2>4, <2>5 DEF Go
<1>4. \/ UNCHANGED rowLock \/ Release(s)
      \/ \E a \in Ad : rowLock[a] = None /\ rowLock' = [rowLock EXCEPT ![a] = s]
  <2>1. CASE Lock(s)
    <3>1. UNCHANGED rowLock \/ /\ rowLock[Min(ses[s].todo)] = None
                               /\ rowLock' = [rowLock EXCEPT ![Min(ses[s].todo)] = s]
      BY <2>1 DEF Lock
    <3>2. Min(ses[s].todo) \in Ad
      <4>1. ses[s].todo # {} /\ ses[s].todo \subseteq Ad
        BY <1>1, <2>1 DEF Lock, DeskIInv, Knows, KnowsItsWay, Pc, Ses
      <4>2. IsFiniteSet(ses[s].todo)  BY <4>1, DeskFinite, FS_Subset
      <4>3. \A x \in ses[s].todo : x \in Nat  BY <4>1, DeskOwners
      <4> QED BY <4>1, <4>2, <4>3, MinIsMember
    <3> QED BY <3>1, <3>2
  <2>2. CASE SaveForm(s)
    <3>1. TheAd(s) \in Ad  BY <2>2, FormFacts DEF SaveForm
    <3> QED BY <2>2, <3>1 DEF SaveForm
  <2>3. CASE GiveUp(s)  BY <2>3 DEF GiveUp, Over, Quit, locks
  <2>4. CASE NoCache(s)  BY <2>4 DEF NoCache, Quit, locks
  <2>5. CASE ~Lock(s) /\ ~SaveForm(s) /\ ~GiveUp(s) /\ ~NoCache(s)
    BY <2>5 DEF Go, Begin, Approve, Judge, LockOwner, Publish, Reject, Flag, SoftDelete, ToOwner,
                BanOwner, Aim, BanNext, NeedRate, CacheGet, Query, CacheSet, Recompute,
                SaveRate, CommitRate, Edit, Peek, Route, locks
  <2> QED BY <2>1, <2>2, <2>3, <2>4, <2>5
<1>5. \/ UNCHANGED userLock \/ Release(s)
      \/ \E u \in User : userLock[u] \in {None, s} /\ userLock' = [userLock EXCEPT ![u] = s]
      \/ \E u \in User : userLock[u] = s /\ userLock' = [userLock EXCEPT ![u] = None]
  <2>1. CASE LockOwner(s)
    <3>1. Owner[Here(s)] \in User  BY <2>1, InHand, AtHand, DeskOwners DEF LockOwner
    <3> QED BY <2>1, <3>1 DEF LockOwner
  <2>2. CASE Publish(s)
    <3>1. userLock[Owner[Here(s)]] = s
      BY <2>2 DEF Publish, DeskIInv, Knows, KnowsItsBans, Pc, Here
    <3>2. Owner[Here(s)] \in User  BY <2>2, InHand, AtHand, DeskOwners DEF Publish
    <3>3. \/ UNCHANGED userLock \/ userLock' = [userLock EXCEPT ![Owner[Here(s)]] = None]
      BY <2>2 DEF Publish
    <3> QED BY <3>1, <3>2, <3>3
  <2>3. CASE BanNext(s)
    <3>1. ses[s].aim \subseteq User  BY <1>1 DEF Ses
    <3> QED BY <2>3, <3>1 DEF BanNext
  <2>4. CASE GiveUp(s)  BY <2>4 DEF GiveUp, Over, Quit, locks
  <2>5. CASE NoCache(s)  BY <2>5 DEF NoCache, Quit, locks
  <2>6. CASE ~LockOwner(s) /\ ~Publish(s) /\ ~BanNext(s) /\ ~GiveUp(s) /\ ~NoCache(s)
    BY <2>6 DEF Go, Begin, Lock, Approve, Judge, Reject, Flag, SoftDelete, ToOwner,
                BanOwner, Aim, NeedRate, CacheGet, Query, CacheSet, Recompute,
                SaveRate, CommitRate, Edit, Peek, SaveForm, Route, locks
  <2> QED BY <2>1, <2>2, <2>3, <2>4, <2>5, <2>6
<1>6. ASSUME NEW t \in Session \ {s}, NEW a \in Ad  PROVE rowLock'[a] = t <=> rowLock[a] = t
  BY <1>1, <1>4, DeskNone DEF Release
<1>7. ASSUME NEW t \in Session \ {s}, NEW u \in User, userLock[u] = t  PROVE userLock'[u] = t
  BY <1>1, <1>5, <1>7, DeskNone DEF Release
<1> QED BY <1>2, <1>3, <1>6, <1>7 DEF OnlyMoves

LEMMA RoomBegins == Init => RoomInv
<1> SUFFICES ASSUME Init PROVE RoomInv  OBVIOUS
<1>1. PICK start \in Starts : ads = start.ads  BY DEF Init
<1>2. \A u \in User : Cardinality({a \in Ad : Owner[a] = u /\ ads[a].row.status = "published"})
                        <= MaxAds
  BY <1>1, DeskStarts
<1>3. overwritten = {} /\ rowLock = [a \in Ad |-> None] /\ ses = [s \in Session |-> Fresh]
  BY DEF Init
<1>4. ASSUME NEW u \in User
      PROVE  Cardinality({a \in Ad \ overwritten : Owner[a] = u /\ Status(a) = "published"})
               <= MaxAds
  <2>1. {a \in Ad \ overwritten : Owner[a] = u /\ Status(a) = "published"}
          = {a \in Ad : Owner[a] = u /\ ads[a].row.status = "published"}
    BY <1>3 DEF Status
  <2> QED BY <1>2, <2>1
<1>5. ASSUME NEW s \in Session  PROVE KeepsTheRoom(s)
  BY <1>3, DeskNone DEF KeepsTheRoom, NewlyOut, Locked, Fresh
<1> QED BY <1>4, <1>5 DEF RoomInv, CapKept

LEMMA RoomGoesOn == DeskIInv /\ RoomInv /\ [Next]_vars => RoomInv'
<1> SUFFICES ASSUME DeskIInv, RoomInv, [Next]_vars PROVE RoomInv'  OBVIOUS
<1>1. CASE UNCHANGED vars \/ Expire
  <2>1. UNCHANGED <<ads, overwritten, rowLock, userLock, req, ses>>
    BY <1>1 DEF vars, Expire, desk, locks
  <2>2. \A s \in Session, a \in Ad : NewlyOut(s, a)' = NewlyOut(s, a)
    BY <2>1 DEF NewlyOut, Status, Stale, Way, TheAd
  <2>3. \A s \in Session, u \in User : Out(s, u)' = Out(s, u)  BY <2>1 DEF Out, Seen
  <2>4. ASSUME NEW s \in Session  PROVE KeepsTheRoom(s)'
    BY <2>1, <2>2, <2>3, DeskOwners DEF RoomInv, KeepsTheRoom, Locked
  <2>5. CapKept'  BY <2>1 DEF RoomInv, CapKept, Status
  <2> QED BY <2>4, <2>5 DEF RoomInv
<1>2. ASSUME NEW s \in Session, Commit(s)  PROVE RoomInv'  BY <1>2, CommitInRoom
<1>3. ASSUME NEW s \in Session, Go(s) \/ NoCache(s), ~Commit(s)  PROVE RoomInv'
  <2>1. OnlyMoves(s)  BY <1>3, StepsMove
  <2>2. KeepsTheRoom(s)  BY DEF RoomInv
  <2>3. KeepsTheRoom(s)'
    <3>1. CASE Publish(s) \/ SaveForm(s) \/ GiveUp(s) \/ NoCache(s)
      BY <2>1, <2>2, <3>1, PublishInRoom, SaveFormInRoom, GiveUpInRoom, NoCacheInRoom
    <3>2. CASE ~(Publish(s) \/ SaveForm(s) \/ GiveUp(s) \/ NoCache(s))
      <4>1. HoldsOn(s)
        BY <1>3, <2>2, <3>2, BeginInRoom, LockInRoom, VerdictsInRoom, BansInRoom, PricesInRoom,
           EditInRoom, PeekInRoom, RouteInRoom DEF Go
      <4> QED BY <2>1, <2>2, <4>1, RoomHeld
    <3> QED BY <3>1, <3>2
  <2>4. ASSUME NEW t \in Session \ {s}  PROVE KeepsTheRoom(t)'
    BY <2>1, OthersKeepRoom DEF RoomInv
  <2>5. CapKept'  BY <2>1 DEF OnlyMoves, RoomInv, CapKept, Status
  <2> QED BY <2>3, <2>4, <2>5 DEF RoomInv
<1> QED BY <1>1, <1>2, <1>3 DEF Next, Go

-----------------------------------------------------------------------------
(* What comes of it. *)

\* What the invariant says is what the desk promises.
LEMMA DeskPromises == DeskIInv /\ RoomInv => DeskInv
<1> SUFFICES ASSUME DeskIInv, RoomInv PROVE DeskInv  OBVIOUS
<1>1. PublishedWasChecked /\ PricesMatch /\ PricesConverge
  BY DEF DeskIInv, Fine, PublishedWasChecked, PricesMatch, PricesConverge, Status, Untouched
<1>2. RejectionsStand
  <2> SUFFICES ASSUME NEW a \in Ad \ overwritten
               PROVE  LET by == {n \in Entries("reject") : n[2] = a}
                      IN  Cardinality(by) <= 1 /\ (by # {} => Status(a) \in {"rejected", "deleted"})
    BY DEF RejectionsStand
  <2> DEFINE by == {n \in Entries("reject") : n[2] = a}
  <2>1. \A m, n \in by : m = n  BY DEF DeskIInv, OneRejection
  <2>2. Cardinality(by) <= 1
    <3> HIDE DEF by
    <3>1. CASE by = {}  BY <3>1, FS_EmptySet
    <3>2. CASE by # {}
      <4>1. PICK n : by = {n}  BY <2>1, <3>2
      <4> QED BY <4>1, FS_Singleton
    <3> QED BY <3>1, <3>2
  <2>3. by # {} => Status(a) \in {"rejected", "deleted"}
    BY DEF DeskIInv, Fine, RejectedBefore, Status
  <2> QED BY <2>2, <2>3
<1> QED BY <1>1, <1>2 DEF DeskInv, DeskIInv, RoomInv

(* Whatever requests meet on the desk, of whatever kind and in whatever      *)
(* order: the bans told and logged are those that happened, staff is spared, *)
(* what the public reads has met the criteria, a rejection stands and is     *)
(* made once, no price goes back behind a recomputation, and no seller has   *)
(* more ads published than the cap, but by a form that was loaded before.    *)
THEOREM DeskIsSafe == Spec => []DeskInv
<1> QED BY DeskBegins, RoomBegins, DeskGoesOn, RoomGoesOn, DeskPromises, PTL DEF Spec

-----------------------------------------------------------------------------
(* Every request comes nearer to its answer. *)

LEMMA Distances ==
  /\ Distance("end") = 0   /\ Distance("lock") = 1  /\ Distance("commit") = 2
  /\ Distance("count") = 3 /\ Distance("aim") = 3   /\ Distance("owner") = 4
  /\ Distance("judge") = 5 /\ Distance("route") = 5 /\ Distance("apply") = 6
  /\ Distance("fill") = 7  /\ Distance("query") = 8 /\ Distance("rate") = 9
  /\ Distance("work") = 10 /\ Distance("save") = 30 /\ Distance("stamp") = 30
  /\ Distance("peek") = 31
BY DEF Distance

\* What the effort is made of.
LEMMA EffortParts ==
  ASSUME NEW e \in Ses
  PROVE  /\ IsFiniteSet(e.todo) /\ IsFiniteSet(e.held) /\ IsFiniteSet(e.aim)
         /\ Cardinality(e.todo) \in Nat /\ Cardinality(e.held) \in Nat
         /\ Cardinality(e.aim) \in Nat /\ Cardinality(e.aim) <= Cardinality(User)
         /\ Cardinality(e.todo) <= Cardinality(Ad)
         /\ Cardinality(Ad) \in Nat /\ Cardinality(User) \in Nat
         /\ Distance(e.at) \in Nat /\ Effort(e) \in Nat
<1>1. e.todo \subseteq Ad /\ e.held \subseteq Ad /\ e.aim \subseteq User /\ e.at \in At
  BY DEF Ses
<1>2. /\ IsFiniteSet(e.todo) /\ IsFiniteSet(e.held) /\ IsFiniteSet(e.aim)
      /\ Cardinality(e.aim) <= Cardinality(User)
      /\ Cardinality(e.todo) <= Cardinality(Ad)
  BY <1>1, DeskFinite, FS_Subset
<1>3. /\ Cardinality(e.todo) \in Nat /\ Cardinality(e.held) \in Nat
      /\ Cardinality(e.aim) \in Nat
      /\ Cardinality(Ad) \in Nat /\ Cardinality(User) \in Nat
  BY <1>2, DeskFinite, FS_CardinalityType
<1>4. Distance(e.at) \in Nat  BY <1>1, <1>3 DEF At, Distance
<1>5. Effort(e) \in Nat  BY <1>3, <1>4 DEF Effort
<1> QED BY <1>2, <1>3, <1>4, <1>5

\* What the effort is, but for accounts that are not found yet.
LEMMA EffortIs ==
  ASSUME NEW e \in Ses
  PROVE  /\ ~Aimless(e) =>
              Effort(e) = 40 * Cardinality(e.todo) + 20 * Cardinality(e.held)
                            + Cardinality(e.aim) + Distance(e.at)
         /\ Effort(e) >= 40 * Cardinality(e.todo) + 20 * Cardinality(e.held)
                           + Cardinality(e.aim) + Distance(e.at)
<1> DEFINE n == 40 * Cardinality(e.todo) + 20 * Cardinality(e.held)
                  + Cardinality(e.aim) + Distance(e.at)
<1>1. n \in Nat /\ Cardinality(User) \in Nat  BY EffortParts
<1>2. Effort(e) = n + (IF Aimless(e) THEN Cardinality(User) + 1 ELSE 0)  BY DEF Effort
<1> HIDE DEF n
<1>3. (~Aimless(e) => Effort(e) = n) /\ Effort(e) >= n
  <2>1. CASE Aimless(e)  BY <1>1, <1>2, <2>1
  <2>2. CASE ~Aimless(e)
    <3>1. Effort(e) = n + 0  BY <1>2, <2>2
    <3> QED BY <1>1, <2>2, <3>1
  <2> QED BY <2>1, <2>2
<1> QED BY <1>3 DEF n

\* Fewer of something, or the same.
LEMMA NoMore ==
  ASSUME NEW S, IsFiniteSet(S), NEW R \in SUBSET S
  PROVE  Cardinality(R) <= Cardinality(S)
BY FS_Subset

LEMMA OneLess ==
  ASSUME NEW S, IsFiniteSet(S), NEW x \in S
  PROVE  Cardinality(S \ {x}) = Cardinality(S) - 1
BY FS_RemoveElement

\* A step nearer, with no more to do than before.
LEMMA Nearer ==
  ASSUME NEW e \in Ses, NEW f \in Ses, ~Aimless(f), Distance(f.at) < Distance(e.at),
         f.todo \subseteq e.todo, f.held \subseteq e.held, f.aim \subseteq e.aim
  PROVE  Effort(f) < Effort(e)
<1>1. /\ Cardinality(f.todo) <= Cardinality(e.todo)
      /\ Cardinality(f.held) <= Cardinality(e.held)
      /\ Cardinality(f.aim) <= Cardinality(e.aim)
  BY EffortParts, NoMore
<1>2. Effort(f) = 40 * Cardinality(f.todo) + 20 * Cardinality(f.held) + Cardinality(f.aim)
                   + Distance(f.at)
  BY EffortIs, EffortParts
<1>3. Effort(e) >= 40 * Cardinality(e.todo) + 20 * Cardinality(e.held) + Cardinality(e.aim)
                   + Distance(e.at)
  BY EffortIs, EffortParts
<1> QED BY <1>1, <1>2, <1>3, EffortParts

\* One ad is decided.
LEMMA OneDecided ==
  ASSUME NEW e \in Ses, NEW f \in Ses, ~Aimless(f), Distance(f.at) <= 10,
         f.todo = e.todo, f.aim = e.aim, NEW x \in e.held, f.held = e.held \ {x}
  PROVE  Effort(f) < Effort(e)
<1>1. Cardinality(f.held) = Cardinality(e.held) - 1  BY EffortParts, OneLess
<1>2. Effort(f) = 40 * Cardinality(f.todo) + 20 * Cardinality(f.held) + Cardinality(f.aim)
                   + Distance(f.at)
  BY EffortIs, EffortParts
<1>3. Effort(e) >= 40 * Cardinality(e.todo) + 20 * Cardinality(e.held) + Cardinality(e.aim)
  BY EffortIs, EffortParts
<1> QED BY <1>1, <1>2, <1>3, EffortParts

\* One ad is locked, or passed over.
LEMMA OneLocked ==
  ASSUME NEW e \in Ses, NEW f \in Ses, ~Aimless(f), Distance(f.at) <= 10,
         NEW x \in e.todo, f.todo = e.todo \ {x}, f.held \subseteq e.held \cup {x},
         f.aim \subseteq e.aim
  PROVE  Effort(f) < Effort(e)
<1>1. Cardinality(f.todo) = Cardinality(e.todo) - 1  BY EffortParts, OneLess
<1>2. Cardinality(f.held) <= Cardinality(e.held) + 1
  <2>1. IsFiniteSet(e.held \cup {x}) /\ Cardinality(e.held \cup {x}) <= Cardinality(e.held) + 1
    <3>1. IsFiniteSet(e.held) /\ Cardinality(e.held) \in Nat  BY EffortParts
    <3> DEFINE S == e.held
    <3> HIDE DEF S
    <3>2. /\ IsFiniteSet(S \cup {x})
          /\ Cardinality(S \cup {x}) = IF x \in S THEN Cardinality(S) ELSE Cardinality(S) + 1
      BY <3>1, FS_AddElement DEF S
    <3>3. Cardinality(S) \in Nat  BY <3>1 DEF S
    <3>4. IsFiniteSet(S \cup {x}) /\ Cardinality(S \cup {x}) <= Cardinality(S) + 1
      BY <3>2, <3>3
    <3> QED BY <3>4 DEF S
  <2>2. Cardinality(f.held) <= Cardinality(e.held \cup {x})  BY <2>1, NoMore
  <2>3. Cardinality(e.held \cup {x}) \in Nat  BY <2>1, FS_CardinalityType
  <2> QED BY <2>1, <2>2, <2>3, EffortParts
<1>3. Cardinality(f.aim) <= Cardinality(e.aim)  BY EffortParts, NoMore
<1>4. Effort(f) = 40 * Cardinality(f.todo) + 20 * Cardinality(f.held) + Cardinality(f.aim)
                   + Distance(f.at)
  BY EffortIs, EffortParts
<1>5. Effort(e) >= 40 * Cardinality(e.todo) + 20 * Cardinality(e.held) + Cardinality(e.aim)
  BY EffortIs, EffortParts
<1> QED BY <1>1, <1>2, <1>3, <1>4, <1>5, EffortParts

\* A request begins.
LEMMA OneBegun ==
  ASSUME NEW e \in Ses, NEW f \in Ses, e.at = "start", f.at # "start",
         f.held = e.held, f.aim = e.aim,
         f.todo = e.todo \/ f.at \in {"lock", "end"}
  PROVE  Effort(f) < Effort(e)
<1>1. Distance(f.at) <= 31  BY DEF Ses, At, Distance
<1>2. f.at \in {"lock", "end"} => Distance(f.at) <= 1  BY DEF Distance
<1>3. Effort(f) <= 40 * Cardinality(f.todo) + 20 * Cardinality(f.held) + Cardinality(f.aim)
                   + Distance(f.at) + Cardinality(User) + 1
  BY EffortParts DEF Effort
<1>4. f.at \in {"lock", "end"} =>
        Effort(f) = 40 * Cardinality(f.todo) + 20 * Cardinality(f.held) + Cardinality(f.aim)
                     + Distance(f.at)
  BY EffortParts DEF Effort, Aimless
<1>5. Effort(e) = 40 * Cardinality(e.todo) + 20 * Cardinality(e.held) + Cardinality(e.aim)
                   + 40 * Cardinality(Ad) + Cardinality(User) + 40
  BY EffortParts DEF Effort, Aimless, Distance
<1>6. Cardinality(f.todo) <= Cardinality(Ad)  BY EffortParts
<1> QED BY <1>1, <1>2, <1>3, <1>4, <1>5, <1>6, EffortParts

\* The accounts to visit are found.
LEMMA AimTaken ==
  ASSUME NEW e \in Ses, NEW f \in Ses, Aimless(e), ~Aimless(f), f.at \in {"aim", "commit"},
         f.todo = e.todo, f.held = e.held
  PROVE  Effort(f) < Effort(e)
<1>1. Effort(f) = 40 * Cardinality(f.todo) + 20 * Cardinality(f.held) + Cardinality(f.aim)
                   + Distance(f.at)
  BY EffortParts DEF Effort
<1>2. Effort(e) = 40 * Cardinality(e.todo) + 20 * Cardinality(e.held) + Cardinality(e.aim)
                   + Distance(e.at) + Cardinality(User) + 1
  BY EffortParts DEF Effort
<1>3. Distance(e.at) = 3 /\ Distance(f.at) <= 3  BY DEF Aimless, Distance
<1> QED BY <1>1, <1>2, <1>3, EffortParts

\* One of them is visited.
LEMMA OneVisited ==
  ASSUME NEW e \in Ses, NEW f \in Ses, e.at = "aim", f.at \in {"aim", "commit"},
         f.todo = e.todo, f.held = e.held, NEW u \in e.aim, f.aim = e.aim \ {u},
         f.notes = e.notes
  PROVE  Effort(f) < Effort(e)
<1>1. Cardinality(f.aim) = Cardinality(e.aim) - 1  BY EffortParts, OneLess
<1>2. Aimless(f) => Aimless(e)  BY DEF Aimless
<1>3. Distance(e.at) = 3 /\ Distance(f.at) <= 3  BY DEF Distance
<1> QED BY <1>1, <1>2, <1>3, EffortParts DEF Effort

\* A form has the row of its ad.
LEMMA FormSaved ==
  ASSUME NEW e \in Ses, NEW f \in Ses, e.at \in {"save", "stamp"}, f.at \in {"route", "commit"},
         f.todo = e.todo, f.aim = e.aim, NEW a, f.held = {a}
  PROVE  Effort(f) < Effort(e)
<1>1. Cardinality(f.held) = 1  BY FS_Singleton
<1>2. Distance(e.at) = 30 /\ Distance(f.at) <= 5 /\ ~Aimless(f)  BY DEF Distance, Aimless
<1> QED BY <1>1, <1>2, EffortParts DEF Effort

\* The ad at hand is done with.
LEMMA LeavesNearer ==
  ASSUME DeskIInv, NEW s \in Session, ses'[s] \in Ses, ses[s].held # {},
         NEW r, NEW notes, NEW n, Leave(s, r, notes, n)
  PROVE  Effort(ses'[s]) < Effort(ses[s])
<1>1. ses[s] \in Ses /\ ses \in [Session -> Ses]  BY DEF DeskIInv, DeskTypeOK
<1>2. Here(s) \in ses[s].held  BY AtHand
<1>3. /\ ses'[s].todo = ses[s].todo /\ ses'[s].aim = ses[s].aim
      /\ ses'[s].held = ses[s].held \ {Here(s)} /\ ses'[s].at \in {"commit", "work"}
  BY <1>1 DEF Leave, After, Ses
<1>4. ~Aimless(ses'[s]) /\ Distance(ses'[s].at) <= 10  BY <1>3 DEF Aimless, Distance
<1> QED BY <1>1, <1>2, <1>3, <1>4, OneDecided

\* A request that goes on to a place nearer to the end.
LEMMA GoesNearer ==
  ASSUME DeskIInv, NEW s \in Session, ses'[s] \in Ses, NEW p,
         \E rt : ses' = [ses EXCEPT ![s].at = p, ![s].rate = rt],
         p # "aim", Distance(p) < Distance(Pc(s))
  PROVE  Effort(ses'[s]) < Effort(ses[s])
<1>1. ses[s] \in Ses /\ ses \in [Session -> Ses]  BY DEF DeskIInv, DeskTypeOK
<1>2. /\ ses'[s].todo = ses[s].todo /\ ses'[s].aim = ses[s].aim /\ ses'[s].held = ses[s].held
      /\ ses'[s].at = p
  BY <1>1 DEF Ses
<1>3. ~Aimless(ses'[s])  BY <1>2 DEF Aimless
<1> QED BY <1>1, <1>2, <1>3, Nearer DEF Pc

LEMMA GotoNearer ==
  ASSUME DeskIInv, NEW s \in Session, ses'[s] \in Ses, NEW p, Goto(s, p),
         p # "aim", Distance(p) < Distance(Pc(s))
  PROVE  Effort(ses'[s]) < Effort(ses[s])
<1>1. ses[s] \in Ses /\ ses \in [Session -> Ses]  BY DEF DeskIInv, DeskTypeOK
<1>2. ses' = [ses EXCEPT ![s].at = p, ![s].rate = ses[s].rate]  BY <1>1 DEF Goto, Ses
<1> QED BY <1>2, GoesNearer

\* A transaction is over, or the whole request.
LEMMA OverNearer ==
  ASSUME DeskIInv, NEW s \in Session, ses'[s] \in Ses, NEW n, NEW left \in SUBSET ses[s].todo,
         Over(s, n, left), Distance(Pc(s)) > 1
  PROVE  Effort(ses'[s]) < Effort(ses[s])
<1>1. ses[s] \in Ses /\ ses \in [Session -> Ses]  BY DEF DeskIInv, DeskTypeOK
<1>2. /\ ses'[s].todo = left /\ ses'[s].aim = {} /\ ses'[s].held = {}
      /\ ses'[s].at \in {"end", "lock"}
  BY <1>1 DEF Over, Fresh
<1>3. ~Aimless(ses'[s]) /\ Distance(ses'[s].at) <= 1 /\ Distance(ses'[s].at) \in Nat
  <2>1. CASE ses'[s].at = "end"  BY <2>1, Distances DEF Aimless
  <2>2. CASE ses'[s].at = "lock"  BY <2>2, Distances DEF Aimless
  <2> QED BY <1>2, <2>1, <2>2
<1>4. Distance(ses[s].at) \in Nat  BY <1>1, EffortParts
<1>5. Distance(ses'[s].at) < Distance(ses[s].at)  BY <1>3, <1>4 DEF Pc
<1> QED BY <1>1, <1>2, <1>3, <1>5, Nearer

LEMMA QuitNearer ==
  ASSUME DeskIInv, NEW s \in Session, ses'[s] \in Ses, Quit(s), Pc(s) # "end"
  PROVE  Effort(ses'[s]) < Effort(ses[s])
<1>1. ses[s] \in Ses /\ ses \in [Session -> Ses]  BY DEF DeskIInv, DeskTypeOK
<1>2. /\ ses'[s].todo = {} /\ ses'[s].aim = {} /\ ses'[s].held = {} /\ ses'[s].at = "end"
  BY <1>1 DEF Quit, Fresh
<1>3. ~Aimless(ses'[s]) /\ Distance(ses'[s].at) = 0  BY <1>2 DEF Aimless, Distance
<1>4. Distance(ses[s].at) > 0
  <2>1. ses[s].at \in At \ {"end"}  BY <1>1 DEF Ses, Pc
  <2>2. Cardinality(Ad) \in Nat /\ Cardinality(User) \in Nat  BY <1>1, EffortParts
  <2> QED BY <2>1, <2>2 DEF At, Distance
<1> QED BY <1>1, <1>2, <1>3, <1>4, Nearer

-----------------------------------------------------------------------------

\* The steps that find and lock the ads.
LEMMA LockingCounts ==
  ASSUME DeskIInv, NEW s \in Session, ses'[s] \in Ses,
         Begin(s) \/ Lock(s) \/ Aim(s) \/ BanNext(s)
  PROVE  Effort(ses'[s]) < Effort(ses[s])
<1>1. ses[s] \in Ses /\ ses \in [Session -> Ses]  BY DEF DeskIInv, DeskTypeOK
<1>2. CASE Begin(s)
  <2>1. /\ ses[s].at = "start" /\ ses'[s].held = ses[s].held /\ ses'[s].aim = ses[s].aim
        /\ ses'[s].at # "start"
        /\ ses'[s].todo = ses[s].todo \/ ses'[s].at \in {"lock", "end"}
    BY <1>1, <1>2 DEF Begin, Goto, Pc, Ses
  <2> QED BY <1>1, <2>1, OneBegun
<1>3. CASE Lock(s)
  <2>0. PICK a : a = Min(ses[s].todo)  OBVIOUS
  <2>1. a \in ses[s].todo
    <3>1. ses[s].todo # {} /\ ses[s].todo \subseteq Ad
      BY <1>1, <1>3 DEF Lock, DeskIInv, Knows, KnowsItsWay, Pc, Ses
    <3>2. IsFiniteSet(ses[s].todo)  BY <3>1, DeskFinite, FS_Subset
    <3>3. \A x \in ses[s].todo : x \in Nat  BY <3>1, DeskOwners
    <3> QED BY <2>0, <3>1, <3>2, <3>3, MinIsMember
  <2>2. /\ ses'[s].todo = ses[s].todo \ {a} /\ ses'[s].held \subseteq ses[s].held \cup {a}
        /\ ses'[s].aim = ses[s].aim /\ ses'[s].at \in {"lock", "work", "commit"}
    BY <1>1, <1>3, <2>0 DEF Lock, Ses
  <2>3. ~Aimless(ses'[s]) /\ Distance(ses'[s].at) <= 10
    <3>1. CASE ses'[s].at = "lock"  BY <3>1, Distances DEF Aimless
    <3>2. CASE ses'[s].at = "work"  BY <3>2, Distances DEF Aimless
    <3>3. CASE ses'[s].at = "commit"  BY <3>3, Distances DEF Aimless
    <3> QED BY <2>2, <3>1, <3>2, <3>3
  <2> QED BY <1>1, <2>1, <2>2, <2>3, OneLocked
<1>4. CASE Aim(s)
  <2>0. PICK found : /\ found = {Owner[a] : a \in req[s].ads} \cap (Permitted(s) \ banned)
                     /\ ses' = [ses EXCEPT ![s].aim = found,
                                  ![s].notes = UNION {Note("ban", u, s) : u \in found},
                                  ![s].at = IF found = {} THEN "commit" ELSE "aim"]
    BY <1>4 DEF Aim
  <2>1. Aimless(ses[s])  BY <1>4 DEF Aim, Aimless, Pc
  <2>2. /\ ses'[s].todo = ses[s].todo /\ ses'[s].held = ses[s].held
        /\ ses'[s].notes = UNION {Note("ban", u, s) : u \in found}
        /\ ses'[s].at = IF found = {} THEN "commit" ELSE "aim"
    BY <1>1, <2>0 DEF Ses
  <2>3. ~Aimless(ses'[s])
    <3>1. CASE found = {}  BY <2>2, <3>1 DEF Aimless
    <3>2. CASE found # {}
      <4>1. PICK u : u \in found  BY <3>2
      <4>2. <<"ban", u, s>> \in UNION {Note("ban", v, s) : v \in found}  BY <4>1 DEF Note
      <4> QED BY <2>2, <4>2 DEF Aimless
    <3> QED BY <3>1, <3>2
  <2>4. ses'[s].at \in {"aim", "commit"}  BY <2>2
  <2> QED BY <1>1, <2>1, <2>2, <2>3, <2>4, AimTaken
<1>5. CASE BanNext(s)
  <2>1. PICK u \in ses[s].aim :
          \/ ses' = [ses EXCEPT ![s].aim = @ \ {u}, ![s].at = Visited(s, u)]
          \/ ses' = [ses EXCEPT ![s].aim = @ \ {u}, ![s].at = Visited(s, u),
                                ![s].bans = @ \cup {u}, ![s].count = @ + 1]
    <3>1. PICK u \in ses[s].aim :
            \/ /\ ses' = [ses EXCEPT ![s].aim = @ \ {u}, ![s].at = Visited(s, u)]
               /\ UNCHANGED userLock
            \/ /\ ses' = [ses EXCEPT ![s].aim = @ \ {u}, ![s].at = Visited(s, u),
                                     ![s].bans = @ \cup {u}, ![s].count = @ + 1]
               /\ userLock' = [userLock EXCEPT ![u] = s]
      BY <1>5 DEF BanNext
    <3> QED BY <3>1
  <2>2. Visited(s, u) \in {"aim", "commit"} /\ ses[s].at = "aim"
    BY <1>5 DEF BanNext, Visited, Pc
  <2>3. /\ ses'[s].todo = ses[s].todo /\ ses'[s].held = ses[s].held
        /\ ses'[s].aim = ses[s].aim \ {u} /\ ses'[s].notes = ses[s].notes
        /\ ses'[s].at = Visited(s, u)
    BY <1>1, <2>1 DEF Ses
  <2> QED BY <1>1, <2>2, <2>3, OneVisited
<1> QED BY <1>2, <1>3, <1>4, <1>5

\* The steps that decide.
LEMMA VerdictsCount ==
  ASSUME DeskIInv, NEW s \in Session, ses'[s] \in Ses,
         \/ Approve(s) \/ Judge(s) \/ LockOwner(s) \/ Publish(s) \/ Reject(s) \/ Flag(s)
         \/ SoftDelete(s) \/ ToOwner(s) \/ BanOwner(s)
  PROVE  Effort(ses'[s]) < Effort(ses[s])
<1>1. ses[s] \in Ses /\ ses \in [Session -> Ses]  BY DEF DeskIInv, DeskTypeOK
<1>2. Pc(s) \in {"work", "judge", "owner", "count"}
  BY DEF Approve, Judge, LockOwner, Publish, Reject, Flag, SoftDelete, ToOwner, BanOwner
<1>3. ses[s].held # {}  BY <1>2, InHand
<1>4. CASE Skip(s) \/ Fail(s)  BY <1>3, <1>4, LeavesNearer DEF Skip, Fail
<1>5. CASE \E r, notes, n : Leave(s, r, notes, n)  BY <1>3, <1>5, LeavesNearer
<1>6. CASE Goto(s, "judge") /\ Pc(s) = "work"  BY <1>6, GotoNearer, Distances
<1>7. CASE Goto(s, "owner") /\ Pc(s) \in {"work", "judge"}  BY <1>7, GotoNearer, Distances
<1>8. CASE Goto(s, "count") /\ Pc(s) = "owner"  BY <1>8, GotoNearer, Distances
<1>9. CASE BanOwner(s) /\ ~Skip(s)
  <2>1. /\ ses'[s].todo = ses[s].todo /\ ses'[s].aim = ses[s].aim /\ ses'[s].held = {}
        /\ ses'[s].at = "commit" /\ ses[s].at = "count"
    BY <1>1, <1>9 DEF BanOwner, Pc, Ses
  <2>2. ~Aimless(ses'[s]) /\ Distance(ses'[s].at) < Distance(ses[s].at)
    BY <2>1, Distances DEF Aimless
  <2> QED BY <1>1, <2>1, <2>2, Nearer
<1>10. Approve(s) => Skip(s) \/ (Goto(s, "judge") /\ Pc(s) = "work")  BY DEF Approve
<1>11. Judge(s) => Fail(s) \/ (Goto(s, "owner") /\ Pc(s) \in {"work", "judge"})  BY DEF Judge
<1>12. LockOwner(s) => Goto(s, "count") /\ Pc(s) = "owner"  BY DEF LockOwner
<1>13. Publish(s) => Skip(s) \/ Fail(s) \/ \E r, notes, n : Leave(s, r, notes, n)
  BY DEF Publish
<1>14. Reject(s) => Skip(s) \/ \E r, notes, n : Leave(s, r, notes, n)  BY DEF Reject
<1>15. Flag(s) \/ SoftDelete(s) => \E r, notes, n : Leave(s, r, notes, n)
  BY DEF Flag, SoftDelete
<1>16. ToOwner(s) => Goto(s, "owner") /\ Pc(s) \in {"work", "judge"}  BY DEF ToOwner
<1> QED BY <1>4, <1>5, <1>6, <1>7, <1>8, <1>9, <1>10, <1>11, <1>12, <1>13, <1>14, <1>15, <1>16

\* The steps about prices and rates, and a seller's edit.
LEMMA PricesCount ==
  ASSUME DeskIInv, NEW s \in Session, ses'[s] \in Ses,
         \/ NeedRate(s) \/ CacheGet(s) \/ Query(s) \/ CacheSet(s) \/ Recompute(s)
         \/ SaveRate(s) \/ CommitRate(s) \/ Edit(s) \/ NoCache(s)
  PROVE  Effort(ses'[s]) < Effort(ses[s])
<1>1. ses[s] \in Ses /\ ses \in [Session -> Ses]  BY DEF DeskIInv, DeskTypeOK
<1>2. CASE NeedRate(s)
  <2>1. Pc(s) = "work" /\ ses[s].held # {}  BY <1>2, InHand DEF NeedRate
  <2>2. CASE Skip(s)  BY <2>1, <2>2, LeavesNearer DEF Skip
  <2>3. CASE Goto(s, "rate")  BY <2>1, <2>3, GotoNearer, Distances
  <2>4. CASE Goto(s, "apply")  BY <2>1, <2>4, GotoNearer, Distances
  <2> QED BY <1>2, <2>2, <2>3, <2>4 DEF NeedRate
<1>3. CASE CacheGet(s)
  <2>1. CASE Goto(s, "query")  BY <1>3, <2>1, GotoNearer, Distances DEF CacheGet
  <2>2. CASE ~Goto(s, "query")
    <3>1. ses' = [ses EXCEPT ![s].at = "apply", ![s].rate = cached]
      BY <1>1, <1>3, <2>2 DEF CacheGet, Ses
    <3>2. Distance("apply") < Distance(Pc(s))  BY <1>3, Distances DEF CacheGet
    <3> QED BY <3>1, <3>2, GoesNearer
  <2> QED BY <2>1, <2>2
<1>4. CASE Query(s)
  <2>1. ses' = [ses EXCEPT ![s].at = "fill", ![s].rate = rate]  BY <1>1, <1>4 DEF Query, Ses
  <2>2. Distance("fill") < Distance(Pc(s))  BY <1>4, Distances DEF Query
  <2> QED BY <2>1, <2>2, GoesNearer
<1>5. CASE CacheSet(s)  BY <1>5, GotoNearer, Distances DEF CacheSet
<1>6. CASE Recompute(s)
  <2>1. ses[s].held # {}  BY <1>6, InHand DEF Recompute
  <2> QED BY <1>6, <2>1, LeavesNearer DEF Recompute
<1>7. CASE SaveRate(s)  BY <1>7, GotoNearer, Distances DEF SaveRate
<1>8. CASE CommitRate(s)  BY <1>8, GotoNearer, Distances DEF CommitRate
<1>9. CASE Edit(s)
  <2>1. ses[s].held # {} /\ ses[s].at = "apply"  BY <1>9, InHand DEF Edit, Pc
  <2>2. CASE \E r, notes, n : Leave(s, r, notes, n)  BY <2>1, <2>2, LeavesNearer
  <2>3. CASE \E score, r : ses' = [ses EXCEPT ![s].at = "judge", ![s].notes = score,
                                              ![s].work[Here(s)] = r]
    <3>1. /\ ses'[s].todo = ses[s].todo /\ ses'[s].aim = ses[s].aim
          /\ ses'[s].held = ses[s].held /\ ses'[s].at = "judge"
      BY <1>1, <2>3 DEF Ses
    <3>2. ~Aimless(ses'[s]) /\ Distance(ses'[s].at) < Distance(ses[s].at)
      BY <2>1, <3>1, Distances DEF Aimless
    <3> QED BY <1>1, <3>1, <3>2, Nearer
  <2> QED BY <1>9, <2>2, <2>3 DEF Edit
<1>10. CASE NoCache(s)
  <2>1. Pc(s) \in {"rate", "fill"}  BY <1>10 DEF NoCache
  <2>2. CASE Quit(s)  BY <2>1, <2>2, QuitNearer
  <2>3. CASE ~Quit(s)
    <3>1. ses' = [ses EXCEPT ![s].at = "apply", ![s].rate = None]
      BY <1>1, <1>10, <2>3 DEF NoCache, Ses
    <3>2. Distance("apply") < Distance(Pc(s))  BY <2>1, Distances
    <3> QED BY <3>1, <3>2, GoesNearer
  <2> QED BY <2>2, <2>3
<1> QED BY <1>2, <1>3, <1>4, <1>5, <1>6, <1>7, <1>8, <1>9, <1>10

\* The steps of a form, and the ends of a transaction.
LEMMA EndsCount ==
  ASSUME DeskIInv, NEW s \in Session, ses'[s] \in Ses,
         Peek(s) \/ SaveForm(s) \/ Route(s) \/ Commit(s) \/ GiveUp(s)
  PROVE  Effort(ses'[s]) < Effort(ses[s])
<1>1. ses[s] \in Ses /\ ses \in [Session -> Ses]  BY DEF DeskIInv, DeskTypeOK
<1>2. CASE Peek(s)
  <2>1. Pc(s) = "peek"  BY <1>2 DEF Peek
  <2>2. CASE Goto(s, "end") \/ Goto(s, "save")  BY <2>1, <2>2, GotoNearer, Distances
  <2>3. CASE ses' = [ses EXCEPT ![s].at = "stamp",
                                ![s].seen.row.status = ads[TheAd(s)].row.status]
    <3>1. /\ ses'[s].todo = ses[s].todo /\ ses'[s].aim = ses[s].aim
          /\ ses'[s].held = ses[s].held /\ ses'[s].at = "stamp"
      BY <1>1, <2>3 DEF Ses
    <3>2. ~Aimless(ses'[s]) /\ Distance(ses'[s].at) < Distance(ses[s].at)
      BY <2>1, <3>1, Distances DEF Aimless, Pc
    <3> QED BY <1>1, <3>1, <3>2, Nearer
  <2> QED BY <1>2, <2>2, <2>3 DEF Peek
<1>3. CASE SaveForm(s)
  <2>1. Pc(s) \in {"save", "stamp"}  BY <1>3 DEF SaveForm
  <2>2. CASE Goto(s, "end")  BY <2>1, <2>2, GotoNearer, Distances
  <2>3. CASE ~Goto(s, "end")
    <3>0. PICK a : a = TheAd(s)  OBVIOUS
    <3>1. \E score : ses' = [ses EXCEPT ![s].work[a] = Typed(s), ![s].held = {a},
                         ![s].notes = score,
                         ![s].at = IF @ = "stamp" THEN "route" ELSE "commit"]
      BY <1>3, <2>3, <3>0 DEF SaveForm
    <3>2. /\ ses'[s].todo = ses[s].todo /\ ses'[s].aim = ses[s].aim
          /\ ses'[s].held = {a} /\ ses'[s].at \in {"route", "commit"}
      BY <1>1, <3>1 DEF Ses
    <3> QED BY <1>1, <2>1, <3>2, FormSaved DEF Pc
  <2> QED BY <2>2, <2>3
<1>4. CASE Route(s)
  <2>1. Pc(s) = "route" /\ ses[s].held # {}  BY <1>4, InHand DEF Route
  <2>2. CASE \E r, notes, n : Leave(s, r, notes, n)  BY <2>1, <2>2, LeavesNearer
  <2>3. CASE Skip(s)  BY <2>1, <2>3, LeavesNearer DEF Skip
  <2>4. CASE Goto(s, "owner")  BY <2>1, <2>4, GotoNearer, Distances
  <2> QED BY <1>4, <2>2, <2>3, <2>4 DEF Route
<1>5. CASE Commit(s)
  <2>1. Over(s, ses[s].count, ses[s].todo) /\ Pc(s) = "commit"  BY <1>5 DEF Commit
  <2>2. Distance(Pc(s)) > 1  BY <2>1, Distances
  <2> QED BY <2>1, <2>2, OverNearer
<1>6. CASE GiveUp(s)
  <2>1. Pc(s) \in {"start", "lock", "save", "stamp", "owner", "aim", "commit"}
    BY <1>6 DEF GiveUp, Waits
  <2>2. CASE Fail(s) /\ Pc(s) = "owner"
    <3>1. ses[s].held # {}  BY <2>2, InHand
    <3> QED BY <2>2, <3>1, LeavesNearer DEF Fail, Skip
  <2>3. CASE Quit(s)  BY <2>1, <2>3, QuitNearer
  <2>4. CASE Over(s, 0, ses[s].todo) /\ Pc(s) \notin {"lock", "owner"}
    <3>1. Distance(Pc(s)) > 1
      <4>1. Cardinality(Ad) \in Nat /\ Cardinality(User) \in Nat  BY <1>1, EffortParts
      <4>2. Pc(s) \in {"start", "save", "stamp", "aim", "commit"}  BY <2>1, <2>4
      <4>3. Distance("start") > 1  BY <4>1 DEF Distance
      <4> QED BY <4>2, <4>3, Distances
    <3> QED BY <2>4, <3>1, OverNearer
  <2>5. CASE Over(s, 0, ses[s].todo \ {Min(ses[s].todo)}) /\ Pc(s) = "lock"
    <3>0. PICK a : a = Min(ses[s].todo)  OBVIOUS
    <3>1. a \in ses[s].todo
      <4>1. ses[s].todo # {} /\ ses[s].todo \subseteq Ad
        BY <1>1, <2>5 DEF DeskIInv, Knows, KnowsItsWay, Pc, Ses
      <4>2. IsFiniteSet(ses[s].todo)  BY <4>1, DeskFinite, FS_Subset
      <4>3. \A x \in ses[s].todo : x \in Nat  BY <4>1, DeskOwners
      <4> QED BY <3>0, <4>1, <4>2, <4>3, MinIsMember
    <3>2. /\ ses'[s].todo = ses[s].todo \ {a} /\ ses'[s].aim = {} /\ ses'[s].held = {}
          /\ ses'[s].at \in {"end", "lock"}
      BY <1>1, <2>5, <3>0 DEF Over, Fresh
    <3>3. ~Aimless(ses'[s]) /\ Distance(ses'[s].at) <= 10
      <4>1. CASE ses'[s].at = "end"  BY <4>1, Distances DEF Aimless
      <4>2. CASE ses'[s].at = "lock"  BY <4>2, Distances DEF Aimless
      <4> QED BY <3>2, <4>1, <4>2
    <3> QED BY <1>1, <3>1, <3>2, <3>3, OneLocked
  <2> QED BY <1>6, <2>2, <2>3, <2>4, <2>5 DEF GiveUp
<1> QED BY <1>2, <1>3, <1>4, <1>5, <1>6

(* No request goes round: every step brings one of them nearer to its      *)
(* answer, by a measure that only depends on where it is and what it still *)
(* has to do, and sets back none of the others.                            *)
THEOREM NoRequestGoesRound == Spec => EveryStepCounts
<1>1. DeskIInv /\ DeskIInv' /\ [Next]_vars => [StepCounts]_vars
  <2> SUFFICES ASSUME DeskIInv, DeskIInv', [Next]_vars PROVE [StepCounts]_vars  OBVIOUS
  <2>1. ASSUME NEW s \in Session, Go(s) \/ NoCache(s)
        PROVE  /\ Effort(ses[s])' < Effort(ses[s])
               /\ \A t \in Session \ {s} : ses'[t] = ses[t]
    <3>1. ses'[s] \in Ses /\ ses \in [Session -> Ses]  BY DEF DeskIInv, DeskTypeOK
    <3>2. Effort(ses'[s]) < Effort(ses[s])
      BY <2>1, <3>1, LockingCounts, VerdictsCount, PricesCount, EndsCount DEF Go
    <3>3. Effort(ses[s])' = Effort(ses'[s])  BY DEF Effort, Distance, Aimless
    <3>4. \A t \in Session \ {s} : ses'[t] = ses[t]
      <4>1. CASE Commit(s)  BY <3>1, <4>1 DEF Commit, Over
      <4>2. CASE ~Commit(s)  BY <2>1, <4>2, StepsMove DEF OnlyMoves
      <4> QED BY <4>1, <4>2
    <3> QED BY <3>2, <3>3, <3>4
  <2> QED BY <2>1 DEF Next, StepCounts
<1> QED BY <1>1, DeskBegins, DeskGoesOn, PTL DEF Spec, EveryStepCounts
=============================================================================
