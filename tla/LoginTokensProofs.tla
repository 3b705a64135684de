------------------------- MODULE LoginTokensProofs -------------------------
(***************************************************************************)
(* Proofs that LoginTokens keeps what LoginTokensProperties states, for    *)
(* any browsers, users, tokens and finitely many handlers.                 *)
(***************************************************************************)
EXTENDS LoginTokensProperties, FiniteSetTheorems, TLAPS

(* Initially no token is issued and no handler runs.                       *)
LEMMA InitLInv == Init => LInv
  <1> SUFFICES ASSUME Init PROVE LInv
    OBVIOUS
  <1> USE DEF Init
  <1>1. TypeOK
    BY DEF TypeOK, Account, Step
  <1>2. OneSession /\ \A x \in sessions : x.token \in consumed
    BY DEF OneSession
  <1>3. \A t \in Token : RowInv(t)
    BY NoneAssumption DEF RowInv
  <1>4. \A r \in Request : ReadInv(r) /\ FlightInv(r)
    BY DEF ReadInv, FlightInv
  <1> QED
    BY <1>1, <1>2, <1>3, <1>4 DEF LInv

(* The types are kept by each step.                                        *)
LEMMA TypeStep == LInv /\ [Next]_vars => TypeOK'
  <1> SUFFICES ASSUME LInv, [Next]_vars PROVE TypeOK'
    OBVIOUS
  <1> USE DEF LInv, TypeOK, rows, requests, Begin, End, Goto
  <1>1. CASE UNCHANGED vars
    BY <1>1 DEF vars
  <1>2. CASE Issue
    <2>1. ASSUME NEW r \in Request, NEW b \in Browser, Supersede(r, b)
          PROVE TypeOK'
      BY <2>1 DEF Supersede, Unclaimed, Step
    <2>2. ASSUME NEW r \in Request, NEW t \in Token, Create(r, t)
          PROVE TypeOK'
      BY <2>2 DEF Create, Step, ReadInv
    <2> QED
      BY <1>2, <2>1, <2>2 DEF Issue
  <1>3. CASE ClaimStep
    BY <1>3 DEF ClaimStep, Start, Claim, ClaimNothing, Step, Account, ReadInv
  <1>4. CASE ConsumeStep
    <2>1. ASSUME NEW r \in Request, NEW t \in Token, NEW b \in Browser,
                 Poll(r, t, b)
          PROVE TypeOK'
      BY <2>1 DEF Poll, Step
    <2>2. ASSUME NEW r \in Request, Consume(r) \/ LoseRace(r) \/ LookUp(r)
          PROVE TypeOK'
      BY <2>2 DEF Consume, LoseRace, LookUp, Step, ReadInv
    <2>3. ASSUME NEW r \in Request, OpenSession(r)
          PROVE TypeOK'
      <3> DEFINE n == IF \E x \in sessions : x.token = token[r] THEN 2 ELSE 1
                 new == [token |-> token[r], browser |-> browser[r],
                         user |-> user[r], turn |-> n]
      <3>1. n \in {1, 2} /\ sessions' = sessions \cup {new}
        BY <2>3 DEF OpenSession
      <3> HIDE DEF n
      <3>2. new \in Login
        BY <3>1, <2>3 DEF OpenSession, ReadInv, Login
      <3> HIDE DEF new
      <3> QED
        BY <3>1, <3>2, <2>3 DEF OpenSession, Step
    <2> QED
      BY <1>4, <2>1, <2>2, <2>3 DEF ConsumeStep
  <1>5. CASE Delete
    <2>1. ASSUME NEW r \in Request, NEW u \in User, EraseTokens(r, u)
          PROVE TypeOK'
      BY <2>1 DEF EraseTokens, Step
    <2>2. ASSUME NEW r \in Request, CommitWithdrawal(r)
          PROVE TypeOK'
      BY <2>2 DEF CommitWithdrawal, Step, Account, ReadInv
    <2>3. CASE Cleanup
      BY <2>3 DEF Cleanup
    <2> QED
      BY <1>5, <2>1, <2>2, <2>3 DEF Delete
  <1>6. CASE Environment
    BY <1>6 DEF Environment, Expire, Bar, Crash, Step, Account
  <1> QED
    BY <1>1, <1>2, <1>3, <1>4, <1>5, <1>6 DEF Next

(* The columns of a row are filled in in order, and never emptied.         *)
LEMMA RowStep == LInv /\ [Next]_vars => \A t \in Token : RowInv(t)'
  <1> SUFFICES ASSUME LInv, [Next]_vars, NEW t \in Token PROVE RowInv(t)'
    OBVIOUS
  <1>0. RowInv(t) /\ TypeOK
    BY DEF LInv
  <1> USE <1>0, NoneAssumption DEF RowInv, TypeOK, rows, requests
  <1>1. CASE UNCHANGED vars
    BY <1>1 DEF vars
  <1>2. CASE Issue
    BY <1>2 DEF Issue, Supersede, Create, Unclaimed, Live, LInv, ReadInv
  <1>3. CASE ClaimStep
    BY <1>3 DEF ClaimStep, Start, Claim, ClaimNothing, LInv, ReadInv
  <1>4. CASE ConsumeStep
    BY <1>4 DEF ConsumeStep, Poll, Consume, LoseRace, LookUp, OpenSession,
                StillRedeemable, Live, LInv, ReadInv
  <1>5. CASE Delete
    <2>1. ASSUME NEW r \in Request, CommitWithdrawal(r)
          PROVE RowInv(t)'
      <3>1. row'[t] = IF t \in doomed[r] THEN "gone" ELSE row[t]
        BY <2>1 DEF CommitWithdrawal
      <3>2. t \in doomed[r] => row[t] # "none"
        BY DEF LInv, ReadInv
      <3> QED
        BY <2>1, <3>1, <3>2 DEF CommitWithdrawal
    <2>2. ASSUME Cleanup PROVE RowInv(t)'
      BY <2>2 DEF Cleanup
    <2>3. ASSUME NEW r \in Request, NEW u \in User, EraseTokens(r, u)
          PROVE RowInv(t)'
      BY <2>3 DEF EraseTokens
    <2> QED
      BY <1>5, <2>1, <2>2, <2>3 DEF Delete
  <1>6. CASE Environment
    BY <1>6 DEF Environment, Expire, Bar, Crash
  <1> QED
    BY <1>1, <1>2, <1>3, <1>4, <1>5, <1>6 DEF Next

(* Write-once columns: what is set stays.                                  *)
LEMMA WriteOnce ==
  LInv /\ [Next]_vars =>
    \A t \in Token :
      /\ row[t] # "none" => row'[t] # "none" /\ binding'[t] = binding[t]
      /\ telegram_id[t] # None => telegram_id'[t] = telegram_id[t]
      /\ t \in consumed => t \in consumed'
  <1> SUFFICES ASSUME LInv, [Next]_vars, NEW t \in Token
      PROVE  /\ row[t] # "none" => row'[t] # "none" /\ binding'[t] = binding[t]
             /\ telegram_id[t] # None => telegram_id'[t] = telegram_id[t]
             /\ t \in consumed => t \in consumed'
    OBVIOUS
  <1> USE DEF LInv, TypeOK, rows, requests
  <1>1. CASE UNCHANGED vars
    BY <1>1 DEF vars
  <1>2. CASE Issue
    BY <1>2 DEF Issue, Supersede, Create, Unclaimed
  <1>3. CASE ClaimStep
    BY <1>3 DEF ClaimStep, Start, Claim, ClaimNothing
  <1>4. CASE ConsumeStep
    BY <1>4 DEF ConsumeStep, Poll, Consume, LoseRace, LookUp, OpenSession
  <1>5. CASE Delete
    BY <1>5 DEF Delete, EraseTokens, CommitWithdrawal, Cleanup
  <1>6. CASE Environment
    BY <1>6 DEF Environment, Expire, Bar, Crash
  <1> QED
    BY <1>1, <1>2, <1>3, <1>4, <1>5, <1>6 DEF Next

(* What a handler has read stays true until it ends.                       *)
LEMMA ReadStep == LInv /\ [Next]_vars => \A r \in Request : ReadInv(r)'
  <1> SUFFICES ASSUME LInv, [Next]_vars, NEW r \in Request PROVE ReadInv(r)'
    OBVIOUS
  <1>0. ReadInv(r) /\ TypeOK
    BY DEF LInv
  <1>w. \A t \in Token :
      /\ row[t] # "none" => row'[t] # "none" /\ binding'[t] = binding[t]
      /\ telegram_id[t] # None => telegram_id'[t] = telegram_id[t]
    BY WriteOnce
  <1>k. \A t \in Token : RowInv(t)
    BY DEF LInv
  <1>a. ASSUME pc'[r] = pc[r], token'[r] = token[r], user'[r] = user[r],
               browser'[r] = browser[r], doomed'[r] = doomed[r]
        PROVE ReadInv(r)'
    BY <1>a, <1>0, <1>w, <1>k, NoneAssumption DEF ReadInv, RowInv, TypeOK
  <1>b. ASSUME pc'[r] = "idle", doomed'[r] = {}
        PROVE ReadInv(r)'
    BY <1>b DEF ReadInv
  <1> USE <1>0, <1>a, <1>b DEF TypeOK, rows, requests, Begin, End, Goto
  <1>1. CASE UNCHANGED vars
    BY <1>1 DEF vars
  <1>2. CASE Issue
    <2>1. ASSUME NEW q \in Request, NEW b \in Browser, Supersede(q, b)
          PROVE ReadInv(r)'
      <3>1. CASE q = r
        BY <2>1, <3>1 DEF Supersede, ReadInv
      <3>2. CASE q # r
        BY <2>1, <3>2 DEF Supersede
      <3> QED BY <3>1, <3>2
    <2>2. ASSUME NEW q \in Request, NEW t \in Token, Create(q, t)
          PROVE ReadInv(r)'
      BY <2>2 DEF Create
    <2> QED BY <1>2, <2>1, <2>2 DEF Issue
  <1>3. CASE ClaimStep
    <2>1. ASSUME NEW q \in Request, NEW t \in Token, NEW u \in User,
                 Start(q, t, u)
          PROVE ReadInv(r)'
      <3>1. CASE q = r
        BY <2>1, <3>1 DEF Start, ReadInv
      <3>2. CASE q # r
        BY <2>1, <3>2 DEF Start
      <3> QED BY <3>1, <3>2
    <2>2. ASSUME NEW q \in Request, Claim(q) \/ ClaimNothing(q)
          PROVE ReadInv(r)'
      BY <2>2 DEF Claim, ClaimNothing
    <2> QED BY <1>3, <2>1, <2>2 DEF ClaimStep
  <1>4. CASE ConsumeStep
    <2>1. ASSUME NEW q \in Request, NEW t \in Token, NEW b \in Browser,
                 Poll(q, t, b)
          PROVE ReadInv(r)'
      <3>1. CASE q = r
        BY <2>1, <3>1, NoneAssumption DEF Poll, ReadInv
      <3>2. CASE q # r
        BY <2>1, <3>2 DEF Poll
      <3> QED BY <3>1, <3>2
    <2>2. ASSUME NEW q \in Request, Consume(q) \/ LoseRace(q) \/ LookUp(q)
          PROVE ReadInv(r)'
      <3>1. CASE q = r
        BY <2>2, <3>1, <1>w, <1>k DEF Consume, LoseRace, LookUp, ReadInv
      <3>2. CASE q # r
        BY <2>2, <3>2 DEF Consume, LoseRace, LookUp
      <3> QED BY <3>1, <3>2
    <2>3. ASSUME NEW q \in Request, OpenSession(q)
          PROVE ReadInv(r)'
      BY <2>3 DEF OpenSession
    <2> QED BY <1>4, <2>1, <2>2, <2>3 DEF ConsumeStep
  <1>5. CASE Delete
    <2>1. ASSUME NEW q \in Request, NEW u \in User, EraseTokens(q, u)
          PROVE ReadInv(r)'
      <3>1. CASE q = r
        BY <2>1, <3>1 DEF EraseTokens, ReadInv
      <3>2. CASE q # r
        BY <2>1, <3>2 DEF EraseTokens
      <3> QED BY <3>1, <3>2
    <2>2. ASSUME NEW q \in Request, CommitWithdrawal(q)
          PROVE ReadInv(r)'
      BY <2>2 DEF CommitWithdrawal
    <2>3. ASSUME Cleanup PROVE ReadInv(r)'
      BY <2>3 DEF Cleanup
    <2> QED BY <1>5, <2>1, <2>2, <2>3 DEF Delete
  <1>6. CASE Environment
    BY <1>6 DEF Environment, Expire, Bar, Crash
  <1> QED
    BY <1>1, <1>2, <1>3, <1>4, <1>5, <1>6 DEF Next

(* A token is consumed by one handler, which opens its only session.       *)
LEMMA FlightStep ==
  LInv /\ [Next]_vars =>
    /\ \A r \in Request : FlightInv(r)'
    /\ OneSession'
    /\ (\A x \in sessions : x.token \in consumed)'
  <1> SUFFICES ASSUME LInv, [Next]_vars
      PROVE  /\ \A r \in Request : FlightInv(r)'
             /\ OneSession'
             /\ (\A x \in sessions : x.token \in consumed)'
    OBVIOUS
  <1>0. TypeOK /\ OneSession /\ (\A x \in sessions : x.token \in consumed)
        /\ (\A x \in sessions : x \in Login)
    BY DEF LInv, TypeOK
  <1>w. \A t \in Token :
      /\ row[t] # "none" => row'[t] # "none" /\ binding'[t] = binding[t]
      /\ telegram_id[t] # None => telegram_id'[t] = telegram_id[t]
      /\ t \in consumed => t \in consumed'
    BY WriteOnce
  <1>k. \A t \in Token : RowInv(t)
    BY DEF LInv
  <1>r. \A r \in Request : ReadInv(r) /\ FlightInv(r)
    BY DEF LInv
  <1>s. ASSUME sessions' = sessions
        PROVE OneSession' /\ (\A x \in sessions : x.token \in consumed)'
    <2>1. \A x \in sessions : /\ x.token \in Token
                              /\ row[x.token] # "none"
                              /\ telegram_id[x.token] # None
      BY <1>0, <1>k, NoneAssumption DEF RowInv, Login, OneSession
    <2> QED
      BY <1>s, <2>1, <1>0, <1>w DEF OneSession
  \* No handler takes off: the flights of the others go on.
  <1>f. ASSUME sessions' = sessions,
               \A r \in Request :
                 pc'[r] \in {"lookup", "open"} =>
                    pc[r] \in {"lookup", "open"} /\ token'[r] = token[r]
        PROVE \A r \in Request : FlightInv(r)'
    BY <1>f, <1>w, <1>r DEF FlightInv, ReadInv
  <1> USE <1>0 DEF TypeOK, rows, requests, Begin, End, Goto
  <1>1. CASE UNCHANGED vars
    BY <1>1, <1>s, <1>f DEF vars
  <1>2. CASE Issue
    <2>1. sessions' = sessions /\
          \A r \in Request :
                 pc'[r] \in {"lookup", "open"} =>
                    pc[r] \in {"lookup", "open"} /\ token'[r] = token[r]
      BY <1>2 DEF Issue, Supersede, Create
    <2> QED BY <2>1, <1>s, <1>f
  <1>3. CASE ClaimStep
    <2>1. sessions' = sessions /\
          \A r \in Request :
                 pc'[r] \in {"lookup", "open"} =>
                    pc[r] \in {"lookup", "open"} /\ token'[r] = token[r]
      BY <1>3 DEF ClaimStep, Start, Claim, ClaimNothing
    <2> QED BY <2>1, <1>s, <1>f
  <1>4. CASE ConsumeStep
    <2>1. ASSUME NEW q \in Request, NEW t \in Token, NEW b \in Browser,
                 Poll(q, t, b)
          PROVE sessions' = sessions /\
                \A r \in Request :
                 pc'[r] \in {"lookup", "open"} =>
                    pc[r] \in {"lookup", "open"} /\ token'[r] = token[r]
      BY <2>1 DEF Poll
    <2>2. ASSUME NEW q \in Request, Consume(q)
          PROVE \A r \in Request : FlightInv(r)'
      <3>1. /\ token[q] \in consumed' /\ token[q] \notin consumed
            /\ sessions' = sessions /\ token' = token
            /\ pc' = [pc EXCEPT ![q] = "lookup"]
        BY <2>2, <1>r DEF Consume, StillRedeemable, Live, ReadInv
      <3>2. \A x \in sessions : x.token # token[q]
        BY <3>1
      <3>3. \A r \in Request \ {q} :
              pc[r] \in {"lookup", "open"} =>
                /\ token[r] \in consumed /\ token[r] # token[q]
                /\ token[r] \in consumed'
        BY <3>1, <1>w, <1>r DEF FlightInv, ReadInv
      <3>4. FlightInv(q)'
        BY <3>1, <3>2, <3>3 DEF FlightInv
      <3>5. ASSUME NEW r \in Request \ {q} PROVE FlightInv(r)'
        <4>1. FlightInv(r)
          BY <1>r
        <4> QED
          BY <4>1, <3>1, <3>3 DEF FlightInv
      <3> QED
        BY <3>4, <3>5
    <2>3. ASSUME NEW q \in Request, OpenSession(q)
          PROVE /\ \A r \in Request : FlightInv(r)'
                /\ OneSession'
                /\ (\A x \in sessions : x.token \in consumed)'
      <3> DEFINE new == [token |-> token[q], browser |-> browser[q],
                         user |-> user[q], turn |-> 1]
      <3>0. \A x \in sessions : x.token # token[q]
        BY <2>3, <1>r DEF OpenSession, FlightInv
      <3>1. /\ sessions' = sessions \cup {new} /\ consumed' = consumed
            /\ binding' = binding /\ telegram_id' = telegram_id
            /\ new.token = token[q] /\ new.browser = browser[q]
            /\ new.user = user[q] /\ new.turn = 1
            /\ pc' = [pc EXCEPT ![q] = "idle"]
            /\ \A r \in Request \ {q} : token'[r] = token[r]
        BY <2>3, <3>0 DEF OpenSession
      <3>2. /\ token[q] \in consumed
            /\ \A x \in sessions : x.token # token[q]
            /\ \A r \in Request \ {q} :
                 pc[r] \in {"lookup", "open"} => token[r] # token[q]
            /\ browser[q] = binding[token[q]]
            /\ user[q] = telegram_id[token[q]]
        BY <2>3, <1>r DEF OpenSession, FlightInv, ReadInv
      <3> HIDE DEF new
      <3>3. OneSession' /\ (\A x \in sessions : x.token \in consumed)'
        BY <3>1, <3>2 DEF OneSession
      <3>4. \A r \in Request : FlightInv(r)'
        BY <3>1, <3>2, <1>r DEF FlightInv
      <3> QED BY <3>3, <3>4
    <2> DEFINE Goal == /\ \A r \in Request : FlightInv(r)'
                       /\ OneSession'
                       /\ (\A x \in sessions : x.token \in consumed)'
    <2>4. ASSUME NEW q \in Request, Consume(q) PROVE Goal
      <3>1. sessions' = sessions
        BY <2>4 DEF Consume
      <3> QED BY <3>1, <2>2, <2>4, <1>s
    <2>5. ASSUME NEW q \in Request, NEW t \in Token, NEW b \in Browser,
                 Poll(q, t, b)
          PROVE Goal
      BY <2>1, <2>5, <1>s, <1>f
    <2>6. ASSUME NEW q \in Request, LoseRace(q) \/ LookUp(q) PROVE Goal
      <3>1. /\ sessions' = sessions
            /\ \A r \in Request :
                 pc'[r] \in {"lookup", "open"} =>
                    pc[r] \in {"lookup", "open"} /\ token'[r] = token[r]
        BY <2>6 DEF LoseRace, LookUp
      <3> QED BY <3>1, <1>s, <1>f
    <2>7. ASSUME NEW q \in Request, OpenSession(q) PROVE Goal
      BY <2>3, <2>7
    <2> HIDE DEF Goal
    <2>8. Goal
      BY <1>4, <2>4, <2>5, <2>6, <2>7 DEF ConsumeStep
    <2> QED BY <2>8 DEF Goal
  <1>5. CASE Delete
    <2>1. sessions' = sessions /\
          \A r \in Request :
                 pc'[r] \in {"lookup", "open"} =>
                    pc[r] \in {"lookup", "open"} /\ token'[r] = token[r]
      BY <1>5 DEF Delete, EraseTokens, CommitWithdrawal, Cleanup
    <2> QED BY <2>1, <1>s, <1>f
  <1>6. CASE Environment
    <2>1. sessions' = sessions /\
          \A r \in Request :
                 pc'[r] \in {"lookup", "open"} =>
                    pc[r] \in {"lookup", "open"} /\ token'[r] = token[r]
      BY <1>6 DEF Environment, Expire, Bar, Crash
    <2> QED BY <2>1, <1>s, <1>f
  <1> QED
    BY <1>1, <1>2, <1>3, <1>4, <1>5, <1>6 DEF Next

(* Every reachable state satisfies the inductive invariant.                *)
THEOREM LoginInvariance == Spec => []LInv
  <1>1. Init => LInv
    BY InitLInv
  <1>2. LInv /\ [Next]_vars => LInv'
    <2> SUFFICES ASSUME LInv, [Next]_vars PROVE LInv'
      OBVIOUS
    <2>1. TypeOK'
      BY TypeStep
    <2>2. \A t \in Token : RowInv(t)'
      BY RowStep
    <2>3. \A r \in Request : ReadInv(r)'
      BY ReadStep
    <2>4. /\ \A r \in Request : FlightInv(r)'
          /\ OneSession'
          /\ (\A x \in sessions : x.token \in consumed)'
      BY FlightStep
    <2> QED
      BY <2>1, <2>2, <2>3, <2>4 DEF LInv
  <1> QED
    BY <1>1, <1>2, PTL DEF Spec

(* A token opens at most one session: that of the user who claimed it, in  *)
(* the browser it was issued to.                                           *)
THEOREM TokenOpensOneSession == Spec => []OneSession
  <1>1. LInv => OneSession
    BY DEF LInv
  <1> QED
    BY <1>1, LoginInvariance, PTL
-----------------------------------------------------------------------------

(* A step that neither adds an unclaimed token nor starts to issue one     *)
(* keeps the bound.                                                        *)
LEMMA NoMoreTokens ==
  ASSUME TypeOK, NEW b \in Browser,
         IsFiniteSet(Unclaimed(b)),
         Cardinality(Unclaimed(b)) + Cardinality(Issuing(b))
           <= Cardinality(Request),
         Unclaimed(b)' \subseteq Unclaimed(b), Issuing(b)' \subseteq Issuing(b)
  PROVE  /\ IsFiniteSet(Unclaimed(b)')
         /\ Cardinality(Unclaimed(b)') + Cardinality(Issuing(b)')
              <= Cardinality(Request)
  <1>1. IsFiniteSet(Issuing(b)) /\ Cardinality(Request) \in Nat
    BY RequestsAreFinite, FS_Subset, FS_CardinalityType DEF Issuing
  <1>2. /\ IsFiniteSet(Unclaimed(b)')
        /\ Cardinality(Unclaimed(b)') <= Cardinality(Unclaimed(b))
    BY FS_Subset
  <1>3. /\ IsFiniteSet(Issuing(b)')
        /\ Cardinality(Issuing(b)') <= Cardinality(Issuing(b))
    BY <1>1, FS_Subset
  <1>4. /\ Cardinality(Unclaimed(b)) \in Nat /\ Cardinality(Issuing(b)) \in Nat
        /\ Cardinality(Unclaimed(b)') \in Nat
        /\ Cardinality(Issuing(b)') \in Nat
    BY <1>1, <1>2, <1>3, FS_CardinalityType
  <1> QED
    BY <1>1, <1>2, <1>3, <1>4

(* Overlapping page views leave at most one unclaimed token each: a token  *)
(* counts for the handler that inserts it from the UPDATE before it on.    *)
THEOREM OverlapIsBounded == Spec => []UnclaimedBounded
  <1> DEFINE Bounded(b) ==
        /\ IsFiniteSet(Unclaimed(b))
        /\ Cardinality(Unclaimed(b)) + Cardinality(Issuing(b))
             <= Cardinality(Request)
  <1> DEFINE BInv == \A b \in Browser : Bounded(b)
  <1>1. Init => BInv
    <2> SUFFICES ASSUME Init, NEW b \in Browser PROVE Bounded(b)
      OBVIOUS
    <2>1. Unclaimed(b) = {} /\ Issuing(b) = {}
      BY DEF Init, Unclaimed, Live, Issuing
    <2> QED
      BY <2>1, RequestsAreFinite, FS_EmptySet, FS_CardinalityType
  <1>2. LInv /\ BInv /\ [Next]_vars => BInv'
    <2> SUFFICES ASSUME LInv, BInv, [Next]_vars, NEW b \in Browser
        PROVE Bounded(b)'
      OBVIOUS
    <2>t. TypeOK /\ Bounded(b)
      BY DEF LInv
    <2>f. ASSUME Unclaimed(b)' \subseteq Unclaimed(b),
                 Issuing(b)' \subseteq Issuing(b)
          PROVE Bounded(b)'
      BY <2>f, <2>t, NoMoreTokens
    <2> USE <2>t DEF TypeOK, rows, requests, Begin, End, Goto
    <2>1. CASE UNCHANGED vars
      BY <2>1, <2>f DEF vars, Unclaimed, Live, Issuing
    <2>2. CASE Issue
      <3>1. ASSUME NEW r \in Request, NEW c \in Browser, Supersede(r, c)
            PROVE Bounded(b)'
        <4>1. CASE c = b
          <5>1. Unclaimed(b)' = {}
            BY <3>1, <4>1 DEF Supersede, Unclaimed, Live
          <5>2. Issuing(b)' \subseteq Request
            BY DEF Issuing
          <5>3. /\ IsFiniteSet({}) /\ Cardinality({}) = 0
                /\ Cardinality(Request) \in Nat
                /\ Cardinality(Issuing(b)') \in Nat
                /\ Cardinality(Issuing(b)') <= Cardinality(Request)
            BY <5>2, RequestsAreFinite, FS_EmptySet, FS_Subset,
               FS_CardinalityType
          <5> QED
            BY <5>1, <5>3
        <4>2. CASE c # b
          BY <3>1, <4>2, <2>f DEF Supersede, Unclaimed, Live, Issuing
        <4> QED BY <4>1, <4>2
      <3>2. ASSUME NEW r \in Request, NEW t \in Token, Create(r, t)
            PROVE Bounded(b)'
        <4>k. RowInv(t)
          BY DEF LInv
        <4>1. CASE browser[r] = b
          <5>1. Unclaimed(b)' = Unclaimed(b) \cup {t} /\ t \notin Unclaimed(b)
            BY <3>2, <4>1, <4>k DEF Create, Unclaimed, Live, RowInv
          <5>2. Issuing(b)' = Issuing(b) \ {r} /\ r \in Issuing(b)
            BY <3>2, <4>1 DEF Create, Issuing
          <5>3. IsFiniteSet(Issuing(b))
            BY RequestsAreFinite, FS_Subset DEF Issuing
          <5>4. /\ IsFiniteSet(Unclaimed(b)')
                /\ Cardinality(Unclaimed(b)') = Cardinality(Unclaimed(b)) + 1
            BY <5>1, FS_AddElement
          <5>5. Cardinality(Issuing(b)') = Cardinality(Issuing(b)) - 1
            BY <5>2, <5>3, FS_RemoveElement
          <5>6. /\ Cardinality(Unclaimed(b)) \in Nat
                /\ Cardinality(Issuing(b)) \in Nat
                /\ Cardinality(Request) \in Nat
            BY <5>3, RequestsAreFinite, FS_CardinalityType
          <5> QED
            BY <5>4, <5>5, <5>6
        <4>2. CASE browser[r] # b
          BY <3>2, <4>2, <2>f DEF Create, Unclaimed, Live, Issuing
        <4> QED BY <4>1, <4>2
      <3> QED BY <2>2, <3>1, <3>2 DEF Issue
    <2>3. CASE ClaimStep
      <3>1. /\ Unclaimed(b)' \subseteq Unclaimed(b)
            /\ Issuing(b)' \subseteq Issuing(b)
        BY <2>3, NoneAssumption DEF ClaimStep, Start, Claim, ClaimNothing,
           Unclaimed, Live, Issuing, LInv, ReadInv
      <3> QED BY <3>1, <2>f
    <2>4. CASE ConsumeStep
      <3>1. /\ Unclaimed(b)' \subseteq Unclaimed(b)
            /\ Issuing(b)' \subseteq Issuing(b)
        BY <2>4 DEF ConsumeStep, Poll, Consume, LoseRace, LookUp, OpenSession,
           Unclaimed, Live, Issuing
      <3> QED BY <3>1, <2>f
    <2>5. CASE Delete
      <3>1. /\ Unclaimed(b)' \subseteq Unclaimed(b)
            /\ Issuing(b)' \subseteq Issuing(b)
        BY <2>5 DEF Delete, EraseTokens, CommitWithdrawal, Cleanup,
           Unclaimed, Live, Issuing
      <3> QED BY <3>1, <2>f
    <2>6. CASE Environment
      <3>1. /\ Unclaimed(b)' \subseteq Unclaimed(b)
            /\ Issuing(b)' \subseteq Issuing(b)
        BY <2>6 DEF Environment, Expire, Bar, Crash, Unclaimed, Live, Issuing
      <3> QED BY <3>1, <2>f
    <2> QED
      BY <2>1, <2>2, <2>3, <2>4, <2>5, <2>6 DEF Next
  <1>3. BInv => UnclaimedBounded
    BY DEF UnclaimedBounded
  <1> QED
    BY <1>1, <1>2, <1>3, LoginInvariance, PTL DEF Spec

(* A claimed token is burned by a poll of its own browser only.            *)
THEOREM ClaimedTokensAreSpared == Spec => BurnedByItsBrowser
  <1>1. ASSUME LInv, [Next]_vars, NEW t \in Token,
               t \in consumed' \ consumed, telegram_id[t] # None
        PROVE \E r \in Request : /\ pc[r] = "consume" /\ token[r] = t
                                 /\ browser[r] = binding[t]
    <2> USE <1>1 DEF rows, requests
    <2>1. CASE UNCHANGED vars
      BY <2>1 DEF vars
    <2>2. CASE Issue
      BY <2>2 DEF Issue, Supersede, Create, Unclaimed
    <2>3. CASE ClaimStep
      BY <2>3 DEF ClaimStep, Start, Claim, ClaimNothing
    <2>4. CASE ConsumeStep
      <3>1. PICK r \in Request : Consume(r)
        BY <2>4 DEF ConsumeStep, Poll, LoseRace, LookUp, OpenSession
      <3> QED
        BY <3>1 DEF Consume, LInv, ReadInv
    <2>5. CASE Delete
      BY <2>5 DEF Delete, EraseTokens, CommitWithdrawal, Cleanup
    <2>6. CASE Environment
      BY <2>6 DEF Environment, Expire, Bar, Crash
    <2> QED
      BY <2>1, <2>2, <2>3, <2>4, <2>5, <2>6 DEF Next
  <1>2. LInv /\ [Next]_vars =>
          [\A t \in Token :
             t \in consumed' \ consumed /\ telegram_id[t] # None
               => \E r \in Request : /\ pc[r] = "consume" /\ token[r] = t
                                     /\ browser[r] = binding[t]]_vars
    BY <1>1
  <1> QED
    BY <1>2, LoginInvariance, PTL DEF Spec, BurnedByItsBrowser

(* No login brings a withdrawn account back.                               *)
THEOREM WithdrawalIsFinal == Spec => WithdrawnStays
  <1>1. ASSUME LInv, [Next]_vars, NEW u \in User, account[u] = "withdrawn"
        PROVE account'[u] = "withdrawn"
    <2> USE <1>1 DEF LInv, TypeOK, rows, requests
    <2>1. CASE UNCHANGED vars
      BY <2>1 DEF vars
    <2>2. CASE Issue
      BY <2>2 DEF Issue, Supersede, Create
    <2>3. CASE ClaimStep
      BY <2>3 DEF ClaimStep, Start, Claim, ClaimNothing
    <2>4. CASE ConsumeStep
      BY <2>4 DEF ConsumeStep, Poll, Consume, LoseRace, LookUp, OpenSession
    <2>5. CASE Delete
      BY <2>5 DEF Delete, EraseTokens, CommitWithdrawal, Cleanup
    <2>6. CASE Environment
      BY <2>6 DEF Environment, Expire, Bar, Crash
    <2> QED
      BY <2>1, <2>2, <2>3, <2>4, <2>5, <2>6 DEF Next
  <1>2. LInv /\ [Next]_vars =>
          [\A u \in User :
             account[u] = "withdrawn" => account'[u] = "withdrawn"]_vars
    BY <1>1
  <1> QED
    BY <1>2, LoginInvariance, PTL DEF Spec, WithdrawnStays

-----------------------------------------------------------------------------
(* The refinement.                                                         *)

\* LoginTicket's torn tickets.
Torn == {t \in Token : /\ t \in consumed \/ row[t] = "gone"
                       /\ ~InFlight(t)}

\* What a step that is no issue, no claim and no admission must do.
Tears == /\ binding' = binding /\ telegram_id' = telegram_id
         /\ sessions' = sessions /\ Torn \subseteq Torn'

(* Such a step tears tickets, or stutters.                                 *)
LEMMA TearsRefines == Tears => [Ticket!TicketNext]_(Ticket!tvars)
  <1> SUFFICES ASSUME Tears PROVE Ticket!TicketNext
    OBVIOUS
  <1>1. PICK S \in SUBSET Token : S = Torn' \ Torn
    BY DEF Torn
  <1>2. Torn' = Torn \cup S
    BY <1>1 DEF Tears
  <1>3. Ticket!Tear(S)
    BY <1>2 DEF Tears, Torn, Ticket!Tear
  <1> QED
    BY <1>3 DEF Ticket!TicketNext

(* A step that un-consumes no token, brings no deleted row back and starts *)
(* no flight tears tickets.                                                *)
LEMMA TornGrows ==
  ASSUME LInv, consumed \subseteq consumed',
         \A t \in Token : row[t] = "gone" => row'[t] = "gone",
         \A r \in Request : pc'[r] \in {"lookup", "open"}
            => /\ pc[r] \in {"lookup", "open"} /\ token'[r] = token[r]
  PROVE  Torn \subseteq Torn'
  BY DEF Torn, InFlight

(* The login implements the ticket.                                        *)
THEOREM TicketImplemented == Spec => ImplementsTicket
  <1>1. Init => Ticket!TicketInit
    BY DEF Init, Ticket!TicketInit, InFlight
  <1>2. LInv /\ [Next]_vars => [Ticket!TicketNext]_(Ticket!tvars)
    <2> SUFFICES ASSUME LInv, [Next]_vars
        PROVE [Ticket!TicketNext]_(Ticket!tvars)
      OBVIOUS
    <2>t. TypeOK /\ \A r \in Request : ReadInv(r) /\ FlightInv(r)
      BY DEF LInv
    <2>k. \A t \in Token : RowInv(t)
      BY DEF LInv
    <2>f. ASSUME binding' = binding, telegram_id' = telegram_id,
                 sessions' = sessions, consumed \subseteq consumed',
                 \A t \in Token : row[t] = "gone" => row'[t] = "gone",
                 \A r \in Request : pc'[r] \in {"lookup", "open"}
                   => pc[r] \in {"lookup", "open"} /\ token'[r] = token[r]
          PROVE [Ticket!TicketNext]_(Ticket!tvars)
      BY <2>f, TornGrows, TearsRefines DEF Tears
    <2> USE <2>t DEF TypeOK, rows, requests, Begin, End, Goto
    <2>1. CASE UNCHANGED vars
      BY <2>1, <2>f DEF vars
    <2>2. CASE Issue
      <3>1. ASSUME NEW r \in Request, NEW b \in Browser, Supersede(r, b)
            PROVE [Ticket!TicketNext]_(Ticket!tvars)
        BY <3>1, <2>f DEF Supersede
      <3>2. ASSUME NEW r \in Request, NEW t \in Token, Create(r, t)
            PROVE [Ticket!TicketNext]_(Ticket!tvars)
        <4>1. browser[r] \in Browser /\ binding[t] = None
          BY <3>2, <2>k DEF Create, ReadInv, RowInv
        <4>2. Torn' = Torn
          BY <3>2 DEF Create, Torn, InFlight
        <4>3. Ticket!HandOut(t, browser[r])
          BY <3>2, <4>1, <4>2 DEF Create, Torn, Ticket!HandOut
        <4> QED
          BY <4>1, <4>3 DEF Ticket!TicketNext
      <3> QED BY <2>2, <3>1, <3>2 DEF Issue
    <2>3. CASE ClaimStep
      <3>1. ASSUME NEW r \in Request, Claim(r)
            PROVE [Ticket!TicketNext]_(Ticket!tvars)
        <4> DEFINE t == token[r]
        <4>1. /\ t \in Token /\ user[r] \in User
              /\ row[t] = "row" /\ t \notin consumed /\ telegram_id[t] = None
              /\ binding[t] # None
          BY <3>1, <2>k DEF Claim, ReadInv, RowInv
        <4>2. Torn' = Torn /\ t \notin Torn
          BY <3>1, <4>1 DEF Claim, Torn, InFlight
        <4>3. Ticket!Vouch(t, user[r])
          BY <3>1, <4>1, <4>2 DEF Claim, Torn, Ticket!Vouch
        <4> QED
          BY <4>1, <4>3 DEF Ticket!TicketNext
      <3>2. ASSUME NEW r \in Request, NEW t \in Token, NEW u \in User,
                   Start(r, t, u)
            PROVE [Ticket!TicketNext]_(Ticket!tvars)
        BY <3>2, <2>f DEF Start
      <3>3. ASSUME NEW r \in Request, ClaimNothing(r)
            PROVE [Ticket!TicketNext]_(Ticket!tvars)
        BY <3>3, <2>f DEF ClaimNothing
      <3> QED BY <2>3, <3>1, <3>2, <3>3 DEF ClaimStep
    <2>4. CASE ConsumeStep
      <3>1. ASSUME NEW r \in Request, Consume(r)
            PROVE [Ticket!TicketNext]_(Ticket!tvars)
        <4>1. /\ token[r] \in Token /\ Live(token[r])
              /\ consumed' = consumed \cup {token[r]} /\ row' = row
              /\ token' = token /\ pc' = [pc EXCEPT ![r] = "lookup"]
          BY <3>1 DEF Consume, StillRedeemable, ReadInv
        <4>2. \A t \in Token \ {token[r]} : InFlight(t)' => InFlight(t)
          BY <4>1 DEF InFlight
        <4>3. token[r] \notin Torn
          BY <4>1 DEF Torn, Live
        <4>4. Torn \subseteq Torn'
          BY <4>1, <4>2, <4>3 DEF Torn
        <4> QED
          BY <3>1, <4>4, TearsRefines DEF Consume, Tears
      <3>2. ASSUME NEW r \in Request, OpenSession(r)
            PROVE [Ticket!TicketNext]_(Ticket!tvars)
        <4>0. PICK t \in Token : t = token[r]
          BY <3>2 DEF OpenSession, ReadInv
        <4>1. /\ browser[r] \in Browser /\ user[r] \in User
              /\ browser[r] = binding[t] /\ user[r] = telegram_id[t]
              /\ t \in consumed
              /\ \A q \in Request \ {r} :
                   pc[q] \in {"lookup", "open"} => token[q] # t
              /\ \A x \in sessions : x.token # token[r]
          BY <3>2, <4>0 DEF OpenSession, ReadInv, FlightInv
        <4>2. InFlight(t) /\ ~InFlight(t)'
          BY <3>2, <4>0, <4>1 DEF OpenSession, InFlight
        <4>3. \A x \in Token \ {t} : InFlight(x)' <=> InFlight(x)
          BY <3>2, <4>0 DEF OpenSession, InFlight
        <4>4. Torn' = Torn \cup {t} /\ t \notin Torn
          BY <3>2, <4>1, <4>2, <4>3 DEF OpenSession, Torn
        <4>5. Ticket!Admit(t)
          BY <3>2, <4>0, <4>1, <4>4, NoneAssumption DEF OpenSession, Torn,
             Ticket!Admit
        <4> QED
          BY <4>1, <4>5 DEF Ticket!TicketNext
      <3>3. ASSUME NEW r \in Request, NEW t \in Token, NEW b \in Browser,
                   Poll(r, t, b)
            PROVE [Ticket!TicketNext]_(Ticket!tvars)
        BY <3>3, <2>f DEF Poll
      <3>4. ASSUME NEW r \in Request, LoseRace(r)
            PROVE [Ticket!TicketNext]_(Ticket!tvars)
        BY <3>4, <2>f DEF LoseRace
      <3>5. ASSUME NEW r \in Request, LookUp(r)
            PROVE [Ticket!TicketNext]_(Ticket!tvars)
        BY <3>5, <2>f DEF LookUp
      <3> QED BY <2>4, <3>1, <3>2, <3>3, <3>4, <3>5 DEF ConsumeStep
    <2>5. CASE Delete
      BY <2>5, <2>f DEF Delete, EraseTokens, CommitWithdrawal, Cleanup
    <2>6. CASE Environment
      BY <2>6, <2>f DEF Environment, Expire, Bar, Crash
    <2> QED
      BY <2>1, <2>2, <2>3, <2>4, <2>5, <2>6 DEF Next
  <1> QED
    BY <1>1, <1>2, LoginInvariance, PTL DEF Spec, ImplementsTicket,
       Ticket!TicketSpec
(* A ticket admits once: what ImplementsTicket promises is worth having.    *)
THEOREM TicketIsGoodForOne == Ticket!TicketSpec => []Ticket!AdmitsOnce
  <1>1. Ticket!TicketInit => Ticket!AdmitsOnce
    BY DEF Ticket!TicketInit, Ticket!AdmitsOnce
  <1>2. Ticket!AdmitsOnce /\ [Ticket!TicketNext]_(Ticket!tvars) => Ticket!AdmitsOnce'
    <2> SUFFICES ASSUME Ticket!AdmitsOnce, [Ticket!TicketNext]_(Ticket!tvars)
                 PROVE  Ticket!AdmitsOnce'
      OBVIOUS
    <2> USE DEF Ticket!AdmitsOnce
    <2>1. ASSUME NEW t \in Token, NEW b \in Browser, Ticket!HandOut(t, b)
          PROVE  Ticket!AdmitsOnce'
      BY <2>1 DEF Ticket!HandOut
    <2>2. ASSUME NEW t \in Token, NEW u \in User, Ticket!Vouch(t, u)
          PROVE  Ticket!AdmitsOnce'
      BY <2>2 DEF Ticket!Vouch
    <2>3. ASSUME NEW S \in SUBSET Token, Ticket!Tear(S) PROVE Ticket!AdmitsOnce'
      BY <2>3 DEF Ticket!Tear
    <2>4. ASSUME NEW t \in Token, Ticket!Admit(t) PROVE Ticket!AdmitsOnce'
      BY <2>4 DEF Ticket!Admit
    <2>5. CASE UNCHANGED Ticket!tvars
      BY <2>5 DEF Ticket!tvars
    <2> QED
      BY <2>1, <2>2, <2>3, <2>4, <2>5 DEF Ticket!TicketNext
  <1> QED
    BY <1>1, <1>2, PTL DEF Ticket!TicketSpec
=============================================================================
