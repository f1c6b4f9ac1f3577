------------------------ MODULE WatchRenewal_proofs -------------------------
(***************************************************************************)
(* Proofs about WatchRenewal, for every set of users and every length of   *)
(* watch, window and period that its assumptions allow.                    *)
(***************************************************************************)
EXTENDS WatchRenewal, TLAPS

LEMMA InitType == Init => TypeOK
BY PeriodAssumption DEF Init, TypeOK

LEMMA NextType == TypeOK /\ [Next]_vars => TypeOK'
<1> SUFFICES ASSUME TypeOK, [Next]_vars PROVE TypeOK'
  OBVIOUS
<1> USE PeriodAssumption, LengthAssumption DEF TypeOK
<1>1. CASE Tick
  BY <1>1 DEF Tick
<1>2. CASE StartRun
  BY <1>2 DEF StartRun
<1>3. CASE ListFails
  BY <1>3 DEF ListFails
<1>4. ASSUME NEW u \in User, SignIn(u)
      PROVE  TypeOK'
  BY <1>4 DEF SignIn
<1>5. ASSUME NEW u \in User, SignInBroken(u)
      PROVE  TypeOK'
  BY <1>5 DEF SignInBroken
<1>6. ASSUME NEW u \in User, Watch(u)
      PROVE  TypeOK'
  BY <1>6 DEF Watch
<1>7. ASSUME NEW u \in User, SaveExpiration(u)
      PROVE  TypeOK'
  BY <1>7 DEF SaveExpiration
<1>8. ASSUME NEW u \in User, RenewFails(u)
      PROVE  TypeOK'
  BY <1>8 DEF RenewFails
<1>9. CASE UNCHANGED vars
  BY <1>9 DEF vars
<1> QED  BY <1>1, <1>2, <1>3, <1>4, <1>5, <1>6, <1>7, <1>8, <1>9 DEF Next

\* Every variable keeps its type in every reachable state.
THEOREM TypeCorrect == Spec => []TypeOK
BY InitType, NextType, PTL DEF Spec

-----------------------------------------------------------------------------

LEMMA InitRenewal == Init => RenewalInv
BY PeriodAssumption, LengthAssumption DEF Init, RenewalInv, RowNotAhead, RunInTime

LEMMA NextRenewal == TypeOK /\ RenewalInv /\ [Next]_vars => RenewalInv'
<1> SUFFICES ASSUME TypeOK, RenewalInv, [Next]_vars PROVE RenewalInv'
  OBVIOUS
<1> USE PeriodAssumption, LengthAssumption, WindowAssumption, NoWatchAssumption
    DEF TypeOK, RenewalInv, RowNotAhead, RunInTime
<1>1. CASE Tick
  BY <1>1 DEF Tick
<1>2. CASE StartRun
  <2>1. /\ clock = nextRun /\ due \cup renewing = {} /\ nextRun' = clock + CronPeriod
        /\ UNCHANGED <<clock, users, expiration, watchUntil, renewing, slack>>
        /\ due' = {u \in users : WatchDue(u)}
    BY <1>2 DEF StartRun
  <2>2. ASSUME NEW u \in User, expiration'[u] # NoWatch
        PROVE  IF u \in due' \cup renewing'
                 THEN nextRun' < expiration'[u] + slack'[u] + CronPeriod
                 ELSE nextRun' < expiration'[u] + slack'[u]
    <3>1. expiration[u] \in Nat /\ slack[u] \in Nat /\ nextRun < expiration[u] + slack[u]
      BY <2>1, <2>2
    <3>2. CASE u \in due'
      BY <2>1, <3>1, <3>2
    <3>3. CASE u \notin due' /\ u \in users
      BY <2>1, <3>1, <3>3 DEF WatchDue
    <3>4. CASE u \notin users
      BY <2>1, <2>2, <3>1, <3>4
    <3> QED  BY <3>2, <3>3, <3>4
  <2> QED  BY <2>1, <2>2
<1>3. CASE ListFails
  BY <1>3 DEF ListFails, WatchDue
<1>4. ASSUME NEW u \in User, SignIn(u)
      PROVE  RenewalInv'
  BY <1>4 DEF SignIn
<1>5. ASSUME NEW u \in User, SignInBroken(u)
      PROVE  RenewalInv'
  BY <1>5 DEF SignInBroken
<1>6. ASSUME NEW u \in User, Watch(u)
      PROVE  RenewalInv'
  <2>1. /\ renewing = {} /\ u \in due /\ due' = due \ {u} /\ renewing' = {u}
        /\ watchUntil' = [watchUntil EXCEPT ![u] = clock + WatchLength]
        /\ UNCHANGED <<clock, nextRun, users, expiration, slack>>
    BY <1>6 DEF Watch
  <2>2. due' \cup renewing' = due \cup renewing
    BY <2>1
  <2>3. RunInTime'
    BY <2>1, <2>2
  <2>4. RowNotAhead'
    BY <2>1
  <2> QED  BY <2>1, <2>2, <2>3, <2>4
<1>7. ASSUME NEW u \in User, SaveExpiration(u)
      PROVE  RenewalInv'
  <2>1. /\ u \in renewing /\ renewing' = {}
        /\ expiration' = [expiration EXCEPT ![u] = clock + WatchLength]
        /\ slack' = [slack EXCEPT ![u] = 0]
        /\ UNCHANGED <<clock, nextRun, users, watchUntil, due>>
    BY <1>7 DEF SaveExpiration
  <2>2. renewing = {u} /\ u \notin due /\ u \in users
    BY <2>1
  <2>3. RunInTime'
    <3>1. ASSUME NEW v \in User, v # u
          PROVE  /\ expiration'[v] = expiration[v] /\ slack'[v] = slack[v]
                 /\ v \in due' \cup renewing' <=> v \in due \cup renewing
      BY <2>1, <2>2, <3>1
    <3>2. nextRun' < expiration'[u] + slack'[u] /\ u \notin due' \cup renewing'
      BY <2>1, <2>2
    <3> QED  BY <2>1, <3>1, <3>2
  <2>4. RowNotAhead'
    BY <2>1
  <2> QED  BY <2>1, <2>2, <2>3, <2>4
<1>8. ASSUME NEW u \in User, RenewFails(u)
      PROVE  RenewalInv'
  BY <1>8 DEF RenewFails
<1>9. CASE UNCHANGED vars
  BY <1>9 DEF vars
<1> QED  BY <1>1, <1>2, <1>3, <1>4, <1>5, <1>6, <1>7, <1>8, <1>9 DEF Next

\* A run comes before a watch ends, or one period late for every failure.
LEMMA InTime == TypeOK /\ RenewalInv => LapsesAtMostADay
BY PeriodAssumption DEF TypeOK, RenewalInv, RowNotAhead, RunInTime, LapsesAtMostADay

\* The row never promises a longer watch than Gmail keeps.
THEOREM NotAhead == Spec => []RowNotAhead
<1>1. RenewalInv => RowNotAhead
  BY DEF RenewalInv
<1> QED  BY <1>1, InitType, NextType, InitRenewal, NextRenewal, PTL DEF Spec

\* With a window as long as the period and a longer watch, a watch lapses for
\* less than one period for each run that failed for its user.
THEOREM LapseBound == Spec => []LapsesAtMostADay
BY InTime, InitType, NextType, InitRenewal, NextRenewal, PTL DEF Spec

=============================================================================
