---------------------------- MODULE WatchRenewal ----------------------------
(***************************************************************************)
(* The daily renewal of every user's watch, over time: renewWatches of     *)
(* src/cron/renewWatch.ts, with the sign-ins that add users.  A watch ends *)
(* WatchLength after users.watch was called for it; the cron job runs      *)
(* every CronPeriod and renews the watches that end within RenewWindow.    *)
(*                                                                         *)
(* The clock stands still while a run goes through its users: a run is     *)
(* short next to a unit of time.                                           *)
(***************************************************************************)
EXTENDS Integers, FiniteSets

CONSTANTS
  User,
  NoWatch,       \* users.watch_expiration is null
  WatchLength,   \* how long Gmail publishes after users.watch: 7 days
  RenewWindow,   \* RENEW_WINDOW_MS: 24 hours
  CronPeriod,    \* vercel.json: once a day
  MaxClock       \* bound: how far the clock goes

ASSUME NoWatchAssumption == NoWatch \notin Nat
ASSUME PeriodAssumption == CronPeriod \in Nat \ {0} /\ MaxClock \in Nat
ASSUME WindowAssumption == RenewWindow \in Nat /\ RenewWindow >= CronPeriod
ASSUME LengthAssumption == WatchLength \in Nat /\ WatchLength > CronPeriod

VARIABLES
  clock,
  nextRun,      \* when the cron job starts next
  users,        \* who has a row
  expiration,   \* users.watch_expiration
  watchUntil,   \* when Gmail stops publishing; 0 if it never began
  due,          \* the users the run has still to renew
  renewing,     \* the one whose users.watch has answered
  slack         \* history: CronPeriod for each failed run since the last renewal

vars == <<clock, nextRun, users, expiration, watchUntil, due, renewing, slack>>

Init ==
  /\ clock = 0
  /\ nextRun \in 0..CronPeriod
  /\ users = {}
  /\ expiration = [u \in User |-> NoWatch]
  /\ watchUntil = [u \in User |-> 0]
  /\ due = {}
  /\ renewing = {}
  /\ slack = [u \in User |-> 0]

Tick ==
  /\ clock < MaxClock
  /\ clock < nextRun
  /\ due = {} /\ renewing = {}
  /\ clock' = clock + 1
  /\ UNCHANGED <<nextRun, users, expiration, watchUntil, due, renewing, slack>>

\* A sign-in, or a sign-in again, that registers the watch and stores it.
SignIn(u) ==
  /\ users' = users \cup {u}
  /\ watchUntil' = [watchUntil EXCEPT ![u] = clock + WatchLength]
  /\ expiration' = [expiration EXCEPT ![u] = clock + WatchLength]
  /\ slack' = [slack EXCEPT ![u] = 0]
  /\ UNCHANGED <<clock, nextRun, due, renewing>>

\* Mutant: the row is written before users.watch is called.
SignInSavedFirst(u) ==
  /\ users' = users \cup {u}
  /\ expiration' = [expiration EXCEPT ![u] = clock + WatchLength]
  /\ UNCHANGED <<clock, nextRun, watchUntil, due, renewing, slack>>

\* users.watch or saveWatch fails in the sign-in: the row stays as it was, and
\* has no watch if it is new.
SignInBroken(u) ==
  /\ users' = users \cup {u}
  /\ \/ watchUntil' = [watchUntil EXCEPT ![u] = clock + WatchLength]
     \/ u \notin users /\ UNCHANGED watchUntil
  /\ UNCHANGED <<clock, nextRun, expiration, due, renewing, slack>>

-----------------------------------------------------------------------------
(* renewWatches *)

\* Mutant: `lt` for `lte`.
WatchDueLate(u) == expiration[u] = NoWatch \/ expiration[u] < clock + RenewWindow

WatchDue(u) == expiration[u] = NoWatch \/ expiration[u] <= clock + RenewWindow

\* findUsersWithWatchDue.
StartRun ==
  /\ clock = nextRun
  /\ nextRun' = nextRun + CronPeriod
  /\ due' = {u \in users : WatchDue(u)}
  /\ UNCHANGED <<clock, users, expiration, watchUntil, renewing, slack>>

\* The list of due users cannot be read: the whole run fails.
ListFails ==
  /\ clock = nextRun
  /\ nextRun' = nextRun + CronPeriod
  /\ slack' = [u \in User |-> IF u \in users /\ WatchDue(u) THEN slack[u] + CronPeriod ELSE slack[u]]
  /\ UNCHANGED <<clock, users, expiration, watchUntil, due, renewing>>

\* renewOne, up to the answer of users.watch; one user at a time.
Watch(u) ==
  /\ renewing = {}
  /\ u \in due
  /\ due' = due \ {u}
  /\ renewing' = {u}
  /\ watchUntil' = [watchUntil EXCEPT ![u] = clock + WatchLength]
  /\ UNCHANGED <<clock, nextRun, users, expiration, slack>>

\* updateWatchExpiration.
SaveExpiration(u) ==
  /\ u \in renewing
  /\ renewing' = {}
  /\ expiration' = [expiration EXCEPT ![u] = clock + WatchLength]
  /\ slack' = [slack EXCEPT ![u] = 0]
  /\ UNCHANGED <<clock, nextRun, users, watchUntil, due>>

\* connect or users.watch fails, or updateWatchExpiration after them: the user
\* is counted as skipped or failed, and the loop goes on.
RenewFails(u) ==
  /\ u \in renewing \/ (renewing = {} /\ u \in due)
  /\ renewing' = {}
  /\ due' = due \ {u}
  /\ slack' = [slack EXCEPT ![u] = @ + CronPeriod]
  /\ UNCHANGED <<clock, nextRun, users, expiration, watchUntil>>

-----------------------------------------------------------------------------

Next ==
  \/ Tick \/ StartRun \/ ListFails
  \/ \E u \in User :
       SignIn(u) \/ SignInBroken(u) \/ Watch(u) \/ SaveExpiration(u) \/ RenewFails(u)

Spec == Init /\ [][Next]_vars

-----------------------------------------------------------------------------
(* Properties *)

TypeOK ==
  /\ clock \in Nat
  /\ nextRun \in Nat
  /\ {users, due, renewing} \subseteq SUBSET User
  /\ expiration \in [User -> Nat \cup {NoWatch}]
  /\ watchUntil \in [User -> Nat]
  /\ slack \in [User -> Nat]

\* The row never says that Gmail publishes for longer than it does, or the
\* renewal would come too late.
RowNotAhead ==
  \A u \in User : expiration[u] # NoWatch => expiration[u] <= watchUntil[u]

\* "If that attempt fails the watch lapses for at most a day, and the next run
\* re-registers it": a user who was ever watched is watched now, or its watch
\* ended less than one period for each failed attempt ago.  A user's own
\* failures alone count, so the failure of one costs another nothing.
LapsesAtMostADay ==
  \A u \in User : expiration[u] # NoWatch => clock < watchUntil[u] + slack[u]

\* Behind it: what the next run finds.  A user still to be renewed was due one
\* period before the next run.
RunInTime ==
  \A u \in User : expiration[u] # NoWatch =>
    IF u \in due \cup renewing
      THEN nextRun < expiration[u] + slack[u] + CronPeriod
      ELSE nextRun < expiration[u] + slack[u]

RenewalInv ==
  /\ RowNotAhead
  /\ RunInTime
  /\ clock <= nextRun /\ nextRun <= clock + CronPeriod
  /\ due \cup renewing # {} => nextRun = clock + CronPeriod
  /\ \A u \in renewing : watchUntil[u] = clock + WatchLength
  /\ due \cup renewing \subseteq users
  /\ due \cap renewing = {}
  /\ \A u \in User \ users : expiration[u] = NoWatch
  /\ \A u \in User : watchUntil[u] <= clock + WatchLength
  /\ \A u \in User, v \in renewing : u \in renewing => u = v

=============================================================================
