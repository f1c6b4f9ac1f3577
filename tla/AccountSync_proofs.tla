------------------------- MODULE AccountSync_proofs --------------------------
(***************************************************************************)
(* Theorems about AccountSync.  The types hold for any number of sign-ins, *)
(* the rest of a user's first one: a second consent stores a watermark     *)
(* again, whatever the one before it was.                                  *)
(***************************************************************************)
EXTENDS AccountSync, WebhookSync_proofs

\* A step of a sign-in or a renewal that reads no message and stores none: it goes on
\* with what it holds, or starts or ends with nothing.
Moves(p) ==
  /\ UNCHANGED <<mailboxVars, rows, applied>>
  /\ \A q \in Job \ {p} : job'[q] = job[q]
  /\ job'[p].pc \in AccountPC \cup {"idle", "inbox"}
  /\ job'[p].latest \in {0, job[p].latest, historyId}
  /\ \/ /\ job'[p].task \in {"none", "signIn"}
        /\ job'[p].todo = {} /\ job'[p].fetched = NoneFetched
        /\ job'[p].remove = {} /\ job'[p].got = {}
     \/ /\ job'[p].task = job[p].task
        /\ job'[p].todo = job[p].todo /\ job'[p].fetched = job[p].fetched
        /\ job'[p].remove = job[p].remove /\ job'[p].got = job[p].got

LEMMA IdleIs ==
  /\ Idle.pc = "idle" /\ Idle.task = "none" /\ Idle.latest = 0
  /\ Idle.todo = {} /\ Idle.fetched = NoneFetched /\ Idle.remove = {} /\ Idle.got = {}
BY DEF Idle

LEMMA MoveOn ==
  ASSUME SyncTypeOK, NEW p \in Job, UNCHANGED <<mailboxVars, rows, applied>>,
         NEW pc \in AccountPC \cup {"inbox"}, NEW latest \in {job[p].latest, historyId},
         job' = [job EXCEPT ![p].pc = pc, ![p].latest = latest]
  PROVE  Moves(p) /\ job' \in [Job -> JobRecord]
<1>1. latest \in Nat /\ pc \in SyncPC \cup AccountPC
  BY DEF SyncTypeOK, MailboxTypeOK, JobRecord, historyId, SyncPC
<1>2. /\ job'[p].pc = pc /\ job'[p].latest = latest /\ job'[p].task = job[p].task
      /\ job'[p].todo = job[p].todo /\ job'[p].fetched = job[p].fetched
      /\ job'[p].remove = job[p].remove /\ job'[p].got = job[p].got
      /\ \A q \in Job \ {p} : job'[q] = job[q]
  BY DEF SyncTypeOK, JobRecord
<1>3. [job[p] EXCEPT !.pc = pc, !.latest = latest] \in JobRecord
  BY <1>1 DEF SyncTypeOK, JobRecord
<1>4. job' \in [Job -> JobRecord]
  BY <1>3, JobUpdate DEF SyncTypeOK
<1> QED  BY <1>2, <1>4 DEF Moves

LEMMA MoveTo ==
  ASSUME SyncTypeOK, NEW p \in Job, UNCHANGED <<mailboxVars, rows, applied>>,
         NEW r \in JobRecord, job' = [job EXCEPT ![p] = r],
         r.pc \in AccountPC \cup {"idle"}, r.task \in {"none", "signIn"}, r.latest = 0,
         r.todo = {}, r.fetched = NoneFetched, r.remove = {}, r.got = {}
  PROVE  Moves(p) /\ job' \in [Job -> JobRecord]
<1>1. job'[p] = r /\ \A q \in Job \ {p} : job'[q] = job[q]
  BY DEF SyncTypeOK
<1>2. job' \in [Job -> JobRecord]
  BY JobUpdate DEF SyncTypeOK
<1> QED  BY <1>1, <1>2 DEF Moves

\* The steps of Moves.
Account(p) ==
  \/ SignIn(p) \/ RegisterWatch(p, "watch", "saveWatch") \/ SaveWatch(p) \/ SignedIn(p)
  \/ RenewalDue(p) \/ RenewStep(p)

LEMMA AccountMoves ==
  ASSUME SyncTypeOK, NEW p \in Job, Account(p)
  PROVE  Moves(p) /\ job' \in [Job -> JobRecord]
<1>1. CASE SignIn(p)
  <2> DEFINE r == [Idle EXCEPT !.pc = "watch", !.task = "signIn"]
  <2>1. r \in JobRecord
    BY IdleType DEF JobRecord, AccountPC
  <2>2. /\ r.pc = "watch" /\ r.task = "signIn" /\ r.latest = 0
        /\ r.todo = {} /\ r.fetched = NoneFetched /\ r.remove = {} /\ r.got = {}
    BY DEF Idle
  <2>3. job' = [job EXCEPT ![p] = r] /\ UNCHANGED <<mailboxVars, rows, applied>>
    BY <1>1 DEF SignIn, tableVars
  <2>4. "watch" \in AccountPC \cup {"idle"}
    BY DEF AccountPC
  <2> HIDE DEF r
  <2> QED  BY <2>1, <2>2, <2>3, <2>4, MoveTo
<1>2. CASE SignedIn(p) \/ SaveExpiration(p)
  <2>1. job' = [job EXCEPT ![p] = Idle] /\ UNCHANGED <<mailboxVars, rows, applied>>
    BY <1>2 DEF SignedIn, SaveExpiration, Finish, tableVars
  <2> QED  BY <2>1, IdleType, IdleIs, MoveTo
<1>3. ASSUME NEW from, NEW next \in AccountPC, RegisterWatch(p, from, next)
      PROVE  Moves(p) /\ job' \in [Job -> JobRecord]
  BY <1>3, MoveOn DEF RegisterWatch, tableVars
<1>4. CASE SaveWatch(p)
  <2>1. job' = [job EXCEPT ![p].pc = "inbox", ![p].latest = job[p].latest]
    BY <1>4 DEF SaveWatch, SyncTypeOK, JobRecord
  <2> QED  BY <1>4, <2>1, MoveOn DEF SaveWatch
<1>5. CASE RenewalDue(p)
  <2>1. job' = [job EXCEPT ![p].pc = "renew", ![p].latest = job[p].latest]
    BY <1>5 DEF RenewalDue, SyncTypeOK, JobRecord
  <2>2. "renew" \in AccountPC
    BY DEF AccountPC
  <2> QED  BY <1>5, <2>1, <2>2, MoveOn DEF RenewalDue, tableVars
<1>6. {"saveWatch", "saveExpiration"} \subseteq AccountPC
  BY DEF AccountPC
<1> QED  BY <1>1, <1>2, <1>3, <1>4, <1>5, <1>6 DEF Account, RenewStep

-----------------------------------------------------------------------------
(* Types *)

LEMMA WebhookNext ==
  ASSUME WebhookStep
  PROVE  [Next]_vars /\ UNCHANGED accountVars
BY DEF WebhookStep, Next

LEMMA AccountType == AccountTypeOK /\ [AccountNext]_allAccountVars => AccountTypeOK'
<1> SUFFICES ASSUME AccountTypeOK, [AccountNext]_allAccountVars PROVE AccountTypeOK'
  OBVIOUS
<1>0. SyncTypeOK
  BY DEF AccountTypeOK
<1>1. CASE AccountChanges
  <2>1. MailboxTypeOK'
    BY <1>0, <1>1, OwnerType DEF AccountChanges, SyncTypeOK
  <2> QED  BY <1>0, <1>1, <2>1 DEF AccountChanges, AccountTypeOK, SyncTypeOK, TablesTypeOK, tableVars, accountVars
<1>2. CASE WatchLapses \/ UNCHANGED allAccountVars
  BY <1>0, <1>2 DEF WatchLapses, AccountTypeOK, SyncTypeOK, MailboxTypeOK, TablesTypeOK, mailboxVars,
     tableVars, accountVars, vars, allAccountVars
<1>3. CASE WebhookStep
  BY <1>0, <1>3, WebhookNext, NextType DEF AccountTypeOK, accountVars
<1>4. ASSUME NEW p \in Job, SignInBackfill(p)
      PROVE  AccountTypeOK'
  <2>1. "signedIn" \in AccountPC
    BY DEF AccountPC
  <2>2. SyncTypeOK'
    BY <1>0, <1>4, <2>1, BackfillType DEF SignInBackfill
  <2> QED  BY <1>4, <2>2 DEF AccountTypeOK, SignInBackfill, accountVars
<1>5. ASSUME NEW p \in Job, Account(p)
      PROVE  AccountTypeOK'
  <2>1. job' \in [Job -> JobRecord] /\ UNCHANGED <<mailboxVars, rows, applied>>
    BY <1>0, <1>5, AccountMoves DEF Moves
  <2>2. MailboxTypeOK'
    BY <1>0, <2>1 DEF SyncTypeOK, MailboxTypeOK, mailboxVars
  <2>3. pushed' = pushed
    BY <1>5 DEF Account, SignIn, RegisterWatch, SaveWatch, SignedIn, RenewalDue, RenewStep, SaveExpiration
  <2>4. watermark' \in Nat \cup {NoHistoryId} /\ base' \in Nat
    <3>1. CASE SaveWatch(p)
      BY <1>0, <3>1 DEF SaveWatch, SyncTypeOK, TablesTypeOK, JobRecord
    <3>2. CASE ~SaveWatch(p)
      BY <1>0, <1>5, <3>2 DEF Account, SignIn, RegisterWatch, SignedIn, RenewalDue, RenewStep,
         SaveExpiration, tableVars, SyncTypeOK, TablesTypeOK
    <3> QED  BY <3>1, <3>2
  <2>5. TablesTypeOK'
    BY <1>0, <2>1, <2>4 DEF SyncTypeOK, TablesTypeOK
  <2>6. /\ signIns' \in {signIns, signIns + 1} /\ watching' \in {watching, TRUE}
        /\ expiration' \in {expiration, TRUE} /\ backfilled' \in {backfilled, TRUE}
    BY <1>5 DEF Account, SignIn, RegisterWatch, SaveWatch, SignedIn, RenewalDue, RenewStep, SaveExpiration,
       accountVars
  <2>7. signIns' \in Nat
    BY <2>6 DEF AccountTypeOK
  <2>8. watching' \in BOOLEAN /\ expiration' \in BOOLEAN /\ backfilled' \in BOOLEAN
    BY <2>6, Zenon DEF AccountTypeOK
  <2>9. SyncTypeOK'
    BY <1>0, <2>1, <2>2, <2>3, <2>5 DEF SyncTypeOK
  <2> QED  BY <2>7, <2>8, <2>9 DEF AccountTypeOK
<1> QED  BY <1>1, <1>2, <1>3, <1>4, <1>5 DEF AccountNext, SignInStep, Account

LEMMA InitAccount == AccountInit => TurnInit /\ AccountTypeOK
<1>1. AccountInit => TurnInit
  BY DEF AccountInit, TurnInit, Init
<1>2. TurnInit => SyncTypeOK
  BY InitType DEF TurnInit
<1>3. AccountInit => /\ signIns = 0 /\ watching \in BOOLEAN
                     /\ expiration \in BOOLEAN /\ backfilled \in BOOLEAN
  BY DEF AccountInit
<1> QED  BY <1>1, <1>2, <1>3 DEF AccountTypeOK

\* Every variable keeps its type, whatever sign-ins, renewals and syncs run at once.
THEOREM AccountTypeCorrect == AccountSpec => []AccountTypeOK
BY InitAccount, AccountType, PTL DEF AccountSpec

-----------------------------------------------------------------------------
(* What a user's first sign-in does to the watermark *)

\* What a step of the webhook's sync leaves of a job: itself, nothing, or a job of a
\* sync whose user has a watermark.
LEMMA WebhookMoves ==
  ASSUME SyncTypeOK, SyncTypeOK', FeedInv, SignInInv, WebhookStep
  PROVE  /\ \A q \in Job :
              \/ job'[q] = job[q] \/ job'[q] = Idle
              \/ /\ job[q].pc \in SyncPC /\ (job[q].pc # "idle" \/ watermark # NoHistoryId)
                 /\ job'[q].pc \in SyncPC /\ job'[q].task # "signIn"
         /\ (watermark' = watermark /\ base' = base) \/ \E p \in Job : Advance(p)
<1>1. CASE HistoryExpires \/ PushLost \/ IgnorePush
  BY <1>1 DEF HistoryExpires, PushLost, IgnorePush, tableVars
<1>2. ASSUME NEW p \in Job, StartSync(p)
      PROVE  /\ \A q \in Job \ {p} : job'[q] = job[q]
             /\ job[p].pc \in SyncPC /\ watermark # NoHistoryId
             /\ job'[p].pc \in SyncPC /\ job'[p].task # "signIn"
             /\ watermark' = watermark /\ base' = base
  <2>1. job'[p] = [Idle EXCEPT !.pc = "list", !.task = "delta", !.cursor = watermark,
                               !.latest = watermark]
    BY <1>2 DEF StartSync, SyncTypeOK
  <2>2. job'[p].pc = "list" /\ job'[p].task = "delta"
    BY <2>1 DEF Idle
  <2> QED  BY <1>2, <2>2 DEF StartSync, SyncTypeOK, SyncPC, tableVars
<1>3. ASSUME NEW p \in Job, Finish(p)
      PROVE  \A q \in Job : job'[q] = job[q] \/ job'[q] = Idle
  BY <1>3 DEF Finish, SyncTypeOK
<1>4. ASSUME NEW p \in Job, ListHistory(p) \/ FetchChanged(p) \/ StoreChanged(p) \/ DeleteRemoved(p)
                            \/ HistoryGone(p) \/ TakeProfile(p)
      PROVE  /\ \A q \in Job \ {p} : job'[q] = job[q]
             /\ job[p].pc \in {"list", "fetch", "delete", "profile"}
             /\ job'[p].pc \in SyncPC /\ job'[p].task \in {job[p].task, "resync"}
             /\ watermark' = watermark /\ base' = base
  <2>1. CASE ListHistory(p)
    BY <2>1 DEF ListHistory, SyncTypeOK, JobRecord, SyncPC, tableVars
  <2>2. CASE FetchChanged(p)
    BY <2>2 DEF FetchChanged, SyncTypeOK, JobRecord, SyncPC, tableVars
  <2>3. CASE StoreChanged(p)
    BY <2>3 DEF StoreChanged, SyncTypeOK, JobRecord, SyncPC
  <2>4. CASE DeleteRemoved(p)
    BY <2>4 DEF DeleteRemoved, SyncTypeOK, JobRecord, SyncPC
  <2>5. CASE HistoryGone(p) \/ TakeProfile(p)
    BY <2>5 DEF HistoryGone, TakeProfile, SyncTypeOK, JobRecord, SyncPC, tableVars
  <2> QED  BY <1>4, <2>1, <2>2, <2>3, <2>4, <2>5
<1>5. ASSUME NEW p \in Job, Backfill(p), ~PageMessageGone(p)
      PROVE  /\ \A q \in Job \ {p} : job'[q] = job[q]
             /\ job[p].pc \in {"inbox", "page"} /\ job[p].task = "resync"
             /\ job'[p].pc \in SyncPC /\ job'[p].task = job[p].task
             /\ watermark' = watermark /\ base' = base
  <2>1. job[p].task = "resync" /\ (ListInbox(p) \/ FetchPageMessage(p) \/ StorePage(p, "advance"))
    BY <1>5 DEF Backfill
  <2>2. /\ job'[p].pc \in {"inbox", "page", "advance"} /\ job'[p].task = job[p].task
        /\ \A q \in Job \ {p} : job'[q] = job[q]
    BY <2>1, BackfillLocals
  <2>3. job[p].pc \in {"inbox", "page"} /\ watermark' = watermark /\ base' = base
    BY <2>1 DEF ListInbox, FetchPageMessage, StorePage, tableVars
  <2> QED  BY <2>1, <2>2, <2>3 DEF SyncPC
<1>6. {"list", "fetch", "delete", "profile", "inbox", "page"} \subseteq SyncPC
  BY DEF SyncPC
<1>7. \A p \in Job : job[p].pc \in {"list", "fetch", "delete", "profile"} => job[p].task # "signIn"
  BY DEF SignInInv
<1>8. ASSUME NEW p \in Job, PageMessageGone(p) \/ Fail(p)
      PROVE  Finish(p) /\ watermark' = watermark /\ base' = base
  BY <1>8 DEF PageMessageGone, Fail, tableVars
<1>9. ASSUME NEW p \in Job, Advance(p)
      PROVE  Finish(p)
  BY <1>9 DEF Advance
<1>10. ASSUME NEW p \in Job, SyncStep(p), ~Advance(p), ~PageMessageGone(p)
       PROVE  /\ \A q \in Job \ {p} : job'[q] = job[q]
              /\ job[p].pc \in SyncPC /\ job[p].pc # "idle"
              /\ job'[p].pc \in SyncPC /\ job'[p].task # "signIn"
              /\ watermark' = watermark /\ base' = base
  BY <1>10, <1>4, <1>5, <1>6, <1>7 DEF SyncStep
<1>11. ASSUME NEW p \in Job, StartSync(p) \/ SyncStep(p) \/ Fail(p)
       PROVE  /\ \A q \in Job :
                   \/ job'[q] = job[q] \/ job'[q] = Idle
                   \/ /\ job[q].pc \in SyncPC /\ (job[q].pc # "idle" \/ watermark # NoHistoryId)
                      /\ job'[q].pc \in SyncPC /\ job'[q].task # "signIn"
              /\ (watermark' = watermark /\ base' = base) \/ \E q \in Job : Advance(q)
  <2>1. CASE StartSync(p)
    BY <2>1, <1>2
  <2>2. CASE Advance(p) \/ PageMessageGone(p) \/ Fail(p)
    BY <2>2, <1>3, <1>8, <1>9
  <2>3. CASE SyncStep(p) /\ ~Advance(p) /\ ~PageMessageGone(p)
    BY <2>3, <1>10
  <2> QED  BY <1>11, <2>1, <2>2, <2>3
<1> QED  BY <1>1, <1>11 DEF WebhookStep, HistoryExpires, PushLost, IgnorePush, tableVars

\* Only the last step of a sync moves a watermark that is set.
LEMMA WebhookMark ==
  ASSUME SyncTypeOK, WebhookStep, watermark' # watermark
  PROVE  /\ watermark' \in Nat
         /\ \E p \in Job : Advance(p) /\ job[p].pc = "advance"
<1>1. PICK p \in Job : Advance(p)
  BY WebhookNext, OnlyAdvance
<1>2. job[p].pc = "advance" /\ job[p].latest \in Nat
  BY <1>1 DEF Advance, SyncTypeOK, JobRecord
<1>3. watermark' \in Nat
  BY <1>1, <1>2 DEF Advance, AdvanceHistoryId
<1> QED  BY <1>1, <1>2, <1>3

LEMMA WebhookSignIns ==
  ASSUME SyncTypeOK, SyncTypeOK', FeedInv, SignInInv, WebhookStep
  PROVE  SignInInv'
<1>0. UNCHANGED <<signIns, backfilled>>
  BY WebhookNext DEF accountVars
<1>1. \A q \in Job :
         \/ job'[q] = job[q] \/ job'[q] = Idle
         \/ /\ job[q].pc \in SyncPC /\ (job[q].pc # "idle" \/ watermark # NoHistoryId)
            /\ job'[q].pc \in SyncPC /\ job'[q].task # "signIn"
  BY WebhookMoves
<1>2. CASE watermark = NoHistoryId
  <2>1. \A q \in Job : job[q].pc \in SyncPC => job[q].pc = "idle"
    BY <1>2 DEF SignInInv, SyncPC, AccountPC
  <2>2. \A q \in Job : job'[q] = job[q] \/ job'[q] = Idle
    BY <1>1, <1>2, <2>1
  <2>3. watermark' = watermark
    <3>1. "advance" \in SyncPC
      BY DEF SyncPC
    <3> QED  BY <2>1, <3>1, WebhookMark
  <2> QED  BY <1>0, <1>2, <2>2, <2>3, IdleIs DEF SignInInv
<1>3. CASE watermark # NoHistoryId
  <2>1. watermark' # NoHistoryId
    BY <1>3, WebhookMark, NoHistoryIdAssumption
  <2>2. signIns # 0 /\ \A q \in Job : job[q].pc \notin {"watch", "saveWatch"}
    BY <1>3 DEF SignInInv
  <2>3. \A q \in Job : job'[q].pc \notin {"watch", "saveWatch"}
    BY <1>1, <2>2, IdleIs DEF SyncPC
  <2>4. ASSUME NEW q \in Job
        PROVE  /\ job'[q].task = "signIn" => job'[q].pc \in {"watch", "saveWatch", "inbox", "page", "signedIn"}
               /\ job'[q].pc \in {"watch", "saveWatch", "signedIn"} => job'[q].task = "signIn"
    <3>1. CASE job'[q] = job[q] \/ job'[q] = Idle
      BY <3>1, IdleIs DEF SignInInv
    <3>2. CASE job'[q].pc \in SyncPC /\ job'[q].task # "signIn"
      BY <3>2 DEF SyncPC
    <3> QED  BY <1>1, <3>1, <3>2
  <2> QED  BY <1>0, <2>1, <2>2, <2>3, <2>4 DEF SignInInv
<1> QED  BY <1>2, <1>3

\* What a step of a sign-in's backfill leaves of its job.
LEMMA BackfillMoves ==
  ASSUME SyncTypeOK, SyncTypeOK', FeedInv, NEW p \in Job, SignInBackfill(p)
  PROVE  /\ \A q \in Job \ {p} : job'[q] = job[q]
         /\ job[p].pc \in {"inbox", "page"} /\ job[p].task = "signIn"
         /\ \/ job'[p] = Idle
            \/ /\ job'[p].pc \in {"inbox", "page", "signedIn"} /\ job'[p].task = "signIn"
               /\ job'[p].latest = job[p].latest
         /\ UNCHANGED <<watermark, base, mailboxVars, accountVars>>
<1>1. /\ job[p].pc \in {"inbox", "page"} /\ job[p].task = "signIn"
      /\ UNCHANGED <<watermark, base, mailboxVars, accountVars>>
  BY DEF SignInBackfill, ListInbox, FetchPageMessage, PageMessageGone, StorePage, tableVars
<1>2. CASE PageMessageGone(p)
  <2>1. job'[p] = Idle /\ \A q \in Job \ {p} : job'[q] = job[q]
    BY <1>2 DEF PageMessageGone, Finish, SyncTypeOK
  <2> QED  BY <1>1, <2>1
<1>3. CASE ListInbox(p) \/ FetchPageMessage(p) \/ StorePage(p, "signedIn")
  <2>1. /\ job'[p].pc \in {"inbox", "page", "signedIn"} /\ job'[p].task = job[p].task
        /\ job'[p].latest = job[p].latest /\ \A q \in Job \ {p} : job'[q] = job[q]
    BY <1>3, BackfillLocals
  <2> QED  BY <1>1, <2>1
<1> QED  BY <1>2, <1>3 DEF SignInBackfill

LEMMA BackfillSignIns ==
  ASSUME SyncTypeOK, SyncTypeOK', FeedInv, SignInInv, NEW p \in Job, SignInBackfill(p)
  PROVE  SignInInv'
<1>1. /\ \A q \in Job \ {p} : job'[q] = job[q]
      /\ job[p].pc \in {"inbox", "page"} /\ job[p].task = "signIn"
      /\ \/ job'[p] = Idle
         \/ job'[p].pc \in {"inbox", "page", "signedIn"} /\ job'[p].task = "signIn"
      /\ UNCHANGED <<watermark, signIns, backfilled>>
  BY BackfillMoves DEF accountVars
<1>2. watermark # NoHistoryId /\ signIns # 0
  BY <1>1 DEF SignInInv, AccountPC
<1>3. ASSUME NEW q \in Job
      PROVE  /\ job'[q].task = "signIn" => job'[q].pc \in {"watch", "saveWatch", "inbox", "page", "signedIn"}
             /\ job'[q].pc \in {"watch", "saveWatch", "signedIn"} => job'[q].task = "signIn"
             /\ job'[q].pc \notin {"watch", "saveWatch"}
  <2>1. job[q].pc \notin {"watch", "saveWatch"}
    BY <1>2 DEF SignInInv
  <2>2. CASE q # p
    BY <1>1, <2>1, <2>2 DEF SignInInv
  <2>3. CASE q = p
    BY <1>1, <2>3, IdleIs
  <2> QED  BY <2>2, <2>3
<1> QED  BY <1>1, <1>2, <1>3 DEF SignInInv

\* The one step that needs this sign-in to be the first.
LEMMA FirstSignIn ==
  ASSUME MaxSignIns <= 1, AccountTypeOK, SignInInv, NEW p \in Job, SignIn(p)
  PROVE  SignInInv'
<1>1. signIns = 0 /\ signIns' = 1
  BY MaxSignInsAssumption DEF SignIn, AccountTypeOK
<1>2. /\ watermark = NoHistoryId /\ ~backfilled /\ \A q \in Job : job[q].pc = "idle"
      /\ UNCHANGED <<watermark, backfilled>>
  BY <1>1 DEF SignInInv, SignIn, tableVars
<1>3. /\ job'[p] = [Idle EXCEPT !.pc = "watch", !.task = "signIn"]
      /\ \A q \in Job \ {p} : job'[q] = job[q]
  BY DEF SignIn, AccountTypeOK, SyncTypeOK
<1>4. job'[p].pc = "watch" /\ job'[p].task = "signIn"
  BY <1>3 DEF Idle
<1>5. \A q \in Job \ {p} : job'[q].pc = "idle" /\ (job'[q].task = "signIn" => FALSE)
  BY <1>2, <1>3 DEF SignInInv
<1> QED  BY <1>1, <1>2, <1>4, <1>5 DEF SignInInv, AccountPC

LEMMA AccountSignIns ==
  ASSUME MaxSignIns <= 1, AccountTypeOK, SignInInv, NEW p \in Job, Account(p)
  PROVE  SignInInv'
<1>0. job \in [Job -> JobRecord]
  BY DEF AccountTypeOK, SyncTypeOK
<1>1. CASE SignIn(p)
  BY <1>1, FirstSignIn
<1>2. CASE RegisterWatch(p, "watch", "saveWatch")
  <2>1. /\ job[p].pc = "watch" /\ job'[p].pc = "saveWatch" /\ job'[p].task = job[p].task
        /\ \A q \in Job \ {p} : job'[q] = job[q]
        /\ UNCHANGED <<watermark, signIns, backfilled>>
    BY <1>0, <1>2 DEF RegisterWatch, JobRecord, tableVars
  <2>2. signIns # 0 /\ watermark = NoHistoryId /\ "saveWatch" \in AccountPC \ {"signedIn"}
    BY <2>1 DEF SignInInv, AccountPC
  <2> QED  BY <2>1, <2>2 DEF SignInInv
<1>3. CASE SaveWatch(p)
  <2>1. /\ job[p].pc = "saveWatch" /\ job'[p].pc = "inbox" /\ job'[p].task = job[p].task
        /\ \A q \in Job \ {p} : job'[q] = job[q]
        /\ watermark' = job[p].latest /\ UNCHANGED <<signIns, backfilled>>
    BY <1>0, <1>3 DEF SaveWatch, JobRecord
  <2>2. signIns # 0 /\ watermark' # NoHistoryId
    BY <1>0, <2>1, NoHistoryIdAssumption DEF SignInInv, JobRecord
  <2>3. \A q \in Job \ {p} : job[q].pc \notin {"watch", "saveWatch"}
    BY <2>1 DEF SignInInv
  <2> QED  BY <2>1, <2>2, <2>3 DEF SignInInv
<1>4. CASE SignedIn(p)
  <2>1. /\ job[p].pc = "signedIn" /\ job'[p] = Idle /\ \A q \in Job \ {p} : job'[q] = job[q]
        /\ UNCHANGED <<watermark, signIns>>
    BY <1>0, <1>4 DEF SignedIn, Finish, tableVars
  <2>2. signIns # 0 /\ watermark # NoHistoryId
    BY <2>1 DEF SignInInv, AccountPC
  <2> QED  BY <2>1, <2>2, IdleIs DEF SignInInv
<1>5. CASE RenewalDue(p) \/ RegisterWatch(p, "renew", "saveExpiration")
  <2>1. /\ job[p].pc \in {"idle", "renew"} /\ job'[p].pc \in {"renew", "saveExpiration"}
        /\ job'[p].task = job[p].task /\ \A q \in Job \ {p} : job'[q] = job[q]
        /\ UNCHANGED <<watermark, signIns, backfilled>>
    <3>1. CASE RenewalDue(p)
      BY <1>0, <3>1 DEF RenewalDue, JobRecord, tableVars, accountVars
    <3>2. CASE RegisterWatch(p, "renew", "saveExpiration")
      BY <1>0, <3>2 DEF RegisterWatch, JobRecord, tableVars
    <3> QED  BY <1>5, <3>1, <3>2
  <2>2. signIns # 0
    <3>1. CASE RenewalDue(p)
      BY <3>1 DEF RenewalDue
    <3>2. CASE RegisterWatch(p, "renew", "saveExpiration")
      BY <3>2 DEF RegisterWatch, SignInInv
    <3> QED  BY <1>5, <3>1, <3>2
  <2>3. job[p].task # "signIn"
    BY <2>1 DEF SignInInv
  <2> QED  BY <2>1, <2>2, <2>3 DEF SignInInv, AccountPC
<1>6. CASE SaveExpiration(p)
  <2>1. /\ job[p].pc = "saveExpiration" /\ job'[p] = Idle /\ \A q \in Job \ {p} : job'[q] = job[q]
        /\ UNCHANGED <<watermark, signIns, backfilled>>
    BY <1>0, <1>6 DEF SaveExpiration, Finish, tableVars
  <2> QED  BY <2>1, IdleIs DEF SignInInv
<1> QED  BY <1>1, <1>2, <1>3, <1>4, <1>5, <1>6 DEF Account, RenewStep

LEMMA InitSignIns == AccountInit => SignInInv
<1> SUFFICES ASSUME AccountInit PROVE SignInInv
  OBVIOUS
<1>1. \A p \in Job : job[p].pc = "idle" /\ job[p].task = "none"
  BY DEF AccountInit, JobsInit, Idle
<1> QED  BY <1>1 DEF AccountInit, SignInInv

LEMMA NextSignIns ==
  ASSUME MaxSignIns <= 1, AccountTypeOK, AccountTypeOK', FeedInv, SignInInv,
         [AccountNext]_allAccountVars
  PROVE  SignInInv'
<1>1. SyncTypeOK /\ SyncTypeOK'
  BY DEF AccountTypeOK
<1>2. CASE AccountChanges \/ WatchLapses \/ UNCHANGED allAccountVars
  <2>1. UNCHANGED <<watermark, job, signIns, backfilled>>
    BY <1>2 DEF AccountChanges, WatchLapses, allAccountVars, vars, accountVars, tableVars
  <2> QED  BY <2>1 DEF SignInInv
<1>3. ASSUME NEW p \in Job, SignIn(p) \/ SignInStep(p) \/ RenewalDue(p) \/ RenewStep(p)
      PROVE  SignInInv'
  BY <1>1, <1>3, AccountSignIns, BackfillSignIns DEF Account, SignInStep
<1> QED  BY <1>1, <1>2, <1>3, WebhookSignIns DEF AccountNext

-----------------------------------------------------------------------------
(* No change is skipped *)

\* A sign-in or a renewal reads no history: its job has nothing to keep.
LEMMA MovesFeed ==
  ASSUME SyncTypeOK, SyncTypeOK', FeedInv, NEW p \in Job, Moves(p), Grows, TablesInv'
  PROVE  FeedInv'
<1>1. JobInv(job[p])
  BY DEF FeedInv
<1>2. historyId' = historyId /\ oldest' = oldest /\ MailboxInv'
  BY DEF Moves, mailboxVars, historyId, FeedInv, MailboxInv
<1>3. job'[p].latest <= historyId'
  BY <1>1, <1>2 DEF Moves, JobInv, historyId, SyncTypeOK, MailboxTypeOK
<1>4. \A m \in Message : job'[p].fetched[m] # NoRow => job'[p].fetched[m].cursor <= historyId'
  BY <1>1, <1>2 DEF Moves, JobInv, NoneFetched
<1>5. job'[p].pc \notin {"list", "fetch", "delete", "advance", "profile"}
  BY DEF Moves, AccountPC
<1>6. job'[p].task = "resync" => oldest' > 0
  BY <1>1, <1>2 DEF Moves, JobInv
<1>7. JobInv(job[p])'
  BY <1>3, <1>4, <1>5, <1>6 DEF JobInv
<1>8. \A q \in Job \ {p} : job'[q] = job[q]
  BY DEF Moves
<1> QED  BY <1>2, <1>7, <1>8, OthersKeep DEF FeedInv

\* The first watermark of a user promises nothing of what came before it.
LEMMA SaveWatchTables ==
  ASSUME SyncTypeOK, SyncTypeOK', FeedInv, SignInInv, NEW p \in Job, SaveWatch(p)
  PROVE  Grows /\ TablesInv'
<1>1. PICK id \in Nat : id = job[p].latest
  BY DEF SyncTypeOK, JobRecord
<1>2. /\ watermark = NoHistoryId /\ watermark' = id /\ base' = id /\ id <= historyId
      /\ UNCHANGED <<mailboxVars, rows, applied>>
  BY <1>1 DEF SaveWatch, SignInInv, FeedInv, JobInv
<1>3. base = 0 /\ historyId' = historyId /\ historyId \in Nat
  BY <1>2 DEF FeedInv, TablesInv, mailboxVars, historyId, SyncTypeOK, MailboxTypeOK
<1>4. Grows
  BY <1>2, <1>3 DEF Grows, mailboxVars, historyId, SyncTypeOK, MailboxTypeOK, TablesTypeOK
<1>5. NoChangeSkipped'
  BY <1>2 DEF NoChangeSkipped, AppliedUpTo, Stored
<1>6. \A m \in Message : applied'[m] <= historyId'
  BY <1>2, <1>3 DEF FeedInv, TablesInv
<1>7. watermark' # NoHistoryId /\ watermark' <= historyId' /\ base' <= watermark'
  BY <1>1, <1>2, <1>3, NoHistoryIdAssumption
<1>8. TablesInv'
  BY <1>5, <1>6, <1>7 DEF TablesInv
<1> QED  BY <1>4, <1>8

LEMMA AccountFeed ==
  ASSUME AccountTypeOK, AccountTypeOK', FeedInv, SignInInv, [AccountNext]_allAccountVars
  PROVE  FeedInv'
<1>1. SyncTypeOK /\ SyncTypeOK'
  BY DEF AccountTypeOK
<1>2. CASE AccountChanges
  BY <1>1, <1>2, OwnerFeed DEF AccountChanges
<1>3. CASE WatchLapses \/ UNCHANGED allAccountVars
  <2>1. UNCHANGED <<mailboxVars, tableVars>> /\ job' = job
    BY <1>3 DEF WatchLapses, allAccountVars, vars
  <2> QED  BY <1>1, <2>1, LocalKeeps, JobsStay
<1>4. CASE WebhookStep
  BY <1>1, <1>4, WebhookNext, NextFeed
<1>5. ASSUME NEW p \in Job, SignInBackfill(p)
      PROVE  FeedInv'
  <2>1. CASE PageMessageGone(p)
    BY <1>1, <2>1, LocalKeeps, FinishInv, OthersKeep DEF PageMessageGone, Finish, FeedInv
  <2>2. CASE ListInbox(p) \/ FetchPageMessage(p) \/ StorePage(p, "signedIn")
    <3>1. /\ Grows /\ MailboxInv' /\ TablesInv'
          /\ job'[p].pc \in {"inbox", "page", "signedIn"} /\ job'[p].task = job[p].task
          /\ job'[p].latest <= historyId'
          /\ \A m \in Message : job'[p].fetched[m] # NoRow => job'[p].fetched[m].cursor <= historyId'
          /\ \A q \in Job \ {p} : job'[q] = job[q]
      BY <1>1, <2>2, BackfillLocals
    <3>2. job[p].task = "signIn"
      BY <1>5 DEF SignInBackfill
    <3>3. JobInv(job[p])'
      BY <3>1, <3>2 DEF JobInv
    <3> QED  BY <1>1, <3>1, <3>3, OthersKeep DEF FeedInv
  <2> QED  BY <1>5, <2>1, <2>2 DEF SignInBackfill
<1>6. ASSUME NEW p \in Job, Account(p)
      PROVE  FeedInv'
  <2>1. Moves(p)
    BY <1>1, <1>6, AccountMoves
  <2>2. CASE SaveWatch(p)
    BY <1>1, <2>1, <2>2, SaveWatchTables, MovesFeed
  <2>3. CASE ~SaveWatch(p)
    <3>1. UNCHANGED <<mailboxVars, tableVars>>
      BY <1>6, <2>3 DEF Account, SignIn, RegisterWatch, SignedIn, RenewalDue, RenewStep, SaveExpiration
    <3> QED  BY <1>1, <2>1, <3>1, LocalKeeps, MovesFeed
  <2> QED  BY <2>2, <2>3
<1> QED  BY <1>2, <1>3, <1>4, <1>5, <1>6 DEF AccountNext, SignInStep, Account

LEMMA InitAccountFeed == AccountInit => FeedInv
BY InitAccount, InitFeed DEF TurnInit

\* For a user who signs in for the first time, whatever sign-in, renewals and syncs do
\* at once and wherever they fail: the tables promise what they promised of syncs alone.
THEOREM AccountFeedInvariant ==
  ASSUME MaxSignIns <= 1
  PROVE  AccountSpec => [](FeedInv /\ SignInInv)
<1>1. AccountInit => AccountTypeOK /\ FeedInv /\ SignInInv
  BY InitAccount, InitAccountFeed, InitSignIns
<1>2. AccountTypeOK /\ FeedInv /\ SignInInv /\ [AccountNext]_allAccountVars
        => AccountTypeOK' /\ FeedInv' /\ SignInInv'
  <2>1. AccountTypeOK /\ [AccountNext]_allAccountVars => AccountTypeOK'
    BY AccountType
  <2> QED  BY <2>1, AccountFeed, NextSignIns
<1> QED  BY <1>1, <1>2, PTL DEF AccountSpec

\* The watermark passes over no change that was not stored, except those before the
\* first watermark and those a full resync jumped over.
THEOREM AccountSkipsNothing ==
  ASSUME MaxSignIns <= 1
  PROVE  AccountSpec => []NoChangeSkipped
<1>1. FeedInv => NoChangeSkipped
  BY DEF FeedInv, TablesInv
<1> QED  BY <1>1, AccountFeedInvariant, PTL

\* The watermark is set once, and from then on it only moves forward.
THEOREM SetOnce ==
  ASSUME MaxSignIns <= 1
  PROVE  AccountSpec => WatermarkSetOnce
<1>1. AccountTypeOK /\ FeedInv /\ SignInInv /\ [AccountNext]_allAccountVars
        => [watermark' # watermark => watermark = NoHistoryId \/ watermark' > watermark]_watermark
  <2> SUFFICES ASSUME AccountTypeOK, SignInInv, [AccountNext]_allAccountVars,
                      watermark' # watermark, watermark # NoHistoryId
               PROVE  watermark' > watermark
    OBVIOUS
  <2>1. SyncTypeOK
    BY DEF AccountTypeOK
  <2>2. CASE WebhookStep
    BY <2>1, <2>2, WebhookNext, WatermarkStep
  <2>3. ASSUME NEW p \in Job, Account(p)
        PROVE  FALSE
    <3>1. ~SaveWatch(p)
      BY DEF SaveWatch, SignInInv
    <3>2. watermark' = watermark
      BY <2>3, <3>1 DEF Account, SignIn, RegisterWatch, SignedIn, RenewalDue, RenewStep, SaveExpiration,
         tableVars
    <3> QED  BY <3>2
  <2>4. ASSUME NEW p \in Job, SignInBackfill(p)
        PROVE  FALSE
    BY <2>4 DEF SignInBackfill, ListInbox, FetchPageMessage, PageMessageGone, StorePage, tableVars
  <2>5. ~AccountChanges /\ ~WatchLapses /\ ~UNCHANGED allAccountVars
    BY DEF AccountChanges, WatchLapses, allAccountVars, vars, tableVars
  <2> QED  BY <2>2, <2>3, <2>4, <2>5 DEF AccountNext, SignInStep, Account
<1>2. AccountSpec => []AccountTypeOK
  BY AccountTypeCorrect
<1> QED  BY <1>1, <1>2, AccountFeedInvariant, PTL DEF AccountSpec, WatermarkSetOnce

-----------------------------------------------------------------------------
(* In turn, the inbox a sign-in leaves is current *)

\* A step of a sign-in or a renewal reads no message and stores none.
LEMMA MovesTurn ==
  ASSUME SyncTypeOK, SyncTypeOK', FeedInv, TurnInv, NoteOverlap, NEW p \in Job, Moves(p)
  PROVE  TurnInv'
<1>1. UNCHANGED <<log, box, rows, applied>> /\ \A q \in Job \ {p} : job'[q] = job[q]
  BY DEF Moves, mailboxVars
<1>2. \A m \in Message : job'[p].fetched[m] \in {NoRow, job[p].fetched[m], box[m]}
  BY DEF Moves, NoneFetched
<1>3. job'[p].remove \in {{}, job[p].remove} /\ job'[p].pc # "fetch"
  BY DEF Moves, AccountPC
<1>4. \A m \in job'[p].remove : Known(m) /\ box[m] = NoRow
  BY <1>3 DEF TurnInv, RemoveInv
<1> QED  BY <1>1, <1>2, <1>3, <1>4, TurnLocal

LEMMA AccountTurn ==
  ASSUME SyncTypeOK, SyncTypeOK', FeedInv, TurnInv, [AccountNext]_allAccountVars
  PROVE  TurnInv'
<1>1. CASE UNCHANGED allAccountVars
  BY <1>1, TurnStays DEF allAccountVars
<1>2. CASE AccountNext
  <2>1. NoteOverlap
    BY <1>2 DEF AccountNext
  <2>2. ASSUME MovesOn, UNCHANGED <<rows, applied, job>>
        PROVE  TurnInv'
    BY <2>1, <2>2, TurnKeeps DEF TurnInv, RemoveInv
  <2>3. CASE AccountChanges
    <3>1. PICK m \in Message : OwnerChanges(m)
      BY <2>3 DEF AccountChanges
    <3>2. UNCHANGED tableVars /\ job' = job
      BY <2>3 DEF AccountChanges
    <3>3. MovesOn
      BY <3>1, <3>2, ChangeMovesOn
    <3> QED  BY <2>2, <3>2, <3>3 DEF tableVars
  <2>4. CASE WatchLapses
    BY <2>2, <2>4, StayMovesOn DEF WatchLapses, mailboxVars, tableVars
  <2>5. CASE WebhookStep
    BY <2>1, <2>5, WebhookNext, TurnStep
  <2>6. ASSUME NEW p \in Job, SignInBackfill(p)
        PROVE  TurnInv'
    BY <2>1, <2>6, TurnBackfill DEF SignInBackfill
  <2>7. ASSUME NEW p \in Job, Account(p)
        PROVE  TurnInv'
    BY <2>1, <2>7, AccountMoves, MovesTurn
  <2> QED  BY <1>2, <2>3, <2>4, <2>5, <2>6, <2>7 DEF AccountNext, SignInStep, Account
<1> QED  BY <1>1, <1>2

\* A sign-in or a renewal that goes on, without a backfill that has begun.
LEMMA MovesBackfill ==
  ASSUME SyncTypeOK, NEW p \in Job, Moves(p), BackfillInv(job[p]), job[p].pc \in AccountPC \cup {"idle"},
         job'[p].pc # "signedIn", job'[p].pc = "saveWatch" => job[p].pc = "watch",
         job'[p].pc = "inbox" => job[p].pc = "saveWatch", job'[p].pc # "page",
         job'[p].pc = "watch" => job'[p].task = "signIn" /\ job'[p].got = {} /\ job'[p].todo = {} /\ job'[p].fetched = NoneFetched
  PROVE  BackfillInv(job[p])'
<1>1. job'[p].pc \notin {"list", "profile", "fetch", "delete", "advance", "page", "signedIn"}
  BY DEF Moves, AccountPC
<1>2. CASE job'[p].pc \in {"watch", "saveWatch", "inbox"}
  <2>1. job'[p].got = {} /\ job'[p].todo = {} /\ job'[p].fetched = NoneFetched
    BY <1>2 DEF Moves, BackfillInv
  <2>2. Holding(job'[p]) = {}
    BY <2>1 DEF Holding, NoneFetched
  <2>3. \A m \in Message : job'[p].pc = "inbox" => Backfills(job[p], m)'
    BY <2>1, <2>2 DEF Backfills, Holding
  <2> QED  BY <1>1, <2>1, <2>3 DEF BackfillInv
<1>3. CASE job'[p].pc \notin {"watch", "saveWatch", "inbox"}
  BY <1>1, <1>3 DEF BackfillInv
<1> QED  BY <1>2, <1>3

\* A step of a sign-in or a renewal other than the two that end a sign-in's phases.
LEMMA AccountInbox ==
  ASSUME NEW kept \in BOOLEAN, SyncTypeOK, InboxInvOnce(kept), ~overlapped, ~Overlap, ~overlapped',
         NoteOverlap, NEW p \in Job, Account(p), ~SaveWatch(p), ~SignedIn(p)
  PROVE  InboxInvOnce(kept)'
<1>1. Moves(p) /\ job \in [Job -> JobRecord]
  BY AccountMoves DEF SyncTypeOK
<1>2. UNCHANGED <<log, box, rows, base>>
  BY DEF Account, SignIn, RegisterWatch, RenewalDue, RenewStep, SaveExpiration, mailboxVars, tableVars
<1>3. \A q \in Job \ {p} : job'[q] = job[q]
  BY <1>1 DEF Moves
<1>4. BackfillInv(job[p])
  BY DEF InboxInvOnce
<1>5. (job[p] # Idle \/ job'[p] # Idle) /\ BackfillInv(job[p])'
  <2>1. CASE SignIn(p)
    <3>1. job'[p] = [Idle EXCEPT !.pc = "watch", !.task = "signIn"] /\ job[p].pc = "idle"
      BY <1>1, <2>1 DEF SignIn
    <3>2. /\ job'[p].pc = "watch" /\ job'[p].task = "signIn"
          /\ job'[p].got = {} /\ job'[p].todo = {} /\ job'[p].fetched = NoneFetched
      BY <3>1 DEF Idle
    <3>3. job'[p] # Idle
      BY <3>2 DEF Idle
    <3> QED  BY <1>1, <1>4, <3>1, <3>2, <3>3, MovesBackfill
  <2>2. CASE RegisterWatch(p, "watch", "saveWatch")
    <3>1. job[p].pc = "watch" /\ job'[p].pc = "saveWatch"
      BY <1>1, <2>2 DEF RegisterWatch, JobRecord
    <3> QED  BY <1>1, <1>4, <3>1, MovesBackfill, IdleIs DEF AccountPC
  <2>3. CASE RenewalDue(p)
    <3>1. job[p].pc = "idle" /\ job'[p].pc = "renew"
      BY <1>1, <2>3 DEF RenewalDue, JobRecord
    <3> QED  BY <1>1, <1>4, <3>1, MovesBackfill, IdleIs
  <2>4. CASE RegisterWatch(p, "renew", "saveExpiration")
    <3>1. job[p].pc = "renew" /\ job'[p].pc = "saveExpiration"
      BY <1>1, <2>4 DEF RegisterWatch, JobRecord
    <3> QED  BY <1>1, <1>4, <3>1, MovesBackfill, IdleIs DEF AccountPC
  <2>5. CASE SaveExpiration(p)
    <3>1. job[p].pc = "saveExpiration" /\ job'[p] = Idle
      BY <1>1, <2>5 DEF SaveExpiration, Finish
    <3> QED  BY <1>1, <1>4, <3>1, MovesBackfill, IdleIs DEF AccountPC
  <2> QED  BY <2>1, <2>2, <2>3, <2>4, <2>5 DEF Account, RenewStep
<1>6. \A q \in Job \ {p} : job[q] = Idle
  <2> SUFFICES ASSUME NEW q \in Job, q # p, job[q] # Idle PROVE FALSE
    OBVIOUS
  <2>1. job'[q] # Idle
    BY <1>3
  <2>2. job'[p] = Idle
    BY <2>1 DEF NoteOverlap, Overlap
  <2>3. Overlap
    BY <1>5, <2>2 DEF Overlap
  <2> QED  BY <2>3
<1> QED  BY <1>2, <1>3, <1>5, <1>6, OneReads

\* The first watermark, before the first backfill.
LEMMA SaveWatchInbox ==
  ASSUME NEW kept \in BOOLEAN, ~kept, SyncTypeOK, FeedInv, TurnInv, InboxInvOnce(kept), ~overlapped,
         NoteOverlap, ~overlapped', NEW p \in Job, SaveWatch(p)
  PROVE  InboxInvOnce(kept)'
<1>1. Moves(p)
  BY AccountMoves DEF Account
<1>2. job[p].pc = "saveWatch" /\ job'[p].pc = "inbox"
  BY DEF SaveWatch, SyncTypeOK, JobRecord
<1>3. \A q \in Job \ {p} : job[q] = Idle /\ job'[q] = job[q]
  BY <1>1, <1>2, OthersIdle, IdleIs DEF Moves
<1>4. BackfillInv(job[p])'
  BY <1>1, <1>2, MovesBackfill DEF AccountPC, InboxInvOnce
<1> QED  BY <1>3, <1>4, OneMoves

\* The end of a sign-in, whose backfill stored what its watermark passed over.
LEMMA SignedInInbox ==
  ASSUME SyncTypeOK, FeedInv, TurnInv, NEW kept \in BOOLEAN, InboxInvOnce(kept), ~overlapped,
         NoteOverlap, ~overlapped', NEW p \in Job, SignedIn(p), base = job[p].latest
  PROVE  InboxInvOnce(TRUE)'
<1>1. job[p].pc = "signedIn" /\ Finish(p) /\ UNCHANGED <<log, box, rows, base>>
  BY DEF SignedIn, mailboxVars, tableVars
<1>2. InboxStored(base)
  BY <1>1 DEF InboxInvOnce, BackfillInv
<1>3. InboxStored(base)'
  BY <1>1, <1>2 DEF InboxStored, InInbox, LastChange, historyId
<1>4. \A q \in Job \ {p} : job[q] = Idle
  BY <1>1, OthersIdle, IdleIs
<1> QED  BY <1>1, <1>3, <1>4, InboxFinish

\* In turn, nobody moves the watermark's base under a sign-in that runs.
LEMMA BaseStays ==
  ASSUME AccountTypeOK, SyncTypeOK', FeedInv, TurnInv, SignInInv, SignInBackfillInv, ~overlapped,
         ~Overlap, [AccountNext]_allAccountVars,
         NEW p \in Job, job'[p].task = "signIn", job'[p].pc \in {"inbox", "page", "signedIn"}
  PROVE  base' = job'[p].latest
<1>0. SyncTypeOK /\ job \in [Job -> JobRecord]
  BY DEF AccountTypeOK, SyncTypeOK
<1>a. job[p].task = "signIn" /\ job[p].pc \in {"inbox", "page", "signedIn"} => base = job[p].latest
  BY DEF SignInBackfillInv
<1>1. CASE AccountChanges \/ WatchLapses \/ UNCHANGED allAccountVars
  <2>1. UNCHANGED <<job, base>>
    BY <1>1 DEF AccountChanges, WatchLapses, allAccountVars, vars, tableVars
  <2> QED  BY <1>a, <2>1
<1>2. CASE WebhookStep
  <2>1. job'[p] = job[p] /\ (base' = base \/ \E q \in Job : Advance(q))
    BY <1>0, <1>2, WebhookMoves, IdleIs
  <2>2. ASSUME NEW q \in Job, Advance(q)
        PROVE  FALSE
    <3>1. job[q].pc = "advance" /\ job'[q] = Idle
      BY <1>0, <2>2 DEF Advance, Finish
    <3>2. job[q] # Idle /\ job[p] # Idle /\ p # q
      BY <2>1, <3>1, IdleIs
    <3> QED  BY <3>2 DEF Overlap
  <2> QED  BY <1>a, <2>1, <2>2
<1>3. ASSUME NEW q \in Job, SignInBackfill(q)
      PROVE  base' = job'[p].latest
  <2>1. /\ \A r \in Job \ {q} : job'[r] = job[r]
        /\ job[q].pc \in {"inbox", "page"} /\ job[q].task = "signIn"
        /\ job'[q] = Idle \/ job'[q].latest = job[q].latest
        /\ base' = base
    BY <1>0, <1>3, BackfillMoves
  <2> QED  BY <1>a, <2>1, IdleIs
<1>4. ASSUME NEW q \in Job, Account(q), q # p
      PROVE  base' = job'[p].latest
  <2>1. job'[p] = job[p]
    BY <1>0, <1>4, AccountMoves DEF Moves
  <2>2. watermark # NoHistoryId
    BY <2>1 DEF SignInInv, AccountPC
  <2>3. base' = base
    BY <1>4, <2>2 DEF Account, SignIn, RegisterWatch, SaveWatch, SignedIn, RenewalDue, RenewStep, SaveExpiration,
       tableVars
  <2> QED  BY <1>a, <2>1, <2>3
<1>5. CASE Account(p)
  <2>1. SaveWatch(p)
    <3>1. CASE SignIn(p)
      <4>1. job'[p] = [Idle EXCEPT !.pc = "watch", !.task = "signIn"]
        BY <1>0, <3>1 DEF SignIn
      <4> QED  BY <4>1 DEF Idle
    <3>2. CASE SignedIn(p) \/ SaveExpiration(p)
      BY <1>0, <3>2, IdleIs DEF SignedIn, SaveExpiration, Finish
    <3>3. CASE RenewalDue(p) \/ RegisterWatch(p, "watch", "saveWatch") \/ RegisterWatch(p, "renew", "saveExpiration")
      BY <1>0, <3>3 DEF RenewalDue, RegisterWatch, JobRecord
    <3> QED  BY <1>5, <3>1, <3>2, <3>3 DEF Account, RenewStep
  <2>2. watermark = NoHistoryId
    BY <2>1 DEF SaveWatch, SignInInv
  <2>3. base' = job[p].latest /\ job'[p].latest = job[p].latest
    BY <1>0, <2>1, <2>2 DEF SaveWatch, JobRecord
  <2> QED  BY <2>3
<1> QED  BY <1>1, <1>2, <1>3, <1>4, <1>5 DEF AccountNext, SignInStep, Account

LEMMA AccountBackfill ==
  ASSUME IsFiniteSet(Message), Cardinality(Message) <= BackfillLimit, AccountTypeOK, AccountTypeOK',
         FeedInv, TurnInv, SignInInv, SignInBackfillInv, AccountNext, ~overlapped'
  PROVE  InboxInvOnce(backfilled)'
<1>0. /\ SyncTypeOK /\ SyncTypeOK' /\ NoteOverlap
      /\ ~overlapped /\ ~Overlap /\ NewestStored /\ \A p \in Job : HoldsNewest(job[p])
  BY DEF AccountTypeOK, AccountNext, NoteOverlap, TurnInv
<1>1. PICK kept \in BOOLEAN : kept = backfilled
  BY DEF AccountTypeOK
<1>2. InboxInvOnce(kept)
  BY <1>1 DEF SignInBackfillInv, InboxInvOnce
<1>3. ASSUME InboxInvOnce(kept)', backfilled' = backfilled
      PROVE  InboxInvOnce(backfilled)'
  BY <1>1, <1>3 DEF InboxInvOnce
<1>4. ASSUME MovesOn, UNCHANGED <<rows, base, job, backfilled>>
      PROVE  InboxInvOnce(backfilled)'
  BY <1>0, <1>2, <1>3, <1>4, InboxQuiet
<1>5. CASE AccountChanges
  <2>1. PICK m \in Message : OwnerChanges(m)
    BY <1>5 DEF AccountChanges
  <2>2. UNCHANGED <<tableVars, job, backfilled>>
    BY <1>5 DEF AccountChanges, accountVars
  <2>3. MovesOn
    BY <1>0, <2>1, <2>2, ChangeMovesOn
  <2> QED  BY <1>4, <2>2, <2>3 DEF tableVars
<1>6. CASE WatchLapses
  BY <1>0, <1>4, <1>6, StayMovesOn DEF WatchLapses, mailboxVars, tableVars
<1>7. CASE WebhookStep
  <2>1. [Next]_vars /\ backfilled' = backfilled
    BY <1>7, WebhookNext DEF accountVars
  <2> QED  BY <1>0, <1>2, <1>3, <2>1, InboxStep
<1>8. ASSUME NEW p \in Job, SignInBackfill(p)
      PROVE  InboxInvOnce(backfilled)'
  <2>1. job[p].pc \in {"inbox", "page"} /\ UNCHANGED <<base, mailboxVars, backfilled>>
    BY <1>0, <1>8, BackfillMoves DEF accountVars
  <2>2. \A q \in Job \ {p} : job[q] = Idle
    BY <1>0, <2>1, OthersIdle, IdleIs
  <2>3. CASE PageMessageGone(p)
    <3>1. Finish(p) /\ UNCHANGED <<log, box, rows, base>>
      BY <2>3 DEF PageMessageGone, mailboxVars, tableVars
    <3>2. kept => InboxStored(base)'
      BY <1>2, <1>0, <3>1 DEF InboxInvOnce, InboxStored, InInbox, LastChange, historyId
    <3> QED  BY <1>0, <1>3, <2>1, <2>2, <3>1, <3>2, InboxFinish
  <2>4. CASE ListInbox(p) \/ FetchPageMessage(p) \/ StorePage(p, "signedIn")
    <3>1. InboxInvOnce(kept)'
      BY <1>0, <1>2, <2>2, <2>4, InboxBackfill
    <3> QED  BY <1>3, <2>1, <3>1
  <2> QED  BY <1>8, <2>3, <2>4 DEF SignInBackfill
<1>9. ASSUME NEW p \in Job, Account(p), ~SaveWatch(p), ~SignedIn(p)
      PROVE  InboxInvOnce(backfilled)'
  <2>1. backfilled' = backfilled
    BY <1>9 DEF Account, SignIn, RegisterWatch, RenewalDue, RenewStep, SaveExpiration, accountVars
  <2> QED  BY <1>0, <1>2, <1>3, <1>9, <2>1, AccountInbox
<1>10. ASSUME NEW p \in Job, SaveWatch(p)
       PROVE  InboxInvOnce(backfilled)'
  <2>1. ~kept /\ backfilled' = backfilled
    BY <1>1, <1>10 DEF SaveWatch, SignInInv
  <2> QED  BY <1>0, <1>2, <1>3, <1>10, <2>1, SaveWatchInbox
<1>11. ASSUME NEW p \in Job, SignedIn(p)
       PROVE  InboxInvOnce(backfilled)'
  <2>1. job[p].pc = "signedIn" /\ backfilled' = TRUE
    BY <1>11 DEF SignedIn
  <2>2. base = job[p].latest
    BY <1>0, <2>1 DEF SignInInv, SignInBackfillInv
  <2>3. InboxInvOnce(TRUE)'
    BY <1>0, <1>2, <1>11, <2>2, SignedInInbox
  <2> QED  BY <2>1, <2>3 DEF InboxInvOnce
<1> QED
  BY <1>5, <1>6, <1>7, <1>8, <1>9, <1>10, <1>11 DEF AccountNext, SignInStep, Account

LEMMA NextBackfill ==
  ASSUME IsFiniteSet(Message), Cardinality(Message) <= BackfillLimit, AccountTypeOK, AccountTypeOK',
         FeedInv, TurnInv, SignInInv, SignInBackfillInv, [AccountNext]_allAccountVars
  PROVE  SignInBackfillInv'
<1>1. CASE UNCHANGED allAccountVars
  BY <1>1 DEF allAccountVars, accountVars, vars, mailboxVars, tableVars, SignInBackfillInv, InboxInvOnce,
     InboxStored, InInbox, BackfillInv, Backfills, Holding, LastChange, historyId
<1>2. CASE AccountNext
  <2>1. overlapped' => SignInBackfillInv'
    BY DEF SignInBackfillInv, InboxInvOnce
  <2>2. ASSUME ~overlapped'
        PROVE  SignInBackfillInv'
    <3>1. ~overlapped /\ ~Overlap /\ SyncTypeOK'
      BY <1>2, <2>2 DEF AccountNext, NoteOverlap, TurnInv, AccountTypeOK
    <3>2. InboxInvOnce(backfilled)'
      BY <1>2, <2>2, AccountBackfill
    <3>3. ASSUME NEW p \in Job, job'[p].task = "signIn", job'[p].pc \in {"inbox", "page", "signedIn"}
          PROVE  base' = job'[p].latest
      BY <3>1, <3>3, BaseStays
    <3> QED  BY <3>2, <3>3 DEF SignInBackfillInv
  <2> QED  BY <2>1, <2>2
<1> QED  BY <1>1, <1>2

\* For a user who signs in for the first time, in turn and with a backfill that holds
\* every message: once the sign-in is through, pushes are heeded, and every inbox
\* message behind the watermark is stored as Gmail has it.
THEOREM InboxOnceSignedIn ==
  ASSUME MaxSignIns <= 1, IsFiniteSet(Message), Cardinality(Message) <= BackfillLimit
  PROVE  AccountSpec => []SignedInInboxCurrent
<1>1. AccountInit => TurnInv /\ SignInBackfillInv
  <2>1. AccountInit => TurnInit
    BY InitAccount
  <2>2. TurnInit => TurnInv /\ InboxInv
    BY InitTurn, InitInbox
  <2>3. AccountInit /\ InboxInv => SignInBackfillInv
    <3>1. AccountInit => \A p \in Job : job[p].task # "signIn"
      BY DEF AccountInit, JobsInit, Idle
    <3> QED  BY <3>1 DEF SignInBackfillInv, InboxInv, InboxInvOnce
  <2> QED  BY <2>1, <2>2, <2>3
<1>2. /\ AccountTypeOK /\ AccountTypeOK' /\ FeedInv /\ SignInInv /\ TurnInv /\ SignInBackfillInv
      /\ [AccountNext]_allAccountVars
      => TurnInv' /\ SignInBackfillInv'
  <2>1. AccountTypeOK /\ AccountTypeOK' => SyncTypeOK /\ SyncTypeOK'
    BY DEF AccountTypeOK
  <2> QED  BY <2>1, AccountTurn, NextBackfill
<1>3. AccountTypeOK /\ FeedInv /\ SignInInv /\ TurnInv /\ SignInBackfillInv => SignedInInboxCurrent
  <2> SUFFICES ASSUME AccountTypeOK, FeedInv, SignInInv, TurnInv, SignInBackfillInv, backfilled
               PROVE  watermark # NoHistoryId /\ (~overlapped => InboxCurrent)
    BY DEF SignedInInboxCurrent
  <2>1. watermark # NoHistoryId
    BY DEF SignInInv
  <2>2. InboxInv
    BY DEF SignInBackfillInv, InboxInv, InboxInvOnce
  <2>3. InboxCurrentInTurn
    BY <2>2, InboxIsCurrent DEF AccountTypeOK
  <2> QED  BY <2>1, <2>3 DEF InboxCurrentInTurn
<1>4. AccountSpec => []AccountTypeOK
  BY AccountTypeCorrect
<1> QED  BY <1>1, <1>2, <1>3, <1>4, AccountFeedInvariant, PTL DEF AccountSpec

=============================================================================
