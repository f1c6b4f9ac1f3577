------------------------- MODULE WebhookSync_proofs -------------------------
(***************************************************************************)
(* Proofs about WebhookSync and SyncInTurn, for every set of messages and  *)
(* of jobs, every page size and every bound on the history.                *)
(***************************************************************************)
EXTENDS SyncInTurn, FiniteSetTheorems, TLAPS

-----------------------------------------------------------------------------
(* Type correctness *)

LEMMA IdleType == Idle \in JobRecord
BY DEF Idle, JobRecord, SyncPC, NoneFetched

\* A record of a job may be replaced by any other record of that type.
LEMMA JobUpdate ==
  ASSUME job \in [Job -> JobRecord], NEW p \in Job, NEW r \in JobRecord,
         job' = [job EXCEPT ![p] = r]
  PROVE  job' \in [Job -> JobRecord]
OBVIOUS

LEMMA InitType == Init => SyncTypeOK
<1> SUFFICES ASSUME Init PROVE SyncTypeOK
  OBVIOUS
<1>1. MailboxTypeOK
  BY DEF Init, MailboxInit, MailboxTypeOK
<1>2. TablesTypeOK
  BY DEF Init, TablesInit, TablesTypeOK
<1>3. job \in [Job -> JobRecord] /\ pushed \in BOOLEAN
  BY IdleType DEF Init, JobsInit
<1> QED  BY <1>1, <1>2, <1>3 DEF SyncTypeOK

\* What the owner does keeps the account well formed.
LEMMA OwnerType ==
  ASSUME MailboxTypeOK, NEW m \in Message, OwnerChanges(m)
  PROVE  MailboxTypeOK'
<1> USE DEF MailboxTypeOK, Change, Row, historyId, Recorded
<1>1. ASSUME NEW labels \in SUBSET Label, Arrive(m, labels)
      PROVE  MailboxTypeOK'
  BY <1>1 DEF Arrive
<1>2. ASSUME NEW labels \in SUBSET Label, Relabel(m, labels)
      PROVE  MailboxTypeOK'
  BY <1>2 DEF Relabel
<1>3. CASE Purge(m)
  BY <1>3 DEF Purge
<1> QED  BY <1>1, <1>2, <1>3 DEF OwnerChanges

\* The statements of the stores keep the tables well formed.
LEMMA UpsertType ==
  ASSUME TablesTypeOK, NEW batch \in [Message -> Row \cup {NoRow}],
         UpsertMessages(batch), UNCHANGED <<watermark, base>>
  PROVE  TablesTypeOK'
<1>1. \A m \in Message : batch[m] # NoRow => batch[m] \in Row
  OBVIOUS
<1>2. \A m \in Message : batch[m] # NoRow => batch[m].cursor \in Nat
  BY <1>1 DEF Row
<1> QED  BY <1>2 DEF TablesTypeOK, UpsertMessages

LEMMA DeleteType ==
  ASSUME TablesTypeOK, MailboxTypeOK, NEW ids \in SUBSET Message,
         DeleteMessages(ids), UNCHANGED <<watermark, base>>
  PROVE  TablesTypeOK'
BY DEF TablesTypeOK, MailboxTypeOK, DeleteMessages, historyId

\* A step of a backfill, whatever it is run for.
LEMMA BackfillType ==
  ASSUME SyncTypeOK, NEW p \in Job, NEW next \in SyncPC \cup AccountPC, pushed' = pushed,
         ListInbox(p) \/ FetchPageMessage(p) \/ PageMessageGone(p) \/ StorePage(p, next)
  PROVE  SyncTypeOK'
<1> USE DEF SyncTypeOK
<1>0. ASSUME UNCHANGED <<mailboxVars, tableVars>>
      PROVE  MailboxTypeOK' /\ TablesTypeOK'
  BY <1>0 DEF mailboxVars, tableVars, MailboxTypeOK, TablesTypeOK
<1>1. CASE ListInbox(p)
  <2>1. PICK page \in SUBSET InboxAfter(job[p].got) :
          job' = [job EXCEPT ![p].pc = "page", ![p].todo = page,
                             ![p].more = (page # InboxAfter(job[p].got))]
    BY <1>1 DEF ListInbox
  <2>2. [job[p] EXCEPT !.pc = "page", !.todo = page, !.more = (page # InboxAfter(job[p].got))]
          \in JobRecord
    BY DEF JobRecord, SyncPC, InboxAfter
  <2>3. job' \in [Job -> JobRecord]
    BY <2>1, <2>2, JobUpdate
  <2> QED  BY <1>1, <1>0, <2>3 DEF ListInbox
<1>2. CASE FetchPageMessage(p)
  <2>1. PICK m \in job[p].todo :
          job' = [job EXCEPT ![p].todo = @ \ {m}, ![p].fetched[m] = box[m]]
    BY <1>2 DEF FetchPageMessage
  <2>2. m \in Message /\ box[m] \in Row \cup {NoRow}
    BY DEF JobRecord, MailboxTypeOK
  <2>3. [job[p] EXCEPT !.todo = @ \ {m}, !.fetched[m] = box[m]] \in JobRecord
    BY <2>2 DEF JobRecord
  <2>4. job' \in [Job -> JobRecord]
    BY <2>1, <2>3, JobUpdate
  <2> QED  BY <1>2, <1>0, <2>4 DEF FetchPageMessage
<1>3. CASE PageMessageGone(p)
  <2>1. job' \in [Job -> JobRecord]
    BY <1>3, IdleType, JobUpdate DEF PageMessageGone, Finish
  <2> QED  BY <1>3, <1>0, <2>1 DEF PageMessageGone
<1>4. CASE StorePage(p, next)
  <2>1. TablesTypeOK'
    BY <1>4, UpsertType DEF StorePage, JobRecord
  <2>2. ASSUME NEW pc \in SyncPC \cup AccountPC
        PROVE  [job[p] EXCEPT !.pc = pc, !.fetched = NoneFetched,
                              !.got = job[p].got \cup FetchedBy(p)] \in JobRecord
    <3>1. FetchedBy(p) \in SUBSET Message
      BY DEF FetchedBy
    <3> QED  BY <3>1 DEF JobRecord, NoneFetched
  <2>3. PICK pc \in SyncPC \cup AccountPC :
          job' = [job EXCEPT ![p].pc = pc, ![p].fetched = NoneFetched,
                             ![p].got = job[p].got \cup FetchedBy(p)]
    BY <1>4 DEF StorePage, SyncPC
  <2>4. job' \in [Job -> JobRecord]
    BY <2>2, <2>3, JobUpdate
  <2> QED  BY <1>4, <2>1, <2>4 DEF StorePage, mailboxVars, MailboxTypeOK
<1> QED  BY <1>1, <1>2, <1>3, <1>4

LEMMA NextType == SyncTypeOK /\ [Next]_vars => SyncTypeOK'
<1> SUFFICES ASSUME SyncTypeOK, [Next]_vars PROVE SyncTypeOK'
  OBVIOUS
<1> USE DEF SyncTypeOK
<1>a. ASSUME UNCHANGED <<mailboxVars, tableVars>>
      PROVE  MailboxTypeOK' /\ TablesTypeOK'
  BY <1>a DEF mailboxVars, tableVars, MailboxTypeOK, TablesTypeOK
<1>1. CASE MailboxChanges
  BY <1>1, OwnerType DEF MailboxChanges, tableVars, TablesTypeOK
<1>2. CASE HistoryExpires
  BY <1>2 DEF HistoryExpires, DropHistory, MailboxTypeOK, historyId, tableVars, TablesTypeOK
<1>3. CASE PushLost
  BY <1>3, <1>a DEF PushLost
<1>4. CASE IgnorePush
  BY <1>4, <1>a DEF IgnorePush, Delivered
<1>5. ASSUME NEW p \in Job, StartSync(p)
      PROVE  SyncTypeOK'
  <2>1. watermark \in Nat
    BY <1>5 DEF StartSync, TablesTypeOK
  <2>2. [Idle EXCEPT !.pc = "list", !.task = "delta", !.cursor = watermark, !.latest = watermark]
          \in JobRecord
    BY <2>1, IdleType DEF JobRecord, SyncPC
  <2>3. job' \in [Job -> JobRecord]
    BY <1>5, <2>2, JobUpdate DEF StartSync
  <2> QED  BY <1>5, <1>a, <2>3 DEF StartSync, Delivered
<1>6. ASSUME NEW p \in Job, ListHistory(p)
      PROVE  SyncTypeOK'
  <2> DEFINE from == job[p].cursor
             to == PageEnd(job[p].latest)
  <2>1. from \in Nat /\ to \in Nat /\ to <= Len(log)
    BY PageSizeAssumption DEF PageEnd, historyId, MailboxTypeOK, JobRecord
  <2> HIDE DEF from, to
  <2>2. ToRefetch(from, to) \in SUBSET Message /\ ToRemove(from, to) \in SUBSET Message
    <3>1. \A i \in from + 1 .. to : log[i] \in Change
      BY <2>1 DEF MailboxTypeOK
    <3>2. \A i \in from + 1 .. to : log[i].messageId \in Message
      BY <3>1 DEF Change
    <3> QED  BY <3>2 DEF ToRefetch, ToRemove, Deciding
  <2>3. [job[p] EXCEPT !.latest = to] \in JobRecord
    BY <2>1 DEF JobRecord
  <2>4. [job[p] EXCEPT !.pc = "fetch", !.latest = to, !.todo = ToRefetch(from, to),
                       !.remove = ToRemove(from, to)] \in JobRecord
    BY <2>1, <2>2 DEF JobRecord, SyncPC
  <2>5. job' \in [Job -> JobRecord]
    BY <1>6, <2>3, <2>4, JobUpdate DEF ListHistory, from, to
  <2> QED  BY <1>6, <1>a, <2>5 DEF ListHistory
<1>7. ASSUME NEW p \in Job, FetchChanged(p)
      PROVE  SyncTypeOK'
  <2>1. PICK m \in job[p].todo :
          job' = IF box[m] = NoRow
                   THEN [job EXCEPT ![p].todo = @ \ {m}, ![p].remove = @ \cup {m}]
                   ELSE [job EXCEPT ![p].todo = @ \ {m}, ![p].fetched[m] = box[m]]
    BY <1>7 DEF FetchChanged
  <2>2. m \in Message /\ box[m] \in Row \cup {NoRow}
    BY DEF JobRecord, MailboxTypeOK
  <2>3. [job[p] EXCEPT !.todo = @ \ {m}, !.remove = @ \cup {m}] \in JobRecord
    BY <2>2 DEF JobRecord
  <2>4. [job[p] EXCEPT !.todo = @ \ {m}, !.fetched[m] = box[m]] \in JobRecord
    BY <2>2 DEF JobRecord
  <2>5. job' \in [Job -> JobRecord]
    BY <2>1, <2>3, <2>4, JobUpdate
  <2> QED  BY <1>7, <1>a, <2>5 DEF FetchChanged
<1>8. ASSUME NEW p \in Job, StoreChanged(p)
      PROVE  SyncTypeOK'
  <2>1. TablesTypeOK'
    BY <1>8, UpsertType DEF StoreChanged, JobRecord
  <2>2. [job[p] EXCEPT !.pc = "delete", !.fetched = NoneFetched] \in JobRecord
    BY DEF JobRecord, SyncPC, NoneFetched
  <2>3. job' \in [Job -> JobRecord]
    BY <1>8, <2>2, JobUpdate DEF StoreChanged
  <2> QED  BY <1>8, <2>1, <2>3 DEF StoreChanged, mailboxVars, MailboxTypeOK
<1>9. ASSUME NEW p \in Job, DeleteRemoved(p)
      PROVE  SyncTypeOK'
  <2>1. TablesTypeOK'
    BY <1>9, DeleteType DEF DeleteRemoved, JobRecord
  <2>2. [job[p] EXCEPT !.pc = "advance", !.remove = {}] \in JobRecord
    BY DEF JobRecord, SyncPC
  <2>3. job' \in [Job -> JobRecord]
    BY <1>9, <2>2, JobUpdate DEF DeleteRemoved
  <2> QED  BY <1>9, <2>1, <2>3 DEF DeleteRemoved, mailboxVars, MailboxTypeOK
<1>10. ASSUME NEW p \in Job, Advance(p)
       PROVE  SyncTypeOK'
  <2>1. job' \in [Job -> JobRecord]
    BY <1>10, IdleType, JobUpdate DEF Advance, Finish
  <2>2. job[p].latest \in Nat
    BY DEF JobRecord
  <2> QED  BY <1>10, <2>1, <2>2 DEF Advance, AdvanceHistoryId, mailboxVars, MailboxTypeOK, TablesTypeOK
<1>11. ASSUME NEW p \in Job, HistoryGone(p)
       PROVE  SyncTypeOK'
  <2>1. [job[p] EXCEPT !.pc = "profile", !.task = "resync"] \in JobRecord
    BY DEF JobRecord, SyncPC
  <2>2. job' \in [Job -> JobRecord]
    BY <1>11, <2>1, JobUpdate DEF HistoryGone
  <2> QED  BY <1>11, <1>a, <2>2 DEF HistoryGone
<1>12. ASSUME NEW p \in Job, TakeProfile(p)
       PROVE  SyncTypeOK'
  <2>a. historyId \in Nat
    BY DEF historyId, MailboxTypeOK
  <2>1. [job[p] EXCEPT !.pc = "inbox", !.latest = historyId] \in JobRecord
    BY <2>a DEF JobRecord, SyncPC
  <2>2. job' \in [Job -> JobRecord]
    BY <1>12, <2>1, JobUpdate DEF TakeProfile
  <2> QED  BY <1>12, <1>a, <2>2 DEF TakeProfile
<1>13. ASSUME NEW p \in Job, Backfill(p)
       PROVE  SyncTypeOK'
  <2>1. "advance" \in SyncPC
    BY DEF SyncPC
  <2> QED  BY <1>13, <2>1, BackfillType DEF Backfill
<1>14. ASSUME NEW p \in Job, Fail(p)
       PROVE  SyncTypeOK'
  <2>1. job' \in [Job -> JobRecord]
    BY <1>14, IdleType, JobUpdate DEF Fail, Finish
  <2> QED  BY <1>14, <1>a, <2>1 DEF Fail
<1>15. CASE UNCHANGED vars
  BY <1>15, <1>a DEF vars
<1> QED
  BY <1>1, <1>2, <1>3, <1>4, <1>5, <1>6, <1>7, <1>8, <1>9, <1>10, <1>11, <1>12, <1>13,
     <1>14, <1>15 DEF Next, SyncStep

\* A job of this module is never at a call of the other invocations.
\* A step of the sync makes a job wait for no call but those of the sync.
LEMMA NextCalls ==
  ASSUME SyncTypeOK, [Next]_vars, NEW Calls, SyncPC \subseteq Calls,
         NEW p \in Job, job[p].pc \in Calls
  PROVE  job'[p].pc \in Calls
<1>1. job[p].pc \in Calls /\ job \in [Job -> JobRecord] /\ Idle.pc \in Calls
  BY DEF SyncTypeOK, SyncPC, Idle
<1>2. CASE MailboxChanges \/ HistoryExpires \/ PushLost \/ IgnorePush \/ UNCHANGED vars
  BY <1>1, <1>2 DEF MailboxChanges, HistoryExpires, PushLost, IgnorePush, vars
<1>3. ASSUME NEW q \in Job, Fail(q) \/ Advance(q) \/ PageMessageGone(q)
      PROVE  job'[p].pc \in Calls
  BY <1>1, <1>3 DEF Fail, Advance, PageMessageGone, Finish
<1>4. ASSUME NEW q \in Job, StartSync(q)
      PROVE  job'[p].pc \in Calls
  <2>1. \A r \in Job \ {q} : job'[r] = job[r]
    BY <1>1, <1>4 DEF StartSync
  <2>2. job'[q] = [Idle EXCEPT !.pc = "list", !.task = "delta", !.cursor = watermark,
                               !.latest = watermark]
    BY <1>1, <1>4 DEF StartSync
  <2>3. job'[q].pc = "list"
    BY <2>2 DEF Idle
  <2> QED  BY <1>1, <2>1, <2>3 DEF SyncPC
<1>5. ASSUME NEW q \in Job, ListHistory(q) \/ FetchChanged(q)
      PROVE  job'[p].pc \in Calls
  <2>1. CASE ListHistory(q)
    BY <1>1, <2>1 DEF ListHistory, SyncPC, JobRecord
  <2>2. CASE FetchChanged(q)
    BY <1>1, <2>2 DEF FetchChanged, JobRecord
  <2> QED  BY <1>5, <2>1, <2>2
<1>6. ASSUME NEW q \in Job, StoreChanged(q) \/ DeleteRemoved(q) \/ HistoryGone(q) \/ TakeProfile(q)
      PROVE  job'[p].pc \in Calls
  BY <1>1, <1>6 DEF StoreChanged, DeleteRemoved, HistoryGone, TakeProfile, SyncPC, JobRecord
<1>7. ASSUME NEW q \in Job, ListInbox(q) \/ FetchPageMessage(q) \/ StorePage(q, "advance")
      PROVE  job'[p].pc \in Calls
  <2>1. CASE ListInbox(q)
    BY <1>1, <2>1 DEF ListInbox, SyncPC, JobRecord
  <2>2. CASE FetchPageMessage(q)
    BY <1>1, <2>2 DEF FetchPageMessage, JobRecord
  <2>3. CASE StorePage(q, "advance")
    <3>1. PICK pc \in {"advance", "inbox"} :
            job' = [job EXCEPT ![q].pc = pc, ![q].fetched = NoneFetched,
                               ![q].got = job[q].got \cup FetchedBy(q)]
      BY <2>3 DEF StorePage
    <3>2. job'[p].pc \in {job[p].pc, pc}
      BY <1>1, <3>1 DEF JobRecord
    <3> QED  BY <1>1, <3>2 DEF SyncPC
  <2> QED  BY <1>7, <2>1, <2>2, <2>3
<1> QED  BY <1>2, <1>3, <1>4, <1>5, <1>6, <1>7 DEF Next, SyncStep, Backfill

\* Every variable keeps its type in every reachable state.
THEOREM TypeCorrect == Spec => []TypeOK
<1>1. Init => TypeOK
  BY InitType DEF TypeOK, Init, JobsInit, Idle, SyncPC
<1>2. TypeOK /\ [Next]_vars => TypeOK'
  BY NextType, NextCalls DEF TypeOK
<1> QED  BY <1>1, <1>2, PTL DEF Spec

-----------------------------------------------------------------------------
(* No change is skipped *)

\* What no step undoes: the history only grows, a message that is gone stays
\* gone, and a state that was stored counts as stored for ever.
Grows ==
  /\ historyId <= historyId'
  /\ \A i \in 1..historyId : log'[i] = log[i]
  /\ \A i \in 1..historyId : box[log[i].messageId] = NoRow => box'[log[i].messageId] = NoRow
  /\ oldest <= oldest'
  /\ base <= base'
  /\ \A m \in Message : applied[m] <= applied'[m]

LEMMA LogMessage ==
  ASSUME SyncTypeOK
  PROVE  \A i \in 1..historyId : log[i] \in Change /\ log[i].messageId \in Message
<1>1. \A i \in 1..historyId : log[i] \in Change
  BY DEF SyncTypeOK, MailboxTypeOK, historyId
<1> QED  BY <1>1 DEF Change

LEMMA GrowsStored ==
  ASSUME SyncTypeOK, SyncTypeOK', Grows, NEW i \in 1..historyId, Stored(i)
  PROVE  Stored(i)'
<1>1. log'[i] = log[i]
  BY DEF Grows
<1>2. log[i].messageId \in Message
  BY LogMessage
<1>3. applied[log[i].messageId] <= applied'[log[i].messageId] /\ base <= base'
  BY <1>2 DEF Grows
<1>4. /\ applied[log[i].messageId] \in Nat /\ applied'[log[i].messageId] \in Nat
      /\ base \in Nat /\ base' \in Nat /\ i \in Nat
  BY <1>2 DEF SyncTypeOK, TablesTypeOK
<1> QED  BY <1>1, <1>3, <1>4 DEF Stored

LEMMA GrowsApplied ==
  ASSUME SyncTypeOK, SyncTypeOK', Grows, NEW id \in Nat, id <= historyId, AppliedUpTo(id)
  PROVE  AppliedUpTo(id)'
BY GrowsStored DEF AppliedUpTo, historyId, SyncTypeOK, MailboxTypeOK

\* A job whose own locals do not change keeps its invariant, whatever the
\* mailbox and the other jobs do.
LEMMA GrowsJob ==
  ASSUME SyncTypeOK, SyncTypeOK', Grows, NEW r \in JobRecord, JobInv(r)
  PROVE  JobInv(r)'
<1>1. r.latest \in Nat /\ r.cursor \in Nat /\ historyId \in Nat /\ historyId' \in Nat
      /\ oldest \in Nat /\ oldest' \in Nat
  BY DEF JobRecord, historyId, SyncTypeOK, MailboxTypeOK
<1>2. r.latest <= historyId'
  BY <1>1 DEF JobInv, Grows
<1>3. \A m \in Message : r.fetched[m] # NoRow => r.fetched[m].cursor <= historyId'
  <2>1. \A m \in Message : r.fetched[m] # NoRow => r.fetched[m].cursor \in Nat
    BY DEF JobRecord, Row
  <2> QED  BY <1>1, <2>1 DEF JobInv, Grows
<1>4. r.pc = "list" => r.cursor <= historyId' /\ AppliedUpTo(r.cursor)'
  BY <1>1, GrowsApplied DEF JobInv, Grows
<1>5. ASSUME r.pc \in {"fetch", "delete"}, NEW i \in 1..r.latest
      PROVE  Stored(i)' \/ Holds(r, i)'
  <2>1. i \in 1..historyId /\ (Stored(i) \/ Holds(r, i))
    BY <1>1, <1>5 DEF JobInv
  <2>2. CASE Stored(i)
    BY <2>1, <2>2, GrowsStored
  <2>3. CASE Holds(r, i)
    BY <2>1, <2>3 DEF Holds, Grows
  <2> QED  BY <2>1, <2>2, <2>3
<1>6. r.pc = "advance" /\ r.task # "resync" => AppliedUpTo(r.latest)'
  BY <1>1, GrowsApplied DEF JobInv
<1>7. r.task = "resync" => oldest' > 0
  BY <1>1 DEF JobInv, Grows
<1> QED  BY <1>2, <1>3, <1>4, <1>5, <1>6, <1>7 DEF JobInv

\* The watermark's part of TablesInv, when a step leaves the watermark alone.
LEMMA GrowsTables ==
  ASSUME SyncTypeOK, SyncTypeOK', Grows, TablesInv, UNCHANGED <<watermark, base>>,
         \A m \in Message : applied'[m] <= historyId'
  PROVE  TablesInv'
<1>1. watermark # NoHistoryId => watermark \in Nat /\ watermark <= historyId
  BY DEF TablesInv, SyncTypeOK, TablesTypeOK
<1>2. historyId \in Nat /\ historyId' \in Nat /\ historyId <= historyId'
  BY DEF historyId, SyncTypeOK, MailboxTypeOK, Grows
<1>3. watermark # NoHistoryId => watermark' <= historyId'
  BY <1>1, <1>2
<1>4. NoChangeSkipped'
  BY <1>1, GrowsApplied DEF TablesInv, NoChangeSkipped
<1> QED  BY <1>3, <1>4 DEF TablesInv

LEMMA InitFeed == Init => FeedInv
<1> SUFFICES ASSUME Init PROVE FeedInv
  OBVIOUS
<1>1. historyId = 0
  BY DEF Init, MailboxInit, historyId
<1>2. MailboxInv
  BY <1>1 DEF Init, MailboxInit, MailboxInv
<1>3. TablesInv
  BY <1>1, NoHistoryIdAssumption DEF Init, TablesInit, TablesInv, NoChangeSkipped, AppliedUpTo
<1>4. JobInv(Idle)
  BY <1>1 DEF JobInv, Idle, NoneFetched
<1>5. \A p \in Job : JobInv(job[p])
  BY <1>4 DEF Init, JobsInit
<1> QED  BY <1>2, <1>3, <1>5 DEF FeedInv

\* A change of the account only adds to its history.
LEMMA OwnerKeeps ==
  ASSUME SyncTypeOK, SyncTypeOK', FeedInv, NEW m \in Message, OwnerChanges(m), UNCHANGED tableVars
  PROVE  Grows /\ MailboxInv'
<1> USE DEF historyId
<1>1. OwnerChanges(m)
  OBVIOUS
<1>2. PICK type \in {"added", "labelsChanged", "deleted"} : Recorded(type, m)
  BY DEF OwnerChanges, Arrive, Relabel, Purge
<1>3. /\ Len(log) \in Nat /\ Len(log') = Len(log) + 1 /\ oldest' = oldest
      /\ log'[Len(log) + 1] = [type |-> type, messageId |-> m]
      /\ \A i \in 1..Len(log) : log'[i] = log[i]
  BY <1>2 DEF Recorded, SyncTypeOK, MailboxTypeOK
<1>4. /\ \A n \in Message \ {m} : box'[n] = box[n]
      /\ box'[m] # NoRow => box'[m].cursor = Len(log) + 1
  <2>1. box \in [Message -> Row \cup {NoRow}]
    BY DEF SyncTypeOK, MailboxTypeOK
  <2>2. ASSUME NEW labels \in SUBSET Label,
               box' = [box EXCEPT ![m] = [labels |-> labels, cursor |-> Len(log) + 1]]
        PROVE  box'[m].cursor = Len(log) + 1 /\ \A n \in Message \ {m} : box'[n] = box[n]
    BY <2>1, <2>2
  <2>3. ASSUME NEW labels \in SUBSET Label, Arrive(m, labels) \/ Relabel(m, labels)
        PROVE  box'[m].cursor = Len(log) + 1 /\ \A n \in Message \ {m} : box'[n] = box[n]
    BY <2>2, <2>3 DEF Arrive, Relabel
  <2>4. CASE Purge(m)
    BY <2>1, <2>4 DEF Purge
  <2> QED  BY <1>1, <2>3, <2>4 DEF OwnerChanges
<1>5. \A i \in 1..Len(log) : log[i].messageId \in Message
  BY LogMessage
<1>6. \A i \in 1..Len(log) :
         log[i].messageId = m /\ (box[m] = NoRow \/ log[i].type = "deleted") => box'[m] = NoRow
  <2>1. SUFFICES ASSUME NEW i \in 1..Len(log), log[i].messageId = m,
                        box[m] = NoRow \/ log[i].type = "deleted"
                 PROVE  box'[m] = NoRow
    OBVIOUS
  <2>2. box[m] = NoRow
    BY <2>1 DEF FeedInv, MailboxInv
  <2>3. Purge(m)
    BY <1>1, <2>1, <2>2 DEF OwnerChanges, Arrive, Relabel
  <2> QED  BY <2>3 DEF Purge, SyncTypeOK, MailboxTypeOK
<1>7. type = "deleted" => box'[m] = NoRow
  BY <1>1, <1>2, <1>3 DEF OwnerChanges, Arrive, Relabel, Purge, Recorded, SyncTypeOK, MailboxTypeOK
<1>8. Grows
  <2>1. \A i \in 1..Len(log) : box[log[i].messageId] = NoRow => box'[log[i].messageId] = NoRow
    BY <1>4, <1>5, <1>6
  <2> QED  BY <1>3, <2>1 DEF Grows, tableVars, SyncTypeOK, TablesTypeOK, MailboxTypeOK
<1>9. MailboxInv'
  <2>1. \A n \in Message : box'[n] # NoRow => box'[n].cursor <= Len(log')
    <3>1. \A n \in Message : box[n] # NoRow => box[n].cursor \in Nat /\ box[n].cursor <= Len(log)
      BY DEF FeedInv, MailboxInv, SyncTypeOK, MailboxTypeOK, Row
    <3> QED  BY <1>3, <1>4, <3>1
  <2>2. ASSUME NEW i \in 1..Len(log), box'[log[i].messageId] # NoRow
        PROVE  box'[log[i].messageId].cursor >= i
    BY <1>3, <1>4, <1>5, <2>2 DEF FeedInv, MailboxInv
  <2>3. ASSUME NEW i \in 1..Len(log), log[i].type = "deleted"
        PROVE  box'[log[i].messageId] = NoRow
    BY <1>4, <1>5, <1>6, <2>3 DEF FeedInv, MailboxInv
  <2>4. ASSUME NEW i \in 1..Len(log')
        PROVE  /\ box'[log'[i].messageId] # NoRow => box'[log'[i].messageId].cursor >= i
               /\ log'[i].type = "deleted" => box'[log'[i].messageId] = NoRow
    <3>1. CASE i \in 1..Len(log)
      BY <1>3, <2>2, <2>3, <3>1
    <3>2. CASE i = Len(log) + 1
      BY <1>3, <1>4, <1>7, <3>2
    <3> QED  BY <1>3, <3>1, <3>2
  <2>5. oldest' <= Len(log')
    BY <1>3 DEF FeedInv, MailboxInv, SyncTypeOK, MailboxTypeOK
  <2> QED  BY <2>1, <2>4, <2>5 DEF MailboxInv
<1> QED  BY <1>8, <1>9

\* Nor does a step of a job that only touches its locals.
LEMMA LocalKeeps ==
  ASSUME SyncTypeOK, SyncTypeOK', FeedInv, UNCHANGED <<mailboxVars, tableVars>>
  PROVE  Grows /\ MailboxInv' /\ TablesInv'
<1>1. Grows
  BY DEF Grows, mailboxVars, tableVars, historyId, SyncTypeOK, MailboxTypeOK, TablesTypeOK
<1>2. MailboxInv'
  BY DEF FeedInv, MailboxInv, mailboxVars, historyId
<1>3. TablesInv'
  BY DEF FeedInv, TablesInv, NoChangeSkipped, AppliedUpTo, Stored, mailboxVars, tableVars, historyId
<1> QED  BY <1>1, <1>2, <1>3

LEMMA UpsertKeeps ==
  ASSUME SyncTypeOK, SyncTypeOK', FeedInv, NEW batch \in [Message -> Row \cup {NoRow}],
         \A m \in Message : batch[m] # NoRow => batch[m].cursor <= historyId,
         UpsertMessages(batch), UNCHANGED <<mailboxVars, watermark, base>>
  PROVE  /\ Grows /\ MailboxInv' /\ TablesInv'
         /\ \A m \in Message : batch[m] # NoRow => applied'[m] >= batch[m].cursor
<1>1. \A m \in Message : batch[m] # NoRow => batch[m].cursor \in Nat
  BY DEF Row
<1>2. \A m \in Message : /\ applied[m] <= applied'[m]
                         /\ batch[m] # NoRow => applied'[m] >= batch[m].cursor
                         /\ applied'[m] <= historyId
  BY <1>1 DEF UpsertMessages, FeedInv, TablesInv, SyncTypeOK, TablesTypeOK
<1>3. Grows
  BY <1>2 DEF Grows, mailboxVars, historyId, SyncTypeOK, MailboxTypeOK, TablesTypeOK
<1>4. MailboxInv'
  BY DEF FeedInv, MailboxInv, mailboxVars, historyId
<1>5. historyId' = historyId
  BY DEF mailboxVars, historyId
<1>6. TablesInv'
  BY <1>2, <1>3, <1>5, GrowsTables DEF FeedInv
<1> QED  BY <1>2, <1>3, <1>4, <1>6

LEMMA DeleteKeeps ==
  ASSUME SyncTypeOK, SyncTypeOK', FeedInv, NEW ids \in SUBSET Message,
         DeleteMessages(ids), UNCHANGED <<mailboxVars, watermark, base>>
  PROVE  /\ Grows /\ MailboxInv' /\ TablesInv'
         /\ \A m \in ids : box[m] = NoRow => applied'[m] = historyId
<1>1. \A m \in Message : /\ applied[m] <= applied'[m]
                         /\ m \in ids /\ box[m] = NoRow => applied'[m] = historyId
                         /\ applied'[m] <= historyId
  BY DEF DeleteMessages, FeedInv, TablesInv, SyncTypeOK, TablesTypeOK, MailboxTypeOK, historyId
<1>2. Grows
  BY <1>1 DEF Grows, mailboxVars, historyId, SyncTypeOK, MailboxTypeOK, TablesTypeOK
<1>3. MailboxInv'
  BY DEF FeedInv, MailboxInv, mailboxVars, historyId
<1>4. historyId' = historyId
  BY DEF mailboxVars, historyId
<1>5. TablesInv'
  BY <1>1, <1>2, <1>4, GrowsTables DEF FeedInv
<1> QED  BY <1>1, <1>2, <1>3, <1>5

\* Moving the watermark over changes that are stored, or jumping after a
\* resync, keeps the tables' invariant.
LEMMA AdvanceKeeps ==
  ASSUME SyncTypeOK, SyncTypeOK', FeedInv, NEW p \in Job, Advance(p)
  PROVE  Grows /\ MailboxInv' /\ TablesInv'
<1>0. PICK id \in Nat : id = job[p].latest
  BY DEF SyncTypeOK, JobRecord
<1>1. id <= historyId /\ (job[p].task # "resync" => AppliedUpTo(id))
  BY <1>0 DEF FeedInv, JobInv, Advance
<1>2. historyId' = historyId /\ historyId \in Nat
  BY DEF Advance, mailboxVars, historyId, SyncTypeOK, MailboxTypeOK
<1>3. MailboxInv'
  BY DEF FeedInv, MailboxInv, Advance, mailboxVars, historyId
<1>4. CASE watermark' = watermark
  <2>1. UNCHANGED <<mailboxVars, tableVars>>
    BY <1>4 DEF Advance, tableVars
  <2> QED  BY <2>1, LocalKeeps
<1>5. CASE watermark' # watermark
  <2>1. watermark' = id /\ (watermark = NoHistoryId \/ watermark < id)
    BY <1>0, <1>5 DEF Advance, AdvanceHistoryId
  <2>2. base <= base' /\ base' <= id
    BY <1>0, <2>1 DEF Advance, FeedInv, TablesInv, SyncTypeOK, TablesTypeOK
  <2>3. Grows
    BY <2>2 DEF Grows, Advance, mailboxVars, historyId, SyncTypeOK, MailboxTypeOK, TablesTypeOK
  <2>4. AppliedUpTo(id)'
    <3>1. CASE job[p].task = "resync"
      <4>1. base' = id
        BY <1>0, <1>5, <3>1 DEF Advance
      <4> QED  BY <4>1 DEF AppliedUpTo, Stored
    <3>2. CASE job[p].task # "resync"
      BY <1>1, <1>2, <2>3, <3>2, GrowsApplied
    <3> QED  BY <3>1, <3>2
  <2>5. TablesInv'
    <3>1. NoChangeSkipped'
      BY <2>1, <2>4 DEF NoChangeSkipped, AppliedUpTo
    <3>2. \A m \in Message : applied'[m] <= historyId'
      BY <1>2 DEF Advance, FeedInv, TablesInv
    <3>3. watermark' <= historyId' /\ watermark' # NoHistoryId /\ base' <= watermark'
      BY <1>1, <1>2, <2>1, <2>2, NoHistoryIdAssumption
    <3> QED  BY <3>1, <3>2, <3>3 DEF TablesInv
  <2> QED  BY <1>3, <2>3, <2>5
<1> QED  BY <1>4, <1>5

\* Jobs other than p keep their invariant in every step of p.
LEMMA OthersKeep ==
  ASSUME SyncTypeOK, SyncTypeOK', FeedInv, Grows, NEW p \in Job, JobInv(job[p])',
         \A q \in Job \ {p} : job'[q] = job[q]
  PROVE  \A q \in Job : JobInv(job[q])'
<1> SUFFICES ASSUME NEW q \in Job, q # p PROVE JobInv(job[q])'
  OBVIOUS
<1>1. job[q] \in JobRecord /\ JobInv(job[q])
  BY DEF SyncTypeOK, FeedInv
<1>2. job'[q] = job[q]
  OBVIOUS
<1>3. PICK r \in JobRecord : r = job[q]
  BY <1>1
<1>4. JobInv(r)'
  BY <1>1, <1>3, GrowsJob
<1> QED  BY <1>2, <1>3, <1>4 DEF JobInv, Holds

\* A job that ends has no obligations left.
LEMMA FinishInv ==
  ASSUME SyncTypeOK, SyncTypeOK', NEW p \in Job, job' = [job EXCEPT ![p] = Idle]
  PROVE  JobInv(job[p])' /\ \A q \in Job \ {p} : job'[q] = job[q]
<1>1. job'[p] = Idle /\ \A q \in Job \ {p} : job'[q] = job[q]
  BY DEF SyncTypeOK
<1>2. 0 <= historyId'
  BY DEF historyId, SyncTypeOK, MailboxTypeOK
<1> QED  BY <1>1, <1>2 DEF JobInv, Idle, NoneFetched

LEMMA StartKeeps ==
  ASSUME SyncTypeOK, SyncTypeOK', FeedInv, NEW p \in Job, StartSync(p)
  PROVE  FeedInv'
<1>1. Grows /\ MailboxInv' /\ TablesInv'
  BY LocalKeeps DEF StartSync
<1>2. /\ job'[p] = [Idle EXCEPT !.pc = "list", !.task = "delta", !.cursor = watermark,
                                !.latest = watermark]
      /\ \A q \in Job \ {p} : job'[q] = job[q]
  BY DEF SyncTypeOK, StartSync
<1>3. /\ job'[p].pc = "list" /\ job'[p].task = "delta" /\ job'[p].cursor = watermark
      /\ job'[p].latest = watermark /\ job'[p].fetched = NoneFetched
  BY <1>2 DEF Idle
<1>4. PICK id \in Nat : id = watermark
  BY DEF StartSync, SyncTypeOK, TablesTypeOK
<1>5. id <= historyId /\ AppliedUpTo(id)
  BY <1>4, NoHistoryIdAssumption DEF FeedInv, TablesInv, NoChangeSkipped
<1>6. id <= historyId' /\ AppliedUpTo(id)'
  BY <1>1, <1>5, GrowsApplied DEF Grows, StartSync, mailboxVars, historyId
<1>7. JobInv(job[p])'
  BY <1>3, <1>4, <1>6 DEF JobInv, NoneFetched, AppliedUpTo, Stored
<1> QED  BY <1>1, <1>2, <1>7, OthersKeep DEF FeedInv

\* The heart of it: after the last page, every change up to the end of the
\* history was stored before this job, or is one the job will fetch or remove.
LEMMA PlanHolds ==
  ASSUME SyncTypeOK, FeedInv, NEW p \in Job, job[p].pc = "list",
         NEW i \in 1..historyId
  PROVE  \/ Stored(i)
         \/ log[i].messageId \in ToRefetch(job[p].cursor, historyId)
         \/ /\ log[i].messageId \in ToRemove(job[p].cursor, historyId)
            /\ box[log[i].messageId] = NoRow
<1> DEFINE from == job[p].cursor
           m == log[i].messageId
<1>1. from \in Nat /\ from <= historyId /\ AppliedUpTo(from) /\ historyId \in Nat
  BY DEF FeedInv, JobInv, SyncTypeOK, JobRecord, MailboxTypeOK, historyId
<1>2. CASE i <= from
  BY <1>1, <1>2 DEF AppliedUpTo
<1>3. CASE ~(i <= from)
  <2>1. i \in from + 1 .. historyId
    BY <1>1, <1>3
  <2>2. CASE m \in ToRemove(from, historyId)
    <3>1. PICK d \in from + 1 .. historyId : log[d].messageId = m /\ log[d].type = "deleted"
      BY <2>2 DEF ToRemove, Deciding
    <3>2. box[m] = NoRow
      BY <1>1, <3>1 DEF FeedInv, MailboxInv
    <3> QED  BY <2>2, <3>2
  <2>3. CASE m \notin ToRemove(from, historyId)
    BY <2>1, <2>3 DEF ToRefetch
  <2> QED  BY <2>2, <2>3
<1> QED  BY <1>2, <1>3

LEMMA ListKeeps ==
  ASSUME SyncTypeOK, SyncTypeOK', FeedInv, NEW p \in Job, ListHistory(p)
  PROVE  FeedInv'
<1>1. Grows /\ MailboxInv' /\ TablesInv'
  BY LocalKeeps DEF ListHistory
<1> DEFINE from == job[p].cursor
           to == PageEnd(job[p].latest)
<1>2. job[p] \in JobRecord /\ JobInv(job[p]) /\ job[p].pc = "list"
  BY DEF SyncTypeOK, FeedInv, ListHistory
<1>3. to \in Nat /\ to <= historyId /\ historyId \in Nat
  BY PageSizeAssumption DEF PageEnd, historyId, SyncTypeOK, MailboxTypeOK, JobRecord
<1>4. log' = log /\ box' = box /\ oldest' = oldest /\ applied' = applied /\ base' = base
  BY DEF ListHistory, mailboxVars, tableVars
<1> HIDE DEF from, to
<1>5. \A q \in Job \ {p} : job'[q] = job[q]
  BY DEF SyncTypeOK, ListHistory
<1>6. CASE to < historyId
  <2>1. job' = [job EXCEPT ![p].latest = to]
    BY <1>6 DEF ListHistory, to
  <2>2. /\ job'[p].latest = to /\ job'[p].pc = "list" /\ job'[p].task = job[p].task
        /\ job'[p].fetched = job[p].fetched /\ job'[p].cursor = job[p].cursor
    BY <1>2, <2>1 DEF SyncTypeOK, JobRecord
  <2>3. JobInv(job[p])'
    BY <1>2, <1>3, <1>4, <2>2 DEF JobInv, AppliedUpTo, Stored, historyId
  <2> QED  BY <1>1, <1>5, <2>3, OthersKeep DEF FeedInv
<1>7. CASE ~(to < historyId)
  <2>1. to = historyId
    BY <1>3, <1>7
  <2>2. job' = [job EXCEPT ![p].pc = "fetch", ![p].latest = historyId,
                           ![p].todo = ToRefetch(from, historyId),
                           ![p].remove = ToRemove(from, historyId)]
    BY <1>7, <2>1 DEF ListHistory, from, to
  <2>3. /\ job'[p].latest = historyId /\ job'[p].pc = "fetch" /\ job'[p].task = job[p].task
        /\ job'[p].fetched = job[p].fetched
        /\ job'[p].todo = ToRefetch(from, historyId)
        /\ job'[p].remove = ToRemove(from, historyId)
    BY <1>2, <2>2 DEF SyncTypeOK, JobRecord
  <2>4. \A i \in 1..historyId : Stored(i)' \/ Holds(job[p], i)'
    BY <1>2, <1>4, <2>3, PlanHolds DEF Holds, Stored, from
  <2>5. JobInv(job[p])'
    BY <1>2, <1>3, <1>4, <2>3, <2>4 DEF JobInv, historyId
  <2> QED  BY <1>1, <1>5, <2>5, OthersKeep DEF FeedInv
<1> QED  BY <1>6, <1>7

LEMMA FetchKeeps ==
  ASSUME SyncTypeOK, SyncTypeOK', FeedInv, NEW p \in Job, FetchChanged(p)
  PROVE  FeedInv'
<1>1. Grows /\ MailboxInv' /\ TablesInv'
  BY LocalKeeps DEF FetchChanged
<1>2. job[p] \in JobRecord /\ JobInv(job[p]) /\ job[p].pc = "fetch"
  BY DEF SyncTypeOK, FeedInv, FetchChanged
<1>3. log' = log /\ box' = box /\ oldest' = oldest /\ applied' = applied /\ base' = base
  BY DEF FetchChanged, mailboxVars, tableVars
<1>4. PICK m \in job[p].todo :
        job' = IF box[m] = NoRow
                 THEN [job EXCEPT ![p].todo = @ \ {m}, ![p].remove = @ \cup {m}]
                 ELSE [job EXCEPT ![p].todo = @ \ {m}, ![p].fetched[m] = box[m]]
  BY DEF FetchChanged
<1>5. m \in Message /\ \A q \in Job \ {p} : job'[q] = job[q]
  BY <1>2, <1>4 DEF SyncTypeOK, JobRecord
<1>6. /\ job'[p].pc = "fetch" /\ job'[p].task = job[p].task /\ job'[p].latest = job[p].latest
      /\ job'[p].todo = job[p].todo \ {m}
  BY <1>2, <1>4 DEF SyncTypeOK, JobRecord
<1>7. CASE box[m] = NoRow
  <2>1. job'[p].remove = job[p].remove \cup {m} /\ job'[p].fetched = job[p].fetched
    BY <1>2, <1>4, <1>7 DEF SyncTypeOK, JobRecord
  <2>2. \A i \in 1..job[p].latest : Stored(i)' \/ Holds(job[p], i)'
    BY <1>2, <1>3, <1>6, <1>7, <2>1 DEF JobInv, Stored, Holds
  <2>3. JobInv(job[p])'
    BY <1>2, <1>3, <1>6, <2>1, <2>2 DEF JobInv, historyId
  <2> QED  BY <1>1, <1>5, <2>3, OthersKeep DEF FeedInv
<1>8. CASE box[m] # NoRow
  <2>1. job'[p].remove = job[p].remove /\ job'[p].fetched = [job[p].fetched EXCEPT ![m] = box[m]]
    BY <1>2, <1>4, <1>8 DEF SyncTypeOK, JobRecord
  <2>2. /\ job'[p].fetched[m] = box[m]
        /\ \A n \in Message \ {m} : job'[p].fetched[n] = job[p].fetched[n]
    BY <1>2, <1>5, <2>1 DEF JobRecord
  <2>3. ASSUME NEW i \in 1..job[p].latest
        PROVE  Stored(i)' \/ Holds(job[p], i)'
    <3>1. i \in 1..historyId /\ log[i].messageId \in Message
      BY <1>2, LogMessage DEF JobInv, JobRecord, historyId, SyncTypeOK, MailboxTypeOK
    <3>2. Stored(i) \/ Holds(job[p], i)
      BY <1>2 DEF JobInv
    <3>3. CASE log[i].messageId = m
      <4>1. box[m].cursor >= i
        BY <1>8, <3>1, <3>3 DEF FeedInv, MailboxInv
      <4> QED  BY <1>3, <1>8, <2>2, <3>3, <4>1 DEF Holds
    <3>4. CASE log[i].messageId # m
      BY <1>3, <1>6, <2>1, <2>2, <3>1, <3>2, <3>4 DEF Stored, Holds
    <3> QED  BY <3>3, <3>4
  <2>4. \A n \in Message : job'[p].fetched[n] # NoRow => job'[p].fetched[n].cursor <= historyId
    BY <1>2, <1>8, <2>2 DEF JobInv, FeedInv, MailboxInv
  <2>5. JobInv(job[p])'
    BY <1>2, <1>3, <1>6, <2>3, <2>4 DEF JobInv, historyId
  <2> QED  BY <1>1, <1>5, <2>5, OthersKeep DEF FeedInv
<1> QED  BY <1>7, <1>8

LEMMA StoreKeeps ==
  ASSUME SyncTypeOK, SyncTypeOK', FeedInv, NEW p \in Job, StoreChanged(p)
  PROVE  FeedInv'
<1>1. /\ job[p] \in JobRecord /\ JobInv(job[p])
      /\ job[p].pc = "fetch" /\ job[p].todo = {}
  BY DEF SyncTypeOK, FeedInv, StoreChanged
<1>2. /\ Grows /\ MailboxInv' /\ TablesInv'
      /\ \A m \in Message : job[p].fetched[m] # NoRow => applied'[m] >= job[p].fetched[m].cursor
  BY <1>1, UpsertKeeps DEF StoreChanged, JobRecord, JobInv
<1>3. log' = log /\ box' = box /\ oldest' = oldest /\ base' = base
  BY DEF StoreChanged, mailboxVars
<1>4. /\ job'[p].pc = "delete" /\ job'[p].task = job[p].task /\ job'[p].latest = job[p].latest
      /\ job'[p].todo = {} /\ job'[p].fetched = NoneFetched /\ job'[p].remove = job[p].remove
      /\ \A q \in Job \ {p} : job'[q] = job[q]
  BY <1>1 DEF StoreChanged, SyncTypeOK, JobRecord
<1>5. ASSUME NEW i \in 1..job[p].latest
      PROVE  Stored(i)' \/ Holds(job[p], i)'
  <2> DEFINE m == log[i].messageId
  <2>1. i \in 1..historyId /\ m \in Message
    BY <1>1, LogMessage DEF JobInv, JobRecord, historyId, SyncTypeOK, MailboxTypeOK
  <2>2. CASE Stored(i)
    BY <1>2, <2>1, <2>2, GrowsStored
  <2>3. CASE job[p].fetched[m] # NoRow /\ job[p].fetched[m].cursor >= i
    <3>1. job[p].fetched[m].cursor \in Nat /\ applied'[m] \in Nat
      BY <1>1, <2>1, <2>3 DEF JobRecord, Row, SyncTypeOK, TablesTypeOK
    <3>2. applied'[m] >= i
      BY <1>2, <2>1, <2>3, <3>1
    <3> QED  BY <1>3, <3>2 DEF Stored
  <2>4. CASE m \in job[p].remove /\ box[m] = NoRow
    BY <1>3, <1>4, <2>4 DEF Holds
  <2> QED  BY <1>1, <2>2, <2>3, <2>4 DEF JobInv, Holds
<1>6. JobInv(job[p])'
  BY <1>1, <1>3, <1>4, <1>5 DEF JobInv, historyId, NoneFetched
<1> QED  BY <1>2, <1>4, <1>6, OthersKeep DEF FeedInv

LEMMA DeleteRemovedKeeps ==
  ASSUME SyncTypeOK, SyncTypeOK', FeedInv, NEW p \in Job, DeleteRemoved(p)
  PROVE  FeedInv'
<1>1. /\ job[p] \in JobRecord /\ JobInv(job[p]) /\ job[p].pc = "delete"
      /\ job[p].todo = {} /\ job[p].fetched = NoneFetched
  BY DEF SyncTypeOK, FeedInv, DeleteRemoved, JobInv
<1>2. /\ Grows /\ MailboxInv' /\ TablesInv'
      /\ \A m \in job[p].remove : box[m] = NoRow => applied'[m] = historyId
  BY <1>1, DeleteKeeps DEF DeleteRemoved, JobRecord
<1>3. log' = log /\ box' = box /\ oldest' = oldest /\ base' = base
  BY DEF DeleteRemoved, mailboxVars
<1>4. /\ job'[p].pc = "advance" /\ job'[p].task = job[p].task /\ job'[p].latest = job[p].latest
      /\ job'[p].fetched = NoneFetched
      /\ \A q \in Job \ {p} : job'[q] = job[q]
  BY <1>1 DEF DeleteRemoved, SyncTypeOK, JobRecord
<1>5. ASSUME NEW i \in 1..job[p].latest
      PROVE  Stored(i)'
  <2> DEFINE m == log[i].messageId
  <2>1. i \in 1..historyId /\ m \in Message
    BY <1>1, LogMessage DEF JobInv, JobRecord, historyId, SyncTypeOK, MailboxTypeOK
  <2>2. CASE Stored(i)
    BY <1>2, <2>1, <2>2, GrowsStored
  <2>3. CASE m \in job[p].remove /\ box[m] = NoRow
    BY <1>2, <1>3, <2>1, <2>3 DEF Stored, historyId, SyncTypeOK, MailboxTypeOK
  <2> QED  BY <1>1, <2>1, <2>2, <2>3 DEF JobInv, Holds, NoneFetched
<1>6. JobInv(job[p])'
  BY <1>1, <1>3, <1>4, <1>5 DEF JobInv, AppliedUpTo, historyId, NoneFetched
<1> QED  BY <1>2, <1>4, <1>6, OthersKeep DEF FeedInv

\* The steps of fullResync and of the backfill leave nothing to hold: what a
\* resync has to keep is only that history was lost before it.
LEMMA ResyncKeeps ==
  ASSUME SyncTypeOK, SyncTypeOK', FeedInv, NEW p \in Job, Grows, MailboxInv', TablesInv',
         \A q \in Job \ {p} : job'[q] = job[q],
         job'[p].pc \in {"profile", "inbox", "page", "advance"}, job'[p].task = "resync",
         oldest' > 0, job'[p].latest <= historyId',
         \A m \in Message :
           job'[p].fetched[m] # NoRow => job'[p].fetched[m].cursor <= historyId'
  PROVE  FeedInv'
<1>1. JobInv(job[p])'
  BY DEF JobInv
<1> QED  BY <1>1, OthersKeep DEF FeedInv

\* What the steps of a backfill do to the job that runs it, whatever it runs it for.
LEMMA BackfillLocals ==
  ASSUME SyncTypeOK, SyncTypeOK', FeedInv, NEW p \in Job, NEW next,
         ListInbox(p) \/ FetchPageMessage(p) \/ StorePage(p, next)
  PROVE  /\ Grows /\ MailboxInv' /\ TablesInv'
         /\ job'[p].pc \in {"inbox", "page", next} /\ job'[p].task = job[p].task
         /\ oldest' = oldest /\ job'[p].latest = job[p].latest /\ job'[p].latest <= historyId'
         /\ \A m \in Message :
              job'[p].fetched[m] # NoRow => job'[p].fetched[m].cursor <= historyId'
         /\ \A q \in Job \ {p} : job'[q] = job[q]
<1>1. job[p] \in JobRecord /\ JobInv(job[p])
  BY DEF SyncTypeOK, FeedInv
<1>2. /\ job[p].latest <= historyId
      /\ \A m \in Message : job[p].fetched[m] # NoRow => job[p].fetched[m].cursor <= historyId
  BY <1>1 DEF JobInv
<1>3. CASE ListInbox(p)
  <2>1. Grows /\ MailboxInv' /\ TablesInv'
    BY <1>3, LocalKeeps DEF ListInbox
  <2>2. PICK page \in SUBSET InboxAfter(job[p].got) :
          job' = [job EXCEPT ![p].pc = "page", ![p].todo = page,
                             ![p].more = (page # InboxAfter(job[p].got))]
    BY <1>3 DEF ListInbox
  <2>3. /\ job'[p].pc = "page" /\ job'[p].task = job[p].task /\ job'[p].latest = job[p].latest
        /\ job'[p].fetched = job[p].fetched /\ \A q \in Job \ {p} : job'[q] = job[q]
    BY <1>1, <2>2 DEF SyncTypeOK, JobRecord
  <2>4. oldest' = oldest /\ historyId' = historyId
    BY <1>3 DEF ListInbox, mailboxVars, historyId
  <2> QED  BY <1>2, <2>1, <2>3, <2>4
<1>4. CASE FetchPageMessage(p)
  <2>1. Grows /\ MailboxInv' /\ TablesInv'
    BY <1>4, LocalKeeps DEF FetchPageMessage
  <2>2. PICK m \in job[p].todo :
          box[m] # NoRow /\ job' = [job EXCEPT ![p].todo = @ \ {m}, ![p].fetched[m] = box[m]]
    BY <1>4 DEF FetchPageMessage
  <2>3. /\ job'[p].pc = job[p].pc /\ job'[p].task = job[p].task
        /\ job'[p].latest = job[p].latest
        /\ job'[p].fetched = [job[p].fetched EXCEPT ![m] = box[m]]
        /\ \A q \in Job \ {p} : job'[q] = job[q]
    BY <1>1, <2>2 DEF SyncTypeOK, JobRecord
  <2>4. oldest' = oldest /\ historyId' = historyId
    BY <1>4 DEF FetchPageMessage, mailboxVars, historyId
  <2>5. m \in Message /\ box[m].cursor <= historyId
    BY <1>1, <2>2 DEF JobRecord, FeedInv, MailboxInv
  <2>6. \A n \in Message : job'[p].fetched[n] # NoRow => job'[p].fetched[n].cursor <= historyId'
    BY <1>1, <1>2, <2>3, <2>4, <2>5 DEF JobRecord
  <2>7. job[p].pc = "page"
    BY <1>4 DEF FetchPageMessage
  <2> QED  BY <1>2, <2>1, <2>3, <2>4, <2>6, <2>7
<1>5. CASE StorePage(p, next)
  <2>1. Grows /\ MailboxInv' /\ TablesInv'
    BY <1>1, <1>2, <1>5, UpsertKeeps DEF StorePage, JobRecord
  <2>2. PICK pc \in {next, "inbox"} :
          job' = [job EXCEPT ![p].pc = pc, ![p].fetched = NoneFetched,
                             ![p].got = job[p].got \cup FetchedBy(p)]
    BY <1>5 DEF StorePage
  <2>3. /\ job'[p].pc = pc /\ job'[p].task = job[p].task /\ job'[p].latest = job[p].latest
        /\ job'[p].fetched = NoneFetched /\ \A q \in Job \ {p} : job'[q] = job[q]
    BY <1>1, <2>2 DEF SyncTypeOK, JobRecord
  <2>4. oldest' = oldest /\ historyId' = historyId
    BY <1>5 DEF StorePage, mailboxVars, historyId
  <2> QED  BY <1>2, <2>1, <2>2, <2>3, <2>4 DEF NoneFetched
<1> QED  BY <1>3, <1>4, <1>5

LEMMA BackfillKeeps ==
  ASSUME SyncTypeOK, SyncTypeOK', FeedInv, NEW p \in Job, Backfill(p)
  PROVE  FeedInv'
<1>1. job[p].task = "resync" /\ oldest > 0
  BY DEF FeedInv, Backfill, JobInv
<1>2. CASE ListInbox(p) \/ FetchPageMessage(p) \/ StorePage(p, "advance")
  BY <1>1, <1>2, BackfillLocals, ResyncKeeps
<1>3. CASE PageMessageGone(p)
  BY <1>3, LocalKeeps, FinishInv, OthersKeep DEF PageMessageGone, Finish, FeedInv
<1> QED  BY <1>2, <1>3 DEF Backfill

\* A step that touches no job.
LEMMA JobsStay ==
  ASSUME SyncTypeOK, SyncTypeOK', FeedInv, Grows, MailboxInv', TablesInv', job' = job
  PROVE  FeedInv'
<1>1. ASSUME NEW p \in Job PROVE JobInv(job[p])'
  <2>1. PICK r \in JobRecord : r = job[p]
    BY DEF SyncTypeOK
  <2>2. JobInv(r)'
    BY <2>1, GrowsJob DEF FeedInv
  <2> QED  BY <2>1, <2>2 DEF JobInv, Holds
<1> QED  BY <1>1 DEF FeedInv

LEMMA OwnerFeed ==
  ASSUME SyncTypeOK, SyncTypeOK', FeedInv, NEW m \in Message, OwnerChanges(m),
         UNCHANGED <<tableVars, job>>
  PROVE  FeedInv'
<1>1. Grows /\ MailboxInv'
  BY OwnerKeeps
<1>2. UNCHANGED <<watermark, base, applied, job>>
  BY DEF tableVars
<1>3. \A n \in Message : applied'[n] <= historyId'
  <2>1. \A n \in Message : applied[n] \in Nat /\ applied[n] <= historyId
    BY DEF FeedInv, TablesInv, SyncTypeOK, TablesTypeOK
  <2>2. historyId \in Nat /\ historyId' \in Nat /\ historyId <= historyId'
    BY <1>1 DEF Grows, SyncTypeOK, MailboxTypeOK, historyId
  <2> QED  BY <1>2, <2>1, <2>2
<1>4. TablesInv'
  BY <1>1, <1>2, <1>3, GrowsTables DEF FeedInv
<1> QED  BY <1>1, <1>2, <1>4, JobsStay

LEMMA NextFeed == SyncTypeOK /\ SyncTypeOK' /\ FeedInv /\ [Next]_vars => FeedInv'
<1> SUFFICES ASSUME SyncTypeOK, SyncTypeOK', FeedInv, [Next]_vars PROVE FeedInv'
  OBVIOUS
<1>1. CASE MailboxChanges
  BY <1>1, OwnerFeed DEF MailboxChanges
<1>2. CASE HistoryExpires
  <2>1. UNCHANGED <<log, box, rows, watermark, applied, base, job>>
    BY <1>2 DEF HistoryExpires, DropHistory, tableVars
  <2>2. PICK id \in oldest + 1 .. historyId : oldest' = id
    BY <1>2 DEF HistoryExpires, DropHistory
  <2>3. Grows
    BY <2>1, <2>2 DEF Grows, historyId, SyncTypeOK, MailboxTypeOK, TablesTypeOK
  <2>4. MailboxInv' /\ TablesInv'
    BY <2>1, <2>2 DEF FeedInv, MailboxInv, TablesInv, NoChangeSkipped, AppliedUpTo, Stored, historyId
  <2> QED  BY <2>1, <2>3, <2>4, JobsStay
<1>3. CASE PushLost \/ IgnorePush \/ UNCHANGED vars
  <2>1. UNCHANGED <<mailboxVars, tableVars>> /\ job' = job
    BY <1>3 DEF PushLost, IgnorePush, vars
  <2> QED  BY <2>1, LocalKeeps, JobsStay
<1>4. ASSUME NEW p \in Job, Advance(p)
      PROVE  FeedInv'
  BY <1>4, AdvanceKeeps, FinishInv, OthersKeep DEF Advance, Finish, FeedInv
<1>5. ASSUME NEW p \in Job, HistoryGone(p)
      PROVE  FeedInv'
  <2>1. Grows /\ MailboxInv' /\ TablesInv'
    BY <1>5, LocalKeeps DEF HistoryGone
  <2>2. job[p] \in JobRecord /\ JobInv(job[p])
    BY DEF SyncTypeOK, FeedInv
  <2>3. /\ job'[p].pc = "profile" /\ job'[p].task = "resync" /\ job'[p].latest = job[p].latest
        /\ job'[p].fetched = job[p].fetched /\ \A q \in Job \ {p} : job'[q] = job[q]
    BY <1>5, <2>2 DEF HistoryGone, SyncTypeOK, JobRecord
  <2>4. /\ oldest' = oldest /\ historyId' = historyId
        /\ oldest > 0 /\ job[p].latest <= historyId
        /\ \A m \in Message : job[p].fetched[m] # NoRow => job[p].fetched[m].cursor <= historyId
    BY <1>5, <2>2 DEF HistoryGone, Expired, mailboxVars, historyId, SyncTypeOK, MailboxTypeOK, JobRecord,
       JobInv
  <2> QED  BY <2>1, <2>3, <2>4, ResyncKeeps
<1>6. ASSUME NEW p \in Job, TakeProfile(p)
      PROVE  FeedInv'
  <2>1. Grows /\ MailboxInv' /\ TablesInv'
    BY <1>6, LocalKeeps DEF TakeProfile
  <2>2. job[p] \in JobRecord /\ JobInv(job[p]) /\ job[p].task = "resync" /\ oldest > 0
    BY <1>6 DEF SyncTypeOK, FeedInv, TakeProfile, JobInv
  <2>3. /\ job'[p].pc = "inbox" /\ job'[p].task = "resync" /\ job'[p].latest = historyId
        /\ job'[p].fetched = job[p].fetched /\ \A q \in Job \ {p} : job'[q] = job[q]
    BY <1>6, <2>2 DEF TakeProfile, SyncTypeOK, JobRecord
  <2>4. /\ oldest' = oldest /\ historyId' = historyId /\ historyId \in Nat
        /\ \A m \in Message : job[p].fetched[m] # NoRow => job[p].fetched[m].cursor <= historyId
    BY <1>6, <2>2 DEF TakeProfile, mailboxVars, historyId, SyncTypeOK, MailboxTypeOK, JobInv
  <2> QED  BY <2>1, <2>2, <2>3, <2>4, ResyncKeeps
<1>7. ASSUME NEW p \in Job, Fail(p)
      PROVE  FeedInv'
  BY <1>7, LocalKeeps, FinishInv, OthersKeep DEF Fail, Finish, FeedInv
<1> QED
  BY <1>1, <1>2, <1>3, <1>4, <1>5, <1>6, <1>7, StartKeeps, ListKeeps, FetchKeeps, StoreKeeps,
     DeleteRemovedKeeps, BackfillKeeps DEF Next, SyncStep

\* The inductive invariant holds in every reachable state.
THEOREM FeedInvariant == Spec => []FeedInv
BY InitFeed, NextFeed, InitType, NextType, PTL DEF Spec

\* However many jobs overlap and wherever they fail, the watermark passes over
\* no change that was not stored, except those a full resync jumped over.
THEOREM NothingSkipped == Spec => []NoChangeSkipped
<1>1. FeedInv => NoChangeSkipped
  BY DEF FeedInv, TablesInv
<1> QED  BY <1>1, FeedInvariant, PTL

-----------------------------------------------------------------------------
(* The watermark only moves forward *)

LEMMA OnlyAdvance ==
  ASSUME [Next]_vars, watermark' # watermark
  PROVE  \E p \in Job : Advance(p)
BY DEF Next, SyncStep, MailboxChanges, HistoryExpires, PushLost, IgnorePush, StartSync,
   ListHistory, FetchChanged, StoreChanged, DeleteRemoved, HistoryGone, TakeProfile, Backfill,
     ListInbox, FetchPageMessage, PageMessageGone, StorePage, Fail, tableVars, vars

LEMMA WatermarkStep ==
  ASSUME SyncTypeOK, [Next]_vars, watermark' # watermark
  PROVE  watermark # NoHistoryId => watermark' > watermark
<1>1. PICK p \in Job : Advance(p)
  BY OnlyAdvance
<1>2. watermark # NoHistoryId => watermark < job[p].latest /\ watermark' = job[p].latest
  BY <1>1 DEF Advance, AdvanceHistoryId
<1>3. job[p].latest \in Nat /\ (watermark # NoHistoryId => watermark \in Nat)
  BY DEF SyncTypeOK, TablesTypeOK, JobRecord
<1> QED  BY <1>2, <1>3

\* Only a user with a watermark has jobs, and a watermark is never unset.
RunsWithMark == \A p \in Job : job[p].pc # "idle" => watermark # NoHistoryId

LEMMA InitRuns == Init => RunsWithMark
BY DEF Init, JobsInit, Idle, RunsWithMark

\* A step that leaves the watermark alone and wakes no job.
LEMMA QuietRuns ==
  ASSUME SyncTypeOK, RunsWithMark, UNCHANGED watermark,
         \A q \in Job : job'[q].pc # "idle" => job[q].pc # "idle"
  PROVE  RunsWithMark'
BY DEF RunsWithMark

\* Every step of a job but its first wakes no job.
LEMMA StepWakesNone ==
  ASSUME SyncTypeOK, NEW p \in Job, SyncStep(p) \/ Fail(p)
  PROVE  \A q \in Job : job'[q].pc # "idle" => job[q].pc # "idle"
<1>1. ASSUME NEW q \in Job, q # p
      PROVE  job'[q] = job[q]
  BY <1>1 DEF SyncTypeOK, SyncStep, ListHistory, FetchChanged, StoreChanged, DeleteRemoved, HistoryGone,
     TakeProfile, Backfill, ListInbox, FetchPageMessage, PageMessageGone, StorePage, Advance, Fail,
     Finish
<1>2. job[p].pc # "idle"
  BY DEF SyncStep, ListHistory, FetchChanged, StoreChanged, DeleteRemoved, HistoryGone,
     TakeProfile, Backfill, ListInbox, FetchPageMessage, PageMessageGone, StorePage, Advance, Fail
<1> QED  BY <1>1, <1>2

LEMMA NextRuns == SyncTypeOK /\ RunsWithMark /\ [Next]_vars => RunsWithMark'
<1> SUFFICES ASSUME SyncTypeOK, RunsWithMark, [Next]_vars PROVE RunsWithMark'
  OBVIOUS
<1>1. CASE MailboxChanges \/ HistoryExpires \/ PushLost \/ IgnorePush \/ UNCHANGED vars
  <2>1. UNCHANGED <<watermark, job>>
    BY <1>1 DEF MailboxChanges, HistoryExpires, PushLost, IgnorePush, tableVars, vars
  <2> QED  BY <2>1 DEF RunsWithMark
<1>2. ASSUME NEW p \in Job, StartSync(p)
      PROVE  RunsWithMark'
  BY <1>2 DEF StartSync, tableVars, RunsWithMark
<1>3. ASSUME NEW p \in Job, Advance(p)
      PROVE  RunsWithMark'
  <2>1. job[p].latest \in Nat /\ watermark # NoHistoryId
    BY <1>3 DEF SyncTypeOK, JobRecord, RunsWithMark, Advance
  <2> QED  BY <1>3, <2>1, NoHistoryIdAssumption DEF Advance, AdvanceHistoryId, RunsWithMark
<1>4. ASSUME NEW p \in Job, SyncStep(p) \/ Fail(p), ~Advance(p)
      PROVE  RunsWithMark'
  <2>1. UNCHANGED watermark
    BY <1>4 DEF SyncStep, ListHistory, FetchChanged, StoreChanged, DeleteRemoved, HistoryGone,
       TakeProfile, Backfill, ListInbox, FetchPageMessage, PageMessageGone, StorePage, Fail, tableVars
  <2> QED  BY <1>4, <2>1, StepWakesNone, QuietRuns
<1> QED  BY <1>1, <1>2, <1>3, <1>4 DEF Next

\* Two jobs that end in the opposite order of their reads cannot move the
\* watermark back, and no job gives a watermark to a user who has none.
THEOREM MovesForward == Spec => WatermarkForward
<1>1. SyncTypeOK /\ RunsWithMark /\ [Next]_vars
        => [watermark' # watermark => watermark # NoHistoryId /\ watermark' > watermark]_watermark
  <2> SUFFICES ASSUME SyncTypeOK, RunsWithMark, [Next]_vars, watermark' # watermark
               PROVE  watermark # NoHistoryId /\ watermark' > watermark
    OBVIOUS
  <2>1. PICK p \in Job : Advance(p)
    BY OnlyAdvance
  <2>2. watermark # NoHistoryId
    BY <2>1 DEF Advance, RunsWithMark
  <2> QED  BY <2>2, WatermarkStep
<1> QED  BY <1>1, InitType, NextType, InitRuns, NextRuns, PTL DEF Spec, WatermarkForward

-----------------------------------------------------------------------------
(* The sync implements the watermarked feed *)

LEMMA InitRefines == Init => Feed!Init
BY DEF Init, MailboxInit, TablesInit, Feed!Init

LEMMA PublishRefines ==
  ASSUME MailboxChanges
  PROVE  Feed!Publish
<1>1. PICK m \in Message : OwnerChanges(m)
  BY DEF MailboxChanges
<1>2. PICK type \in {"added", "labelsChanged", "deleted"} : Recorded(type, m)
  BY <1>1 DEF OwnerChanges, Arrive, Relabel, Purge
<1> QED  BY <1>2 DEF Recorded, MailboxChanges, tableVars, Feed!Publish

\* Both statements that store states of messages only raise `applied`.
LEMMA StoreRefines ==
  ASSUME SyncTypeOK', Grows, TablesInv', UNCHANGED <<mailboxVars, watermark, base>>
  PROVE  Feed!Store
<1>1. \A m \in Message : /\ applied'[m] \in Nat /\ applied[m] <= applied'[m]
                         /\ applied'[m] <= Len(log)
  BY DEF Grows, TablesInv, SyncTypeOK, TablesTypeOK, historyId, mailboxVars
<1>2. applied' \in [Message -> 0..Len(log)]
  <2>1. Len(log) \in Nat
    BY DEF SyncTypeOK, MailboxTypeOK, mailboxVars
  <2> QED  BY <1>1, <2>1 DEF SyncTypeOK, TablesTypeOK
<1>3. \A m \in Message : applied'[m] >= applied[m]
  BY <1>1 DEF Grows
<1> QED  BY <1>2, <1>3 DEF Feed!Store, mailboxVars

LEMMA AdvanceRefines ==
  ASSUME SyncTypeOK, FeedInv, RunsWithMark, NEW p \in Job, Advance(p)
  PROVE  [Feed!Next]_(Feed!feedVars)
<1>1. UNCHANGED <<log, oldest, applied>>
  BY DEF Advance, mailboxVars
<1>2. CASE watermark' = watermark
  BY <1>1, <1>2 DEF Advance, Feed!feedVars
<1>3. CASE watermark' # watermark
  <2>1. /\ watermark # NoHistoryId /\ watermark < job[p].latest /\ watermark' = job[p].latest
        /\ watermark \in Nat /\ job[p].latest \in Nat
    BY <1>3 DEF Advance, AdvanceHistoryId, RunsWithMark, SyncTypeOK, TablesTypeOK, JobRecord
  <2>2. Feed!MoveMark(job[p].latest)
    BY <1>1, <2>1 DEF Feed!MoveMark
  <2>3. job[p].latest \in 1..Len(log)
    BY <2>1 DEF FeedInv, JobInv, historyId, SyncTypeOK, MailboxTypeOK
  <2>4. CASE job[p].task = "resync"
    <3>1. oldest > 0 /\ base' = job[p].latest
      BY <1>3, <2>4 DEF FeedInv, JobInv, Advance
    <3> QED  BY <2>2, <2>3, <3>1 DEF Feed!Jump, Feed!Next
  <2>5. CASE job[p].task # "resync"
    <3>1. \A i \in 1..job[p].latest : i <= base \/ applied[log[i].messageId] >= i
      BY <2>5 DEF FeedInv, JobInv, Advance, AppliedUpTo, Stored
    <3>2. base' = base
      BY <2>5 DEF Advance
    <3> QED  BY <2>2, <2>3, <3>1, <3>2 DEF Feed!Advance, Feed!Next
  <2> QED  BY <2>4, <2>5
<1> QED  BY <1>2, <1>3

LEMMA NextRefines ==
  ASSUME SyncTypeOK, SyncTypeOK', FeedInv, RunsWithMark, [Next]_vars
  PROVE  [Feed!Next]_(Feed!feedVars)
<1>1. CASE MailboxChanges
  BY <1>1, PublishRefines DEF Feed!Next
<1>2. CASE HistoryExpires
  BY <1>2 DEF HistoryExpires, DropHistory, tableVars, historyId, Feed!Next, Feed!Forget
<1>3. ASSUME UNCHANGED <<mailboxVars, tableVars>>
      PROVE  [Feed!Next]_(Feed!feedVars)
  BY <1>3 DEF mailboxVars, tableVars, Feed!feedVars
<1>4. CASE PushLost \/ IgnorePush \/ UNCHANGED vars
  BY <1>3, <1>4 DEF PushLost, IgnorePush, vars
<1>5. ASSUME NEW p \in Job,
             \/ StartSync(p) \/ ListHistory(p) \/ FetchChanged(p) \/ HistoryGone(p)
             \/ TakeProfile(p) \/ ListInbox(p) \/ FetchPageMessage(p) \/ PageMessageGone(p)
             \/ Fail(p)
      PROVE  [Feed!Next]_(Feed!feedVars)
  <2>1. UNCHANGED <<mailboxVars, tableVars>>
    BY <1>5 DEF StartSync, ListHistory, FetchChanged, HistoryGone, TakeProfile, ListInbox,
       FetchPageMessage, PageMessageGone, Fail
  <2> QED  BY <1>3, <2>1
<1>6. ASSUME NEW p \in Job, StoreChanged(p)
      PROVE  Feed!Next
  <2>1. JobInv(job[p]) /\ job[p].fetched \in [Message -> Row \cup {NoRow}]
    BY DEF FeedInv, SyncTypeOK, JobRecord
  <2>2. Grows /\ TablesInv'
    BY <1>6, <2>1, UpsertKeeps DEF StoreChanged, JobInv
  <2> QED  BY <1>6, <2>2, StoreRefines DEF StoreChanged, Feed!Next
<1>7. ASSUME NEW p \in Job, DeleteRemoved(p)
      PROVE  Feed!Next
  <2>1. Grows /\ TablesInv'
    BY <1>7, DeleteKeeps DEF DeleteRemoved, SyncTypeOK, JobRecord
  <2> QED  BY <1>7, <2>1, StoreRefines DEF DeleteRemoved, Feed!Next
<1>8. ASSUME NEW p \in Job, StorePage(p, "advance")
      PROVE  Feed!Next
  <2>1. JobInv(job[p]) /\ job[p].fetched \in [Message -> Row \cup {NoRow}]
    BY DEF FeedInv, SyncTypeOK, JobRecord
  <2>2. Grows /\ TablesInv'
    BY <1>8, <2>1, UpsertKeeps DEF StorePage, JobInv
  <2> QED  BY <1>8, <2>2, StoreRefines DEF StorePage, Feed!Next
<1>9. ASSUME NEW p \in Job, Advance(p)
      PROVE  [Feed!Next]_(Feed!feedVars)
  BY <1>9, AdvanceRefines
<1> QED
  BY <1>1, <1>2, <1>4, <1>5, <1>6, <1>7, <1>8, <1>9 DEF Next, SyncStep, Backfill

\* Every behaviour of the sync, with overlapping, failing and resyncing jobs,
\* is one of the watermarked feed.
THEOREM Implements == Spec => ImplementsFeed
BY InitRefines, NextRefines, InitType, NextType, InitFeed, NextFeed, InitRuns, NextRuns, PTL
   DEF Spec, ImplementsFeed, Feed!Spec

-----------------------------------------------------------------------------
(* Invocations that run in turn leave rows that follow the account *)

\* What every step makes of the account: records are only added, each is of a message
\* that changes with it, and an id that was used once does not come back.
MovesOn ==
  /\ historyId <= historyId'
  /\ \A m \in Message, i \in Nat :
       i <= historyId /\ LastChange(m, i)' => LastChange(m, i) /\ box'[m] = box[m]
  /\ \A m \in Message : box'[m] = box[m] \/ box'[m] = NoRow \/ box'[m].cursor > historyId
  /\ \A m \in Message : Known(m) => Known(m)' /\ (box[m] = NoRow => box'[m] = NoRow)

LEMMA StayMovesOn ==
  ASSUME SyncTypeOK, UNCHANGED <<log, box>>
  PROVE  MovesOn
<1>1. historyId' = historyId /\ historyId \in Nat
  BY DEF historyId, SyncTypeOK, MailboxTypeOK
<1>2. \A m \in Message, i \in Nat : LastChange(m, i)' => LastChange(m, i)
  BY <1>1 DEF LastChange
<1>3. \A m \in Message : Known(m) => Known(m)'
  BY <1>1 DEF Known
<1> QED  BY <1>1, <1>2, <1>3 DEF MovesOn

LEMMA ChangeMovesOn ==
  ASSUME SyncTypeOK, SyncTypeOK', FeedInv, NEW m \in Message, OwnerChanges(m), UNCHANGED tableVars
  PROVE  MovesOn
<1>1. Grows
  BY OwnerKeeps
<1>2. PICK type \in {"added", "labelsChanged", "deleted"} : Recorded(type, m)
  BY DEF OwnerChanges, Arrive, Relabel, Purge
<1>3. /\ historyId \in Nat /\ historyId' = historyId + 1
      /\ log'[historyId + 1] = [type |-> type, messageId |-> m]
      /\ \A i \in 1..historyId : log'[i] = log[i]
  BY <1>2 DEF Recorded, SyncTypeOK, MailboxTypeOK, historyId
<1>4. box \in [Message -> Row \cup {NoRow}]
  BY DEF SyncTypeOK, MailboxTypeOK
<1>5. /\ \A n \in Message \ {m} : box'[n] = box[n]
      /\ box'[m] = NoRow \/ box'[m].cursor = historyId + 1
  <2>1. ASSUME NEW labels \in SUBSET Label, Arrive(m, labels) \/ Relabel(m, labels)
        PROVE  box' = [box EXCEPT ![m] = [labels |-> labels, cursor |-> historyId + 1]]
    BY <2>1 DEF Arrive, Relabel
  <2>2. ASSUME NEW labels \in SUBSET Label,
               box' = [box EXCEPT ![m] = [labels |-> labels, cursor |-> historyId + 1]]
        PROVE  box'[m].cursor = historyId + 1 /\ \A n \in Message \ {m} : box'[n] = box[n]
    BY <1>4, <2>2
  <2>3. CASE Purge(m)
    BY <1>4, <2>3 DEF Purge
  <2> QED  BY <2>1, <2>2, <2>3 DEF OwnerChanges
<1>6. ASSUME NEW n \in Message, NEW i \in Nat, i <= historyId, LastChange(n, i)'
      PROVE  LastChange(n, i) /\ box'[n] = box[n]
  <2>1. \A j \in i + 1 .. historyId + 1 : log'[j].messageId # n
    BY <1>3, <1>6 DEF LastChange
  <2>2. n # m
    BY <1>3, <1>6, <2>1
  <2> QED  BY <1>3, <1>5, <2>1, <2>2 DEF LastChange
<1>7. ASSUME NEW n \in Message, Known(n)
      PROVE  Known(n)' /\ (box[n] = NoRow => box'[n] = NoRow)
  <2>1. PICK i \in 1..historyId : log[i].messageId = n
    BY <1>7 DEF Known
  <2>2. i \in 1..historyId' /\ log'[i].messageId = n
    BY <1>3, <2>1
  <2> QED  BY <1>1, <2>1, <2>2 DEF Known, Grows
<1> QED  BY <1>3, <1>5, <1>6, <1>7 DEF MovesOn

\* A step that stores nothing keeps TurnInv, whatever it makes of the account, if each
\* job holds what it held or what the account has now.
LEMMA TurnKeeps ==
  ASSUME SyncTypeOK, SyncTypeOK', FeedInv, TurnInv, NoteOverlap, MovesOn, UNCHANGED <<rows, applied>>,
         \A p \in Job : \A m \in Message : job'[p].fetched[m] \in {NoRow, job[p].fetched[m], box'[m]},
         \A p \in Job : \A m \in job'[p].remove : Known(m) /\ box[m] = NoRow,
         \A p \in Job : job'[p].pc = "fetch" => \A m \in job'[p].todo : Known(m)
  PROVE  TurnInv'
<1>1. historyId \in Nat /\ historyId' \in Nat /\ historyId <= historyId'
  BY DEF historyId, SyncTypeOK, MailboxTypeOK, MovesOn
<1>2. \A m \in Message : applied[m] \in Nat /\ applied[m] <= historyId /\ applied'[m] = applied[m]
  BY DEF FeedInv, TablesInv, SyncTypeOK, TablesTypeOK
<1>3. ASSUME NEW m \in Message, box'[m] # NoRow
      PROVE  /\ applied[m] <= box'[m].cursor
             /\ box[m] # NoRow => box[m].cursor <= box'[m].cursor
             /\ box[m] = NoRow => box'[m].cursor > historyId
             /\ box'[m].cursor \in Nat
  <2>1. box'[m].cursor \in Nat /\ (box[m] # NoRow => box[m].cursor \in Nat)
    BY <1>3 DEF SyncTypeOK, MailboxTypeOK, Row
  <2>2. box[m] # NoRow => box[m].cursor <= historyId /\ applied[m] <= box[m].cursor
    BY DEF FeedInv, MailboxInv, TurnInv, CopyInv
  <2>3. box'[m] = box[m] \/ box'[m].cursor > historyId
    BY <1>3 DEF MovesOn
  <2> QED  BY <1>1, <1>2, <1>3, <2>1, <2>2, <2>3
<1>4. ASSUME NEW p \in Job, NEW m \in Message, job'[p].fetched[m] # NoRow
      PROVE  /\ box'[m] # NoRow => job'[p].fetched[m].cursor <= box'[m].cursor
             /\ LastChange(m, job[p].fetched[m].cursor)' => job'[p].fetched[m] = box'[m]
  <2>1. CASE job'[p].fetched[m] = box'[m]
    BY <1>3, <1>4, <2>1
  <2>2. CASE job'[p].fetched[m] = job[p].fetched[m]
    <3>1. PICK c \in Nat : c = job[p].fetched[m].cursor
      BY <1>4, <2>2 DEF SyncTypeOK, JobRecord, Row
    <3>2. c <= historyId
      BY <1>4, <2>2, <3>1 DEF FeedInv, JobInv
    <3>3. /\ box[m] # NoRow => c <= box[m].cursor
          /\ LastChange(m, c) => job[p].fetched[m] = box[m]
      BY <1>4, <2>2, <3>1 DEF TurnInv, CopyInv
    <3>4. LastChange(m, c)' => LastChange(m, c) /\ box'[m] = box[m]
      BY <3>1, <3>2 DEF MovesOn
    <3>5. box'[m] # NoRow => c <= box'[m].cursor
      <4>1. box[m] # NoRow => box[m].cursor \in Nat
        BY DEF SyncTypeOK, MailboxTypeOK, Row
      <4> QED  BY <1>1, <1>3, <3>2, <3>3, <4>1
    <3>6. LastChange(m, job[p].fetched[m].cursor)' => LastChange(m, c)'
      BY <2>2, <3>1 DEF LastChange
    <3> QED  BY <2>2, <3>1, <3>3, <3>4, <3>5, <3>6
  <2> QED  BY <1>4, <2>1, <2>2
<1>5. CopyInv'
  BY <1>2, <1>3, <1>4 DEF CopyInv
<1>6. RemoveInv'
  <2>1. \A p \in Job : \A m \in job'[p].remove : m \in Message /\ Known(m)' /\ box'[m] = NoRow
    BY DEF SyncTypeOK, JobRecord, MovesOn
  <2>2. \A p \in Job : job'[p].pc = "fetch" => \A m \in job'[p].todo : m \in Message /\ Known(m)'
    BY DEF SyncTypeOK, JobRecord, MovesOn
  <2> QED  BY <2>1, <2>2 DEF RemoveInv
<1>7. ASSUME ~overlapped'
      PROVE  ~Overlap' /\ NewestStored' /\ \A p \in Job : HoldsNewest(job[p])'
  <2>1. ~Overlap' /\ NewestStored /\ \A p \in Job : HoldsNewest(job[p])
    BY <1>7 DEF NoteOverlap, TurnInv
  <2>2. NewestStored'
    <3>1. ASSUME NEW m \in Message
          PROVE  /\ LastChange(m, applied[m])' => rows'[m] = box'[m]
                 /\ rows'[m] # NoRow => rows'[m].cursor <= applied'[m]
      <4>1. PICK a \in Nat : a = applied[m]
        BY <1>2
      <4>2. LastChange(m, a)' => LastChange(m, a) /\ box'[m] = box[m]
        BY <1>2, <4>1 DEF MovesOn
      <4>3. LastChange(m, applied[m])' => LastChange(m, a)'
        BY <1>2, <4>1 DEF LastChange
      <4> QED  BY <1>2, <2>1, <4>1, <4>2, <4>3 DEF NewestStored
    <3> QED  BY <3>1 DEF NewestStored
  <2>3. ASSUME NEW p \in Job, NEW m \in Message, job'[p].fetched[m] # NoRow
        PROVE  applied'[m] <= job'[p].fetched[m].cursor
    BY <1>2, <1>3, <2>1, <2>3 DEF HoldsNewest
  <2> QED  BY <2>1, <2>2, <2>3 DEF HoldsNewest
<1> QED  BY <1>5, <1>6, <1>7 DEF TurnInv

\* Nothing is said of the account by a step that leaves it alone.
LEMMA StillLast ==
  ASSUME UNCHANGED log, NEW m \in Message, NEW i \in Nat
  PROVE  (LastChange(m, i)' <=> LastChange(m, i)) /\ (Known(m)' <=> Known(m))
BY DEF LastChange, Known, historyId

\* In turn, the others do not run.
LEMMA OthersIdle ==
  ASSUME TurnInv, NoteOverlap, ~overlapped', NEW p \in Job, job[p] # Idle
  PROVE  /\ ~overlapped /\ ~Overlap'
         /\ NewestStored /\ \A q \in Job : HoldsNewest(job[q])
         /\ \A q \in Job \ {p} : job[q] = Idle
BY DEF TurnInv, NoteOverlap, Overlap

\* A job that stores what it holds, with the other jobs at rest, stores the newest.
LEMMA TurnStores ==
  ASSUME SyncTypeOK, SyncTypeOK', FeedInv, TurnInv, NoteOverlap, NEW p \in Job, job[p] # Idle,
         UNCHANGED mailboxVars, UpsertMessages(job[p].fetched),
         \A q \in Job \ {p} : job'[q] = job[q],
         job'[p].fetched = NoneFetched, job'[p].remove \subseteq job[p].remove, job'[p].pc # "fetch"
  PROVE  TurnInv'
<1> DEFINE batch == job[p].fetched
<1>1. \A m \in Message : batch[m] # NoRow => batch[m].cursor \in Nat
  BY DEF SyncTypeOK, JobRecord, Row
<1>2. \A m \in Message :
        /\ rows'[m] = IF batch[m] = NoRow THEN rows[m] ELSE batch[m]
        /\ applied'[m] = IF batch[m] # NoRow /\ applied[m] < batch[m].cursor
                           THEN batch[m].cursor ELSE applied[m]
        /\ applied[m] \in Nat
  BY DEF UpsertMessages, SyncTypeOK, TablesTypeOK
<1>3. UNCHANGED <<log, box>>
  BY DEF mailboxVars
<1>4. \A m \in Message : job'[p].fetched[m] = NoRow
  BY DEF NoneFetched
<1>5. CopyInv'
  <2>1. ASSUME NEW m \in Message, box'[m] # NoRow
        PROVE  applied'[m] <= box'[m].cursor
    <3>1. applied[m] <= box[m].cursor /\ (batch[m] # NoRow => batch[m].cursor <= box[m].cursor)
      BY <1>3, <2>1 DEF TurnInv, CopyInv
    <3> QED  BY <1>2, <1>3, <3>1
  <2>2. ASSUME NEW m \in Message, NEW q \in Job, job'[q].fetched[m] # NoRow
        PROVE  /\ box'[m] # NoRow => job'[q].fetched[m].cursor <= box'[m].cursor
               /\ LastChange(m, job[q].fetched[m].cursor)' => job'[q].fetched[m] = box'[m]
    <3>1. job'[q] = job[q]
      BY <1>4, <2>2
    <3>2. PICK c \in Nat : c = job[q].fetched[m].cursor
      BY <2>2, <3>1 DEF SyncTypeOK, JobRecord, Row
    <3>3. LastChange(m, job[q].fetched[m].cursor)' => LastChange(m, c)
      BY <1>3, <3>1, <3>2 DEF LastChange, historyId
    <3> QED  BY <1>3, <2>2, <3>1, <3>2, <3>3 DEF TurnInv, CopyInv
  <2> QED  BY <2>1, <2>2 DEF CopyInv
<1>6. RemoveInv'
  <2>1. ASSUME NEW q \in Job, NEW m \in job'[q].remove
        PROVE  Known(m)' /\ box'[m] = NoRow
    <3>1. m \in job[q].remove
      BY <2>1
    <3>2. Known(m) /\ box[m] = NoRow
      BY <3>1 DEF TurnInv, RemoveInv
    <3> QED  BY <1>3, <3>2 DEF Known, historyId
  <2>2. ASSUME NEW q \in Job, job'[q].pc = "fetch", NEW m \in job'[q].todo
        PROVE  Known(m)'
    <3>1. job'[q] = job[q]
      BY <2>2
    <3>2. Known(m)
      BY <2>2, <3>1 DEF TurnInv, RemoveInv
    <3> QED  BY <1>3, <3>2 DEF Known, historyId
  <2> QED  BY <2>1, <2>2 DEF RemoveInv
<1>7. ASSUME ~overlapped'
      PROVE  ~Overlap' /\ NewestStored' /\ \A q \in Job : HoldsNewest(job[q])'
  <2>1. ~Overlap' /\ NewestStored /\ HoldsNewest(job[p]) /\ \A q \in Job \ {p} : job[q] = Idle
    BY <1>7, OthersIdle
  <2>2. ASSUME NEW m \in Message
        PROVE  /\ LastChange(m, applied[m])' => rows'[m] = box'[m]
               /\ rows'[m] # NoRow => rows'[m].cursor <= applied'[m]
    <3>1. CASE batch[m] = NoRow
      <4>1. LastChange(m, applied[m])' => LastChange(m, applied[m])
        BY <1>2, <1>3, <3>1 DEF LastChange, historyId
      <4> QED  BY <1>2, <1>3, <2>1, <3>1, <4>1 DEF NewestStored
    <3>2. CASE batch[m] # NoRow
      <4>1. applied'[m] = batch[m].cursor /\ rows'[m] = batch[m]
        BY <1>1, <1>2, <2>1, <3>2 DEF HoldsNewest
      <4>2. LastChange(m, applied[m])' => LastChange(m, batch[m].cursor)
        BY <1>3, <4>1 DEF LastChange, historyId
      <4>3. LastChange(m, batch[m].cursor) => batch[m] = box[m]
        BY <3>2 DEF TurnInv, CopyInv
      <4> QED  BY <1>1, <1>3, <3>2, <4>1, <4>2, <4>3
    <3> QED  BY <3>1, <3>2
  <2>3. \A q \in Job : \A m \in Message : job'[q].fetched[m] = NoRow
    BY <1>4, <2>1 DEF Idle, NoneFetched
  <2> QED  BY <2>1, <2>2, <2>3 DEF NewestStored, HoldsNewest
<1> QED  BY <1>5, <1>6, <1>7 DEF TurnInv

\* Removing what is gone stores that it is gone.
LEMMA TurnRemoves ==
  ASSUME SyncTypeOK, SyncTypeOK', FeedInv, TurnInv, NoteOverlap, NEW p \in Job, job[p] # Idle,
         UNCHANGED mailboxVars, DeleteMessages(job[p].remove), job[p].fetched = NoneFetched,
         \A q \in Job \ {p} : job'[q] = job[q],
         job'[p].fetched = NoneFetched, job'[p].remove = {}, job'[p].pc # "fetch"
  PROVE  TurnInv'
<1>1. \A m \in Message :
        /\ rows'[m] = IF m \in job[p].remove THEN NoRow ELSE rows[m]
        /\ applied'[m] = IF m \in job[p].remove THEN historyId ELSE applied[m]
        /\ m \in job[p].remove => box[m] = NoRow
  BY DEF DeleteMessages, TurnInv, RemoveInv, SyncTypeOK, TablesTypeOK
<1>2. UNCHANGED <<log, box>>
  BY DEF mailboxVars
<1>3. \A q \in Job : job'[q].fetched = job[q].fetched
  OBVIOUS
<1>4. CopyInv'
  <2>1. ASSUME NEW m \in Message, box'[m] # NoRow
        PROVE  applied'[m] <= box'[m].cursor
    BY <1>1, <1>2, <2>1 DEF TurnInv, CopyInv
  <2>2. ASSUME NEW m \in Message, NEW q \in Job, job'[q].fetched[m] # NoRow
        PROVE  /\ box'[m] # NoRow => job'[q].fetched[m].cursor <= box'[m].cursor
               /\ LastChange(m, job[q].fetched[m].cursor)' => job'[q].fetched[m] = box'[m]
    <3>1. LastChange(m, job[q].fetched[m].cursor)' => LastChange(m, job[q].fetched[m].cursor)
      BY <1>2, <1>3 DEF LastChange, historyId
    <3> QED  BY <1>2, <1>3, <2>2, <3>1 DEF TurnInv, CopyInv
  <2> QED  BY <2>1, <2>2 DEF CopyInv
<1>5. RemoveInv'
  <2>1. ASSUME NEW q \in Job, NEW m \in job'[q].remove
        PROVE  Known(m)' /\ box'[m] = NoRow
    <3>1. m \in job[q].remove
      BY <2>1
    <3>2. Known(m) /\ box[m] = NoRow
      BY <3>1 DEF TurnInv, RemoveInv
    <3> QED  BY <1>2, <3>2 DEF Known, historyId
  <2>2. ASSUME NEW q \in Job, job'[q].pc = "fetch", NEW m \in job'[q].todo
        PROVE  Known(m)'
    <3>1. job'[q] = job[q]
      BY <2>2
    <3>2. Known(m)
      BY <2>2, <3>1 DEF TurnInv, RemoveInv
    <3> QED  BY <1>2, <3>2 DEF Known, historyId
  <2> QED  BY <2>1, <2>2 DEF RemoveInv
<1>6. ASSUME ~overlapped'
      PROVE  ~Overlap' /\ NewestStored' /\ \A q \in Job : HoldsNewest(job[q])'
  <2>1. ~Overlap' /\ NewestStored /\ \A q \in Job \ {p} : job[q] = Idle
    BY <1>6, OthersIdle
  <2>2. ASSUME NEW m \in Message
        PROVE  /\ LastChange(m, applied[m])' => rows'[m] = box'[m]
               /\ rows'[m] # NoRow => rows'[m].cursor <= applied'[m]
    <3>1. CASE m \in job[p].remove
      BY <1>1, <1>2, <3>1
    <3>2. CASE m \notin job[p].remove
      <4>1. LastChange(m, applied[m])' => LastChange(m, applied[m])
        BY <1>1, <1>2, <3>2 DEF LastChange, historyId
      <4> QED  BY <1>1, <1>2, <2>1, <3>2, <4>1 DEF NewestStored
    <3> QED  BY <3>1, <3>2
  <2>3. \A q \in Job : \A m \in Message : job'[q].fetched[m] = NoRow
    BY <1>3, <2>1 DEF Idle, NoneFetched
  <2> QED  BY <2>1, <2>2, <2>3 DEF NewestStored, HoldsNewest
<1> QED  BY <1>4, <1>5, <1>6 DEF TurnInv

\* A step of one job that only touches its locals.
LEMMA TurnLocal ==
  ASSUME SyncTypeOK, SyncTypeOK', FeedInv, TurnInv, NoteOverlap, NEW p \in Job,
         UNCHANGED <<log, box, rows, applied>>,
         \A q \in Job \ {p} : job'[q] = job[q],
         \A m \in Message : job'[p].fetched[m] \in {NoRow, job[p].fetched[m], box[m]},
         \A m \in job'[p].remove : Known(m) /\ box[m] = NoRow,
         job'[p].pc = "fetch" => \A m \in job'[p].todo : Known(m)
  PROVE  TurnInv'
<1>1. MovesOn
  BY StayMovesOn
<1>2. \A q \in Job : \A m \in Message : job'[q].fetched[m] \in {NoRow, job[q].fetched[m], box'[m]}
  OBVIOUS
<1>3. \A q \in Job : \A m \in job'[q].remove : Known(m) /\ box[m] = NoRow
  <2> SUFFICES ASSUME NEW q \in Job, q # p, NEW m \in job'[q].remove
               PROVE  Known(m) /\ box[m] = NoRow
    OBVIOUS
  <2>1. m \in job[q].remove
    OBVIOUS
  <2> QED  BY <2>1 DEF TurnInv, RemoveInv
<1>4. \A q \in Job : job'[q].pc = "fetch" => \A m \in job'[q].todo : Known(m)
  <2> SUFFICES ASSUME NEW q \in Job, q # p, job'[q].pc = "fetch", NEW m \in job'[q].todo
               PROVE  Known(m)
    OBVIOUS
  <2>1. job[q].pc = "fetch" /\ m \in job[q].todo
    OBVIOUS
  <2> QED  BY <2>1 DEF TurnInv, RemoveInv
<1> QED  BY <1>1, <1>2, <1>3, <1>4, TurnKeeps

\* A job that ends, with whatever it did to the watermark.
LEMMA TurnFinish ==
  ASSUME SyncTypeOK, SyncTypeOK', FeedInv, TurnInv, NoteOverlap, NEW p \in Job,
         UNCHANGED <<log, box, rows, applied>>, job' = [job EXCEPT ![p] = Idle]
  PROVE  TurnInv'
<1>1. \A q \in Job \ {p} : job'[q] = job[q]
  BY DEF SyncTypeOK
<1>2. job'[p] = Idle
  BY DEF SyncTypeOK
<1>3. /\ \A m \in Message : job'[p].fetched[m] = NoRow
      /\ job'[p].remove = {} /\ job'[p].pc # "fetch"
  BY <1>2 DEF Idle, NoneFetched
<1> QED  BY <1>1, <1>3, TurnLocal

\* The records of the history are of messages that were there, and a message with a
\* record of its deletion is gone.
LEMMA PlanKnown ==
  ASSUME SyncTypeOK, FeedInv, NEW from \in Nat, NEW to \in Nat, to <= historyId
  PROVE  /\ \A m \in ToRefetch(from, to) : Known(m)
         /\ \A m \in ToRemove(from, to) : Known(m) /\ box[m] = NoRow
<1>1. from + 1 .. to \subseteq 1..historyId
  BY DEF historyId, SyncTypeOK, MailboxTypeOK
<1>2. \A m \in ToRefetch(from, to) : Known(m)
  BY <1>1 DEF ToRefetch, Known
<1>3. ASSUME NEW m \in ToRemove(from, to)
      PROVE  Known(m) /\ box[m] = NoRow
  <2>1. PICK i \in from + 1 .. to : log[i].messageId = m /\ log[i].type = "deleted"
    BY DEF ToRemove, Deciding
  <2> QED  BY <1>1, <2>1 DEF Known, FeedInv, MailboxInv
<1> QED  BY <1>2, <1>3

LEMMA TurnList ==
  ASSUME SyncTypeOK, SyncTypeOK', FeedInv, TurnInv, NoteOverlap, NEW p \in Job, ListHistory(p)
  PROVE  TurnInv'
<1> DEFINE from == job[p].cursor
           to == PageEnd(job[p].latest)
<1>1. from \in Nat /\ to \in Nat /\ to <= historyId
  BY PageSizeAssumption DEF PageEnd, historyId, SyncTypeOK, MailboxTypeOK, JobRecord
<1> HIDE DEF from, to
<1>2. UNCHANGED <<log, box, rows, applied>> /\ \A q \in Job \ {p} : job'[q] = job[q]
  BY DEF ListHistory, mailboxVars, tableVars, SyncTypeOK
<1>3. /\ \A m \in ToRefetch(from, to) : Known(m)
      /\ \A m \in ToRemove(from, to) : Known(m) /\ box[m] = NoRow
  BY <1>1, PlanKnown
<1>4. CASE to < historyId
  <2>1. job' = [job EXCEPT ![p].latest = to]
    BY <1>4 DEF ListHistory, to
  <2>2. job'[p].fetched = job[p].fetched /\ job'[p].remove = job[p].remove /\ job'[p].pc = "list"
    BY <2>1 DEF SyncTypeOK, JobRecord, ListHistory
  <2>3. \A m \in job'[p].remove : Known(m) /\ box[m] = NoRow
    BY <2>2 DEF TurnInv, RemoveInv
  <2> QED  BY <1>2, <2>2, <2>3, TurnLocal
<1>5. CASE ~(to < historyId)
  <2>1. job' = [job EXCEPT ![p].pc = "fetch", ![p].latest = to, ![p].todo = ToRefetch(from, to),
                           ![p].remove = ToRemove(from, to)]
    BY <1>5 DEF ListHistory, from, to
  <2>2. /\ job'[p].fetched = job[p].fetched /\ job'[p].todo = ToRefetch(from, to)
        /\ job'[p].remove = ToRemove(from, to)
    BY <2>1 DEF SyncTypeOK, JobRecord
  <2> QED  BY <1>2, <1>3, <2>2, TurnLocal
<1> QED  BY <1>4, <1>5

LEMMA TurnFetch ==
  ASSUME SyncTypeOK, SyncTypeOK', FeedInv, TurnInv, NoteOverlap, NEW p \in Job, FetchChanged(p)
  PROVE  TurnInv'
<1>1. UNCHANGED <<log, box, rows, applied>>
  BY DEF FetchChanged, mailboxVars, tableVars
<1>2. PICK m \in job[p].todo :
        job' = IF box[m] = NoRow
                 THEN [job EXCEPT ![p].todo = @ \ {m}, ![p].remove = @ \cup {m}]
                 ELSE [job EXCEPT ![p].todo = @ \ {m}, ![p].fetched[m] = box[m]]
  BY DEF FetchChanged
<1>3. /\ m \in Message /\ job[p].pc = "fetch" /\ \A n \in job[p].todo : Known(n)
      /\ \A n \in job[p].remove : Known(n) /\ box[n] = NoRow
  BY DEF FetchChanged, TurnInv, RemoveInv, SyncTypeOK, JobRecord
<1>4. job'[p].todo = job[p].todo \ {m} /\ \A q \in Job \ {p} : job'[q] = job[q]
  BY <1>2 DEF SyncTypeOK, JobRecord
<1>5. CASE box[m] = NoRow
  <2>1. job'[p].remove = job[p].remove \cup {m} /\ job'[p].fetched = job[p].fetched
    BY <1>2, <1>5 DEF SyncTypeOK, JobRecord
  <2>2. \A n \in job'[p].remove : Known(n) /\ box[n] = NoRow
    BY <1>3, <1>5, <2>1
  <2>3. \A n \in Message : job'[p].fetched[n] \in {NoRow, job[p].fetched[n], box[n]}
    BY <2>1
  <2> QED  BY <1>1, <1>3, <1>4, <2>2, <2>3, TurnLocal
<1>6. CASE box[m] # NoRow
  <2>1. job'[p].remove = job[p].remove /\ job'[p].fetched = [job[p].fetched EXCEPT ![m] = box[m]]
    BY <1>2, <1>6 DEF SyncTypeOK, JobRecord
  <2>2. \A n \in Message : job'[p].fetched[n] \in {NoRow, job[p].fetched[n], box[n]}
    BY <1>3, <2>1 DEF SyncTypeOK, JobRecord
  <2>3. \A n \in job'[p].remove : Known(n) /\ box[n] = NoRow
    BY <1>3, <2>1
  <2> QED  BY <1>1, <1>3, <1>4, <2>2, <2>3, TurnLocal
<1> QED  BY <1>5, <1>6

\* The steps of a backfill, for whoever runs it and goes on with `next`.
LEMMA TurnBackfill ==
  ASSUME SyncTypeOK, SyncTypeOK', FeedInv, TurnInv, NoteOverlap, NEW p \in Job,
         NEW next, next # "fetch",
         ListInbox(p) \/ FetchPageMessage(p) \/ PageMessageGone(p) \/ StorePage(p, next)
  PROVE  TurnInv'
<1>a. \A n \in job[p].remove : Known(n) /\ box[n] = NoRow
  BY DEF TurnInv, RemoveInv
<1>1. CASE ListInbox(p)
  <2>1. PICK page \in SUBSET InboxAfter(job[p].got) :
          job' = [job EXCEPT ![p].pc = "page", ![p].todo = page,
                             ![p].more = (page # InboxAfter(job[p].got))]
    BY <1>1 DEF ListInbox
  <2>2. /\ job'[p].pc = "page" /\ job'[p].fetched = job[p].fetched /\ job'[p].remove = job[p].remove
        /\ \A q \in Job \ {p} : job'[q] = job[q]
    BY <2>1 DEF SyncTypeOK, JobRecord
  <2>3. UNCHANGED <<log, box, rows, applied>>
    BY <1>1 DEF ListInbox, mailboxVars, tableVars
  <2>4. /\ \A n \in Message : job'[p].fetched[n] \in {NoRow, job[p].fetched[n], box[n]}
        /\ \A n \in job'[p].remove : Known(n) /\ box[n] = NoRow
        /\ job'[p].pc # "fetch"
    BY <1>a, <2>2
  <2> QED  BY <2>2, <2>3, <2>4, TurnLocal
<1>2. CASE FetchPageMessage(p)
  <2>1. PICK m \in job[p].todo :
          job' = [job EXCEPT ![p].todo = @ \ {m}, ![p].fetched[m] = box[m]]
    BY <1>2 DEF FetchPageMessage
  <2>2. /\ job'[p].pc = "page" /\ job'[p].fetched = [job[p].fetched EXCEPT ![m] = box[m]]
        /\ job'[p].remove = job[p].remove /\ \A q \in Job \ {p} : job'[q] = job[q]
    BY <1>2, <2>1 DEF FetchPageMessage, SyncTypeOK, JobRecord
  <2>3. UNCHANGED <<log, box, rows, applied>>
    BY <1>2 DEF FetchPageMessage, mailboxVars, tableVars
  <2>4. \A n \in Message : job'[p].fetched[n] \in {NoRow, job[p].fetched[n], box[n]}
    BY <2>2 DEF SyncTypeOK, JobRecord
  <2>5. job'[p].pc # "fetch" /\ \A n \in job'[p].remove : Known(n) /\ box[n] = NoRow
    BY <1>a, <2>2
  <2> QED  BY <2>2, <2>3, <2>4, <2>5, TurnLocal
<1>3. CASE PageMessageGone(p)
  BY <1>3, TurnFinish DEF PageMessageGone, Finish, mailboxVars, tableVars
<1>4. CASE StorePage(p, next)
  <2>1. PICK pc \in {next, "inbox"} :
          job' = [job EXCEPT ![p].pc = pc, ![p].fetched = NoneFetched,
                             ![p].got = job[p].got \cup FetchedBy(p)]
    BY <1>4 DEF StorePage
  <2>2. /\ job'[p].pc = pc /\ job'[p].fetched = NoneFetched /\ job'[p].remove = job[p].remove
        /\ \A q \in Job \ {p} : job'[q] = job[q]
    BY <2>1 DEF SyncTypeOK, JobRecord
  <2>3. job[p].pc = "page" /\ Idle.pc = "idle"
    BY <1>4 DEF StorePage, Idle
  <2>4. job'[p].pc # "fetch"
    BY <2>2
  <2> QED  BY <1>4, <2>2, <2>3, <2>4, TurnStores DEF StorePage
<1> QED  BY <1>1, <1>2, <1>3, <1>4

LEMMA InitTurn == TurnInit => TurnInv
<1> SUFFICES ASSUME TurnInit PROVE TurnInv
  OBVIOUS
<1>1. job = [p \in Job |-> Idle] /\ rows = [m \in Message |-> NoRow] /\ box = [m \in Message |-> NoRow]
  BY DEF TurnInit, Init, JobsInit, TablesInit, MailboxInit
<1>2. \A p \in Job : /\ job[p] = Idle /\ job[p].remove = {} /\ job[p].pc # "fetch"
                     /\ \A m \in Message : job[p].fetched[m] = NoRow
  BY <1>1 DEF Idle, NoneFetched
<1> QED  BY <1>1, <1>2 DEF TurnInv, CopyInv, RemoveInv, Overlap, NewestStored, HoldsNewest

LEMMA TurnStep ==
  ASSUME SyncTypeOK, SyncTypeOK', FeedInv, TurnInv, NoteOverlap, [Next]_vars
  PROVE  TurnInv'
<1>1. ASSUME MovesOn, UNCHANGED <<rows, applied, job>>
      PROVE  TurnInv'
  BY <1>1, TurnKeeps DEF TurnInv, RemoveInv
<1>2. CASE MailboxChanges
  BY <1>1, <1>2, ChangeMovesOn DEF MailboxChanges, tableVars
<1>3. CASE HistoryExpires \/ PushLost \/ IgnorePush \/ UNCHANGED vars
  BY <1>1, <1>3, StayMovesOn
     DEF HistoryExpires, DropHistory, PushLost, IgnorePush, vars, mailboxVars, tableVars
<1>4. ASSUME NEW p \in Job, StartSync(p)
      PROVE  TurnInv'
  <2>1. \A q \in Job \ {p} : job'[q] = job[q]
    BY <1>4 DEF StartSync, SyncTypeOK
  <2>2. job'[p] = [Idle EXCEPT !.pc = "list", !.task = "delta", !.cursor = watermark,
                               !.latest = watermark]
    BY <1>4 DEF StartSync, SyncTypeOK
  <2>3. job'[p].pc = "list" /\ job'[p].remove = {} /\ \A m \in Message : job'[p].fetched[m] = NoRow
    BY <2>2 DEF Idle, NoneFetched
  <2> QED  BY <1>4, <2>1, <2>3, TurnLocal DEF StartSync, mailboxVars, tableVars
<1>5. ASSUME NEW p \in Job, StoreChanged(p)
      PROVE  TurnInv'
  <2>1. /\ job'[p].pc = "delete" /\ job'[p].fetched = NoneFetched /\ job'[p].remove = job[p].remove
        /\ \A q \in Job \ {p} : job'[q] = job[q]
    BY <1>5 DEF StoreChanged, SyncTypeOK, JobRecord
  <2>2. job[p].pc = "fetch" /\ Idle.pc = "idle"
    BY <1>5 DEF StoreChanged, Idle
  <2> QED  BY <1>5, <2>1, <2>2, TurnStores DEF StoreChanged
<1>6. ASSUME NEW p \in Job, DeleteRemoved(p)
      PROVE  TurnInv'
  <2>1. job[p].fetched = NoneFetched
    BY <1>6 DEF DeleteRemoved, FeedInv, JobInv
  <2>2. /\ job'[p].pc = "advance" /\ job'[p].fetched = job[p].fetched /\ job'[p].remove = {}
        /\ \A q \in Job \ {p} : job'[q] = job[q]
    BY <1>6 DEF DeleteRemoved, SyncTypeOK, JobRecord
  <2>3. job[p].pc = "delete" /\ Idle.pc = "idle"
    BY <1>6 DEF DeleteRemoved, Idle
  <2> QED  BY <1>6, <2>1, <2>2, <2>3, TurnRemoves DEF DeleteRemoved
<1>7. ASSUME NEW p \in Job, HistoryGone(p) \/ TakeProfile(p)
      PROVE  TurnInv'
  <2>1. /\ job'[p].pc # "fetch" /\ job'[p].fetched = job[p].fetched /\ job'[p].remove = job[p].remove
        /\ \A q \in Job \ {p} : job'[q] = job[q]
    BY <1>7 DEF HistoryGone, TakeProfile, SyncTypeOK, JobRecord
  <2>2. UNCHANGED <<log, box, rows, applied>>
    BY <1>7 DEF HistoryGone, TakeProfile, mailboxVars, tableVars
  <2>3. \A m \in job'[p].remove : Known(m) /\ box[m] = NoRow
    BY <2>1 DEF TurnInv, RemoveInv
  <2> QED  BY <2>1, <2>2, <2>3, TurnLocal
<1>8. ASSUME NEW p \in Job, Advance(p) \/ Fail(p)
      PROVE  TurnInv'
  BY <1>8, TurnFinish DEF Advance, Fail, Finish, mailboxVars, tableVars
<1> QED
  BY <1>2, <1>3, <1>4, <1>5, <1>6, <1>7, <1>8, TurnList, TurnFetch, TurnBackfill
     DEF Next, SyncStep, Backfill

LEMMA TurnStays ==
  ASSUME TurnInv, UNCHANGED <<vars, overlapped>>
  PROVE  TurnInv'
BY DEF TurnInv, CopyInv, RemoveInv, Overlap, NewestStored, HoldsNewest, Known, LastChange,
   historyId, vars, mailboxVars, tableVars

\* In turn, what is stored as new as the last change is what the account has.
LEMMA TurnRowsCurrent ==
  ASSUME SyncTypeOK, FeedInv, TurnInv
  PROVE  RowsCurrentInTurn
<1> SUFFICES ASSUME ~overlapped, NEW i \in base + 1 .. historyId, Settled(i)
             PROVE  rows[log[i].messageId] = box[log[i].messageId]
  BY DEF RowsCurrentInTurn, RowsCurrent
<1> DEFINE m == log[i].messageId
<1>1. base \in Nat /\ historyId \in Nat /\ i \in 1..historyId
  BY DEF SyncTypeOK, TablesTypeOK, MailboxTypeOK, historyId
<1>2. m \in Message /\ applied[m] \in Nat
  BY <1>1, LogMessage DEF SyncTypeOK, TablesTypeOK
<1>3. applied[m] >= i
  BY <1>1 DEF Settled, FeedInv, TablesInv, NoChangeSkipped, AppliedUpTo, Stored
<1>4. \A j \in i + 1 .. historyId : log[j].messageId # m
  BY DEF Settled, Deciding
<1>5. LastChange(m, applied[m])
  BY <1>1, <1>2, <1>3, <1>4 DEF LastChange
<1> QED  BY <1>2, <1>5 DEF TurnInv, NewestStored

\* Invocations that follow one another, however few of their calls succeed, leave
\* each row behind the watermark as Gmail has it.
THEOREM RowsCurrentTheorem == TurnSpec => []RowsCurrentInTurn
<1>1. TurnInit => SyncTypeOK /\ FeedInv /\ TurnInv
  BY InitType, InitFeed, InitTurn DEF TurnInit
<1>2. SyncTypeOK /\ FeedInv /\ TurnInv /\ [TurnNext]_<<vars, overlapped>>
        => SyncTypeOK' /\ FeedInv' /\ TurnInv'
  <2> SUFFICES ASSUME SyncTypeOK, FeedInv, TurnInv, [TurnNext]_<<vars, overlapped>>
               PROVE  SyncTypeOK' /\ FeedInv' /\ TurnInv'
    OBVIOUS
  <2>1. [Next]_vars /\ (NoteOverlap \/ UNCHANGED <<vars, overlapped>>)
    BY DEF TurnNext
  <2>2. SyncTypeOK' /\ FeedInv'
    BY <2>1, NextType, NextFeed
  <2>3. CASE NoteOverlap
    BY <2>1, <2>2, <2>3, TurnStep
  <2>4. CASE UNCHANGED <<vars, overlapped>>
    BY <2>2, <2>4, TurnStays
  <2> QED  BY <2>1, <2>2, <2>3, <2>4
<1>3. SyncTypeOK /\ FeedInv /\ TurnInv => RowsCurrentInTurn
  BY TurnRowsCurrent
<1> QED  BY <1>1, <1>2, <1>3, PTL DEF TurnSpec

-----------------------------------------------------------------------------
(* In turn, a full resync stores the inbox *)

\* What is stored of the inbox stays stored as the account moves on.
LEMMA InboxMovesOn ==
  ASSUME MovesOn, UNCHANGED rows, NEW id \in Nat, id <= historyId, InboxStored(id)
  PROVE  InboxStored(id)'
<1> SUFFICES ASSUME NEW m \in Message, InInbox(m)', LastChange(m, id)'
             PROVE  rows'[m] = box'[m]
  BY DEF InboxStored
<1>1. LastChange(m, id) /\ box'[m] = box[m]
  BY DEF MovesOn
<1>2. InInbox(m)
  BY <1>1 DEF InInbox
<1> QED  BY <1>1, <1>2 DEF InboxStored

\* A job that waits while the account moves on keeps its backfill.
LEMMA BackfillMovesOn ==
  ASSUME MovesOn, UNCHANGED rows, NEW r \in JobRecord, r.latest <= historyId, BackfillInv(r)
  PROVE  BackfillInv(r)'
<1>1. r.latest \in Nat
  BY DEF JobRecord
<1>2. InboxStored(r.latest) => InboxStored(r.latest)'
  BY <1>1, InboxMovesOn
<1>3. ASSUME r.pc \in {"inbox", "page"}, NEW m \in Message, InInbox(m)', LastChange(m, r.latest)'
      PROVE  Backfills(r, m)'
  <2>1. LastChange(m, r.latest) /\ box'[m] = box[m]
    BY <1>1, <1>3 DEF MovesOn
  <2>2. InInbox(m)
    BY <1>3, <2>1 DEF InInbox
  <2>3. Backfills(r, m)
    BY <1>3, <2>1, <2>2 DEF BackfillInv
  <2> QED  BY <2>1, <2>3 DEF Backfills, Holding
<1> QED  BY <1>2, <1>3 DEF BackfillInv, Holding

\* In turn, storing what a job holds does not replace a row that is current.
LEMMA StoreKeepsCurrent ==
  ASSUME SyncTypeOK, FeedInv, TurnInv, NewestStored, NEW p \in Job, HoldsNewest(job[p]),
         UpsertMessages(job[p].fetched),
         NEW m \in Message, box[m] # NoRow, rows[m] = box[m] \/ job[p].fetched[m] = box[m]
  PROVE  rows'[m] = box[m]
<1> DEFINE copy == job[p].fetched[m]
<1>1. rows'[m] = IF copy = NoRow THEN rows[m] ELSE copy
  BY DEF UpsertMessages
<1>2. CASE copy = NoRow
  BY <1>1, <1>2
<1>3. CASE copy # NoRow /\ rows[m] = box[m]
  <2>1. box[m].cursor \in Nat /\ copy.cursor \in Nat /\ applied[m] \in Nat
    BY <1>3 DEF SyncTypeOK, MailboxTypeOK, TablesTypeOK, JobRecord, Row
  <2>2. box[m].cursor <= applied[m] /\ applied[m] <= copy.cursor
    BY <1>3 DEF NewestStored, HoldsNewest
  <2>3. LastChange(m, copy.cursor)
    <3>1. ASSUME NEW j \in copy.cursor + 1 .. historyId, log[j].messageId = m
          PROVE  FALSE
      <4>1. j \in 1..historyId /\ j > box[m].cursor
        BY <2>1, <2>2
      <4>2. box[m].cursor >= j
        BY <3>1, <4>1 DEF FeedInv, MailboxInv
      <4> QED  BY <2>1, <4>1, <4>2
    <3> QED  BY <3>1 DEF LastChange
  <2>4. copy = box[m]
    BY <1>3, <2>3 DEF TurnInv, CopyInv
  <2> QED  BY <1>1, <1>3, <2>4
<1>4. CASE copy # NoRow /\ copy = box[m]
  BY <1>1, <1>4
<1> QED  BY <1>2, <1>3, <1>4

LEMMA StoreKeepsInbox ==
  ASSUME SyncTypeOK, FeedInv, TurnInv, NewestStored, NEW p \in Job, HoldsNewest(job[p]),
         UpsertMessages(job[p].fetched), UNCHANGED mailboxVars,
         NEW id \in Nat, InboxStored(id)
  PROVE  InboxStored(id)'
<1> SUFFICES ASSUME NEW m \in Message, InInbox(m)', LastChange(m, id)'
             PROVE  rows'[m] = box'[m]
  BY DEF InboxStored
<1>1. box' = box /\ InInbox(m) /\ LastChange(m, id)
  BY DEF mailboxVars, InInbox, LastChange, historyId
<1>2. box[m] # NoRow /\ rows[m] = box[m]
  BY <1>1 DEF InboxStored, InInbox
<1> QED  BY <1>1, <1>2, StoreKeepsCurrent

\* The steps of a backfill.
LEMMA ListCovers ==
  ASSUME SyncTypeOK, SyncTypeOK', NEW p \in Job, BackfillInv(job[p]), ListInbox(p)
  PROVE  BackfillInv(job[p])'
<1> DEFINE r == job[p]
           rest == InboxAfter(r.got)
<1>1. PICK page \in SUBSET rest :
        /\ IsPage(page, rest, BackfillLimit - Cardinality(r.got))
        /\ job' = [job EXCEPT ![p].pc = "page", ![p].todo = page, ![p].more = (page # rest)]
  BY DEF ListInbox
<1>2. /\ job'[p].pc = "page" /\ job'[p].todo = page /\ job'[p].more = (page # rest)
      /\ job'[p].fetched = r.fetched /\ job'[p].got = r.got /\ job'[p].latest = r.latest
  BY <1>1 DEF SyncTypeOK, JobRecord
<1>3. r.pc = "inbox" /\ r.todo = {} /\ r.fetched = NoneFetched
  BY DEF ListInbox, BackfillInv
<1>4. UNCHANGED <<log, box, rows>>
  BY DEF ListInbox, mailboxVars, tableVars
<1>5. ASSUME NEW m \in Message, InInbox(m)', LastChange(m, job[p].latest)'
      PROVE  Backfills(job[p], m)'
  <2>1. InInbox(m) /\ LastChange(m, r.latest)
    BY <1>2, <1>4, <1>5 DEF InInbox, LastChange, historyId
  <2>2. Backfills(r, m)
    BY <1>3, <2>1 DEF BackfillInv
  <2>3. CASE rows[m] = box[m]
    BY <1>4, <2>3 DEF Backfills
  <2>4. CASE r.fetched[m] = box[m]
    BY <1>2, <1>4, <2>4 DEF Backfills
  <2>5. CASE \A g \in r.got : m < g
    <3>1. m \in rest
      BY <2>1, <2>5 DEF InboxAfter
    <3>2. CASE m \in page
      BY <1>2, <3>2 DEF Backfills
    <3>3. CASE m \notin page
      <4>1. \A n \in page : m < n
        BY <1>1, <3>1, <3>3 DEF IsPage
      <4>2. Holding(job'[p]) = {}
        BY <1>2, <1>3 DEF Holding, NoneFetched
      <4>3. job'[p].more /\ \A g \in job'[p].got \cup job'[p].todo \cup Holding(job'[p]) : m < g
        BY <1>2, <2>5, <3>1, <3>3, <4>1, <4>2
      <4> QED  BY <4>3 DEF Backfills, Holding
    <3> QED  BY <3>2, <3>3
  <2> QED  BY <1>3, <2>2, <2>3, <2>4, <2>5 DEF Backfills
<1>6. job'[p].more => job'[p].todo # {}
  BY <1>1, <1>2 DEF IsPage
<1> QED  BY <1>2, <1>5, <1>6 DEF BackfillInv

LEMMA FetchCovers ==
  ASSUME SyncTypeOK, SyncTypeOK', NEW p \in Job, BackfillInv(job[p]), FetchPageMessage(p)
  PROVE  BackfillInv(job[p])'
<1> DEFINE r == job[p]
<1>1. PICK x \in r.todo :
        /\ box[x] # NoRow
        /\ job' = [job EXCEPT ![p].todo = @ \ {x}, ![p].fetched[x] = box[x]]
  BY DEF FetchPageMessage
<1>2. /\ job'[p].pc = r.pc /\ job'[p].todo = r.todo \ {x} /\ job'[p].more = r.more
      /\ job'[p].fetched = [r.fetched EXCEPT ![x] = box[x]]
      /\ job'[p].got = r.got /\ job'[p].latest = r.latest
  BY <1>1 DEF SyncTypeOK, JobRecord
<1>3. x \in Message /\ r.pc = "page" /\ r.fetched \in [Message -> Row \cup {NoRow}]
  BY <1>1 DEF SyncTypeOK, JobRecord, FetchPageMessage
<1>4. UNCHANGED <<log, box, rows>>
  BY DEF FetchPageMessage, mailboxVars, tableVars
<1>5. job'[p].fetched[x] = box[x] /\ \A n \in Message \ {x} : job'[p].fetched[n] = r.fetched[n]
  BY <1>2, <1>3
<1>6. Holding(job'[p]) \subseteq Holding(r) \cup {x} /\ x \in Holding(job'[p])
  BY <1>1, <1>3, <1>5 DEF Holding
<1>7. ASSUME NEW m \in Message, InInbox(m)', LastChange(m, job[p].latest)'
      PROVE  Backfills(job[p], m)'
  <2>1. InInbox(m) /\ LastChange(m, r.latest)
    BY <1>2, <1>4, <1>7 DEF InInbox, LastChange, historyId
  <2>2. Backfills(r, m)
    BY <1>3, <2>1 DEF BackfillInv
  <2>3. CASE m = x
    BY <1>4, <1>5, <2>3 DEF Backfills
  <2>4. CASE m # x /\ (rows[m] = box[m] \/ m \in r.todo \/ r.fetched[m] = box[m])
    BY <1>2, <1>4, <1>5, <2>4 DEF Backfills
  <2>5. CASE r.more /\ \A g \in r.got \cup r.todo \cup Holding(r) : m < g
    <3>1. \A g \in job'[p].got \cup job'[p].todo \cup Holding(job'[p]) : m < g
      BY <1>1, <1>2, <1>6, <2>5
    <3> QED  BY <1>2, <2>5, <3>1 DEF Backfills, Holding
  <2> QED  BY <1>3, <2>2, <2>3, <2>4, <2>5 DEF Backfills
<1>8. job'[p].todo \cup Holding(job'[p]) # {}
  BY <1>6
<1> QED  BY <1>2, <1>3, <1>7, <1>8 DEF BackfillInv, Holding

\* A page that leaves the loop has stored the inbox, if the whole inbox fits the backfill.
LEMMA PageCovers ==
  ASSUME IsFiniteSet(Message), Cardinality(Message) <= BackfillLimit,
         SyncTypeOK, SyncTypeOK', FeedInv, TurnInv, NewestStored,
         NEW p \in Job, HoldsNewest(job[p]), BackfillInv(job[p]),
         NEW next \in {"advance", "signedIn"}, StorePage(p, next)
  PROVE  BackfillInv(job[p])'
<1> DEFINE r == job[p]
           got == r.got \cup FetchedBy(p)
           stop == ~r.more \/ FetchedBy(p) = {} \/ Cardinality(got) >= BackfillLimit
<1>1. r.pc = "page" /\ r.todo = {} /\ UpsertMessages(r.fetched) /\ UNCHANGED <<log, box>>
  BY DEF StorePage, mailboxVars
<1>2. job' = [job EXCEPT ![p].pc = IF stop THEN next ELSE "inbox", ![p].fetched = NoneFetched,
                         ![p].got = got]
  BY DEF StorePage
<1>3. /\ job'[p].pc = IF stop THEN next ELSE "inbox"
      /\ job'[p].fetched = NoneFetched /\ job'[p].got = got
      /\ job'[p].todo = {} /\ job'[p].latest = r.latest /\ job'[p].task = r.task
  BY <1>1, <1>2 DEF SyncTypeOK, JobRecord
<1>4. FetchedBy(p) = Holding(r)
  BY DEF FetchedBy, Holding
<1> HIDE DEF stop, got
<1>5. ASSUME NEW m \in Message, InInbox(m)', LastChange(m, job[p].latest)'
      PROVE  rows'[m] = box'[m] \/ (~stop /\ \A g \in got : m < g)
  <2>1. InInbox(m) /\ LastChange(m, r.latest) /\ box[m] # NoRow
    BY <1>1, <1>3, <1>5 DEF InInbox, LastChange, historyId
  <2>2. Backfills(r, m)
    BY <1>1, <2>1 DEF BackfillInv
  <2>3. CASE rows[m] = box[m] \/ r.fetched[m] = box[m]
    BY <1>1, <2>1, <2>3, StoreKeepsCurrent
  <2>4. CASE r.more /\ \A g \in r.got \cup r.todo \cup Holding(r) : m < g
    <3>1. \A g \in got : m < g
      BY <1>4, <2>4 DEF got
    <3>2. FetchedBy(p) # {}
      BY <1>1, <1>4, <2>4 DEF BackfillInv
    <3>3. ~(Cardinality(got) >= BackfillLimit)
      <4>1. m \in Int
        BY MessageAssumption
      <4>2. got \subseteq Message /\ m \notin got
        BY <3>1, <4>1 DEF got, FetchedBy, SyncTypeOK, JobRecord
      <4>3. /\ IsFiniteSet(got) /\ Cardinality(got) <= Cardinality(Message)
            /\ Cardinality(got) = Cardinality(Message) => got = Message
        BY <4>2, FS_Subset
      <4>4. Cardinality(got) # Cardinality(Message)
        BY <4>2, <4>3
      <4>5. Cardinality(got) \in Nat /\ Cardinality(Message) \in Nat /\ BackfillLimit \in Nat
        BY <4>3, FS_CardinalityType, BackfillLimitAssumption
      <4> QED  BY <4>3, <4>4, <4>5
    <3> QED  BY <2>4, <3>1, <3>2, <3>3 DEF stop
  <2> QED  BY <1>1, <2>2, <2>3, <2>4 DEF Backfills
<1>6. CASE stop
  <2>1. job'[p].pc = next
    BY <1>3, <1>6
  <2>2. InboxStored(job[p].latest)'
    BY <1>5, <1>6 DEF InboxStored
  <2> QED  BY <2>1, <2>2 DEF BackfillInv
<1>7. CASE ~stop
  <2>1. job'[p].pc = "inbox" /\ \A n \in Message : job'[p].fetched[n] = NoRow
    BY <1>3, <1>7 DEF NoneFetched
  <2>2. ASSUME NEW m \in Message, InInbox(m)', LastChange(m, job[p].latest)'
        PROVE  Backfills(job[p], m)'
    <3>1. CASE rows'[m] = box'[m]
      BY <3>1 DEF Backfills
    <3>2. CASE \A g \in got : m < g
      <4>1. \A g \in job'[p].got \cup job'[p].todo \cup Holding(job'[p]) : m < g
        BY <1>3, <2>1, <3>2 DEF Holding
      <4> QED  BY <2>1, <4>1 DEF Backfills, Holding
    <3> QED  BY <1>5, <2>2, <3>1, <3>2
  <2>3. job'[p].todo = {} /\ job'[p].fetched = NoneFetched
    BY <1>3
  <2> QED  BY <2>1, <2>2, <2>3 DEF BackfillInv, NoneFetched
<1> QED  BY <1>6, <1>7


LEMMA InitInbox == TurnInit => InboxInv
<1> SUFFICES ASSUME TurnInit PROVE InboxInv
  OBVIOUS
<1>1. InboxStored(base)
  BY DEF TurnInit, Init, MailboxInit, InboxStored, InInbox
<1>2. \A p \in Job : BackfillInv(job[p])
  BY DEF TurnInit, Init, JobsInit, Idle, BackfillInv
<1> QED  BY <1>1, <1>2 DEF InboxInv, InboxInvOnce

\* A job that moves while the others rest is the only one to look at.
LEMMA OneMoves ==
  ASSUME NEW kept \in BOOLEAN,
         NEW p \in Job, \A q \in Job \ {p} : job[q] = Idle /\ job'[q] = job[q],
         kept => InboxStored(base)', BackfillInv(job[p])'
  PROVE  InboxInvOnce(kept)'
<1>1. ASSUME NEW q \in Job \ {p}
      PROVE  BackfillInv(job[q])'
  <2>1. job'[q] = Idle
    OBVIOUS
  <2>2. job'[q].pc = "idle"
    BY <2>1 DEF Idle
  <2> QED  BY <2>2 DEF BackfillInv
<1> QED  BY <1>1 DEF InboxInvOnce

\* A step of one job that changes neither the account nor the rows.
LEMMA OneReads ==
  ASSUME NEW kept \in BOOLEAN, UNCHANGED <<log, box, rows, base>>, InboxInvOnce(kept), ~overlapped,
         NEW p \in Job, \A q \in Job \ {p} : job[q] = Idle /\ job'[q] = job[q],
         BackfillInv(job[p])'
  PROVE  InboxInvOnce(kept)'
<1>1. kept => InboxStored(base)'
  BY DEF InboxInvOnce, InboxStored, InInbox, LastChange, historyId
<1> QED  BY <1>1, OneMoves

\* Deleting what is gone for good does not touch the inbox.
LEMMA DeleteKeepsInbox ==
  ASSUME TurnInv, NEW p \in Job, DeleteMessages(job[p].remove), UNCHANGED mailboxVars,
         InboxStored(base), UNCHANGED base
  PROVE  InboxStored(base)'
<1> SUFFICES ASSUME NEW m \in Message, InInbox(m)', LastChange(m, base)'
             PROVE  rows'[m] = box'[m]
  BY DEF InboxStored
<1>1. box' = box /\ InInbox(m) /\ LastChange(m, base)
  BY DEF mailboxVars, InInbox, LastChange, historyId
<1>2. m \notin job[p].remove
  BY <1>1 DEF TurnInv, RemoveInv, InInbox
<1> QED  BY <1>1, <1>2 DEF InboxStored, DeleteMessages

\* The watermark of a resync skips only what its backfill has stored.
LEMMA AdvanceKeepsInbox ==
  ASSUME NEW p \in Job, Advance(p), InboxStored(base), BackfillInv(job[p])
  PROVE  InboxStored(base)'
<1>1. UNCHANGED <<log, box, rows>>
  BY DEF Advance, mailboxVars
<1>2. PICK b : b = base'
  OBVIOUS
<1>3. InboxStored(b)
  BY <1>2 DEF Advance, BackfillInv
<1>4. InboxStored(b)'
  BY <1>1, <1>3 DEF InboxStored, InInbox, LastChange, historyId
<1> QED  BY <1>2, <1>4 DEF InboxStored, LastChange

LEMMA BackfillReads ==
  ASSUME SyncTypeOK, NEW p \in Job, ListInbox(p) \/ FetchPageMessage(p)
  PROVE  /\ job[p].pc # "idle" /\ UNCHANGED <<log, box, rows, base>>
         /\ \A q \in Job \ {p} : job'[q] = job[q]
<1>1. CASE ListInbox(p)
  <2>1. PICK page, more :
          job' = [job EXCEPT ![p].pc = "page", ![p].todo = page, ![p].more = more]
    BY <1>1 DEF ListInbox
  <2>2. \A q \in Job \ {p} : job'[q] = job[q]
    BY <2>1 DEF SyncTypeOK
  <2>3. job[p].pc # "idle" /\ UNCHANGED <<log, box, rows, base>>
    BY <1>1 DEF ListInbox, mailboxVars, tableVars
  <2> QED  BY <2>2, <2>3
<1>2. CASE FetchPageMessage(p)
  <2>1. PICK m \in job[p].todo :
          job' = [job EXCEPT ![p].todo = @ \ {m}, ![p].fetched[m] = box[m]]
    BY <1>2 DEF FetchPageMessage
  <2>2. \A q \in Job \ {p} : job'[q] = job[q]
    BY <2>1 DEF SyncTypeOK
  <2>3. job[p].pc # "idle" /\ UNCHANGED <<log, box, rows, base>>
    BY <1>2 DEF FetchPageMessage, mailboxVars, tableVars
  <2> QED  BY <2>2, <2>3
<1> QED  BY <1>1, <1>2

LEMMA BackfillStores ==
  ASSUME SyncTypeOK, NEW p \in Job, NEW next, StorePage(p, next)
  PROVE  /\ job[p].pc = "page" /\ UpsertMessages(job[p].fetched) /\ UNCHANGED <<mailboxVars, base>>
         /\ \A q \in Job \ {p} : job'[q] = job[q]
<1>1. PICK pc, got : job' = [job EXCEPT ![p].pc = pc, ![p].fetched = NoneFetched, ![p].got = got]
  BY DEF StorePage
<1>2. \A q \in Job \ {p} : job'[q] = job[q]
  BY <1>1 DEF SyncTypeOK
<1>3. job[p].pc = "page" /\ UpsertMessages(job[p].fetched) /\ UNCHANGED <<mailboxVars, base>>
  BY DEF StorePage
<1> QED  BY <1>2, <1>3

\* A step of no job.
LEMMA InboxQuiet ==
  ASSUME NEW kept \in BOOLEAN, SyncTypeOK, FeedInv, InboxInvOnce(kept), ~overlapped,
         MovesOn, UNCHANGED <<rows, base, job>>
  PROVE  InboxInvOnce(kept)'
<1>1. PICK b \in Nat : b = base
  BY DEF SyncTypeOK, TablesTypeOK
<1>2. b <= historyId
  BY <1>1, NoHistoryIdAssumption DEF FeedInv, TablesInv, SyncTypeOK, TablesTypeOK, MailboxTypeOK, historyId
<1>3. kept => InboxStored(b)
  BY <1>1 DEF InboxInvOnce
<1>4. kept => InboxStored(b)'
  BY <1>2, <1>3, InboxMovesOn
<1>5. kept => InboxStored(base)'
  BY <1>1, <1>4 DEF InboxStored, LastChange
<1>6. ASSUME NEW p \in Job
      PROVE  BackfillInv(job[p])'
  <2>1. PICK r \in JobRecord : r = job[p]
    BY DEF SyncTypeOK
  <2>2. r.latest <= historyId /\ BackfillInv(r)
    BY <2>1 DEF FeedInv, JobInv, InboxInvOnce
  <2>3. BackfillInv(r)'
    BY <2>2, BackfillMovesOn
  <2>4. job'[p] = r
    BY <2>1
  <2> QED  BY <2>3, <2>4 DEF BackfillInv, InboxStored, Backfills, LastChange, Holding
<1> QED  BY <1>5, <1>6 DEF InboxInvOnce

LEMMA InboxFinish ==
  ASSUME NEW kept \in BOOLEAN, SyncTypeOK, NEW p \in Job, Finish(p), kept => InboxStored(base)',
         \A q \in Job \ {p} : job[q] = Idle
  PROVE  InboxInvOnce(kept)'
<1>1. job'[p] = Idle /\ \A q \in Job \ {p} : job'[q] = job[q]
  BY DEF Finish, SyncTypeOK
<1>2. job'[p].pc = "idle"
  BY <1>1 DEF Idle
<1>3. BackfillInv(job[p])'
  BY <1>2 DEF BackfillInv
<1> QED  BY <1>1, <1>3, OneMoves

\* A step of a backfill, whatever it is run for.
LEMMA InboxBackfill ==
  ASSUME NEW kept \in BOOLEAN, IsFiniteSet(Message), Cardinality(Message) <= BackfillLimit,
         SyncTypeOK, SyncTypeOK', FeedInv, TurnInv, InboxInvOnce(kept), ~overlapped, NewestStored,
         NEW p \in Job, HoldsNewest(job[p]), \A q \in Job \ {p} : job[q] = Idle,
         NEW next \in {"advance", "signedIn"},
         ListInbox(p) \/ FetchPageMessage(p) \/ StorePage(p, next)
  PROVE  InboxInvOnce(kept)'
<1>0. (kept => InboxStored(base)) /\ BackfillInv(job[p])
  BY DEF InboxInvOnce
<1>1. CASE ListInbox(p) \/ FetchPageMessage(p)
  <2>1. /\ UNCHANGED <<log, box, rows, base>>
        /\ \A q \in Job \ {p} : job'[q] = job[q]
    BY <1>1, BackfillReads
  <2>2. BackfillInv(job[p])'
    BY <1>0, <1>1, ListCovers, FetchCovers
  <2> QED  BY <2>1, <2>2, OneReads
<1>2. CASE StorePage(p, next)
  <2>1. /\ UpsertMessages(job[p].fetched) /\ UNCHANGED <<mailboxVars, base>>
        /\ \A q \in Job \ {p} : job'[q] = job[q]
    BY <1>2, BackfillStores
  <2>2. BackfillInv(job[p])'
    BY <1>0, <1>2, PageCovers
  <2>3. PICK b \in Nat : b = base
    BY DEF SyncTypeOK, TablesTypeOK
  <2>4. kept => InboxStored(b)'
    BY <1>0, <2>1, <2>3, StoreKeepsInbox
  <2>5. kept => InboxStored(base)'
    BY <2>1, <2>3, <2>4 DEF InboxStored, LastChange
  <2> QED  BY <2>1, <2>2, <2>5, OneMoves
<1> QED  BY <1>1, <1>2

LEMMA InboxStep ==
  ASSUME NEW kept \in BOOLEAN, IsFiniteSet(Message), Cardinality(Message) <= BackfillLimit,
         SyncTypeOK, SyncTypeOK', FeedInv, TurnInv, InboxInvOnce(kept), NoteOverlap, [Next]_vars
  PROVE  InboxInvOnce(kept)'
<1> SUFFICES ASSUME ~overlapped' PROVE InboxInvOnce(kept)'
  BY DEF InboxInvOnce
<1>0. /\ ~overlapped /\ NewestStored /\ (kept => InboxStored(base))
      /\ \A p \in Job : BackfillInv(job[p]) /\ HoldsNewest(job[p])
  BY DEF NoteOverlap, InboxInvOnce, TurnInv
<1>1. ASSUME MovesOn, UNCHANGED <<rows, base, job>>
      PROVE  InboxInvOnce(kept)'
  BY <1>0, <1>1, InboxQuiet
<1>2. CASE MailboxChanges
  <2>1. MovesOn
    BY <1>2, ChangeMovesOn DEF MailboxChanges
  <2> QED  BY <1>1, <1>2, <2>1 DEF MailboxChanges, tableVars
<1>3. CASE HistoryExpires \/ PushLost \/ IgnorePush \/ UNCHANGED vars
  BY <1>1, <1>3, StayMovesOn
     DEF HistoryExpires, DropHistory, PushLost, IgnorePush, vars, mailboxVars, tableVars
<1>4. ASSUME NEW p \in Job, StartSync(p)
      PROVE  InboxInvOnce(kept)'
  <2>1. \A q \in Job \ {p} : job'[q] = job[q]
    BY <1>4 DEF StartSync, SyncTypeOK
  <2>2. job'[p] = [Idle EXCEPT !.pc = "list", !.task = "delta", !.cursor = watermark,
                               !.latest = watermark]
    BY <1>4 DEF StartSync, SyncTypeOK
  <2>3. /\ job'[p].pc = "list" /\ job'[p].task = "delta" /\ job'[p].todo = {} /\ job'[p].got = {}
        /\ job'[p].fetched = NoneFetched
    BY <2>2 DEF Idle
  <2>4. BackfillInv(job[p])'
    BY <2>3 DEF BackfillInv, NoneFetched
  <2>5. job'[p] # Idle
    BY <2>3 DEF Idle
  <2>6. \A q \in Job \ {p} : job[q] = Idle
    BY <2>1, <2>5 DEF NoteOverlap, Overlap
  <2>7. UNCHANGED <<log, box, rows, base>>
    BY <1>4 DEF StartSync, mailboxVars, tableVars
  <2> QED  BY <1>0, <2>1, <2>4, <2>6, <2>7, OneReads
<1>5. ASSUME NEW p \in Job, job[p].pc # "idle"
      PROVE  \A q \in Job \ {p} : job[q] = Idle
  <2>1. job[p] # Idle
    BY <1>5 DEF Idle
  <2> QED  BY <2>1, OthersIdle
<1>6. ASSUME NEW p \in Job, ListHistory(p)
      PROVE  InboxInvOnce(kept)'
  <2>1. /\ job'[p].pc \in {"list", "fetch"} /\ job'[p].task = job[p].task /\ job'[p].got = job[p].got
        /\ job'[p].fetched = job[p].fetched
        /\ job'[p].pc = "list" => job'[p].todo = job[p].todo
        /\ \A q \in Job \ {p} : job'[q] = job[q]
    BY <1>6 DEF ListHistory, SyncTypeOK, JobRecord
  <2>2. job[p].pc = "list" /\ UNCHANGED <<log, box, rows, base>>
    BY <1>6 DEF ListHistory, mailboxVars, tableVars
  <2>3. BackfillInv(job[p])'
    BY <1>0, <2>1, <2>2 DEF BackfillInv, NoneFetched
  <2> QED  BY <1>0, <1>5, <2>1, <2>2, <2>3, OneReads
<1>7. ASSUME NEW p \in Job, FetchChanged(p)
      PROVE  InboxInvOnce(kept)'
  <2>1. /\ job'[p].pc = "fetch" /\ job'[p].task = job[p].task
        /\ \A q \in Job \ {p} : job'[q] = job[q]
    BY <1>7 DEF FetchChanged, SyncTypeOK, JobRecord
  <2>2. job[p].pc = "fetch" /\ UNCHANGED <<log, box, rows, base>>
    BY <1>7 DEF FetchChanged, mailboxVars, tableVars
  <2>3. BackfillInv(job[p])'
    BY <1>0, <2>1, <2>2 DEF BackfillInv
  <2> QED  BY <1>0, <1>5, <2>1, <2>2, <2>3, OneReads
<1>8. ASSUME NEW p \in Job, StoreChanged(p)
      PROVE  InboxInvOnce(kept)'
  <2>1. /\ job'[p].pc = "delete" /\ job'[p].task = job[p].task
        /\ \A q \in Job \ {p} : job'[q] = job[q]
    BY <1>8 DEF StoreChanged, SyncTypeOK, JobRecord
  <2>2. job[p].pc = "fetch" /\ UpsertMessages(job[p].fetched) /\ UNCHANGED <<mailboxVars, base>>
    BY <1>8 DEF StoreChanged
  <2>3. BackfillInv(job[p])'
    BY <1>0, <2>1, <2>2 DEF BackfillInv
  <2>4. PICK b \in Nat : b = base
    BY DEF SyncTypeOK, TablesTypeOK
  <2>5. kept => InboxStored(b)'
    BY <1>0, <2>2, <2>4, StoreKeepsInbox
  <2>6. kept => InboxStored(base)'
    BY <2>2, <2>4, <2>5 DEF InboxStored, LastChange
  <2> QED  BY <1>5, <2>1, <2>2, <2>3, <2>6, OneMoves
<1>9. ASSUME NEW p \in Job, DeleteRemoved(p)
      PROVE  InboxInvOnce(kept)'
  <2>1. /\ job'[p].pc = "advance" /\ job'[p].task = job[p].task
        /\ \A q \in Job \ {p} : job'[q] = job[q]
    BY <1>9 DEF DeleteRemoved, SyncTypeOK, JobRecord
  <2>2. job[p].pc = "delete" /\ DeleteMessages(job[p].remove) /\ UNCHANGED <<mailboxVars, base>>
    BY <1>9 DEF DeleteRemoved
  <2>3. BackfillInv(job[p])'
    BY <1>0, <2>1, <2>2 DEF BackfillInv
  <2>4. kept => InboxStored(base)'
    BY <1>0, <2>2, DeleteKeepsInbox
  <2> QED  BY <1>5, <2>1, <2>2, <2>3, <2>4, OneMoves
<1>10. ASSUME NEW p \in Job, HistoryGone(p)
       PROVE  InboxInvOnce(kept)'
  <2>1. /\ job'[p].pc = "profile" /\ job'[p].got = job[p].got
        /\ job'[p].todo = job[p].todo /\ job'[p].fetched = job[p].fetched
        /\ \A q \in Job \ {p} : job'[q] = job[q]
    BY <1>10 DEF HistoryGone, SyncTypeOK, JobRecord
  <2>2. job[p].pc = "list" /\ UNCHANGED <<log, box, rows, base>>
    BY <1>10 DEF HistoryGone, mailboxVars, tableVars
  <2>3. BackfillInv(job[p])'
    BY <1>0, <2>1, <2>2 DEF BackfillInv, NoneFetched
  <2> QED  BY <1>0, <1>5, <2>1, <2>2, <2>3, OneReads
<1>11. ASSUME NEW p \in Job, TakeProfile(p)
       PROVE  InboxInvOnce(kept)'
  <2>1. /\ job'[p].pc = "inbox" /\ job'[p].got = job[p].got
        /\ job'[p].todo = job[p].todo /\ job'[p].fetched = job[p].fetched
        /\ \A q \in Job \ {p} : job'[q] = job[q]
    BY <1>11 DEF TakeProfile, SyncTypeOK, JobRecord
  <2>2. job[p].pc = "profile" /\ UNCHANGED <<log, box, rows, base>>
    BY <1>11 DEF TakeProfile, mailboxVars, tableVars
  <2>3. job'[p].got = {} /\ job'[p].todo = {} /\ job'[p].fetched = NoneFetched
    BY <1>0, <2>1, <2>2 DEF BackfillInv
  <2>4. Holding(job'[p]) = {}
    BY <2>3 DEF Holding, NoneFetched
  <2>5. \A m \in Message : Backfills(job[p], m)'
    BY <2>1, <2>3, <2>4 DEF Backfills, Holding
  <2>6. BackfillInv(job[p])'
    BY <2>1, <2>3, <2>5 DEF BackfillInv, NoneFetched
  <2> QED  BY <1>0, <1>5, <2>1, <2>2, <2>6, OneReads
<1>12. ASSUME NEW p \in Job, Finish(p), UNCHANGED <<log, box, rows>>, kept => InboxStored(base)',
              \A q \in Job \ {p} : job[q] = Idle
       PROVE  InboxInvOnce(kept)'
  BY <1>12, InboxFinish
<1>13. ASSUME NEW p \in Job, PageMessageGone(p) \/ Fail(p)
       PROVE  InboxInvOnce(kept)'
  <2>1. Finish(p) /\ UNCHANGED <<log, box, rows, base>> /\ job[p].pc # "idle"
    BY <1>13 DEF PageMessageGone, Fail, mailboxVars, tableVars
  <2>2. kept => InboxStored(base)'
    BY <1>0, <2>1 DEF InboxStored, InInbox, LastChange, historyId
  <2> QED  BY <1>5, <1>12, <2>1, <2>2
<1>14. ASSUME NEW p \in Job, Advance(p)
       PROVE  InboxInvOnce(kept)'
  <2>1. Finish(p) /\ UNCHANGED <<log, box, rows>> /\ job[p].pc # "idle"
    BY <1>14 DEF Advance, mailboxVars
  <2>2. kept => InboxStored(base)'
    BY <1>0, <1>14, AdvanceKeepsInbox
  <2> QED  BY <1>5, <1>12, <2>1, <2>2
<1>15. ASSUME NEW p \in Job, ListInbox(p) \/ FetchPageMessage(p) \/ StorePage(p, "advance")
       PROVE  InboxInvOnce(kept)'
  <2>1. job[p].pc # "idle"
    BY <1>15 DEF ListInbox, FetchPageMessage, StorePage
  <2> QED  BY <1>0, <1>5, <1>15, <2>1, InboxBackfill
<1> QED
  BY <1>2, <1>3, <1>4, <1>6, <1>7, <1>8, <1>9, <1>10, <1>11, <1>13, <1>14, <1>15
     DEF Next, SyncStep, Backfill

\* A message whose last record is before the restart was stored by the backfill; one
\* whose last record is after it, by the records.
LEMMA InboxIsCurrent ==
  ASSUME SyncTypeOK, FeedInv, TurnInv, InboxInv
  PROVE  InboxCurrentInTurn
<1> SUFFICES ASSUME ~overlapped, NEW i \in 1..historyId, Settled(i), InInbox(log[i].messageId)
             PROVE  rows[log[i].messageId] = box[log[i].messageId]
  BY DEF InboxCurrentInTurn, InboxCurrent
<1> DEFINE m == log[i].messageId
<1>1. base \in Nat /\ historyId \in Nat /\ m \in Message
  BY LogMessage DEF SyncTypeOK, TablesTypeOK, MailboxTypeOK, historyId
<1>2. CASE i > base
  <2>1. RowsCurrent
    BY TurnRowsCurrent DEF RowsCurrentInTurn
  <2> QED  BY <1>1, <1>2, <2>1 DEF RowsCurrent
<1>3. CASE i <= base
  <2>1. \A j \in i + 1 .. historyId : log[j].messageId # m
    BY DEF Settled, Deciding
  <2>2. LastChange(m, base)
    BY <1>1, <1>3, <2>1 DEF LastChange
  <2> QED  BY <1>1, <2>2 DEF InboxInv, InboxInvOnce, InboxStored
<1> QED  BY <1>1, <1>2, <1>3

\* In turn, an inbox message behind the watermark is stored as Gmail has it, also
\* when its changes were skipped, as long as one backfill holds every message.
THEOREM InboxCurrentTheorem ==
  ASSUME IsFiniteSet(Message), Cardinality(Message) <= BackfillLimit
  PROVE  TurnSpec => []InboxCurrentInTurn
<1>1. TurnInit => SyncTypeOK /\ FeedInv /\ TurnInv /\ InboxInv
  BY InitType, InitFeed, InitTurn, InitInbox DEF TurnInit
<1>2. SyncTypeOK /\ FeedInv /\ TurnInv /\ InboxInv /\ [TurnNext]_<<vars, overlapped>>
        => SyncTypeOK' /\ FeedInv' /\ TurnInv' /\ InboxInv'
  <2> SUFFICES ASSUME SyncTypeOK, FeedInv, TurnInv, InboxInv, [TurnNext]_<<vars, overlapped>>
               PROVE  SyncTypeOK' /\ FeedInv' /\ TurnInv' /\ InboxInv'
    OBVIOUS
  <2>1. [Next]_vars /\ (NoteOverlap \/ UNCHANGED <<vars, overlapped>>)
    BY DEF TurnNext
  <2>2. SyncTypeOK' /\ FeedInv'
    BY <2>1, NextType, NextFeed
  <2>3. CASE NoteOverlap
    BY <2>1, <2>2, <2>3, TurnStep, InboxStep DEF InboxInv
  <2>4. CASE UNCHANGED <<vars, overlapped>>
    <3>1. TurnInv'
      BY <2>2, <2>4, TurnStays
    <3>2. InboxInv'
      BY <2>4 DEF InboxInv, InboxInvOnce, InboxStored, InInbox, BackfillInv, Backfills, Holding, LastChange,
         historyId, vars, mailboxVars, tableVars
    <3> QED  BY <2>2, <3>1, <3>2
  <2> QED  BY <2>1, <2>2, <2>3, <2>4
<1>3. SyncTypeOK /\ FeedInv /\ TurnInv /\ InboxInv => InboxCurrentInTurn
  BY InboxIsCurrent
<1> QED  BY <1>1, <1>2, <1>3, PTL DEF TurnSpec

=============================================================================
