---------------------------- MODULE WebhookSync -----------------------------
(***************************************************************************)
(* The sync that a Gmail push notification starts: processGmailNotification*)
(* of src/webhook/gmail.ts, with applyDelta and fullResync.                *)
(*                                                                         *)
(* The webhook acknowledges a push before it syncs, takes no lock and      *)
(* remembers no push, so a push may start a job while another job runs,    *)
(* and a push delivered twice starts two jobs.  A job that throws at any   *)
(* call, or whose instance dies, leaves what it had already written.       *)
(***************************************************************************)
EXTENDS MailJobs

CONSTANT Faults   \* may jobs fail and pushes be lost?
ASSUME FaultsAssumption == Faults \in BOOLEAN

VARIABLE pushed   \* a notification is waiting to be delivered

vars == <<mailboxVars, tableVars, job, pushed>>

Init ==
  /\ MailboxInit
  /\ TablesInit
  /\ JobsInit
  /\ pushed = FALSE

-----------------------------------------------------------------------------
(* Gmail and Pub/Sub *)

\* A change makes Gmail publish a notification, while there is a watch.
MailboxChanges ==
  /\ \E m \in Message : OwnerChanges(m)
  /\ pushed' = TRUE
  /\ UNCHANGED <<tableVars, job>>

HistoryExpires ==
  /\ DropHistory
  /\ UNCHANGED <<tableVars, job, pushed>>

PushLost ==
  /\ Faults
  /\ pushed
  /\ pushed' = FALSE
  /\ UNCHANGED <<mailboxVars, tableVars, job>>

-----------------------------------------------------------------------------
(* processGmailNotification *)

Delivered == pushed /\ pushed' \in BOOLEAN   \* or left over, to come again

\* findUserByEmail and connect.  The historyId of the push is not looked at.
StartSync(p) ==
  /\ Delivered
  /\ job[p].pc = "idle"
  /\ watermark # NoHistoryId
  /\ job' = [job EXCEPT ![p] = [Idle EXCEPT !.pc = "list", !.task = "delta",
                                            !.cursor = watermark, !.latest = watermark]]
  /\ UNCHANGED <<mailboxVars, tableVars>>

\* No watch has been stored: `no-watermark`.
IgnorePush ==
  /\ Delivered
  /\ watermark = NoHistoryId
  /\ UNCHANGED <<mailboxVars, tableVars, job>>

\* Mutant: the first page alone is read, and every page has the newest historyId.
ListFirstPage(p) ==
  /\ job[p].pc = "list"
  /\ ~Expired(job[p].cursor)
  /\ LET from == job[p].cursor
         to   == PageEnd(from)
     IN job' = [job EXCEPT ![p].pc = "fetch", ![p].latest = historyId,
                           ![p].todo = ToRefetch(from, to), ![p].remove = ToRemove(from, to)]
  /\ UNCHANGED <<mailboxVars, tableVars, pushed>>

\* One page of history.list; after the last one, planChanges.
ListHistory(p) ==
  /\ job[p].pc = "list"
  /\ ~Expired(job[p].cursor)
  /\ LET from == job[p].cursor
         to   == PageEnd(job[p].latest)
     IN job' = IF to < historyId
                 THEN [job EXCEPT ![p].latest = to]
                 ELSE [job EXCEPT ![p].pc = "fetch", ![p].latest = to,
                                  ![p].todo = ToRefetch(from, to),
                                  ![p].remove = ToRemove(from, to)]
  /\ UNCHANGED <<mailboxVars, tableVars, pushed>>

\* Mutant: a message that is NOT_FOUND is passed over.
FetchChangedForgets(p) ==
  /\ job[p].pc = "fetch"
  /\ \E m \in job[p].todo :
       job' = [job EXCEPT ![p].todo = @ \ {m}, ![p].fetched[m] = box[m]]
  /\ UNCHANGED <<mailboxVars, tableVars, pushed>>

\* getMessage of one id to refetch; NOT_FOUND makes it one to remove.
FetchChanged(p) ==
  /\ job[p].pc = "fetch"
  /\ \E m \in job[p].todo :
       job' = IF box[m] = NoRow
                THEN [job EXCEPT ![p].todo = @ \ {m}, ![p].remove = @ \cup {m}]
                ELSE [job EXCEPT ![p].todo = @ \ {m}, ![p].fetched[m] = box[m]]
  /\ UNCHANGED <<mailboxVars, tableVars, pushed>>

StoreChanged(p) ==
  /\ job[p].pc = "fetch"
  /\ job[p].todo = {}
  /\ UpsertMessages(job[p].fetched)
  /\ job' = [job EXCEPT ![p].pc = "delete", ![p].fetched = NoneFetched]
  /\ UNCHANGED <<mailboxVars, watermark, base, pushed>>

DeleteRemoved(p) ==
  /\ job[p].pc = "delete"
  /\ DeleteMessages(job[p].remove)
  /\ job' = [job EXCEPT ![p].pc = "advance", ![p].remove = {}]
  /\ UNCHANGED <<mailboxVars, watermark, base, pushed>>

\* Mutant: a full resync takes the cursor after the backfill.
AdvanceToNow(p) ==
  /\ job[p].pc = "advance"
  /\ LET id == IF job[p].task = "resync" THEN historyId ELSE job[p].latest
     IN /\ AdvanceHistoryId(id)
        /\ base' = IF job[p].task = "resync" /\ watermark # watermark' THEN id ELSE base
  /\ Finish(p)
  /\ UNCHANGED <<mailboxVars, rows, applied, pushed>>

\* The last step of both branches.  A full resync that moves the watermark
\* passes over the changes it did not read: `base` remembers up to where.
Advance(p) ==
  /\ job[p].pc = "advance"
  /\ AdvanceHistoryId(job[p].latest)
  /\ base' = IF job[p].task = "resync" /\ watermark # watermark' THEN job[p].latest ELSE base
  /\ Finish(p)
  /\ UNCHANGED <<mailboxVars, rows, applied, pushed>>

-----------------------------------------------------------------------------
(* fullResync *)

\* Mutant: CURSOR_EXPIRED is thrown on like any other error.
HistoryGoneGivesUp(p) ==
  /\ job[p].pc = "list"
  /\ Expired(job[p].cursor)
  /\ Finish(p)
  /\ UNCHANGED <<mailboxVars, tableVars, pushed>>

\* 404 from history.list: CURSOR_EXPIRED.
HistoryGone(p) ==
  /\ job[p].pc = "list"
  /\ Expired(job[p].cursor)
  /\ job' = [job EXCEPT ![p].pc = "profile", ![p].task = "resync"]
  /\ UNCHANGED <<mailboxVars, tableVars, pushed>>

\* getCurrentCursor, before the backfill reads anything.
TakeProfile(p) ==
  /\ job[p].pc = "profile"
  /\ job' = [job EXCEPT ![p].pc = "inbox", ![p].latest = historyId]
  /\ UNCHANGED <<mailboxVars, tableVars, pushed>>

Backfill(p) ==
  /\ job[p].task = "resync"
  /\ ListInbox(p) \/ FetchPageMessage(p) \/ PageMessageGone(p) \/ StorePage(p, "advance")
  /\ UNCHANGED pushed

\* Mutant: the watermark moves in a `finally`.
FailAdvances(p) ==
  /\ Faults
  /\ job[p].pc # "idle"
  /\ AdvanceHistoryId(job[p].latest)
  /\ Finish(p)
  /\ UNCHANGED <<mailboxVars, rows, applied, base, pushed>>

\* Any call throws, or the instance is stopped.
Fail(p) ==
  /\ Faults
  /\ job[p].pc # "idle"
  /\ Finish(p)
  /\ UNCHANGED <<mailboxVars, tableVars, pushed>>

-----------------------------------------------------------------------------

SyncStep(p) ==
  \/ ListHistory(p) \/ FetchChanged(p) \/ StoreChanged(p) \/ DeleteRemoved(p)
  \/ HistoryGone(p) \/ TakeProfile(p) \/ Backfill(p)
  \/ Advance(p)

Next ==
  \/ MailboxChanges \/ HistoryExpires \/ PushLost \/ IgnorePush
  \/ \E p \in Job : StartSync(p) \/ SyncStep(p) \/ Fail(p)

Spec == Init /\ [][Next]_vars

-----------------------------------------------------------------------------
(* Properties *)

\* The types of the variables, whatever other invocations run beside the sync.
SyncTypeOK ==
  /\ MailboxTypeOK
  /\ TablesTypeOK
  /\ job \in [Job -> JobRecord]
  /\ pushed \in BOOLEAN

TypeOK == SyncTypeOK /\ \A p \in Job : job[p].pc \in SyncPC

\* The watermark moves only over changes that some job has stored, however
\* many jobs overlap and wherever they fail; the only changes it passes over
\* are those a full resync skips ("the watermark only moves on success").
NoChangeSkipped == watermark # NoHistoryId => AppliedUpTo(watermark)

\* The inductive invariant behind NoChangeSkipped.  In the account: the cursor
\* of a message is not older than any record of it, and a message with a
\* "deleted" record is gone.
MailboxInv ==
  /\ \A m \in Message : box[m] # NoRow => box[m].cursor <= historyId
  /\ \A i \in 1..historyId : LET m == log[i].messageId IN
       /\ box[m] # NoRow => box[m].cursor >= i
       /\ log[i].type = "deleted" => box[m] = NoRow
  /\ oldest <= historyId

TablesInv ==
  /\ NoChangeSkipped
  /\ watermark # NoHistoryId => watermark <= historyId
  /\ base = 0 \/ (watermark # NoHistoryId /\ base <= watermark)
  /\ \A m \in Message : applied[m] <= historyId

\* What a job holds in its locals will store the i-th change.
Holds(r, i) == LET m == log[i].messageId IN
  \/ m \in r.todo
  \/ m \in r.remove /\ box[m] = NoRow
  \/ r.fetched[m] # NoRow /\ r.fetched[m].cursor >= i

\* A job that read the history up to `latest` has stored or holds every change
\* up to there, and it has stored them all when it comes to move the watermark.
JobInv(r) ==
  /\ r.latest <= historyId
  /\ \A m \in Message : r.fetched[m] # NoRow => r.fetched[m].cursor <= historyId
  /\ r.pc = "list" => r.cursor <= historyId /\ AppliedUpTo(r.cursor)
  /\ r.pc \in {"fetch", "delete"} => \A i \in 1..r.latest : Stored(i) \/ Holds(r, i)
  /\ r.pc = "delete" => r.todo = {} /\ r.fetched = NoneFetched
  /\ r.pc = "advance" /\ r.task # "resync" => AppliedUpTo(r.latest)
  /\ r.pc = "profile" => r.task = "resync"
  /\ r.task = "resync" => oldest > 0

FeedInv == MailboxInv /\ TablesInv /\ \A p \in Job : JobInv(job[p])

\* The last record of a message is i, and the watermark has passed it.
Settled(i) ==
  /\ watermark # NoHistoryId
  /\ i \in 1..watermark
  /\ i \in Deciding(0, historyId)

\* A message whose last change is behind the watermark, and was not skipped by
\* a resync, is stored as it is in Gmail, or not stored if it was deleted.
\* Jobs that follow one another keep this; jobs that overlap do not.
RowsCurrent ==
  \A i \in base + 1 .. historyId :
    Settled(i) => rows[log[i].messageId] = box[log[i].messageId]

\* What a full resync repairs: an inbox message whose last change is behind the
\* watermark is stored as it is in Gmail even if its changes were skipped, as
\* long as the whole inbox fits the backfill (BackfillLimit is 50).
InboxCurrent ==
  \A i \in 1..historyId :
    Settled(i) /\ InInbox(log[i].messageId) => rows[log[i].messageId] = box[log[i].messageId]

\* The watermark never moves backwards, not even when two jobs end in the
\* opposite order of their reads (advanceHistoryId's conditional UPDATE).
WatermarkForward ==
  [][watermark' # watermark => watermark # NoHistoryId /\ watermark' > watermark]_watermark

\* If no push is lost and no job fails for another reason than a message that
\* disappears under it, the watermark reaches the end of the history.
CatchesUp == <>[](watermark \in {NoHistoryId, historyId})

\* What the sync promises of the change feed, whatever happens to the rows.
Feed == INSTANCE WatermarkFeed WITH mark <- watermark
ImplementsFeed == Feed!Spec

=============================================================================
