------------------------------ MODULE MailJobs ------------------------------
(***************************************************************************)
(* The serverless invocations that copy a mailbox into the tables, and the *)
(* part they share: runInitialSync of src/sync/index.ts, the backfill that *)
(* a sign-in and a full resync both run.                                   *)
(*                                                                         *)
(* A job is one invocation.  Its record holds the local variables of the   *)
(* code it runs and `pc`, the next call it awaits.  Between two calls any  *)
(* other job, and the mailbox, may move.                                   *)
(***************************************************************************)
EXTENDS MailTables

CONSTANTS
  Job,           \* slots an invocation can run in; two slots run at once
  BackfillLimit  \* INITIAL_SYNC_LIMIT

ASSUME BackfillLimitAssumption == BackfillLimit \in Nat \ {0}

VARIABLE job

\* The calls an invocation can be waiting for: in this module and the webhook's
\* sync, in a sign-in or a renewal (AccountSync), in a request to read or to send
\* a message (MessageRequests).
SyncPC == {"idle", "list", "fetch", "delete", "advance", "profile", "inbox", "page"}
AccountPC == {"watch", "saveWatch", "signedIn", "renew", "saveExpiration"}
ReadPC == {"labels", "markRead", "markUnread", "setLabels"}
SendPC == {"send", "getSent", "storeSent"}

NoneFetched == [m \in Message |-> NoRow]

JobRecord ==
  [pc      : SyncPC \cup AccountPC \cup ReadPC \cup SendPC,
   task    : {"none", "delta", "resync", "signIn"},
   cursor  : Nat,              \* the watermark the job read
   latest  : Nat,              \* how far its read of the history got
   todo    : SUBSET Message,   \* still to getMessage
   fetched : [Message -> Row \cup {NoRow}],
   remove  : SUBSET Message,   \* rows to delete
   got     : SUBSET Message,   \* backfilled so far
   more    : BOOLEAN]          \* the inbox page had a nextPageCursor

Idle == [pc |-> "idle", task |-> "none", cursor |-> 0, latest |-> 0, todo |-> {},
         fetched |-> NoneFetched, remove |-> {}, got |-> {}, more |-> FALSE]

JobsInit == job = [p \in Job |-> Idle]

\* Two invocations run.
Overlap == \E p, q \in Job : p # q /\ job[p] # Idle /\ job[q] # Idle

Finish(p) == job' = [job EXCEPT ![p] = Idle]

FetchedBy(p) == {m \in Message : job[p].fetched[m] # NoRow}

-----------------------------------------------------------------------------
(* runInitialSync *)

\* messages.list, one page of ids.
ListInbox(p) ==
  /\ job[p].pc = "inbox"
  /\ LET rest == InboxAfter(job[p].got)
     IN \E page \in SUBSET rest :
          /\ IsPage(page, rest, BackfillLimit - Cardinality(job[p].got))
          /\ job' = [job EXCEPT ![p].pc = "page", ![p].todo = page, ![p].more = (page # rest)]
  /\ UNCHANGED <<mailboxVars, tableVars>>

\* One of the messages.get calls that Promise.all runs together.
FetchPageMessage(p) ==
  /\ job[p].pc = "page"
  /\ \E m \in job[p].todo :
       /\ box[m] # NoRow
       /\ job' = [job EXCEPT ![p].todo = @ \ {m}, ![p].fetched[m] = box[m]]
  /\ UNCHANGED <<mailboxVars, tableVars>>

\* A message of the page is gone: NOT_FOUND fails the page and so the job.
PageMessageGone(p) ==
  /\ job[p].pc = "page"
  /\ \E m \in job[p].todo : box[m] = NoRow
  /\ Finish(p)
  /\ UNCHANGED <<mailboxVars, tableVars>>

\* The upsert of a page, then the tests of `while (synced < limit)` and of the
\* break: on to the next page, or leave the loop for the step `next`.
StorePage(p, next) ==
  /\ job[p].pc = "page"
  /\ job[p].todo = {}
  /\ UpsertMessages(job[p].fetched)
  /\ LET got  == job[p].got \cup FetchedBy(p)
         stop == \/ ~job[p].more
                 \/ FetchedBy(p) = {}
                 \/ Cardinality(got) >= BackfillLimit
     IN job' = [job EXCEPT ![p].pc = IF stop THEN next ELSE "inbox",
                           ![p].fetched = NoneFetched, ![p].got = got]
  /\ UNCHANGED <<mailboxVars, watermark, base>>

=============================================================================
