----------------------------- MODULE SyncInTurn ------------------------------
(***************************************************************************)
(* The webhook's sync, with a note of whether two invocations ever ran at  *)
(* once: while they run in turn, the rows follow the account, not only the *)
(* watermark.                                                              *)
(***************************************************************************)
EXTENDS WebhookSync

VARIABLE overlapped   \* history: two invocations have run at once

NoteOverlap == overlapped' = (overlapped \/ Overlap')

TurnInit == Init /\ overlapped = FALSE
TurnNext == Next /\ NoteOverlap
TurnSpec == TurnInit /\ [][TurnNext]_<<vars, overlapped>>

-----------------------------------------------------------------------------
(* Properties *)

\* One invocation at a time, however few of its calls succeed: once the
\* watermark is past the last change of a message its row is what Gmail has.
RowsCurrentInTurn == ~overlapped => RowsCurrent

\* In turn, what a full resync skipped is stored too, if it is in the inbox.
InboxCurrentInTurn == ~overlapped => InboxCurrent

-----------------------------------------------------------------------------
(* The inductive invariants behind them                                    *)

\* No change of message m comes after the i-th.
LastChange(m, i) == \A j \in i + 1 .. historyId : log[j].messageId # m

\* What was read or stored of a message is not newer than what the account has, and
\* is what the account has unless the message has changed since.
CopyInv ==
  \A m \in Message :
    /\ box[m] # NoRow => applied[m] <= box[m].cursor
    /\ \A p \in Job : LET copy == job[p].fetched[m] IN
         copy # NoRow => /\ box[m] # NoRow => copy.cursor <= box[m].cursor
                         /\ LastChange(m, copy.cursor) => copy = box[m]

\* What a job is about to remove is gone for good, and it fetches again only what
\* was once there: Gmail uses no message id twice.
Known(m) == \E i \in 1..historyId : log[i].messageId = m
RemoveInv ==
  \A p \in Job : /\ \A m \in job[p].remove : Known(m) /\ box[m] = NoRow
                 /\ job[p].pc = "fetch" => \A m \in job[p].todo : Known(m)

\* A row is as new as the newest state that was ever stored.
NewestStored ==
  \A m \in Message : /\ LastChange(m, applied[m]) => rows[m] = box[m]
                     /\ rows[m] # NoRow => rows[m].cursor <= applied[m]

\* What a job holds is at least as new as what is stored.
HoldsNewest(r) ==
  \A m \in Message : r.fetched[m] # NoRow => applied[m] <= r.fetched[m].cursor

TurnInv ==
  /\ CopyInv
  /\ RemoveInv
  /\ ~overlapped => ~Overlap /\ NewestStored /\ \A p \in Job : HoldsNewest(job[p])

\* The inbox messages that have not changed since the id-th change are stored as they are.
InboxStored(id) ==
  \A m \in Message : InInbox(m) /\ LastChange(m, id) => rows[m] = box[m]

Holding(r) == {m \in Message : r.fetched[m] # NoRow}

\* A backfill has stored an inbox message, has it in hand or on its list, or will
\* list it on a later page.
Backfills(r, m) ==
  \/ rows[m] = box[m]
  \/ m \in r.todo
  \/ r.fetched[m] = box[m]
  \/ /\ r.pc = "page" => r.more
     /\ \A g \in r.got \cup r.todo \cup Holding(r) : m < g

\* A job that has a backfill before it, in it or behind it.
BackfillInv(r) ==
  /\ r.pc \in {"list", "profile", "watch", "saveWatch"} => r.got = {}
  /\ r.pc \in {"list", "profile", "watch", "saveWatch", "inbox"} =>
       r.todo = {} /\ r.fetched = NoneFetched
  /\ r.pc \in {"list", "fetch", "delete"} => r.task # "resync"
  /\ r.pc \in {"inbox", "page"} =>
       \A m \in Message : InInbox(m) /\ LastChange(m, r.latest) => Backfills(r, m)
  /\ r.pc = "page" /\ r.more => r.todo \cup Holding(r) # {}
  /\ (r.pc = "advance" /\ r.task = "resync") \/ r.pc = "signedIn" => InboxStored(r.latest)

\* Before a sign-in has gone through its backfill, the rows promise nothing.
InboxInvOnce(kept) ==
  ~overlapped => (kept => InboxStored(base)) /\ \A p \in Job : BackfillInv(job[p])

InboxInv == InboxInvOnce(TRUE)

=============================================================================
