----------------------------- MODULE MailTables -----------------------------
(***************************************************************************)
(* The rows one user has in the `messages` table and the sync watermark in *)
(* the user's `users` row, with the statements the two stores run on them. *)
(* Each statement is atomic in Postgres, so each is one action here.       *)
(*                                                                         *)
(* `applied` and `base` are history variables: no code reads them.         *)
(***************************************************************************)
EXTENDS GmailMailbox

CONSTANT NoHistoryId   \* users.last_history_id is null
ASSUME NoHistoryIdAssumption == NoHistoryId \notin Nat

VARIABLES
  rows,       \* messages: label_ids and history_id of each stored message
  watermark,  \* users.last_history_id
  applied,    \* the newest historyId whose state of the message was stored
  base        \* changes up to here were skipped by a restart of the sync

tableVars == <<rows, watermark, applied, base>>

TablesTypeOK ==
  /\ rows \in [Message -> Row \cup {NoRow}]
  /\ watermark \in Nat \cup {NoHistoryId}
  /\ applied \in [Message -> Nat]
  /\ base \in Nat

TablesInit ==
  /\ rows = [m \in Message |-> NoRow]
  /\ watermark \in {NoHistoryId, 0}
  /\ applied = [m \in Message |-> 0]
  /\ base = 0

-----------------------------------------------------------------------------

\* Mutant: rows that exist are left alone (ignoreDuplicates).
UpsertMissing(batch) ==
  /\ rows' = [m \in Message |-> IF rows[m] = NoRow THEN batch[m] ELSE rows[m]]
  /\ applied' = [m \in Message |->
                   IF batch[m] # NoRow /\ applied[m] < batch[m].cursor
                     THEN batch[m].cursor ELSE applied[m]]

\* upsertMessages: the whole row is replaced, whatever history_id it has.
UpsertMessages(batch) ==
  /\ rows' = [m \in Message |-> IF batch[m] = NoRow THEN rows[m] ELSE batch[m]]
  /\ applied' = [m \in Message |->
                   IF batch[m] # NoRow /\ applied[m] < batch[m].cursor
                     THEN batch[m].cursor ELSE applied[m]]

\* deleteMessages.  Deleting a row stores the state the message has in Gmail
\* only if Gmail does not hold the message.
DeleteMessages(ids) ==
  /\ rows' = [m \in Message |-> IF m \in ids THEN NoRow ELSE rows[m]]
  /\ applied' = [m \in Message |->
                   IF m \in ids /\ box[m] = NoRow THEN historyId ELSE applied[m]]

\* Mutant: the UPDATE without its condition.
AdvanceHistoryIdAlways(id) == watermark' = id

\* advanceHistoryId: a single conditional UPDATE.
AdvanceHistoryId(id) ==
  watermark' = IF watermark = NoHistoryId \/ watermark < id THEN id ELSE watermark

-----------------------------------------------------------------------------

\* The i-th change, or a later one of its message, was stored at some time; or
\* the change was skipped by a restart.
Stored(i) == i <= base \/ applied[log[i].messageId] >= i

AppliedUpTo(id) == \A i \in 1..id : Stored(i)

=============================================================================
