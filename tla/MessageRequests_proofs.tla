----------------------- MODULE MessageRequests_proofs ------------------------
(***************************************************************************)
(* Proofs about MessageRequests, for every set of messages, labels and     *)
(* jobs and every bound: what the sync promises it promises also with      *)
(* requests to read and to send in between.                                *)
(***************************************************************************)
EXTENDS MessageRequests, WebhookSync_proofs

-----------------------------------------------------------------------------
(* What a request does to its own record *)

RequestPC == {"idle"} \cup ReadPC \cup SendPC

\* A job holds of a message what it held or what the account has; what it held, it
\* held as a writer if it is one.
Copies(p) ==
  \A m \in Message :
    \/ job'[p].fetched[m] \in {NoRow, box'[m]}
    \/ job'[p].fetched[m] = job[p].fetched[m] /\ (Reads(p) => Reads(p)')

\* The record a step of a request leaves, which takes on nothing of a sync.
Waits(p) ==
  /\ \A q \in Job \ {p} : job'[q] = job[q]
  /\ job'[p].pc \in RequestPC
  /\ job'[p].latest \in {0, job[p].latest}
  /\ job'[p].task \in {"none", job[p].task}
  /\ job'[p].remove \in {{}, job[p].remove}
  /\ Copies(p)

LEMMA RecordUpdate ==
  ASSUME NEW r \in JobRecord, NEW pc \in RequestPC
  PROVE  /\ [r EXCEPT !.pc = pc] \in JobRecord
         /\ \A todo \in SUBSET Message : [r EXCEPT !.pc = pc, !.todo = todo] \in JobRecord
         /\ \A fetched \in [Message -> Row \cup {NoRow}] :
              [r EXCEPT !.pc = pc, !.fetched = fetched] \in JobRecord
<1>1. pc \in SyncPC \cup AccountPC \cup ReadPC \cup SendPC
  BY DEF RequestPC, SyncPC
<1> QED  BY <1>1 DEF JobRecord

LEMMA IdleFields ==
  /\ Idle.pc = "idle" /\ Idle.task = "none" /\ Idle.latest = 0 /\ Idle.remove = {} /\ Idle.todo = {}
  /\ Idle.fetched = NoneFetched /\ \A m \in Message : Idle.fetched[m] = NoRow
BY DEF Idle, NoneFetched

\* A request that ends.
LEMMA EndWaits ==
  ASSUME SyncTypeOK, NEW p \in Job, Finish(p)
  PROVE  Waits(p) /\ job' \in [Job -> JobRecord]
<1>1. job'[p] = Idle /\ \A q \in Job \ {p} : job'[q] = job[q]
  BY DEF Finish, SyncTypeOK
<1>2. job' \in [Job -> JobRecord]
  BY IdleType DEF Finish, SyncTypeOK
<1> QED  BY <1>1, <1>2, IdleFields DEF Waits, Copies, RequestPC

\* A request that begins.
LEMMA BeginWaits ==
  ASSUME SyncTypeOK, NEW p \in Job, NEW pc \in RequestPC, NEW todo \in SUBSET Message,
         NEW r \in {[Idle EXCEPT !.pc = pc], [Idle EXCEPT !.pc = pc, !.todo = todo]},
         job' = [job EXCEPT ![p] = r]
  PROVE  Waits(p) /\ job' \in [Job -> JobRecord]
<1>1. r \in JobRecord
  <2>1. PICK i \in JobRecord : i = Idle
    BY IdleType
  <2>2. r = [i EXCEPT !.pc = pc] \/ r = [i EXCEPT !.pc = pc, !.todo = todo]
    BY <2>1
  <2>3. [i EXCEPT !.pc = pc] \in JobRecord
    BY RecordUpdate
  <2>4. [i EXCEPT !.pc = pc, !.todo = todo] \in JobRecord
    BY RecordUpdate
  <2> QED  BY <2>2, <2>3, <2>4
<1>2. /\ r.pc = pc /\ r.task = Idle.task /\ r.latest = Idle.latest /\ r.remove = Idle.remove
      /\ r.fetched = Idle.fetched
  BY DEF Idle
<1>3. job'[p] = r /\ (\A q \in Job \ {p} : job'[q] = job[q]) /\ job' \in [Job -> JobRecord]
  BY <1>1 DEF SyncTypeOK
<1> QED  BY <1>2, <1>3, IdleFields DEF Waits, Copies

\* A request that goes on.
LEMMA GoWaits ==
  ASSUME SyncTypeOK, NEW p \in Job, NEW pc \in RequestPC, pc \in ReadPC \/ ~Reads(p),
         \/ job' = [job EXCEPT ![p].pc = pc]
         \/ \E todo \in SUBSET Message : job' = [job EXCEPT ![p].pc = pc, ![p].todo = todo]
  PROVE  Waits(p) /\ job' \in [Job -> JobRecord]
<1>1. job[p] \in JobRecord
  BY DEF SyncTypeOK
<1>2. CASE job' = [job EXCEPT ![p].pc = pc]
  <2>1. job' \in [Job -> JobRecord]
    <3>1. PICK r : r = [job[p] EXCEPT !.pc = pc]
      OBVIOUS
    <3>2. r \in JobRecord
      BY <1>1, <3>1, RecordUpdate
    <3>3. job' = [job EXCEPT ![p] = r]
      BY <1>2, <3>1
    <3> QED  BY <3>2, <3>3, JobUpdate DEF SyncTypeOK
  <2>2. /\ job'[p].pc = pc /\ job'[p].task = job[p].task /\ job'[p].latest = job[p].latest
        /\ job'[p].remove = job[p].remove /\ job'[p].fetched = job[p].fetched
        /\ \A q \in Job \ {p} : job'[q] = job[q]
    BY <1>2 DEF SyncTypeOK, JobRecord
  <2> QED  BY <2>1, <2>2 DEF Waits, Copies, Reads
<1>3. ASSUME NEW todo \in SUBSET Message, job' = [job EXCEPT ![p].pc = pc, ![p].todo = todo]
      PROVE  Waits(p) /\ job' \in [Job -> JobRecord]
  <2>1. PICK r : r = [job[p] EXCEPT !.pc = pc, !.todo = todo]
    OBVIOUS
  <2>2. r \in JobRecord
    BY <1>1, <2>1, RecordUpdate
  <2>3. job' = [job EXCEPT ![p] = r]
    BY <1>3, <2>1 DEF SyncTypeOK
  <2>4. job' \in [Job -> JobRecord]
    BY <2>2, <2>3, JobUpdate DEF SyncTypeOK
  <2>5. job'[p] = r /\ \A q \in Job \ {p} : job'[q] = job[q]
    BY <2>3 DEF SyncTypeOK
  <2>6. /\ r.pc = pc /\ r.task = job[p].task /\ r.latest = job[p].latest
        /\ r.remove = job[p].remove /\ r.fetched = job[p].fetched
    BY <2>1 DEF SyncTypeOK, JobRecord
  <2> QED  BY <2>4, <2>5, <2>6 DEF Waits, Copies, Reads
<1> QED  BY <1>2, <1>3

\* A request that has read a message.
LEMMA TakeWaits ==
  ASSUME SyncTypeOK, NEW p \in Job, NEW pc \in RequestPC, NEW m \in Message,
         NEW copy \in Row \cup {NoRow}, copy = box'[m], pc \in ReadPC \/ ~Reads(p),
         job' = [job EXCEPT ![p].pc = pc, ![p].fetched[m] = copy]
  PROVE  Waits(p) /\ job' \in [Job -> JobRecord]
<1>1. job[p] \in JobRecord
  BY DEF SyncTypeOK
<1>2. job[p].fetched \in [Message -> Row \cup {NoRow}]
  BY DEF SyncTypeOK, JobRecord
<1>3. [job[p].fetched EXCEPT ![m] = copy] \in [Message -> Row \cup {NoRow}]
  BY <1>2
<1>4. PICK r : r = [job[p] EXCEPT !.pc = pc, !.fetched = [job[p].fetched EXCEPT ![m] = copy]]
  OBVIOUS
<1>5. /\ r.pc = pc /\ r.task = job[p].task /\ r.latest = job[p].latest
      /\ r.remove = job[p].remove /\ r.fetched = [job[p].fetched EXCEPT ![m] = copy]
  BY <1>1, <1>4 DEF JobRecord
<1>10. r \in JobRecord
  BY <1>1, <1>3, <1>4, RecordUpdate
<1>7. job' = [job EXCEPT ![p] = r]
  BY <1>4 DEF SyncTypeOK, JobRecord
<1>8. job' \in [Job -> JobRecord]
  BY <1>7, <1>10, JobUpdate DEF SyncTypeOK
<1>9. job'[p] = r /\ \A q \in Job \ {p} : job'[q] = job[q]
  BY <1>7 DEF SyncTypeOK
<1>6. \A n \in Message : job'[p].fetched[n] \in {job[p].fetched[n], box'[n]}
  BY <1>2, <1>5, <1>9
<1>11. Reads(p) => Reads(p)'
  BY <1>5, <1>9 DEF Reads
<1> QED  BY <1>5, <1>6, <1>8, <1>9, <1>11 DEF Waits, Copies

-----------------------------------------------------------------------------
(* What a request does to the account and to the tables *)

Quiet == UNCHANGED <<mailboxVars, tableVars, pushed, requestVars>>

Touches ==
  /\ UNCHANGED mailboxVars \/ \E m \in Message : OwnerChanges(m)
  /\ UNCHANGED tableVars
  /\ Seen
  /\ pushed' \in BOOLEAN /\ sent' \in SUBSET Message

\* messages.modify as a change of the owner.
LEMMA ModifyTouches ==
  ASSUME SyncTypeOK, sent \in SUBSET Message, NEW p \in Job, Modify(p)
  PROVE  Touches /\ Waits(p) /\ job' \in [Job -> JobRecord]
<1>0. PICK m \in job[p].todo :
        \E labels \in {box[m].labels \ {Unread}, box[m].labels \cup {Unread}} :
          /\ box[m] # NoRow
          /\ \/ Relabel(m, labels) /\ pushed' = TRUE
             \/ labels = box[m].labels /\ UNCHANGED <<mailboxVars, pushed>>
          /\ job' = [job EXCEPT ![p].pc = "setLabels", ![p].fetched[m] = box'[m]]
  BY DEF Modify
<1>1. PICK labels \in {box[m].labels \ {Unread}, box[m].labels \cup {Unread}} :
        /\ box[m] # NoRow
        /\ \/ Relabel(m, labels) /\ pushed' = TRUE
           \/ labels = box[m].labels /\ UNCHANGED <<mailboxVars, pushed>>
        /\ job' = [job EXCEPT ![p].pc = "setLabels", ![p].fetched[m] = box'[m]]
  BY <1>0
<1>2. m \in Message
  BY <1>1 DEF SyncTypeOK, JobRecord
<1>3. labels \in SUBSET Label
  <2>1. box[m].labels \in SUBSET Label
    BY <1>1, <1>2 DEF SyncTypeOK, MailboxTypeOK, Row
  <2> QED  BY <1>1, <2>1, UnreadAssumption
<1>4. UNCHANGED mailboxVars \/ OwnerChanges(m)
  BY <1>1, <1>3 DEF OwnerChanges
<1>5. MailboxTypeOK'
  BY <1>2, <1>4, OwnerType DEF SyncTypeOK, MailboxTypeOK, mailboxVars
<1>6. PICK copy \in Row \cup {NoRow} : copy = box'[m]
  BY <1>2, <1>5 DEF MailboxTypeOK
<1>7. job' = [job EXCEPT ![p].pc = "setLabels", ![p].fetched[m] = copy]
  BY <1>1, <1>6
<1>8. Waits(p) /\ job' \in [Job -> JobRecord]
  BY <1>2, <1>6, <1>7, TakeWaits DEF RequestPC, ReadPC
<1>9. UNCHANGED <<tableVars, sent>> /\ Seen
  BY DEF Modify
<1>10. pushed' \in BOOLEAN
  BY <1>1 DEF SyncTypeOK
<1> QED  BY <1>2, <1>4, <1>8, <1>9, <1>10 DEF Touches

\* messages.send as an arrival.
LEMMA SendTouches ==
  ASSUME SyncTypeOK, sent \in SUBSET Message, NEW p \in Job, SendMessage(p)
  PROVE  Touches /\ Waits(p) /\ job' \in [Job -> JobRecord]
<1>1. PICK m \in Message :
        /\ Arrive(m, {Sent} \cap Label)
        /\ sent' = sent \cup {m}
        /\ job' = [job EXCEPT ![p].pc = "getSent", ![p].todo = {m}]
  BY DEF SendMessage
<1>2. OwnerChanges(m)
  <2>1. {Sent} \cap Label \in SUBSET Label
    OBVIOUS
  <2> QED  BY <1>1, <2>1 DEF OwnerChanges
<1>3. {m} \in SUBSET Message
  OBVIOUS
<1>4. \E todo \in SUBSET Message : job' = [job EXCEPT ![p].pc = "getSent", ![p].todo = todo]
  BY <1>1, <1>3
<1>5. Waits(p) /\ job' \in [Job -> JobRecord]
  <2>1. "getSent" \in RequestPC
    BY DEF RequestPC, SendPC
  <2>2. ~Reads(p)
    BY DEF SendMessage, Reads, ReadPC
  <2> QED  BY <1>4, <2>1, <2>2, GoWaits
<1>6. pushed' = TRUE /\ UNCHANGED tableVars /\ Seen
  BY DEF SendMessage
<1> QED  BY <1>1, <1>2, <1>5, <1>6 DEF Touches

LEMMA GetSentQuiet ==
  ASSUME SyncTypeOK, NEW p \in Job, GetSent(p)
  PROVE  Quiet /\ Waits(p) /\ job' \in [Job -> JobRecord]
<1>1. PICK m \in job[p].todo :
        job' = [job EXCEPT ![p].pc = "storeSent", ![p].fetched[m] = box[m]]
  BY DEF GetSent
<1>2. m \in Message
  BY <1>1 DEF SyncTypeOK, JobRecord
<1>3. PICK copy \in Row \cup {NoRow} : copy = box[m]
  BY <1>2 DEF SyncTypeOK, MailboxTypeOK
<1>4. Quiet
  BY DEF GetSent, Quiet
<1>5. copy = box'[m]
  BY <1>3, <1>4 DEF Quiet, mailboxVars
<1>6. job' = [job EXCEPT ![p].pc = "storeSent", ![p].fetched[m] = copy]
  BY <1>1, <1>3
<1>7. "storeSent" \in RequestPC
  BY DEF RequestPC, SendPC
<1>8. ~Reads(p)
  BY DEF GetSent, Reads, ReadPC
<1> QED  BY <1>2, <1>3, <1>4, <1>5, <1>6, <1>7, <1>8, TakeWaits

LEMMA FindStoredQuiet ==
  ASSUME SyncTypeOK, NEW p \in Job, FindStored(p)
  PROVE  Quiet /\ Waits(p) /\ job' \in [Job -> JobRecord]
<1>1. Finish(p) \/ \E pc \in {"markRead", "markUnread"} : job' = [job EXCEPT ![p].pc = pc]
  BY DEF FindStored
<1>2. Quiet
  BY DEF FindStored, Quiet
<1>3. CASE Finish(p)
  BY <1>2, <1>3, EndWaits
<1>4. ASSUME NEW pc \in {"markRead", "markUnread"}, job' = [job EXCEPT ![p].pc = pc]
      PROVE  Waits(p) /\ job' \in [Job -> JobRecord]
  <2>1. pc \in RequestPC /\ pc \in ReadPC
    BY DEF RequestPC, ReadPC
  <2> QED  BY <1>4, <2>1, GoWaits
<1> QED  BY <1>1, <1>2, <1>3, <1>4

LEMMA StartQuiet ==
  ASSUME SyncTypeOK, NEW p \in Job, ReadRequest(p) \/ SendRequest(p)
  PROVE  Quiet /\ Waits(p) /\ job' \in [Job -> JobRecord]
<1>1. Quiet
  BY DEF ReadRequest, SendRequest, Quiet
<1>2. CASE ReadRequest(p)
  <2>1. PICK m \in Message : job' = [job EXCEPT ![p] = [Idle EXCEPT !.pc = "labels", !.todo = {m}]]
    BY <1>2 DEF ReadRequest
  <2>2. {m} \in SUBSET Message /\ "labels" \in RequestPC
    BY DEF RequestPC, ReadPC
  <2> QED  BY <1>1, <2>1, <2>2, BeginWaits
<1>3. CASE SendRequest(p)
  <2>1. job' = [job EXCEPT ![p] = [Idle EXCEPT !.pc = "send"]]
    BY <1>3 DEF SendRequest
  <2>2. {} \in SUBSET Message /\ "send" \in RequestPC
    BY DEF RequestPC, SendPC
  <2> QED  BY <1>1, <2>1, <2>2, BeginWaits
<1> QED  BY <1>2, <1>3

\* The kinds of a request's steps.
LEMMA RequestKinds ==
  ASSUME SyncTypeOK, sent \in SUBSET Message, NEW p \in Job, RequestStep(p)
  PROVE  /\ Quiet \/ Touches \/ SetLabels(p) \/ StoreSent(p)
         /\ Waits(p) /\ job' \in [Job -> JobRecord]
<1>1. CASE ModifyNotFound(p) \/ SentNotStored(p) \/ Refused(p)
  <2>1. Finish(p) /\ Quiet
    BY <1>1 DEF ModifyNotFound, SentNotStored, Refused, Quiet
  <2> QED  BY <2>1, EndWaits
<1>2. CASE SetLabels(p) \/ StoreSent(p)
  <2>1. Finish(p)
    BY <1>2 DEF SetLabels, StoreSent
  <2> QED  BY <1>2, <2>1, EndWaits
<1> QED
  BY <1>1, <1>2, StartQuiet, FindStoredQuiet, GetSentQuiet, ModifyTouches, SendTouches
     DEF RequestStep, ReadStep, SendStep

-----------------------------------------------------------------------------
(* What a step of the sync does to the same *)

Stores(p) ==
  /\ UpsertMessages(job[p].fetched)
  /\ ~Reads(p) /\ UNCHANGED mailboxVars
  /\ \A q \in Job \ {p} : job'[q] = job[q]

Removes(p) ==
  /\ DeleteMessages(job[p].remove)
  /\ job[p].fetched = NoneFetched
  /\ ~Reads(p) /\ UNCHANGED mailboxVars
  /\ \A q \in Job \ {p} : job'[q] = job[q]

LEMMA CopyOne ==
  ASSUME NEW p \in Job, \A q \in Job \ {p} : job'[q] = job[q],
         \/ Copies(p)
         \/ \A m \in Message : \/ job'[p].fetched[m] \in {NoRow, box'[m]}
                               \/ job'[p].fetched[m] = job[p].fetched[m] /\ ~Reads(p)
  PROVE  \A q \in Job : Copies(q)
BY DEF Copies, Reads

LEMMA SyncCalls ==
  /\ \A pc \in {"list", "fetch", "delete", "advance", "profile", "inbox", "page"} :
       pc \notin ReadPC \cup {"idle"}
BY DEF ReadPC

\* The steps that touch the locals of one job alone, or its page.
LEMMA BackfillCopies ==
  ASSUME SyncTypeOK, NEW p \in Job, Backfill(p)
  PROVE  (\A q \in Job : Copies(q)) /\ (UNCHANGED <<mailboxVars, rows, applied>> \/ Stores(p))
<1>1. CASE ListInbox(p)
  <2>1. PICK page, more :
          job' = [job EXCEPT ![p].pc = "page", ![p].todo = page, ![p].more = more]
    BY <1>1 DEF ListInbox
  <2>2. job'[p].fetched = job[p].fetched /\ \A q \in Job \ {p} : job'[q] = job[q]
    BY <2>1 DEF SyncTypeOK, JobRecord
  <2>3. job[p].pc = "inbox" /\ UNCHANGED <<mailboxVars, rows, applied>>
    BY <1>1 DEF ListInbox, tableVars
  <2> QED  BY <2>2, <2>3, CopyOne, SyncCalls DEF Reads
<1>2. CASE FetchPageMessage(p)
  <2>1. PICK m \in job[p].todo :
          job' = [job EXCEPT ![p].todo = @ \ {m}, ![p].fetched[m] = box[m]]
    BY <1>2 DEF FetchPageMessage
  <2>2. /\ job'[p].fetched = [job[p].fetched EXCEPT ![m] = box[m]]
        /\ \A q \in Job \ {p} : job'[q] = job[q]
    BY <2>1 DEF SyncTypeOK, JobRecord
  <2>3. job[p].pc = "page" /\ UNCHANGED <<mailboxVars, rows, applied>>
    BY <1>2 DEF FetchPageMessage, tableVars
  <2>4. ~Reads(p)
    BY <2>3, SyncCalls DEF Reads
  <2>5. \A n \in Message : job'[p].fetched[n] \in {box[n], job[p].fetched[n]}
    BY <2>2 DEF SyncTypeOK, JobRecord
  <2>6. box' = box
    BY <2>3 DEF mailboxVars
  <2> QED  BY <2>2, <2>3, <2>4, <2>5, <2>6, CopyOne
<1>3. CASE PageMessageGone(p)
  <2>1. job'[p] = Idle /\ \A q \in Job \ {p} : job'[q] = job[q]
    BY <1>3 DEF PageMessageGone, Finish, SyncTypeOK
  <2>2. UNCHANGED <<mailboxVars, rows, applied>>
    BY <1>3 DEF PageMessageGone, tableVars
  <2> QED  BY <2>1, <2>2, IdleFields, CopyOne
<1>4. CASE StorePage(p, "advance")
  <2>1. PICK pc, got :
          job' = [job EXCEPT ![p].pc = pc, ![p].fetched = NoneFetched, ![p].got = got]
    BY <1>4 DEF StorePage
  <2>2. job'[p].fetched = NoneFetched /\ \A q \in Job \ {p} : job'[q] = job[q]
    BY <2>1 DEF SyncTypeOK, JobRecord
  <2>3. job[p].pc = "page" /\ UpsertMessages(job[p].fetched) /\ UNCHANGED mailboxVars
    BY <1>4 DEF StorePage
  <2>4. \A m \in Message : job'[p].fetched[m] = NoRow
    BY <2>2 DEF NoneFetched
  <2>5. Stores(p)
    BY <2>2, <2>3, SyncCalls DEF Stores, Reads
  <2> QED  BY <2>2, <2>4, <2>5, CopyOne
<1> QED  BY <1>1, <1>2, <1>3, <1>4 DEF Backfill

\* Every step of the sync.
LEMMA NextKinds ==
  ASSUME SyncTypeOK, SyncTypeOK', FeedInv, [Next]_vars
  PROVE  /\ MovesOn /\ \A q \in Job : Copies(q)
         /\ \/ UNCHANGED <<rows, applied>>
            \/ \E p \in Job : Stores(p) \/ Removes(p)
<1>1. CASE MailboxChanges
  <2>1. MovesOn
    BY <1>1, ChangeMovesOn DEF MailboxChanges
  <2> QED  BY <1>1, <2>1 DEF MailboxChanges, tableVars, Copies, Reads
<1>2. CASE HistoryExpires \/ PushLost \/ IgnorePush \/ UNCHANGED vars
  <2>1. UNCHANGED <<log, box, rows, applied, job>>
    BY <1>2 DEF HistoryExpires, DropHistory, PushLost, IgnorePush, vars, mailboxVars, tableVars
  <2> QED  BY <2>1, StayMovesOn DEF Copies, Reads
<1>a. ASSUME UNCHANGED mailboxVars
      PROVE  MovesOn
  BY <1>a, StayMovesOn DEF mailboxVars
<1>3. ASSUME NEW p \in Job, StartSync(p)
      PROVE  MovesOn /\ (\A q \in Job : Copies(q)) /\ UNCHANGED <<rows, applied>>
  <2>1. \A q \in Job \ {p} : job'[q] = job[q]
    BY <1>3 DEF StartSync, SyncTypeOK
  <2>2. job'[p] = [Idle EXCEPT !.pc = "list", !.task = "delta", !.cursor = watermark,
                               !.latest = watermark]
    BY <1>3 DEF StartSync, SyncTypeOK
  <2>3. \A m \in Message : job'[p].fetched[m] = NoRow
    BY <2>2 DEF Idle, NoneFetched
  <2> QED  BY <1>3, <1>a, <2>1, <2>3, CopyOne DEF StartSync, tableVars
<1>4. ASSUME NEW p \in Job, ListHistory(p) \/ HistoryGone(p) \/ TakeProfile(p)
      PROVE  MovesOn /\ (\A q \in Job : Copies(q)) /\ UNCHANGED <<rows, applied>>
  <2>1. UNCHANGED <<mailboxVars, rows, applied>> /\ job[p].pc \in {"list", "profile"}
    BY <1>4 DEF ListHistory, HistoryGone, TakeProfile, tableVars
  <2>2. job'[p].fetched = job[p].fetched /\ \A q \in Job \ {p} : job'[q] = job[q]
    <3>1. CASE ListHistory(p)
      BY <3>1 DEF ListHistory, SyncTypeOK, JobRecord
    <3>2. CASE HistoryGone(p) \/ TakeProfile(p)
      BY <3>2 DEF HistoryGone, TakeProfile, SyncTypeOK, JobRecord
    <3> QED  BY <1>4, <3>1, <3>2
  <2> QED  BY <1>a, <2>1, <2>2, CopyOne, SyncCalls DEF Reads
<1>5. ASSUME NEW p \in Job, FetchChanged(p)
      PROVE  MovesOn /\ (\A q \in Job : Copies(q)) /\ UNCHANGED <<rows, applied>>
  <2>1. UNCHANGED <<mailboxVars, rows, applied>> /\ job[p].pc = "fetch"
    BY <1>5 DEF FetchChanged, tableVars
  <2>2. PICK m \in job[p].todo :
          job' = IF box[m] = NoRow
                   THEN [job EXCEPT ![p].todo = @ \ {m}, ![p].remove = @ \cup {m}]
                   ELSE [job EXCEPT ![p].todo = @ \ {m}, ![p].fetched[m] = box[m]]
    BY <1>5 DEF FetchChanged
  <2>3. \A n \in Message : job'[p].fetched[n] \in {box[n], job[p].fetched[n]}
    BY <2>2 DEF SyncTypeOK, JobRecord
  <2>4. \A q \in Job \ {p} : job'[q] = job[q]
    BY <2>2 DEF SyncTypeOK
  <2>5. ~Reads(p) /\ box' = box
    BY <2>1, SyncCalls DEF Reads, mailboxVars
  <2> QED  BY <1>a, <2>1, <2>3, <2>4, <2>5, CopyOne
<1>6. ASSUME NEW p \in Job, StoreChanged(p)
      PROVE  MovesOn /\ (\A q \in Job : Copies(q)) /\ Stores(p)
  <2>1. job[p].pc = "fetch" /\ UpsertMessages(job[p].fetched) /\ UNCHANGED mailboxVars
    BY <1>6 DEF StoreChanged
  <2>2. job'[p].fetched = NoneFetched /\ \A q \in Job \ {p} : job'[q] = job[q]
    BY <1>6 DEF StoreChanged, SyncTypeOK, JobRecord
  <2>3. \A m \in Message : job'[p].fetched[m] = NoRow
    BY <2>2 DEF NoneFetched
  <2>4. Stores(p)
    BY <2>1, <2>2, SyncCalls DEF Stores, Reads
  <2> QED  BY <1>a, <2>1, <2>2, <2>3, <2>4, CopyOne
<1>7. ASSUME NEW p \in Job, DeleteRemoved(p)
      PROVE  MovesOn /\ (\A q \in Job : Copies(q)) /\ Removes(p)
  <2>1. job[p].pc = "delete" /\ DeleteMessages(job[p].remove) /\ UNCHANGED mailboxVars
    BY <1>7 DEF DeleteRemoved
  <2>2. job'[p].fetched = job[p].fetched /\ \A q \in Job \ {p} : job'[q] = job[q]
    BY <1>7 DEF DeleteRemoved, SyncTypeOK, JobRecord
  <2>3. ~Reads(p)
    BY <2>1, SyncCalls DEF Reads
  <2>4. job[p].fetched = NoneFetched
    BY <2>1 DEF FeedInv, JobInv
  <2>5. Removes(p)
    BY <2>1, <2>2, <2>3, <2>4 DEF Removes
  <2> QED  BY <1>a, <2>1, <2>2, <2>3, <2>5, CopyOne
<1>8. ASSUME NEW p \in Job, Backfill(p)
      PROVE  MovesOn /\ (\A q \in Job : Copies(q)) /\ (UNCHANGED <<rows, applied>> \/ Stores(p))
  <2>1. UNCHANGED mailboxVars
    BY <1>8, BackfillCopies DEF Stores
  <2> QED  BY <1>8, <1>a, <2>1, BackfillCopies
<1>9. ASSUME NEW p \in Job, Advance(p) \/ Fail(p)
      PROVE  MovesOn /\ (\A q \in Job : Copies(q)) /\ UNCHANGED <<rows, applied>>
  <2>1. UNCHANGED <<mailboxVars, rows, applied>> /\ Finish(p)
    BY <1>9 DEF Advance, Fail, tableVars
  <2>2. job'[p] = Idle /\ \A q \in Job \ {p} : job'[q] = job[q]
    BY <2>1 DEF Finish, SyncTypeOK
  <2> QED  BY <1>a, <2>1, <2>2, IdleFields, CopyOne
<1> QED
  BY <1>1, <1>2, <1>3, <1>4, <1>5, <1>6, <1>7, <1>8, <1>9 DEF Next, SyncStep

-----------------------------------------------------------------------------
(* Type correctness *)

RequestsStep == WebhookStep(Next) \/ \E p \in Job : RequestStep(p)

LEMMA SeenType ==
  ASSUME MailboxTypeOK', had \in [Message -> SUBSET SUBSET Label], Seen
  PROVE  /\ had' \in [Message -> SUBSET SUBSET Label]
         /\ \A m \in Message : /\ had[m] \subseteq had'[m]
                               /\ box'[m] # NoRow => box'[m].labels \in had'[m]
<1>1. \A m \in Message : box'[m] # NoRow => box'[m].labels \in SUBSET Label
  BY DEF MailboxTypeOK, Row
<1> QED  BY <1>1 DEF Seen

\* Setting the labels of stored rows keeps them well formed.
LEMMA SetLabelsType ==
  ASSUME SyncTypeOK, NEW p \in Job, SetLabels(p)
  PROVE  TablesTypeOK'
<1>1. rows' \in [Message -> Row \cup {NoRow}]
  <2> SUFFICES ASSUME NEW m \in Message
               PROVE  (IF m \in FetchedBy(p) /\ rows[m] # NoRow
                         THEN [rows[m] EXCEPT !.labels = job[p].fetched[m].labels] ELSE rows[m])
                        \in Row \cup {NoRow}
    BY DEF SetLabels
  <2>1. rows[m] \in Row \cup {NoRow} /\ job[p].fetched[m] \in Row \cup {NoRow}
    BY DEF SyncTypeOK, TablesTypeOK, JobRecord
  <2> QED  BY <2>1 DEF Row, FetchedBy
<1> QED  BY <1>1 DEF SyncTypeOK, TablesTypeOK, SetLabels

LEMMA RequestsType == RequestsTypeOK /\ [RequestsStep]_<<vars, requestVars>> => RequestsTypeOK'
<1> SUFFICES ASSUME RequestsTypeOK, [RequestsStep]_<<vars, requestVars>> PROVE RequestsTypeOK'
  OBVIOUS
<1>1. SyncTypeOK /\ sent \in SUBSET Message /\ had \in [Message -> SUBSET SUBSET Label]
  BY DEF RequestsTypeOK
<1>2. CASE WebhookStep(Next)
  <2>1. SyncTypeOK'
    BY <1>1, <1>2, NextType DEF WebhookStep
  <2>2. had' \in [Message -> SUBSET SUBSET Label] /\ sent' = sent
    BY <1>1, <1>2, <2>1, SeenType DEF WebhookStep, SyncTypeOK
  <2>3. ASSUME NEW p \in Job
        PROVE  job'[p].pc \in SyncPC \cup ReadPC \cup SendPC
    BY <1>1, <1>2, NextCalls DEF WebhookStep, RequestsTypeOK
  <2> QED  BY <1>1, <2>1, <2>2, <2>3 DEF RequestsTypeOK
<1>3. ASSUME NEW p \in Job, RequestStep(p)
      PROVE  RequestsTypeOK'
  <2>1. Waits(p) /\ job' \in [Job -> JobRecord] /\ (Quiet \/ Touches \/ SetLabels(p) \/ StoreSent(p))
    BY <1>1, <1>3, RequestKinds
  <2>2. \A q \in Job : job'[q].pc \in SyncPC \cup ReadPC \cup SendPC
    BY <2>1 DEF Waits, RequestPC, SyncPC, RequestsTypeOK
  <2>3. CASE Quiet
    BY <1>1, <2>1, <2>2, <2>3
       DEF Quiet, RequestsTypeOK, SyncTypeOK, MailboxTypeOK, TablesTypeOK, mailboxVars, tableVars, requestVars
  <2>4. CASE Touches
    <3>1. MailboxTypeOK'
      BY <1>1, <2>4, OwnerType DEF Touches, SyncTypeOK, MailboxTypeOK, mailboxVars
    <3>2. TablesTypeOK' /\ pushed' \in BOOLEAN /\ sent' \in SUBSET Message
      BY <1>1, <2>4 DEF Touches, SyncTypeOK, TablesTypeOK, tableVars
    <3>3. had' \in [Message -> SUBSET SUBSET Label]
      BY <1>1, <2>4, <3>1, SeenType DEF Touches
    <3> QED  BY <2>1, <2>2, <3>1, <3>2, <3>3 DEF RequestsTypeOK, SyncTypeOK
  <2>5. CASE SetLabels(p)
    <3>1. TablesTypeOK'
      BY <1>1, <2>5, SetLabelsType
    <3>2. UNCHANGED <<mailboxVars, pushed, requestVars>>
      BY <2>5 DEF SetLabels
    <3> QED  BY <1>1, <2>1, <2>2, <3>1, <3>2
                DEF RequestsTypeOK, SyncTypeOK, MailboxTypeOK, mailboxVars, requestVars
  <2>6. CASE StoreSent(p)
    <3>1. job[p].fetched \in [Message -> Row \cup {NoRow}]
      BY <1>1 DEF SyncTypeOK, JobRecord
    <3>2. TablesTypeOK'
      BY <1>1, <2>6, <3>1, UpsertType DEF StoreSent, SyncTypeOK
    <3>3. UNCHANGED <<mailboxVars, pushed, requestVars>>
      BY <2>6 DEF StoreSent
    <3> QED  BY <1>1, <2>1, <2>2, <3>2, <3>3
                DEF RequestsTypeOK, SyncTypeOK, MailboxTypeOK, mailboxVars, requestVars
  <2> QED  BY <2>1, <2>3, <2>4, <2>5, <2>6
<1>4. CASE UNCHANGED <<vars, requestVars>>
  BY <1>4 DEF RequestsTypeOK, SyncTypeOK, MailboxTypeOK, TablesTypeOK, vars, requestVars,
     mailboxVars, tableVars
<1> QED  BY <1>2, <1>3, <1>4 DEF RequestsStep

\* Every variable keeps its type, with requests and syncs in any order.
THEOREM RequestsTypeCorrect == RequestsSpec => []RequestsTypeOK
<1>1. RequestsInit => RequestsTypeOK
  <2>1. Idle.pc \in SyncPC
    BY DEF Idle, SyncPC
  <2> QED  BY <2>1, InitType DEF RequestsInit, RequestsTypeOK, Init, JobsInit
<1>2. RequestsTypeOK /\ [RequestsNext]_allRequestVars => RequestsTypeOK'
  BY RequestsType DEF RequestsNext, RequestsStep, allRequestVars
<1> QED  BY <1>1, <1>2, PTL DEF RequestsSpec

-----------------------------------------------------------------------------
(* What the sync promises holds with requests in between *)

\* A request has no obligations towards the watermark.
LEMMA WaitsInv ==
  ASSUME SyncTypeOK, SyncTypeOK', FeedInv, Grows, MailboxInv', NEW p \in Job, Waits(p)
  PROVE  JobInv(job[p])'
<1>1. /\ historyId \in Nat /\ historyId' \in Nat /\ historyId <= historyId'
      /\ oldest \in Nat /\ oldest' \in Nat /\ oldest <= oldest'
  BY DEF historyId, SyncTypeOK, MailboxTypeOK, Grows
<1>2. job'[p].latest <= historyId'
  BY <1>1 DEF Waits, FeedInv, JobInv, SyncTypeOK, JobRecord
<1>3. ASSUME NEW m \in Message, job'[p].fetched[m] # NoRow
      PROVE  job'[p].fetched[m].cursor <= historyId'
  <2>1. CASE job'[p].fetched[m] = box'[m]
    BY <1>3, <2>1 DEF MailboxInv
  <2>2. CASE job'[p].fetched[m] = job[p].fetched[m]
    <3>1. job[p].fetched[m].cursor \in Nat /\ job[p].fetched[m].cursor <= historyId
      BY <1>3, <2>2 DEF FeedInv, JobInv, SyncTypeOK, JobRecord, Row
    <3> QED  BY <1>1, <2>2, <3>1
  <2> QED  BY <1>3, <2>1, <2>2 DEF Waits, Copies
<1>4. job'[p].task = "resync" => oldest' > 0
  BY <1>1 DEF Waits, FeedInv, JobInv
<1>5. job'[p].pc \notin {"list", "fetch", "delete", "advance", "profile", "inbox", "page"}
  BY DEF Waits, RequestPC, ReadPC, SendPC
<1> QED  BY <1>2, <1>3, <1>4, <1>5 DEF JobInv

LEMMA RequestsFeed ==
  ASSUME RequestsTypeOK, RequestsTypeOK', FeedInv, [RequestsStep]_<<vars, requestVars>>
  PROVE  FeedInv'
<1>1. SyncTypeOK /\ SyncTypeOK' /\ sent \in SUBSET Message
  BY DEF RequestsTypeOK
<1>2. CASE WebhookStep(Next) \/ UNCHANGED <<vars, requestVars>>
  BY <1>1, <1>2, NextFeed DEF WebhookStep
<1>3. ASSUME NEW p \in Job, RequestStep(p)
      PROVE  FeedInv'
  <2>1. Waits(p) /\ (Quiet \/ Touches \/ SetLabels(p) \/ StoreSent(p))
    BY <1>1, <1>3, RequestKinds
  <2>2. Grows /\ MailboxInv' /\ TablesInv'
    <3>1. CASE Quiet \/ (Touches /\ UNCHANGED mailboxVars)
      BY <1>1, <3>1, LocalKeeps DEF Quiet, Touches
    <3>2. ASSUME NEW m \in Message, OwnerChanges(m), UNCHANGED tableVars
          PROVE  Grows /\ MailboxInv' /\ TablesInv'
      <4>1. Grows /\ MailboxInv'
        BY <1>1, <3>2, OwnerKeeps
      <4>2. \A n \in Message : applied'[n] <= historyId'
        <5>1. historyId \in Nat /\ historyId' \in Nat /\ historyId <= historyId'
          BY <1>1, <4>1 DEF historyId, SyncTypeOK, MailboxTypeOK, Grows
        <5>2. \A n \in Message : applied'[n] \in Nat /\ applied'[n] <= historyId
          BY <1>1, <3>2 DEF tableVars, FeedInv, TablesInv, SyncTypeOK, TablesTypeOK
        <5> QED  BY <5>1, <5>2
      <4>3. UNCHANGED <<watermark, base>>
        BY <3>2 DEF tableVars
      <4> QED  BY <1>1, <4>1, <4>2, <4>3, GrowsTables DEF FeedInv
    <3>3. CASE SetLabels(p)
      <4>1. UNCHANGED <<mailboxVars, watermark, applied, base>>
        BY <3>3 DEF SetLabels
      <4>2. Grows
        BY <1>1, <4>1 DEF Grows, mailboxVars, historyId, SyncTypeOK, MailboxTypeOK, TablesTypeOK
      <4>3. MailboxInv'
        BY <4>1 DEF FeedInv, MailboxInv, mailboxVars, historyId
      <4>4. TablesInv'
        BY <4>1 DEF FeedInv, TablesInv, NoChangeSkipped, AppliedUpTo, Stored, mailboxVars, historyId
      <4> QED  BY <4>2, <4>3, <4>4
    <3>4. CASE StoreSent(p)
      <4>1. job[p].fetched \in [Message -> Row \cup {NoRow}]
        BY <1>1 DEF SyncTypeOK, JobRecord
      <4>2. \A m \in Message : job[p].fetched[m] # NoRow => job[p].fetched[m].cursor <= historyId
        BY DEF FeedInv, JobInv
      <4>3. UpsertMessages(job[p].fetched) /\ UNCHANGED <<mailboxVars, watermark, base>>
        BY <3>4 DEF StoreSent
      <4> QED  BY <1>1, <4>1, <4>2, <4>3, UpsertKeeps
    <3> QED  BY <2>1, <3>1, <3>2, <3>3, <3>4 DEF Touches
  <2>3. JobInv(job[p])'
    BY <1>1, <2>1, <2>2, WaitsInv
  <2> QED  BY <1>1, <2>1, <2>2, <2>3, OthersKeep DEF Waits, FeedInv
<1> QED  BY <1>2, <1>3 DEF RequestsStep

\* The labels of a read request are those of the newest state, if it runs in turn.
LEMMA TurnSetsLabels ==
  ASSUME SyncTypeOK, SyncTypeOK', FeedInv, TurnInv, NoteOverlap, NEW p \in Job, job[p] # Idle,
         SetLabels(p)
  PROVE  TurnInv'
<1>1. UNCHANGED <<log, box, applied>>
  BY DEF SetLabels, mailboxVars
<1>2. job'[p] = Idle /\ \A q \in Job \ {p} : job'[q] = job[q]
  BY DEF SetLabels, Finish, SyncTypeOK
<1>3. \A q \in Job : \A m \in Message : job'[q].fetched[m] \in {NoRow, job[q].fetched[m]}
  BY <1>2, IdleFields
<1>4. CopyInv'
  <2>1. ASSUME NEW m \in Message, NEW q \in Job, job'[q].fetched[m] # NoRow
        PROVE  /\ box'[m] # NoRow => job'[q].fetched[m].cursor <= box'[m].cursor
               /\ LastChange(m, job[q].fetched[m].cursor)' => job'[q].fetched[m] = box'[m]
    <3>1. job'[q].fetched[m] = job[q].fetched[m]
      BY <1>3, <2>1
    <3>2. LastChange(m, job[q].fetched[m].cursor)' => LastChange(m, job[q].fetched[m].cursor)
      BY <1>1, <3>1 DEF LastChange, historyId
    <3> QED  BY <1>1, <2>1, <3>1, <3>2 DEF TurnInv, CopyInv
  <2>2. \A m \in Message : box'[m] # NoRow => applied'[m] <= box'[m].cursor
    BY <1>1 DEF TurnInv, CopyInv
  <2> QED  BY <2>1, <2>2 DEF CopyInv
<1>5. RemoveInv'
  <2>1. ASSUME NEW q \in Job
        PROVE  /\ \A m \in job'[q].remove : Known(m) /\ box[m] = NoRow
               /\ job'[q].pc = "fetch" => \A m \in job'[q].todo : Known(m)
    <3>1. CASE q = p
      BY <1>2, <3>1, IdleFields
    <3>2. CASE q # p
      BY <1>2, <3>2 DEF TurnInv, RemoveInv
    <3> QED  BY <3>1, <3>2
  <2> QED  BY <1>1, <2>1 DEF RemoveInv, Known, historyId
<1>6. ASSUME ~overlapped'
      PROVE  ~Overlap' /\ NewestStored' /\ \A q \in Job : HoldsNewest(job[q])'
  <2>1. ~Overlap' /\ NewestStored /\ HoldsNewest(job[p]) /\ \A q \in Job \ {p} : job[q] = Idle
    BY <1>6, OthersIdle
  <2>2. \A m \in Message :
          rows'[m] = IF job[p].fetched[m] # NoRow /\ rows[m] # NoRow
                       THEN [rows[m] EXCEPT !.labels = job[p].fetched[m].labels] ELSE rows[m]
    BY DEF SetLabels, FetchedBy
  <2>3. ASSUME NEW m \in Message
        PROVE  /\ LastChange(m, applied[m])' => rows'[m] = box'[m]
               /\ rows'[m] # NoRow => rows'[m].cursor <= applied'[m]
    <3> DEFINE copy == job[p].fetched[m]
    <3>1. LastChange(m, applied[m])' => LastChange(m, applied[m])
      BY <1>1 DEF LastChange, historyId
    <3>2. CASE copy = NoRow \/ rows[m] = NoRow
      BY <1>1, <2>1, <2>2, <3>1, <3>2 DEF NewestStored
    <3>3. CASE copy # NoRow /\ rows[m] # NoRow
      <4>1. rows[m] \in Row /\ copy \in Row /\ applied[m] \in Nat
        BY <3>3 DEF SyncTypeOK, TablesTypeOK, JobRecord
      <4>2. rows'[m] = [rows[m] EXCEPT !.labels = copy.labels]
        BY <2>2, <3>3
      <4>3. rows'[m].cursor = rows[m].cursor
        BY <4>1, <4>2 DEF Row
      <4>4. ASSUME LastChange(m, applied[m])
            PROVE  copy = box[m]
        <5>1. applied[m] <= copy.cursor /\ copy.cursor \in Nat
          BY <2>1, <3>3, <4>1 DEF HoldsNewest, Row
        <5>2. LastChange(m, copy.cursor)
          BY <4>1, <4>4, <5>1 DEF LastChange
        <5> QED  BY <3>3, <5>2 DEF TurnInv, CopyInv
      <4>5. LastChange(m, applied[m]) => rows'[m] = box[m]
        <5> SUFFICES ASSUME LastChange(m, applied[m]) PROVE rows'[m] = box[m]
          OBVIOUS
        <5>1. rows[m] = copy
          BY <2>1, <4>4 DEF NewestStored
        <5>2. [rows[m] EXCEPT !.labels = copy.labels] = rows[m]
          BY <4>1, <5>1 DEF Row
        <5> QED  BY <4>2, <4>4, <5>1, <5>2
      <4>6. rows[m].cursor <= applied[m]
        BY <2>1, <3>3 DEF NewestStored
      <4> QED  BY <1>1, <3>1, <4>3, <4>5, <4>6
    <3> QED  BY <3>2, <3>3
  <2>4. NewestStored'
    BY <2>3 DEF NewestStored
  <2>5. ASSUME NEW q \in Job, NEW m \in Message
        PROVE  job'[q].fetched[m] = NoRow
    BY <1>2, <2>1, IdleFields
  <2> QED  BY <2>1, <2>4, <2>5 DEF HoldsNewest
<1> QED  BY <1>4, <1>5, <1>6 DEF TurnInv

LEMMA RequestsTurn ==
  ASSUME RequestsTypeOK, RequestsTypeOK', FeedInv, TurnInv, NoteOverlap, RequestsStep
  PROVE  TurnInv'
<1>1. SyncTypeOK /\ SyncTypeOK' /\ sent \in SUBSET Message
  BY DEF RequestsTypeOK
<1>2. CASE WebhookStep(Next)
  BY <1>1, <1>2, TurnStep DEF WebhookStep
<1>3. ASSUME NEW p \in Job, RequestStep(p)
      PROVE  TurnInv'
  <2>1. Waits(p) /\ (Quiet \/ Touches \/ SetLabels(p) \/ StoreSent(p))
    BY <1>1, <1>3, RequestKinds
  <2>2. CASE Quiet \/ Touches
    <3>1. MovesOn
      <4>1. UNCHANGED mailboxVars \/ \E m \in Message : OwnerChanges(m)
        BY <2>2 DEF Quiet, Touches
      <4>2. UNCHANGED tableVars
        BY <2>2 DEF Quiet, Touches
      <4> QED  BY <1>1, <4>1, <4>2, StayMovesOn, ChangeMovesOn DEF mailboxVars
    <3>2. UNCHANGED <<rows, applied>>
      BY <2>2 DEF Quiet, Touches, tableVars
    <3>3. \A q \in Job : \A m \in Message : job'[q].fetched[m] \in {NoRow, job[q].fetched[m], box'[m]}
      BY <2>1 DEF Waits, Copies
    <3>4. ASSUME NEW q \in Job
          PROVE  /\ \A m \in job'[q].remove : Known(m) /\ box[m] = NoRow
                 /\ job'[q].pc = "fetch" => \A m \in job'[q].todo : Known(m)
      <4>1. CASE q = p
        <5>1. job'[p].remove = {} \/ job'[p].remove = job[p].remove
          BY <2>1 DEF Waits
        <5>2. job'[p].pc # "fetch"
          BY <2>1 DEF Waits, RequestPC, ReadPC, SendPC
        <5> QED  BY <4>1, <5>1, <5>2 DEF TurnInv, RemoveInv
      <4>2. CASE q # p
        <5>1. job'[q] = job[q]
          BY <2>1, <4>2 DEF Waits
        <5> QED  BY <5>1 DEF TurnInv, RemoveInv
      <4> QED  BY <4>1, <4>2
    <3> QED  BY <1>1, <3>1, <3>2, <3>3, <3>4, TurnKeeps
  <2>3. CASE SetLabels(p)
    <3>1. job[p] # Idle
      BY <2>3, IdleFields DEF SetLabels
    <3> QED  BY <1>1, <2>3, <3>1, TurnSetsLabels
  <2>4. CASE StoreSent(p)
    <3>1. job'[p] = Idle /\ \A q \in Job \ {p} : job'[q] = job[q]
      BY <1>1, <2>4 DEF StoreSent, Finish, SyncTypeOK
    <3>2. job[p] # Idle
      BY <2>4, IdleFields DEF StoreSent
    <3>3. job'[p].fetched = NoneFetched /\ job'[p].remove = {} /\ job'[p].pc # "fetch"
      BY <3>1, IdleFields
    <3>4. UNCHANGED mailboxVars /\ UpsertMessages(job[p].fetched)
      BY <2>4 DEF StoreSent
    <3> QED  BY <1>1, <3>1, <3>2, <3>3, <3>4, TurnStores
  <2> QED  BY <2>1, <2>2, <2>3, <2>4
<1> QED  BY <1>2, <1>3 DEF RequestsStep

\* One invocation at a time, sync or request: each row behind the watermark is what
\* Gmail has, with the labels of read requests and the copies of sent messages.
THEOREM RequestsRowsCurrent == RequestsSpec => []RowsCurrentInTurn
<1>1. RequestsInit => TurnInit
  BY DEF RequestsInit, TurnInit
<1>2. RequestsSpec => []RequestsTypeOK
  BY RequestsTypeCorrect
<1>3. TurnInit => FeedInv /\ TurnInv
  BY InitFeed, InitTurn DEF TurnInit
<1>4. RequestsTypeOK /\ RequestsTypeOK' /\ FeedInv /\ TurnInv /\ [RequestsNext]_allRequestVars
        => FeedInv' /\ TurnInv'
  <2> SUFFICES ASSUME RequestsTypeOK, RequestsTypeOK', FeedInv, TurnInv,
                      [RequestsNext]_allRequestVars
               PROVE  FeedInv' /\ TurnInv'
    OBVIOUS
  <2>1. CASE RequestsStep /\ NoteOverlap
    BY <2>1, RequestsFeed, RequestsTurn
  <2>2. CASE UNCHANGED allRequestVars
    BY <2>2, RequestsFeed, TurnStays DEF allRequestVars, RequestsStep
  <2> QED  BY <2>1, <2>2 DEF RequestsNext, RequestsStep
<1>5. RequestsTypeOK /\ FeedInv /\ TurnInv => RowsCurrentInTurn
  BY TurnRowsCurrent DEF RequestsTypeOK
<1> QED  BY <1>1, <1>2, <1>3, <1>4, <1>5, PTL DEF RequestsSpec

-----------------------------------------------------------------------------
(* The labels of rows *)

\* No step forgets labels a message has had, and each records those it leaves.
LEMMA HadGrows ==
  ASSUME RequestsTypeOK, RequestsTypeOK', HadInv, RequestsStep
  PROVE  \A m \in Message : /\ had[m] \subseteq had'[m]
                            /\ box'[m] # NoRow => box'[m].labels \in had'[m]
<1>1. SyncTypeOK /\ SyncTypeOK' /\ sent \in SUBSET Message
  BY DEF RequestsTypeOK
<1>2. CASE Seen
  BY <1>1, <1>2, SeenType DEF RequestsTypeOK, SyncTypeOK
<1>3. CASE UNCHANGED <<box, had>>
  BY <1>3 DEF HadInv
<1>4. CASE WebhookStep(Next)
  BY <1>2, <1>4 DEF WebhookStep
<1>5. ASSUME NEW p \in Job, RequestStep(p)
      PROVE  Seen \/ UNCHANGED <<box, had>>
  <2>1. Quiet \/ Touches \/ SetLabels(p) \/ StoreSent(p)
    BY <1>1, <1>5, RequestKinds
  <2> QED  BY <2>1 DEF Quiet, Touches, SetLabels, StoreSent, mailboxVars, requestVars
<1> QED  BY <1>2, <1>3, <1>4, <1>5 DEF RequestsStep

\* Every step takes a row from what a job holds, or the labels of one.
LEMMA StepRows ==
  ASSUME RequestsTypeOK, RequestsTypeOK', FeedInv, RequestsStep
  PROVE  /\ MovesOn /\ \A p \in Job : Copies(p)
         /\ \/ UNCHANGED <<rows, applied>>
            \/ \E p \in Job : Stores(p) \/ Removes(p) \/ SetLabels(p)
<1>1. SyncTypeOK /\ SyncTypeOK' /\ sent \in SUBSET Message
  BY DEF RequestsTypeOK
<1>2. CASE WebhookStep(Next)
  BY <1>1, <1>2, NextKinds DEF WebhookStep
<1>3. ASSUME NEW p \in Job, RequestStep(p)
      PROVE  /\ MovesOn /\ \A q \in Job : Copies(q)
             /\ UNCHANGED <<rows, applied>> \/ Stores(p) \/ SetLabels(p)
  <2>1. Waits(p) /\ (Quiet \/ Touches \/ SetLabels(p) \/ StoreSent(p))
    BY <1>1, <1>3, RequestKinds
  <2>2. \A q \in Job : Copies(q)
    BY <2>1, CopyOne DEF Waits
  <2>3. MovesOn
    <3>1. UNCHANGED mailboxVars \/ (UNCHANGED tableVars /\ \E m \in Message : OwnerChanges(m))
      BY <2>1 DEF Quiet, Touches, SetLabels, StoreSent
    <3> QED  BY <1>1, <3>1, StayMovesOn, ChangeMovesOn DEF mailboxVars
  <2>4. StoreSent(p) => Stores(p)
    BY <2>1 DEF StoreSent, Stores, Waits, Reads, ReadPC
  <2>5. Quiet \/ Touches => UNCHANGED <<rows, applied>>
    BY DEF Quiet, Touches, tableVars
  <2> QED  BY <2>1, <2>2, <2>3, <2>4, <2>5
<1> QED  BY <1>2, <1>3 DEF RequestsStep

LEMMA StepHad ==
  ASSUME RequestsTypeOK, RequestsTypeOK', FeedInv, HadInv, RequestsStep
  PROVE  HadInv'
<1>1. \A m \in Message : /\ had[m] \subseteq had'[m]
                         /\ box'[m] # NoRow => box'[m].labels \in had'[m]
  BY HadGrows
<1>2. /\ \A p \in Job : Copies(p)
      /\ \/ UNCHANGED <<rows, applied>>
         \/ \E p \in Job : Stores(p) \/ Removes(p) \/ SetLabels(p)
  BY StepRows
<1>3. ASSUME NEW p \in Job, NEW m \in Message, job'[p].fetched[m] # NoRow
      PROVE  job'[p].fetched[m].labels \in had'[m]
  <2>1. CASE job'[p].fetched[m] = box'[m]
    BY <1>1, <1>3, <2>1
  <2>2. CASE job'[p].fetched[m] = job[p].fetched[m]
    BY <1>1, <1>3, <2>2 DEF HadInv
  <2> QED  BY <1>2, <1>3, <2>1, <2>2 DEF Copies
<1>4. ASSUME NEW m \in Message, rows'[m] # NoRow
      PROVE  rows'[m].labels \in had[m]
  <2>1. CASE rows'[m] = rows[m]
    BY <1>4, <2>1 DEF HadInv
  <2>2. ASSUME NEW p \in Job, rows'[m] = job[p].fetched[m]
        PROVE  rows'[m].labels \in had[m]
    BY <1>4, <2>2 DEF HadInv
  <2>3. ASSUME NEW p \in Job, SetLabels(p), rows'[m] # rows[m]
        PROVE  rows'[m].labels \in had[m]
    <3>1. /\ rows[m] # NoRow /\ job[p].fetched[m] # NoRow
          /\ rows'[m] = [rows[m] EXCEPT !.labels = job[p].fetched[m].labels]
      BY <2>3 DEF SetLabels, FetchedBy
    <3>2. rows[m] \in Row
      BY <3>1 DEF RequestsTypeOK, SyncTypeOK, TablesTypeOK
    <3>3. rows'[m].labels = job[p].fetched[m].labels
      BY <3>1, <3>2 DEF Row
    <3> QED  BY <3>1, <3>3 DEF HadInv
  <2> QED  BY <1>2, <1>4, <2>1, <2>2, <2>3 DEF Stores, Removes, UpsertMessages, DeleteMessages
<1> QED  BY <1>1, <1>3, <1>4 DEF HadInv

\* Whatever overlaps and fails, no row shows labels the message has not had in Gmail.
THEOREM LabelsFromGmailTheorem == RequestsSpec => []LabelsFromGmail
<1>1. RequestsSpec => []RequestsTypeOK
  BY RequestsTypeCorrect
<1>2. RequestsInit => FeedInv /\ HadInv
  <2>1. RequestsInit => HadInv
    BY IdleFields DEF RequestsInit, Init, MailboxInit, TablesInit, JobsInit, HadInv
  <2> QED  BY <2>1, InitFeed DEF RequestsInit
<1>3. RequestsTypeOK /\ RequestsTypeOK' /\ FeedInv /\ HadInv /\ [RequestsNext]_allRequestVars
        => FeedInv' /\ HadInv'
  <2> SUFFICES ASSUME RequestsTypeOK, RequestsTypeOK', FeedInv, HadInv, [RequestsNext]_allRequestVars
               PROVE  FeedInv' /\ HadInv'
    OBVIOUS
  <2>1. CASE RequestsStep
    BY <2>1, RequestsFeed, StepHad
  <2>2. CASE UNCHANGED allRequestVars
    <3>1. FeedInv'
      BY <2>2, RequestsFeed DEF allRequestVars
    <3>2. HadInv'
      BY <2>2 DEF allRequestVars, HadInv, vars, mailboxVars, tableVars, requestVars
    <3> QED  BY <3>1, <3>2
  <2> QED  BY <2>1, <2>2 DEF RequestsNext, RequestsStep
<1>4. HadInv => LabelsFromGmail
  BY DEF HadInv, LabelsFromGmail
<1> QED  BY <1>1, <1>2, <1>3, <1>4, PTL DEF RequestsSpec

-----------------------------------------------------------------------------
(* Deleted messages stay deleted *)

LEMMA StepGone ==
  ASSUME RequestsTypeOK, RequestsTypeOK', FeedInv, TurnInv, GoneInv, OneWriter, RequestsStep
  PROVE  GoneInv'
<1>1. /\ MovesOn /\ \A p \in Job : Copies(p)
      /\ \/ UNCHANGED <<rows, applied>>
         \/ \E p \in Job : Stores(p) \/ Removes(p) \/ SetLabels(p)
  BY StepRows
<1>2. \A m \in Message : applied[m] \in Nat /\ applied'[m] \in Nat /\ applied[m] <= historyId
  BY DEF FeedInv, TablesInv, RequestsTypeOK, SyncTypeOK, TablesTypeOK
<1>3. ASSUME NEW m \in Message, box'[m] = NoRow, LastChange(m, applied[m])', applied'[m] = applied[m],
             rows[m] = NoRow => rows'[m] = NoRow
      PROVE  rows'[m] = NoRow
  <2>1. PICK a \in Nat : a = applied[m]
    BY <1>2
  <2>2. LastChange(m, a)'
    BY <1>3, <2>1 DEF LastChange
  <2>3. LastChange(m, a) /\ box'[m] = box[m]
    BY <1>1, <1>2, <2>1, <2>2 DEF MovesOn
  <2> QED  BY <1>3, <2>1, <2>3 DEF GoneInv
\* A copy taken now is at least as new as what is stored.
<1>4. ASSUME NEW m \in Message, box'[m] # NoRow
      PROVE  applied[m] <= box'[m].cursor
  <2>1. historyId \in Nat /\ box'[m].cursor \in Nat
    BY <1>4 DEF RequestsTypeOK, SyncTypeOK, MailboxTypeOK, historyId, Row
  <2>2. CASE box'[m] = box[m]
    BY <1>4, <2>2 DEF TurnInv, CopyInv
  <2>3. CASE box'[m].cursor > historyId
    BY <1>2, <2>1, <2>3
  <2> QED  BY <1>1, <1>4, <2>2, <2>3 DEF MovesOn
<1>5. ASSUME UNCHANGED applied, NEW p \in Job, ~Reads(p)'
      PROVE  HoldsNewest(job[p])'
  <2>1. ASSUME NEW m \in Message, job'[p].fetched[m] # NoRow
        PROVE  applied'[m] <= job'[p].fetched[m].cursor
    <3>1. CASE job'[p].fetched[m] = box'[m]
      BY <1>4, <1>5, <2>1, <3>1
    <3>2. CASE job'[p].fetched[m] = job[p].fetched[m] /\ ~Reads(p)
      BY <1>5, <2>1, <3>2 DEF GoneInv, HoldsNewest
    <3> QED  BY <1>1, <1>5, <2>1, <3>1, <3>2 DEF Copies
  <2> QED  BY <2>1 DEF HoldsNewest
<1>6. CASE UNCHANGED <<rows, applied>>
  BY <1>3, <1>5, <1>6 DEF GoneInv
<1>7. ASSUME NEW p \in Job, SetLabels(p)
      PROVE  GoneInv'
  <2>1. UNCHANGED applied /\ \A m \in Message : rows[m] = NoRow => rows'[m] = NoRow
    BY <1>7 DEF SetLabels
  <2> QED  BY <1>3, <1>5, <2>1 DEF GoneInv
\* A step that stores is the only writer's.
<1>8. ASSUME NEW p \in Job, ~Reads(p), \A q \in Job \ {p} : job'[q] = job[q],
             NEW q \in Job, ~Reads(q)'
      PROVE  q = p
  BY <1>8 DEF OneWriter, Reads
<1>9. ASSUME NEW p \in Job, Stores(p)
      PROVE  GoneInv'
  <2> DEFINE batch == job[p].fetched
  <2>1. /\ UpsertMessages(batch) /\ ~Reads(p) /\ UNCHANGED <<log, box>>
        /\ \A q \in Job \ {p} : job'[q] = job[q]
    BY <1>9 DEF Stores, mailboxVars
  <2>2. HoldsNewest(job[p])
    BY <2>1 DEF GoneInv
  <2>3. \A m \in Message : batch[m] # NoRow => batch[m].cursor \in Nat
    BY DEF RequestsTypeOK, SyncTypeOK, JobRecord, Row
  <2>4. \A m \in Message :
          /\ batch[m] = NoRow => rows'[m] = rows[m] /\ applied'[m] = applied[m]
          /\ batch[m] # NoRow => applied'[m] = batch[m].cursor
    BY <1>2, <2>1, <2>2, <2>3 DEF UpsertMessages, HoldsNewest
  <2>5. ASSUME NEW m \in Message, box'[m] = NoRow, LastChange(m, applied[m])'
        PROVE  rows'[m] = NoRow
    <3>1. CASE batch[m] = NoRow
      BY <1>3, <2>4, <2>5, <3>1
    <3>2. CASE batch[m] # NoRow
      <4>1. LastChange(m, batch[m].cursor)
        BY <2>1, <2>4, <2>5, <3>2 DEF LastChange, historyId
      <4>2. batch[m] = box[m]
        BY <3>2, <4>1 DEF TurnInv, CopyInv
      <4> QED  BY <2>1, <2>5, <3>2, <4>2
    <3> QED  BY <3>1, <3>2
  <2>6. ASSUME NEW q \in Job, ~Reads(q)'
        PROVE  HoldsNewest(job[q])'
    <3>1. q = p
      BY <1>8, <2>1, <2>6
    <3>2. ASSUME NEW m \in Message, job'[p].fetched[m] # NoRow
          PROVE  applied'[m] <= job'[p].fetched[m].cursor
      <4>1. CASE job'[p].fetched[m] = box'[m]
        <5>1. applied[m] <= box[m].cursor /\ (batch[m] # NoRow => batch[m].cursor <= box[m].cursor)
          BY <2>1, <3>2, <4>1 DEF TurnInv, CopyInv
        <5> QED  BY <2>1, <2>4, <4>1, <5>1
      <4>2. CASE job'[p].fetched[m] = job[p].fetched[m]
        BY <2>3, <2>4, <3>2, <4>2
      <4> QED  BY <1>1, <3>2, <4>1, <4>2 DEF Copies
    <3> QED  BY <3>1, <3>2 DEF HoldsNewest
  <2> QED  BY <2>5, <2>6 DEF GoneInv
<1>10. ASSUME NEW p \in Job, Removes(p)
       PROVE  GoneInv'
  <2>1. /\ DeleteMessages(job[p].remove) /\ ~Reads(p) /\ UNCHANGED <<log, box>>
        /\ \A q \in Job \ {p} : job'[q] = job[q]
    BY <1>10 DEF Removes, mailboxVars
  <2>2. \A m \in Message :
          /\ m \in job[p].remove => rows'[m] = NoRow /\ box[m] = NoRow
          /\ m \notin job[p].remove => rows'[m] = rows[m] /\ applied'[m] = applied[m]
    BY <2>1 DEF DeleteMessages, TurnInv, RemoveInv
  <2>3. ASSUME NEW m \in Message, box'[m] = NoRow, LastChange(m, applied[m])'
        PROVE  rows'[m] = NoRow
    BY <1>3, <2>2, <2>3
  <2>4. ASSUME NEW q \in Job, ~Reads(q)'
        PROVE  HoldsNewest(job[q])'
    <3>1. q = p
      BY <1>8, <2>1, <2>4
    <3>2. ASSUME NEW m \in Message, job'[p].fetched[m] # NoRow
          PROVE  applied'[m] <= job'[p].fetched[m].cursor
      <4>1. job'[p].fetched[m] = box'[m]
        BY <1>1, <1>10, <3>2 DEF Copies, Removes, NoneFetched
      <4>2. m \notin job[p].remove
        BY <2>1, <2>2, <3>2, <4>1
      <4> QED  BY <1>4, <2>2, <3>2, <4>1, <4>2
    <3> QED  BY <3>1, <3>2 DEF HoldsNewest
  <2> QED  BY <2>3, <2>4 DEF GoneInv
<1> QED  BY <1>1, <1>6, <1>7, <1>9, <1>10

LEMMA StaysGone ==
  ASSUME GoneInv, UNCHANGED allRequestVars
  PROVE  GoneInv'
BY DEF GoneInv, Reads, HoldsNewest, LastChange, historyId, allRequestVars, vars, mailboxVars, tableVars

LEMMA InitGone == RequestsInit => GoneInv
<1> SUFFICES ASSUME RequestsInit PROVE GoneInv
  OBVIOUS
<1>1. rows = [m \in Message |-> NoRow] /\ job = [p \in Job |-> Idle]
  BY DEF RequestsInit, Init, TablesInit, JobsInit
<1>2. \A p \in Job : \A m \in Message : job[p].fetched[m] = NoRow
  BY <1>1 DEF Idle, NoneFetched
<1> QED  BY <1>1, <1>2 DEF GoneInv, HoldsNewest

\* Once it is stored that a message is gone, whatever its last change was.
LEMMA GoneHasNoRow ==
  ASSUME RequestsTypeOK, FeedInv, GoneInv
  PROVE  DeletedStayDeleted
<1> SUFFICES ASSUME NEW i \in base + 1 .. historyId, Settled(i), log[i].type = "deleted"
             PROVE  rows[log[i].messageId] = NoRow
  BY DEF DeletedStayDeleted
<1> DEFINE m == log[i].messageId
<1>1. base \in Nat /\ historyId \in Nat /\ i \in 1..historyId
  BY DEF RequestsTypeOK, SyncTypeOK, TablesTypeOK, MailboxTypeOK, historyId
<1>2. m \in Message /\ applied[m] \in Nat
  BY <1>1, LogMessage DEF RequestsTypeOK, SyncTypeOK, TablesTypeOK
<1>3. applied[m] >= i
  BY <1>1 DEF Settled, FeedInv, TablesInv, NoChangeSkipped, AppliedUpTo, Stored
<1>4. \A j \in i + 1 .. historyId : log[j].messageId # m
  BY DEF Settled, Deciding
<1>5. LastChange(m, applied[m])
  BY <1>1, <1>2, <1>3, <1>4 DEF LastChange
<1>6. box[m] = NoRow
  BY <1>1 DEF FeedInv, MailboxInv
<1> QED  BY <1>2, <1>5, <1>6 DEF GoneInv

\* Read requests may overlap a sync, or a request that sends: as long as of the jobs
\* that run at once only one stores rows, none brings back a message whose deletion
\* the watermark has passed.
THEOREM DeletedStayDeletedTheorem ==
  RequestsSpec /\ []OneWriter => []DeletedStayDeleted
<1>1. RequestsInit => TurnInit
  BY DEF RequestsInit, TurnInit
<1>2. RequestsSpec => []RequestsTypeOK
  BY RequestsTypeCorrect
<1>3. RequestsInit => FeedInv /\ TurnInv /\ GoneInv
  BY <1>1, InitFeed, InitTurn, InitGone DEF TurnInit
<1>4. RequestsTypeOK /\ RequestsTypeOK' /\ OneWriter /\ FeedInv /\ TurnInv /\ GoneInv
      /\ [RequestsNext]_allRequestVars
        => FeedInv' /\ TurnInv' /\ GoneInv'
  <2> SUFFICES ASSUME RequestsTypeOK, RequestsTypeOK', OneWriter, FeedInv, TurnInv, GoneInv,
                      [RequestsNext]_allRequestVars
               PROVE  FeedInv' /\ TurnInv' /\ GoneInv'
    OBVIOUS
  <2>1. CASE RequestsStep /\ NoteOverlap
    BY <2>1, RequestsFeed, RequestsTurn, StepGone
  <2>2. CASE UNCHANGED allRequestVars
    BY <2>2, RequestsFeed, TurnStays, StaysGone DEF allRequestVars, RequestsStep
  <2> QED  BY <2>1, <2>2 DEF RequestsNext, RequestsStep
<1>5. RequestsTypeOK /\ FeedInv /\ GoneInv => DeletedStayDeleted
  BY GoneHasNoRow
<1> QED  BY <1>2, <1>3, <1>4, <1>5, PTL DEF RequestsSpec

=============================================================================
