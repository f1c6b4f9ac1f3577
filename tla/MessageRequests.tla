-------------------------- MODULE MessageRequests ---------------------------
(***************************************************************************)
(* The two API requests that change the mailbox, next to the webhook's     *)
(* sync: PATCH /messages/:id/read (setMessageReadState of                  *)
(* src/read-state/index.ts) and POST /messages/send (sendAndStore of       *)
(* src/send/index.ts).  Each writes to Gmail first and to the tables       *)
(* second, and Gmail's change comes back to the sync as a push.            *)
(***************************************************************************)
EXTENDS SyncInTurn

CONSTANTS Unread, Sent   \* the labels UNREAD and SENT
ASSUME UnreadAssumption == Unread \in Label

VARIABLES
  had,   \* history: every set of labels a message has had in Gmail
  sent   \* history: the messages that messages.send accepted

requestVars == <<had, sent>>

RequestsInit ==
  /\ Init
  /\ had = [m \in Message |-> {}]
  /\ sent = {}
  /\ overlapped = FALSE

\* Every step that changes the account records the labels it leaves.
Seen == had' = [m \in Message |-> IF box'[m] = NoRow THEN had[m] ELSE had[m] \cup {box'[m].labels}]

-----------------------------------------------------------------------------
(* setMessageReadState *)

\* A request for one message, of this user: another's is not in these rows.
ReadRequest(p) ==
  /\ job[p].pc = "idle"
  /\ \E m \in Message : job' = [job EXCEPT ![p] = [Idle EXCEPT !.pc = "labels", !.todo = {m}]]
  /\ UNCHANGED <<mailboxVars, tableVars, pushed, requestVars>>

\* getMessageLabels: 404 unless the message is stored.
FindStored(p) ==
  /\ job[p].pc = "labels"
  /\ \E m \in job[p].todo :
       IF rows[m] = NoRow
         THEN Finish(p)
         ELSE \E pc \in {"markRead", "markUnread"} : job' = [job EXCEPT ![p].pc = pc]
  /\ UNCHANGED <<mailboxVars, tableVars, pushed, requestVars>>

\* setReadState: messages.modify, which answers with the labels the message now has.
\* It writes a history record only if it changes them.
Modify(p) ==
  /\ job[p].pc \in {"markRead", "markUnread"}
  /\ \E m \in job[p].todo :
       LET labels == IF job[p].pc = "markRead" THEN box[m].labels \ {Unread}
                                               ELSE box[m].labels \cup {Unread}
       IN /\ box[m] # NoRow
          /\ \/ Relabel(m, labels) /\ pushed' = TRUE
             \/ labels = box[m].labels /\ UNCHANGED <<mailboxVars, pushed>>
          /\ job' = [job EXCEPT ![p].pc = "setLabels", ![p].fetched[m] = box'[m]]
  /\ Seen
  /\ UNCHANGED <<tableVars, sent>>

ModifyNotFound(p) ==
  /\ job[p].pc \in {"markRead", "markUnread"}
  /\ \E m \in job[p].todo : box[m] = NoRow
  /\ Finish(p)
  /\ UNCHANGED <<mailboxVars, tableVars, pushed, requestVars>>

\* Mutant: the labels are worked out from the stored ones.
SetLabelsGuessed(p) ==
  /\ job[p].pc = "setLabels"
  /\ rows' = [m \in Message |->
                IF m \in FetchedBy(p) /\ rows[m] # NoRow
                  THEN [rows[m] EXCEPT !.labels = (@ \ {Unread})
                                         \cup (job[p].fetched[m].labels \cap {Unread})]
                  ELSE rows[m]]
  /\ Finish(p)
  /\ UNCHANGED <<mailboxVars, watermark, applied, base, pushed, requestVars>>

\* Mutant: the message is upserted with its labels.
SetLabelsUpserted(p) ==
  /\ job[p].pc = "setLabels"
  /\ rows' = [m \in Message |-> IF m \in FetchedBy(p) THEN job[p].fetched[m] ELSE rows[m]]
  /\ Finish(p)
  /\ UNCHANGED <<mailboxVars, watermark, applied, base, pushed, requestVars>>

\* setMessageLabels: an UPDATE of label_ids alone, of the row if there still is one.
SetLabels(p) ==
  /\ job[p].pc = "setLabels"
  /\ rows' = [m \in Message |->
                IF m \in FetchedBy(p) /\ rows[m] # NoRow
                  THEN [rows[m] EXCEPT !.labels = job[p].fetched[m].labels] ELSE rows[m]]
  /\ Finish(p)
  /\ UNCHANGED <<mailboxVars, watermark, applied, base, pushed, requestVars>>

-----------------------------------------------------------------------------
(* sendAndStore *)

SendRequest(p) ==
  /\ job[p].pc = "idle"
  /\ job' = [job EXCEPT ![p] = [Idle EXCEPT !.pc = "send"]]
  /\ UNCHANGED <<mailboxVars, tableVars, pushed, requestVars>>

\* messages.send: a new message in the account.
SendMessage(p) ==
  /\ job[p].pc = "send"
  /\ \E m \in Message :
       /\ Arrive(m, {Sent} \cap Label)
       /\ sent' = sent \cup {m}
       /\ job' = [job EXCEPT ![p].pc = "getSent", ![p].todo = {m}]
  /\ pushed' = TRUE
  /\ Seen
  /\ UNCHANGED tableVars

GetSent(p) ==
  /\ job[p].pc = "getSent"
  /\ \E m \in job[p].todo :
       /\ box[m] # NoRow
       /\ job' = [job EXCEPT ![p].pc = "storeSent", ![p].fetched[m] = box[m]]
  /\ UNCHANGED <<mailboxVars, tableVars, pushed, requestVars>>

StoreSent(p) ==
  /\ job[p].pc = "storeSent"
  /\ UpsertMessages(job[p].fetched)
  /\ Finish(p)
  /\ UNCHANGED <<mailboxVars, watermark, base, pushed, requestVars>>

\* getMessage or upsertMessages fails: logged, and still 201 with stored: false.
SentNotStored(p) ==
  /\ job[p].pc \in {"getSent", "storeSent"}
  /\ Finish(p)
  /\ UNCHANGED <<mailboxVars, tableVars, pushed, requestVars>>

-----------------------------------------------------------------------------

\* Gmail refuses the change, for its quota say: 502 or 429, and nothing is written.
Refused(p) ==
  /\ job[p].pc \in {"markRead", "markUnread", "send"}
  /\ Finish(p)
  /\ UNCHANGED <<mailboxVars, tableVars, pushed, requestVars>>

ReadStep(p) == ReadRequest(p) \/ FindStored(p) \/ Modify(p) \/ ModifyNotFound(p) \/ SetLabels(p)

SendStep(p) ==
  SendRequest(p) \/ SendMessage(p) \/ GetSent(p) \/ StoreSent(p) \/ SentNotStored(p)

RequestStep(p) == ReadStep(p) \/ SendStep(p) \/ Refused(p)

\* A step of the webhook's sync.
WebhookStep(step) == step /\ Seen /\ UNCHANGED sent

RequestsNext ==
  /\ WebhookStep(Next) \/ \E p \in Job : RequestStep(p)
  /\ NoteOverlap

allRequestVars == <<vars, requestVars, overlapped>>
RequestsSpec == RequestsInit /\ [][RequestsNext]_allRequestVars

\* A waiting push is delivered, and a job that runs, sync or request, is given time
\* to go on.  Nobody owes the account a change or a request, and nothing owes a job
\* its failure.  The slots are a bound of the model and requests do not keep a push
\* from an instance for ever: strong fairness.
RequestsFairness ==
  /\ SF_allRequestVars((\E p \in Job : WebhookStep(StartSync(p))) /\ NoteOverlap)
  /\ \A p \in Job :
       /\ WF_allRequestVars(WebhookStep(SyncStep(p)) /\ NoteOverlap)
       /\ WF_allRequestVars(job[p].pc # "idle" /\ RequestStep(p) /\ NoteOverlap)

FairRequestsSpec == RequestsSpec /\ RequestsFairness

-----------------------------------------------------------------------------
(* Properties                                                              *)

\* The types of the variables: no job here signs in or renews a watch.
RequestsTypeOK ==
  /\ SyncTypeOK
  /\ \A p \in Job : job[p].pc \in SyncPC \cup ReadPC \cup SendPC
  /\ had \in [Message -> SUBSET SUBSET Label]
  /\ sent \in SUBSET Message

\* RowsCurrentInTurn of SyncInTurn is checked here with read and send requests
\* between the syncs.

\* "The labels stored locally are the ones the provider reports back, not a
\* local guess": no row ever shows labels the message has not had in Gmail.
LabelsFromGmail == \A m \in Message : rows[m] # NoRow => rows[m].labels \in had[m]

\* A read request that overlaps one sync does not bring back the row of a
\* message whose deletion the watermark has passed.
DeletedStayDeleted ==
  \A i \in base + 1 .. historyId :
    Settled(i) /\ log[i].type = "deleted" => rows[log[i].messageId] = NoRow

\* Of two jobs that run at once, one is a read request, which stores no row.
Reads(p) == job[p].pc \in ReadPC \cup {"idle"}
OneWriter == \A p, q \in Job : p # q => Reads(p) \/ Reads(q)

\* What LabelsFromGmail rests on: the account shows, and a job holds, only labels
\* the message has had.
HadInv ==
  \A m \in Message :
    /\ box[m] # NoRow => box[m].labels \in had[m]
    /\ rows[m] # NoRow => rows[m].labels \in had[m]
    /\ \A p \in Job : job[p].fetched[m] # NoRow => job[p].fetched[m].labels \in had[m]

\* What DeletedStayDeleted rests on: a message has no row once it is stored that it is
\* gone, and the one job that writes holds nothing older than what is stored.
GoneInv ==
  /\ \A m \in Message : box[m] = NoRow /\ LastChange(m, applied[m]) => rows[m] = NoRow
  /\ \A p \in Job : ~Reads(p) => HoldsNewest(job[p])

\* "The webhook picks the message up anyway": a message that was sent, and whose
\* copy may not have been stored, gets its row sooner or later, unless it is
\* deleted or its history expires before the sync has read it (a full resync
\* lists the inbox alone).
SentIsStored ==
  \A m \in Message :
    (m \in sent /\ watermark # NoHistoryId) ~> (rows[m] # NoRow \/ box[m] = NoRow \/ base > 0)

=============================================================================
