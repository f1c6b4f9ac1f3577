---------------------------- MODULE GmailMailbox ----------------------------
(***************************************************************************)
(* The Gmail account behind the backend, and what the backend's Gmail      *)
(* provider reads from it.  The account itself is external: it is          *)
(* modelled from the calls src/providers/gmail/ makes.                     *)
(*                                                                         *)
(* Every change to the account appends one record to the history `log`;    *)
(* the historyId of the account is the length of the log.  A message is    *)
(* NoRow while it does not exist, else the labels it carries and the       *)
(* historyId of its last change (ProviderMessage.labels and .cursor).  The *)
(* texts of a message never change in Gmail, so they are left out.         *)
(***************************************************************************)
EXTENDS Integers, Sequences, FiniteSets

CONSTANTS
  Message,     \* message ids; a larger id was received later
  Label,       \* labels a message can carry
  NoRow,       \* no such message, or no such row
  MaxHistory,  \* bound: records the account's history may reach
  PageSize     \* records on one page of history.list

ASSUME MessageAssumption == Message \subseteq Nat
ASSUME NoRowAssumption == NoRow \notin [labels: SUBSET Label, cursor: Nat]
ASSUME PageSizeAssumption == PageSize \in Nat \ {0}
ASSUME MaxHistoryAssumption == MaxHistory \in Nat

VARIABLES
  log,     \* every history record ever written, in order
  box,     \* the messages the account holds now
  oldest   \* the smallest startHistoryId Gmail still answers

mailboxVars == <<log, box, oldest>>

Row == [labels: SUBSET Label, cursor: Nat]
Change == [type: {"added", "labelsChanged", "deleted"}, messageId: Message]

MailboxTypeOK ==
  /\ log \in Seq(Change)
  /\ box \in [Message -> Row \cup {NoRow}]
  /\ oldest \in Nat

MailboxInit ==
  /\ log = << >>
  /\ box = [m \in Message |-> NoRow]
  /\ oldest = 0

historyId == Len(log)

-----------------------------------------------------------------------------
(* What the account's owner, senders and other mail clients do to it.      *)

Recorded(type, m) ==
  /\ historyId < MaxHistory
  /\ log' = Append(log, [type |-> type, messageId |-> m])
  /\ UNCHANGED oldest

\* A message id is new when it is added and is never used again.
Arrive(m, labels) ==
  /\ \A i \in 1..historyId : log[i].messageId # m
  /\ Recorded("added", m)
  /\ box' = [box EXCEPT ![m] = [labels |-> labels, cursor |-> historyId + 1]]

\* Reading, archiving, trashing and starring are all label changes.
Relabel(m, labels) ==
  /\ box[m] # NoRow
  /\ box[m].labels # labels
  /\ Recorded("labelsChanged", m)
  /\ box' = [box EXCEPT ![m] = [labels |-> labels, cursor |-> historyId + 1]]

Purge(m) ==
  /\ box[m] # NoRow
  /\ Recorded("deleted", m)
  /\ box' = [box EXCEPT ![m] = NoRow]

OwnerChanges(m) ==
  \/ \E labels \in SUBSET Label : Arrive(m, labels) \/ Relabel(m, labels)
  \/ Purge(m)

\* Gmail keeps history records for a limited time only.
DropHistory ==
  /\ \E id \in oldest + 1 .. historyId : oldest' = id
  /\ UNCHANGED <<log, box>>

-----------------------------------------------------------------------------
(* What the provider reads.                                                *)

Expired(cursor) == cursor < oldest

\* The end of the page of history.list that starts after record `from`.
PageEnd(from) == IF from + PageSize < historyId THEN from + PageSize ELSE historyId

\* planChanges: of the records from+1..to the last one of a message decides
\* whether it is removed or fetched again.
Deciding(from, to) ==
  {i \in from + 1 .. to : \A j \in i + 1 .. to : log[j].messageId # log[i].messageId}
ToRemove(from, to) ==
  {log[i].messageId : i \in {d \in Deciding(from, to) : log[d].type = "deleted"}}
\* Mutant: a record of an added message does not make it refetched.
ToRefetchRelabelled(from, to) ==
  {log[i].messageId : i \in {d \in Deciding(from, to) : log[d].type = "labelsChanged"}}

ToRefetch(from, to) ==
  {log[i].messageId : i \in from + 1 .. to} \ ToRemove(from, to)

InInbox(m) == box[m] # NoRow /\ "INBOX" \in box[m].labels

\* The inbox messages a further page of messages.list can hold, once `got`
\* has been listed: they are listed newest first.
InboxAfter(got) == {m \in Message : InInbox(m) /\ \A g \in got : m < g}

\* A page: the newest of `rest`, at most `limit` of them, and some if any remain.
IsPage(page, rest, limit) ==
  /\ Cardinality(page) <= limit
  /\ page = {} => rest = {}
  /\ \A m \in page, n \in rest \ page : n < m

=============================================================================
