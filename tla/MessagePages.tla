----------------------------- MODULE MessagePages ------------------------------
(***************************************************************************)
(* GET /messages (listMessagesHandler of src/http/handlers.ts, the keyset  *)
(* query of src/db/supabase-message-store.ts, src/http/cursor.ts) over the *)
(* messages of one user, and PATCH /messages/:id/read as a client sees it. *)
(* A message is its place in (receivedAt, id): a larger one is newer.      *)
(***************************************************************************)
EXTENDS Integers, FiniteSets, FiniteSetsExt

CONSTANTS
  Message,
  Absent,      \* no such row
  Null,        \* a null cursor: there is no further page
  Start,       \* the cursor of a request that gives none
  MaxChanges   \* bound on the rows that others mark or delete

ASSUME MessageAssumption == IsFiniteSet(Message) /\ Message = 1 .. Cardinality(Message)
ASSUME PlaceAssumption ==
  Absent \notin BOOLEAN /\ Null \notin Message /\ Start \notin Message \cup {Null}
ASSUME MaxChangesAssumption == MaxChanges \in Nat

VARIABLES
  table,    \* [Message -> BOOLEAN \cup {Absent}]: is_read of the rows
  newest,   \* the newest message there has been; 0 if none
  changes   \* counter for the bound

serverVars == <<table, newest, changes>>

Present == {m \in Message : table[m] # Absent}

ServerInit ==
  /\ newest \in Message \cup {0}
  /\ table \in [Message -> BOOLEAN \cup {Absent}]
  /\ Present = 1 .. newest
  /\ changes = 0

-----------------------------------------------------------------------------

\* The rows a list request may return: keyset, strictly after the cursor.
Selected(after, unreadOnly) ==
  {m \in Present : (after # Start => m < after) /\ (unreadOnly => ~table[m])}

Newest(n, S) == {m \in S : Cardinality({k \in S : k > m}) < n}

PageOf(rows, next) == [rows |-> rows, next |-> next]

\* Mutant: the cursor is the extra row, which the keyset then leaves out.
PageSkipping(limit, after, unreadOnly) ==
  LET page == Newest(limit, Selected(after, unreadOnly))
      rows == Newest(limit + 1, Selected(after, unreadOnly))
  IN PageOf([m \in page |-> table[m]], IF rows # page THEN Min(rows) ELSE Null)

\* One row more than the limit is fetched to tell whether there is another page.
Page(limit, after, unreadOnly) ==
  LET page == Newest(limit, Selected(after, unreadOnly))
      more == Newest(limit + 1, Selected(after, unreadOnly)) # page
  IN PageOf([m \in page |-> table[m]], IF more THEN Min(page) ELSE Null)

-----------------------------------------------------------------------------

\* setMessageReadState of a stored message.
ReadStateWritten(m, isRead) ==
  /\ table[m] # Absent
  /\ table' = [table EXCEPT ![m] = isRead]
  /\ UNCHANGED <<newest, changes>>

\* New mail is newer than every row, and ids are not used again.
Arrives ==
  /\ newest + 1 \in Message
  /\ newest' = newest + 1
  /\ table' = [table EXCEPT ![newest + 1] = FALSE]

\* Changes that the sync and other clients make to the rows.
OtherChange ==
  \/ Arrives /\ UNCHANGED changes
  \/ /\ changes < MaxChanges
     /\ changes' = changes + 1
     /\ \E m \in Present : \E v \in {~table[m], Absent} : table' = [table EXCEPT ![m] = v]
     /\ UNCHANGED newest

=============================================================================
