------------------------------ MODULE WebMailbox -------------------------------
(***************************************************************************)
(* The mailbox of the web client (web/src/components/MailboxProvider.tsx,  *)
(* web/src/lib/mailbox-state.ts): one pool of messages, one list, and four *)
(* kinds of request in flight over them, whose answers come in any order.  *)
(* JavaScript runs one handler at a time: an action is a handler, or what  *)
(* follows an await.                                                       *)
(***************************************************************************)
EXTENDS MessagePages

CONSTANTS
  PAGE_SIZE,
  WIDE_PAGE_SIZE,
  Waiting,    \* no answer yet
  NoRequest,
  MaxLoads    \* bound on first-page requests in flight

ReadState == BOOLEAN \cup {Absent}
Cursor == Message \cup {Null, Start}
Rows == UNION {[S -> BOOLEAN] : S \in SUBSET Message}
PageRecord == [rows : Rows, next : Message \cup {Null}]
Answer == {Waiting} \cup PageRecord

FirstRequests ==
  [mode : {"fresh", "silent"}, unreadOnly : BOOLEAN, current : BOOLEAN, answer : Answer]
MoreRequests == [cursor : Message, unreadOnly : BOOLEAN, answer : Answer, meant : BOOLEAN]
WideRequests == [cursor : Message \cup {Start}, answer : Answer]
PatchRequests == [isRead : BOOLEAN, answer : {Waiting, "done", "missing"}]

ASSUME PageSizesAssumption == PAGE_SIZE \in Nat \ {0} /\ WIDE_PAGE_SIZE \in Nat \ {0}
ASSUME NoAnswerAssumption == Waiting \notin PageRecord \cup {"done", "missing"}
ASSUME NoRequestAssumption == NoRequest \notin MoreRequests \cup WideRequests \cup PatchRequests

VARIABLES
  pool,         \* data.byId: isRead of every message fetched
  list,         \* data.listIds, always shown newest first
  listCursor,
  poolCursor,   \* Start is undefined, before the first wide page
  phase,
  unreadOnly,
  first,        \* requests of loadFirst; current: of the last generation
  more,         \* the request of loadMore; loadingMore is more # NoRequest
  wide,         \* wideInFlight
  patch,        \* [Message -> requests of setRead]; pending are its messages
  steady,       \* history: rows that matched the filter ever since it was set
  poolTop,      \* history: the newest message of the first wide page
  mixed         \* history: the list holds an answer meant for the list before it

dataVars == <<pool, list, listCursor, poolCursor>>
requestVars == <<first, more, wide, patch>>
historyVars == <<steady, poolTop, mixed>>
vars == <<serverVars, dataVars, phase, unreadOnly, requestVars, historyVars>>

pending == {m \in Message : patch[m] # NoRequest}
Matching == Selected(Start, unreadOnly)

Load(mode, unread) ==
  [mode |-> mode, unreadOnly |-> unread, current |-> TRUE, answer |-> Waiting]

\* A message that was there and matched, or arrived, and has matched since.
KeepSteady == steady' = {m \in Matching' : m \in steady \/ table[m] = Absent}

Init ==
  /\ ServerInit
  /\ pool = [m \in Message |-> Absent]
  /\ list = {} /\ listCursor = Null /\ poolCursor = Start
  /\ phase = "loading"
  /\ unreadOnly = FALSE
  /\ first = {Load("fresh", FALSE)}
  /\ more = NoRequest /\ wide = NoRequest
  /\ patch = [m \in Message |-> NoRequest]
  /\ steady = Present /\ poolTop = 0 /\ mixed = FALSE

-----------------------------------------------------------------------------
(* mailbox-state.ts *)

IntoPoolUnprotected(page) ==
  [m \in Message |-> IF m \in DOMAIN page.rows THEN page.rows[m] ELSE pool[m]]

\* A message with a change in flight keeps its optimistic value.
IntoPool(page) ==
  [m \in Message |->
     IF m \in DOMAIN page.rows /\ ~(m \in pending /\ pool[m] # Absent)
       THEN page.rows[m] ELSE pool[m]]

\* The list starts again: an answer to loadMore that is under way was not meant for it.
ListReplaced ==
  /\ mixed' = FALSE
  /\ more' = IF more = NoRequest THEN more ELSE [more EXCEPT !.meant = FALSE]

ApplyFirstPage(page) ==
  /\ pool' = IntoPool(page)
  /\ list' = DOMAIN page.rows
  /\ listCursor' = page.next
  /\ ListReplaced
  /\ UNCHANGED poolCursor

\* The page merged with the rows older than it; with a page that is the whole mailbox, or
\* that no row of the list is in, the list starts again.
ApplyRefreshedPage(page) ==
  LET ids == DOMAIN page.rows
  IN IF list \cap ids = {} \/ page.next = Null
       THEN ApplyFirstPage(page)
       ELSE /\ pool' = IntoPool(page)
            /\ list' = {m \in list : m < Min(ids)} \cup ids
            /\ UNCHANGED <<listCursor, poolCursor, more, mixed>>

ApplyMorePage(page) ==
  /\ pool' = IntoPool(page)
  /\ list' = list \cup DOMAIN page.rows
  /\ listCursor' = page.next
  /\ UNCHANGED poolCursor

ApplyPoolPage(page) ==
  /\ pool' = IntoPool(page)
  /\ poolCursor' = page.next
  /\ UNCHANGED <<list, listCursor>>

\* patchMessage: nothing to do for a message that is not in the pool.
PatchMessage(m, isRead) ==
  /\ pool' = IF pool[m] = Absent THEN pool ELSE [pool EXCEPT ![m] = isRead]
  /\ UNCHANGED <<list, listCursor, poolCursor>>

RemoveMessage(m) ==
  /\ pool' = [pool EXCEPT ![m] = Absent]
  /\ list' = list \ {m}
  /\ UNCHANGED <<listCursor, poolCursor>>

-----------------------------------------------------------------------------
(* loadFirst *)

\* A new generation: every request before it is superseded.
LoadFirst(mode) ==
  /\ Cardinality(first) < MaxLoads
  /\ first' = {[r EXCEPT !.current = FALSE] : r \in first} \cup {Load(mode, unreadOnly')}
  /\ phase' = IF mode = "fresh" THEN "loading" ELSE phase

\* The effect of the Unread chip.
SetUnreadOnly ==
  /\ unreadOnly' = ~unreadOnly
  /\ list' = {} /\ listCursor' = Null
  /\ LoadFirst("fresh")
  /\ ListReplaced
  /\ steady' = Selected(Start, ~unreadOnly)
  /\ UNCHANGED <<serverVars, pool, poolCursor, wide, patch, poolTop>>

\* On focus and every minute.
Refresh ==
  /\ phase = "ready"
  /\ UNCHANGED unreadOnly
  /\ LoadFirst("silent")
  /\ UNCHANGED <<serverVars, dataVars, more, wide, patch, historyVars>>

AfterSend ==
  /\ UNCHANGED unreadOnly
  /\ LoadFirst("silent")
  /\ UNCHANGED <<serverVars, dataVars, more, wide, patch, historyVars>>

\* "Try again", on the panel that stands in for an empty list.
Reload ==
  /\ phase = "error" /\ list = {}
  /\ UNCHANGED unreadOnly
  /\ LoadFirst("fresh")
  /\ UNCHANGED <<serverVars, dataVars, more, wide, patch, historyVars>>

FirstServed ==
  /\ \E r \in first :
       /\ r.answer = Waiting
       /\ first' = (first \ {r})
                   \cup {[r EXCEPT !.answer = Page(PAGE_SIZE, Start, r.unreadOnly)]}
  /\ UNCHANGED <<serverVars, dataVars, phase, unreadOnly, more, wide, patch, historyVars>>

\* Mutant: the generation is not compared.
FirstArrivesAnyway ==
  \E r \in first :
    /\ r.answer # Waiting
    /\ first' = first \ {r}
    /\ phase' = "ready"
    /\ IF r.mode = "fresh" THEN ApplyFirstPage(r.answer) ELSE ApplyRefreshedPage(r.answer)
    /\ UNCHANGED <<serverVars, unreadOnly, wide, patch, steady, poolTop>>

FirstArrives ==
  \E r \in first :
    /\ r.answer # Waiting
    /\ first' = first \ {r}
    /\ \/ ~r.current /\ UNCHANGED <<dataVars, phase, more, mixed>>
       \/ /\ r.current
          /\ phase' = "ready"
          /\ IF r.mode = "fresh" THEN ApplyFirstPage(r.answer) ELSE ApplyRefreshedPage(r.answer)
    /\ UNCHANGED <<serverVars, unreadOnly, wide, patch, steady, poolTop>>

\* A failed silent load leaves what there is, if there is anything.
FirstFails ==
  /\ \E r \in first :
       /\ first' = first \ {r}
       /\ phase' = IF r.current /\ (r.mode = "fresh" \/ list = {}) THEN "error" ELSE phase
  /\ UNCHANGED <<serverVars, dataVars, unreadOnly, more, wide, patch, historyVars>>

-----------------------------------------------------------------------------
(* loadMore: no generation is compared. *)

LoadMore ==
  /\ phase # "loading" /\ list # {}   \* or there is no button
  /\ listCursor # Null /\ more = NoRequest
  /\ more' = [cursor |-> listCursor, unreadOnly |-> unreadOnly, answer |-> Waiting, meant |-> TRUE]
  /\ UNCHANGED <<serverVars, dataVars, phase, unreadOnly, first, wide, patch, historyVars>>

MoreServed ==
  /\ more # NoRequest /\ more.answer = Waiting
  /\ more' = [more EXCEPT !.answer = Page(PAGE_SIZE, more.cursor, more.unreadOnly)]
  /\ UNCHANGED <<serverVars, dataVars, phase, unreadOnly, first, wide, patch, historyVars>>

MoreArrives ==
  /\ more # NoRequest /\ more.answer # Waiting
  /\ ApplyMorePage(more.answer)
  /\ more' = NoRequest
  /\ mixed' = (mixed \/ ~more.meant)
  /\ UNCHANGED <<serverVars, phase, unreadOnly, first, wide, patch, steady, poolTop>>

\* A toast.
MoreFails ==
  /\ more # NoRequest
  /\ more' = NoRequest
  /\ UNCHANGED <<serverVars, dataVars, phase, unreadOnly, first, wide, patch, historyVars>>

-----------------------------------------------------------------------------
(* loadOlder: wide pages, unfiltered, for the search and the thread view.  *)

WideRequest(cursor) == [cursor |-> cursor, answer |-> Waiting]

LoadOlder ==
  /\ wide = NoRequest /\ poolCursor # Null
  /\ wide' = WideRequest(poolCursor)
  /\ UNCHANGED <<serverVars, dataVars, phase, unreadOnly, first, more, patch, historyVars>>

WideServed ==
  /\ wide # NoRequest /\ wide.answer = Waiting
  /\ wide' = [wide EXCEPT !.answer = Page(WIDE_PAGE_SIZE, wide.cursor, FALSE)]
  /\ UNCHANGED <<serverVars, dataVars, phase, unreadOnly, first, more, patch, historyVars>>

WideAnswered ==
  /\ wide # NoRequest /\ wide.answer # Waiting
  /\ ApplyPoolPage(wide.answer)
  /\ poolTop' = IF wide.cursor = Start THEN Max({0} \cup DOMAIN wide.answer.rows) ELSE poolTop
  /\ UNCHANGED <<serverVars, phase, unreadOnly, first, more, patch, steady, mixed>>

WideArrives == WideAnswered /\ wide' = NoRequest

\* Mutant: a failure is taken for the end.
WideFailsForGood ==
  /\ wide # NoRequest
  /\ wide' = NoRequest
  /\ poolCursor' = Null
  /\ UNCHANGED <<serverVars, pool, list, listCursor, phase, unreadOnly, first, more, patch, historyVars>>

WideFails ==
  /\ wide # NoRequest
  /\ wide' = NoRequest
  /\ UNCHANGED <<serverVars, dataVars, phase, unreadOnly, first, more, patch, historyVars>>

-----------------------------------------------------------------------------
(* setRead; markThreadRead is several of it at once. *)

SetRead(m) ==
  /\ pool[m] # Absent /\ m \notin pending
  /\ PatchMessage(m, ~pool[m])
  /\ patch' = [patch EXCEPT ![m] = [isRead |-> ~pool[m], answer |-> Waiting]]
  /\ UNCHANGED <<serverVars, phase, unreadOnly, first, more, wide, historyVars>>

PatchServed(m) ==
  /\ m \in pending /\ patch[m].answer = Waiting
  /\ \/ /\ ReadStateWritten(m, patch[m].isRead)
        /\ patch' = [patch EXCEPT ![m].answer = "done"]
     \/ /\ table[m] = Absent
        /\ patch' = [patch EXCEPT ![m].answer = "missing"]
        /\ UNCHANGED serverVars
  /\ UNCHANGED <<dataVars, phase, unreadOnly, first, more, wide, poolTop, mixed>>
  /\ KeepSteady

PatchArrives(m) ==
  /\ m \in pending
  /\ \/ patch[m].answer = "done" /\ PatchMessage(m, patch[m].isRead)
     \/ patch[m].answer = "missing" /\ RemoveMessage(m)
  /\ patch' = [patch EXCEPT ![m] = NoRequest]
  /\ UNCHANGED <<serverVars, phase, unreadOnly, first, more, wide, historyVars>>

\* Refused, or the answer is lost: the row goes back to what it was.
PatchFails(m) ==
  /\ m \in pending
  /\ PatchMessage(m, ~patch[m].isRead)
  /\ patch' = [patch EXCEPT ![m] = NoRequest]
  /\ UNCHANGED <<serverVars, phase, unreadOnly, first, more, wide, historyVars>>

-----------------------------------------------------------------------------

\* The sync or another client changes a row.
RowChanges ==
  /\ OtherChange
  /\ UNCHANGED <<dataVars, phase, unreadOnly, requestVars, poolTop, mixed>>
  /\ KeepSteady

\* All but the wide pages.
ListNext ==
  \/ SetUnreadOnly \/ Refresh \/ AfterSend \/ Reload
  \/ FirstServed \/ FirstArrives \/ FirstFails
  \/ LoadMore \/ MoreServed \/ MoreArrives \/ MoreFails
  \/ \E m \in Message : SetRead(m) \/ PatchServed(m) \/ PatchArrives(m) \/ PatchFails(m)
  \/ RowChanges

Next == ListNext \/ LoadOlder \/ WideServed \/ WideArrives \/ WideFails

Spec == Init /\ [][Next]_vars

-----------------------------------------------------------------------------
(* Properties                                                              *)

WebTypeOK ==
  /\ table \in [Message -> ReadState]
  /\ newest \in Message \cup {0}
  /\ changes \in 0 .. MaxChanges
  /\ pool \in [Message -> ReadState]
  /\ list \subseteq {m \in Message : pool[m] # Absent}
  /\ listCursor \in Message \cup {Null}
  /\ poolCursor \in Cursor
  /\ phase \in {"loading", "ready", "error"}
  /\ unreadOnly \in BOOLEAN
  /\ first \subseteq FirstRequests
  /\ \A r, s \in first : r.current /\ s.current => r = s
  /\ more \in {NoRequest} \cup MoreRequests
  /\ wide \in {NoRequest} \cup WideRequests
  /\ patch \in [Message -> {NoRequest} \cup PatchRequests]
  /\ steady \subseteq Message
  /\ poolTop \in Message \cup {0}
  /\ mixed \in BOOLEAN

\* "Keep an in-flight optimistic value": no answer to another request, however
\* old, overwrites a row whose change is under way.
PendingKept == \A m \in pending : pool[m] = patch[m].isRead

\* "Load more" and the refresh fit together: between the newest row shown and the
\* place where the list continues, no row is missing that has matched the filter
\* all along.  A row missed there would not come with any later page.
NoGap ==
  \A m \in steady :
    (\E n \in list : n > m) /\ (listCursor = Null \/ m >= listCursor) => m \in list

\* NoGap holds of every list that took no page meant for the list before it,
\* whatever arrives, goes and changes between the requests.
NoGapOfItsOwn == ~mixed => NoGap

\* "Without discarding pages already loaded": a list keeps every row that still
\* matches, unless the whole first page is new, the filter changes, or a load starts
\* the list over.
KeepsPages ==
  \A m \in list \ list' :
     \/ unreadOnly' # unreadOnly
     \/ list \cap list' = {}
     \/ \E r \in first : r.current /\ r.mode = "fresh"
     \/ m \notin steady

\* Every step keeps the pages.
PagesKept == [][KeepsPages]_vars

\* The pool that search and thread view look through has every message from the
\* first wide page down to the place it has reached.
PoolHasNoGap ==
  \A m \in Present :
    m <= poolTop /\ (poolCursor = Null \/ m >= poolCursor) => pool[m] # Absent

=============================================================================
