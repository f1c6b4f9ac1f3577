----------------------------- MODULE ThreadLookup ------------------------------
(***************************************************************************)
(* The conversation shown beside the list, and the search over the loaded  *)
(* mail (web/src/components/ThreadView.tsx, SearchResults.tsx, findThread  *)
(* of MailboxProvider.tsx).  Both load wide pages until they have what     *)
(* they look for, and share the one request for a page that is under way.  *)
(* A lookup whose view has gone goes on loading; its result is dropped.    *)
(***************************************************************************)
EXTENDS WebMailbox

CONSTANTS
  Thread,          \* sets of messages
  NoThread,
  MAX_WIDE_PAGES

ASSUME ThreadAssumption == Thread \subseteq SUBSET Message /\ MAX_WIDE_PAGES \in Nat \ {0}

VARIABLES
  open,     \* the conversation that the address names
  lookup,
  marked,   \* markedFor
  loops,    \* calls of findThread that await a page; live: not cancelled
  search,   \* the search results, while there is something to search for
  older,    \* olderPagesLoaded
  looked    \* history: pages that the lookup of the conversation has seen

lookupVars == <<open, lookup, marked, loops, search, older, looked>>
threadVars == <<vars, lookupVars>>

NoSearch == [on |-> FALSE, asked |-> FALSE, olderFailed |-> FALSE, exhausted |-> FALSE]

ThreadInit ==
  /\ Init
  /\ open = NoThread /\ lookup = "searching" /\ marked = FALSE
  /\ loops = {} /\ search = NoSearch
  /\ older = 0 /\ looked = 0

Has(thread) == \E m \in thread : pool[m] # Absent

-----------------------------------------------------------------------------
(* findThread, called by the effect of the view.                           *)

Cancelled == {[l EXCEPT !.live = FALSE] : l \in loops}

\* It joins the request under way, if there is one.
FindThread(thread) ==
  /\ marked' = FALSE /\ looked' = 0
  /\ \/ /\ Has(thread)
        /\ lookup' = "found" /\ loops' = Cancelled /\ wide' = wide
     \/ /\ ~Has(thread) /\ wide = NoRequest /\ poolCursor = Null
        /\ lookup' = "missing" /\ loops' = Cancelled /\ wide' = wide
     \/ /\ ~Has(thread) /\ (wide # NoRequest \/ poolCursor # Null)
        /\ lookup' = "searching"
        /\ loops' = Cancelled \cup {[thread |-> thread, live |-> TRUE, pages |-> 0]}
        /\ wide' = IF wide = NoRequest THEN WideRequest(poolCursor) ELSE wide

\* A row is opened, or the address that has it is loaded.
OpenThread ==
  /\ \E thread \in Thread \ {open} : open' = thread /\ FindThread(thread)
  /\ UNCHANGED <<serverVars, dataVars, phase, unreadOnly, first, more, patch, historyVars,
                 search, older>>

CloseThread ==
  /\ open # NoThread
  /\ open' = NoThread /\ lookup' = "searching" /\ marked' = FALSE
  /\ loops' = Cancelled /\ looked' = 0
  /\ UNCHANGED <<vars, search, older>>

\* "Try again": there is nothing to show.
RetryLookup ==
  /\ open # NoThread /\ lookup = "failed" /\ ~Has(open)
  /\ FindThread(open)
  /\ UNCHANGED <<serverVars, dataVars, phase, unreadOnly, first, more, patch, historyVars,
                 open, search, older>>

\* Where a call stands after a page, or after the failure to load one.
Outcome(loop, ok, hasMore) ==
  IF ~ok THEN "failed"
  ELSE IF Has(loop.thread)' THEN "found"
  ELSE IF ~hasMore \/ loop.pages + 1 = MAX_WIDE_PAGES THEN "missing"
  ELSE "searching"

\* Mutant: the result of a view that has gone is shown.
ResumeAll(ok, hasMore) ==
  /\ loops' = {[l EXCEPT !.pages = @ + 1] :
                 l \in {k \in loops : Outcome(k, ok, hasMore) = "searching"}}
  /\ \/ /\ loops = {} /\ UNCHANGED <<lookup, looked>>
     \/ \E l \in loops : lookup' = Outcome(l, ok, hasMore) /\ looked' = l.pages + 1
  /\ wide' = IF loops' = {} THEN NoRequest ELSE WideRequest(poolCursor')

\* Mutant: a failure counts as a page.
ResumeFailed(ok, hasMore) ==
  /\ loops' = {[l EXCEPT !.pages = @ + 1] :
                 l \in {k \in loops : ok /\ Outcome(k, TRUE, hasMore) = "searching"}}
  /\ IF \E l \in loops : l.live
       THEN \E l \in loops :
              /\ l.live
              /\ lookup' = IF ok THEN Outcome(l, ok, hasMore) ELSE "missing"
              /\ looked' = l.pages + 1
       ELSE UNCHANGED <<lookup, looked>>
  /\ wide' = IF loops' = {} THEN NoRequest ELSE WideRequest(poolCursor')

\* Mutant: only the call that made the request makes the next one.
ResumeFirst(ok, hasMore) ==
  /\ loops' = {[l EXCEPT !.pages = @ + 1] :
                 l \in {k \in loops : Outcome(k, ok, hasMore) = "searching"}}
  /\ IF \E l \in loops : l.live
       THEN \E l \in loops :
              l.live /\ lookup' = Outcome(l, ok, hasMore) /\ looked' = l.pages + 1
       ELSE UNCHANGED <<lookup, looked>>
  /\ wide' = IF loops' = {} \/ search.asked THEN NoRequest ELSE WideRequest(poolCursor')

\* Every call that waits goes on: the first one to ask for the next page makes
\* the request that the others join.
Resume(ok, hasMore) ==
  /\ loops' = {[l EXCEPT !.pages = @ + 1] :
                 l \in {k \in loops : Outcome(k, ok, hasMore) = "searching"}}
  /\ IF \E l \in loops : l.live
       THEN \E l \in loops :
              l.live /\ lookup' = Outcome(l, ok, hasMore) /\ looked' = l.pages + 1
       ELSE UNCHANGED <<lookup, looked>>
  /\ wide' = IF loops' = {} THEN NoRequest ELSE WideRequest(poolCursor')

-----------------------------------------------------------------------------
(* The search results.                                                     *)

\* Typed into the field, or cleared.
SearchStarts == ~search.on /\ search' = [NoSearch EXCEPT !.on = TRUE]
SearchEnds == search.on /\ search' = NoSearch

\* "Load older mail", or "Try again" after a failure.
SearchOlder ==
  /\ search.on /\ wide = NoRequest
  /\ search.olderFailed \/ (~search.exhausted /\ older < MAX_WIDE_PAGES)
  /\ \/ /\ poolCursor = Null
        /\ search' = [search EXCEPT !.olderFailed = FALSE, !.exhausted = TRUE]
        /\ UNCHANGED vars
     \/ /\ LoadOlder
        /\ search' = [search EXCEPT !.olderFailed = FALSE, !.asked = TRUE]
  /\ UNCHANGED <<open, lookup, marked, loops, older, looked>>

SearchResumes(ok, hasMore) ==
  search' = IF ~search.asked THEN search
            ELSE [search EXCEPT !.asked = FALSE, !.olderFailed = ~ok,
                                !.exhausted = @ \/ (ok /\ ~hasMore)]

TypeSearch ==
  /\ SearchStarts \/ SearchEnds
  /\ UNCHANGED <<vars, open, lookup, marked, loops, older, looked>>

-----------------------------------------------------------------------------
OlderArrives ==
  /\ WideAnswered
  /\ older' = older + 1
  /\ Resume(TRUE, wide.answer.next # Null) /\ SearchResumes(TRUE, wide.answer.next # Null)
  /\ UNCHANGED <<open, marked>>

OlderFails ==
  /\ wide # NoRequest
  /\ Resume(FALSE, TRUE) /\ SearchResumes(FALSE, TRUE)
  /\ UNCHANGED <<serverVars, dataVars, phase, unreadOnly, first, more, patch, historyVars,
                 open, marked, older>>

\* The effect that marks what was found read, once: markThreadRead.
MarkThreadRead ==
  LET unread == {m \in open : pool[m] = FALSE} \ pending
  IN
  /\ open # NoThread /\ lookup = "found" /\ ~marked
  /\ marked' = TRUE
  /\ pool' = [m \in Message |-> IF m \in unread THEN TRUE ELSE pool[m]]
  /\ patch' = [m \in Message |-> IF m \in unread THEN [isRead |-> TRUE, answer |-> Waiting]
                                 ELSE patch[m]]
  /\ UNCHANGED <<serverVars, list, listCursor, poolCursor, phase, unreadOnly, first, more, wide,
                 historyVars, open, lookup, loops, search, older, looked>>

ThreadNext ==
  \/ (ListNext \/ WideServed) /\ UNCHANGED lookupVars
  \/ OpenThread \/ CloseThread \/ RetryLookup \/ MarkThreadRead
  \/ TypeSearch \/ SearchOlder
  \/ OlderArrives \/ OlderFails

\* A request is served and answered, or fails.
ThreadSpec ==
  /\ ThreadInit /\ [][ThreadNext]_threadVars
  /\ WF_threadVars(WideServed /\ UNCHANGED lookupVars)
  /\ WF_threadVars(OlderArrives \/ OlderFails)

-----------------------------------------------------------------------------
LookupTypeOK ==
  /\ open \in Thread \cup {NoThread}
  /\ lookup \in {"searching", "found", "missing", "failed"}
  /\ marked \in BOOLEAN
  /\ loops \subseteq [thread : Thread, live : BOOLEAN, pages : 0 .. MAX_WIDE_PAGES - 1]
  /\ \A k, l \in loops : k.live /\ l.live => k = l
  /\ \A l \in loops : l.live => l.thread = open /\ lookup = "searching"
  /\ search \in [on : BOOLEAN, asked : BOOLEAN, olderFailed : BOOLEAN, exhausted : BOOLEAN]
  /\ search.asked \/ loops # {} => wide # NoRequest
  /\ older \in Nat /\ looked \in 0 .. MAX_WIDE_PAGES

(* Whoever waits has a request to wait for, and one view at most waits for *)
(* a lookup.                                                               *)
ThreadTypeOK == WebTypeOK /\ LookupTypeOK

(* A conversation that "isn't in your loaded mail" was looked for to the   *)
(* end or through all the pages there may be, and no message of it that is *)
(* there lies between the newest and the oldest page looked at.  Nor does  *)
(* the search say "that is all the mail" because a page failed.            *)
EndIsHonest ==
  /\ search.exhausted => poolCursor = Null
  /\ open # NoThread /\ lookup = "missing" =>
       /\ poolCursor = Null \/ looked = MAX_WIDE_PAGES
       /\ \A m \in open \cap Present :
            pool[m] = Absent => m > poolTop \/ (poolCursor # Null /\ m < poolCursor)

(* A step that ends a lookup, or opens another conversation, as found has  *)
(* that conversation in the pool.                                          *)
HasWhatIsFound == lookup' = "found" /\ (lookup # "found" \/ open' # open) => Has(open)'

(* A lookup that ends well has the conversation that is open to show, not  *)
(* the one of a lookup that went on for a view that has gone.              *)
FoundIsShown == [][HasWhatIsFound]_threadVars

(* A conversation that is looked for is found, missing, or failed in the   *)
(* end, whatever else loads pages meanwhile.                               *)
LookupEnds == (open # NoThread /\ lookup = "searching") ~> (open = NoThread \/ lookup # "searching")
=============================================================================
