-------------------------- MODULE WebMailbox_proofs --------------------------
(***************************************************************************)
(* Proofs about WebMailbox, for every number of messages, every page size  *)
(* and any number of requests in flight, and about ThreadLookup, which     *)
(* extends it, for every set of conversations and every number of pages    *)
(* that a lookup may load.                                                 *)
(***************************************************************************)
EXTENDS ThreadLookup, FiniteSetTheorems, WellFoundedInduction, TLAPS

-----------------------------------------------------------------------------
(* Least and greatest members                                              *)

Under(m, S, R) == {k \in S : <<k, m>> \in R}

(* A finite set has a least member for every strict order.                 *)
LEMMA HasLeast ==
  ASSUME NEW S, IsFiniteSet(S), S # {}, NEW R,
         \A k \in S : <<k, k>> \notin R,
         \A j, k, m \in S : <<j, k>> \in R /\ <<k, m>> \in R => <<j, m>> \in R
  PROVE \E m \in S : \A k \in S : <<k, m>> \notin R
<1> DEFINE T == {Under(m, S, R) : m \in S}
<1>0. \A m \in S : Under(m, S, R) \in SUBSET S
  BY DEF Under
<1>1. T \subseteq FiniteSubsetsOf(S) /\ T # {}
  BY <1>0, FS_Subset DEF FiniteSubsetsOf
<1>2. IsWellFoundedOn(StrictSubsetOrdering(S), FiniteSubsetsOf(S))
  BY FS_StrictSubsetOrderingWellFounded
<1>3. \E x \in T : \A y \in T : ~(<<y, x>> \in StrictSubsetOrdering(S))
  <2> HIDE DEF T
  <2> QED BY <1>1, <1>2, WFMin
<1>4. PICK m \in S : \A k \in S : ~(<<Under(k, S, R), Under(m, S, R)>> \in StrictSubsetOrdering(S))
  BY <1>3
<1>5. ASSUME NEW k \in S, <<k, m>> \in R PROVE FALSE
  <2>1. Under(k, S, R) \subseteq Under(m, S, R)
    BY <1>5 DEF Under
  <2>2. k \in Under(m, S, R) /\ k \notin Under(k, S, R)
    BY <1>5 DEF Under
  <2> QED BY <2>1, <2>2, <1>4, <1>0 DEF StrictSubsetOrdering
<1> QED BY <1>5

(* What Min and Max of FiniteSetsExt return.                               *)
LEMMA MinOf ==
  ASSUME NEW S, S \subseteq Int, IsFiniteSet(S), S # {}
  PROVE Min(S) \in S /\ \A k \in S : Min(S) <= k
<1> DEFINE R == {p \in Int \X Int : p[1] < p[2]}
<1>1. \A j, k \in S : <<j, k>> \in R <=> j < k
  OBVIOUS
<1>0. \A j \in S : j \in Int
  OBVIOUS
<1> HIDE DEF R
<1>2. \E m \in S : \A k \in S : <<k, m>> \notin R
  <2>1. \A k \in S : <<k, k>> \notin R
    BY <1>1, <1>0
  <2>2. \A j, k, m \in S : <<j, k>> \in R /\ <<k, m>> \in R => <<j, m>> \in R
    BY <1>1, <1>0
  <2> QED BY <2>1, <2>2, HasLeast
<1>3. PICK m \in S : \A k \in S : ~(k < m)
  BY <1>1, <1>2
<1>4. \A k \in S : m <= k
  BY <1>0, <1>3
<1> QED BY <1>4 DEF Min
LEMMA MaxOf ==
  ASSUME NEW S, S \subseteq Int, IsFiniteSet(S), S # {}
  PROVE Max(S) \in S /\ \A k \in S : k <= Max(S)
<1> DEFINE R == {p \in Int \X Int : p[2] < p[1]}
<1>1. \A j, k \in S : <<j, k>> \in R <=> k < j
  OBVIOUS
<1>0. \A j \in S : j \in Int
  OBVIOUS
<1> HIDE DEF R
<1>2. \E m \in S : \A k \in S : <<k, m>> \notin R
  <2>1. \A k \in S : <<k, k>> \notin R
    BY <1>1, <1>0
  <2>2. \A j, k, m \in S : <<j, k>> \in R /\ <<k, m>> \in R => <<j, m>> \in R
    BY <1>1, <1>0
  <2> QED BY <2>1, <2>2, HasLeast
<1>3. PICK m \in S : \A k \in S : ~(m < k)
  BY <1>1, <1>2
<1>5. \A k \in S : m >= k
  BY <1>0, <1>3
<1>4. Max(S) \in S /\ \A k \in S : Max(S) >= k
  BY <1>5 DEF Max
<1> QED BY <1>0, <1>4

-----------------------------------------------------------------------------
(* Pages                                                                   *)

LEMMA MessageFacts ==
  /\ IsFiniteSet(Message) /\ Message \subseteq Int /\ \A m \in Message : m \in Int /\ m >= 1
  /\ \A S \in SUBSET Message : IsFiniteSet(S) /\ S \subseteq Int
<1>1. IsFiniteSet(Message) /\ Message = 1 .. Cardinality(Message) /\ Cardinality(Message) \in Nat
  BY MessageAssumption, FS_CardinalityType
<1>2. Message \subseteq Int /\ \A m \in Message : m \in Int /\ m >= 1
  BY <1>1
<1>3. \A S \in SUBSET Message : IsFiniteSet(S) /\ S \subseteq Int
  BY <1>1, <1>2, FS_Subset
<1> QED  BY <1>1, <1>2, <1>3

Above(m, S) == {k \in S : k > m}

(* The newest n of a set: all that are newer than one of them are among    *)
(* them, and they are all of the set if they are all of the newest n + 1.  *)
LEMMA NewestFacts ==
  ASSUME NEW S \in SUBSET Message, NEW n \in Nat \ {0}
  PROVE  /\ Newest(n, S) \subseteq S
         /\ \A m \in Newest(n, S), k \in S : k > m => k \in Newest(n, S)
         /\ S # {} => Newest(n, S) # {}
         /\ Newest(n + 1, S) = Newest(n, S) => Newest(n, S) = S
<1> DEFINE P == Newest(n, S)
<1>0. \A k \in S : k \in Int
  BY MessageFacts
<1>1. \A m \in S : /\ Above(m, S) \in SUBSET S /\ IsFiniteSet(Above(m, S))
                   /\ Cardinality(Above(m, S)) \in Nat
  <2>1. \A m \in S : Above(m, S) \in SUBSET S
    BY DEF Above
  <2> QED  BY <2>1, MessageFacts, FS_Subset, FS_CardinalityType
<1>2. \A m \in S : m \in P <=> Cardinality(Above(m, S)) < n
  BY DEF Newest, Above
<1>3. P \subseteq S
  BY DEF Newest
<1>4. ASSUME NEW m \in P, NEW k \in S, k > m
      PROVE  k \in P
  <2>1. m \in S /\ m \in Int /\ k \in Int
    BY <1>3, MessageFacts
  <2>2. Above(k, S) \subseteq Above(m, S)
    <3>1. \A j \in S : j > k => j > m
      BY <1>0, <1>4, <2>1
    <3> QED  BY <3>1 DEF Above
  <2>3. Cardinality(Above(k, S)) <= Cardinality(Above(m, S))
    BY <1>1, <2>1, <2>2, FS_Subset
  <2>4. Cardinality(Above(k, S)) \in Nat /\ Cardinality(Above(m, S)) \in Nat /\ Cardinality(Above(m, S)) < n
    BY <1>1, <1>2, <2>1
  <2>5. Cardinality(Above(k, S)) < n
    BY <2>3, <2>4
  <2> QED  BY <1>2, <2>5
<1>5. ASSUME S # {} PROVE P # {}
  <2>1. Max(S) \in S /\ \A k \in S : k <= Max(S)
    BY <1>5, MaxOf, MessageFacts
  <2>2. Above(Max(S), S) = {}
    BY <1>0, <2>1 DEF Above
  <2>3. Cardinality(Above(Max(S), S)) < n
    BY <2>2, FS_EmptySet
  <2> QED  BY <1>2, <2>1, <2>3
<1>6. ASSUME Newest(n + 1, S) = P, P # S PROVE FALSE
  <2> DEFINE m == Max(S \ P)
  <2>1. m \in S \ P /\ \A k \in S \ P : k <= m
    <3>1. S \ P # {} /\ S \ P \in SUBSET Message
      BY <1>3, <1>6
    <3> QED  BY <3>1, MaxOf, MessageFacts
  <2> HIDE DEF m
  <2>2. m \in Int /\ \A k \in S : k \in Int
    BY <1>0, <2>1 DEF Above
  <2>3. Above(m, S) \subseteq P
    <3>1. \A k \in S : k > m => k \in P
      BY <2>1, <2>2
    <3> QED  BY <3>1 DEF Above
  <2>4. P # {}
    BY <1>5, <2>1
  <2>5. Min(P) \in P /\ \A k \in P : Min(P) <= k
    BY <1>3, <2>4, MinOf, MessageFacts
  <2> DEFINE l == Min(P)
  <2> HIDE DEF l
  <2>6. l \in P /\ l \in S /\ l \in Int /\ \A k \in P : l <= k
    BY <1>3, <2>2, <2>5 DEF l
  <2>7. P \subseteq Above(l, S) \cup {l}
    <3>1. \A k \in P : k \in S /\ (k > l \/ k = l)
      BY <1>0, <1>3, <2>6
    <3> QED  BY <3>1 DEF Above
  <2>8. /\ IsFiniteSet(Above(l, S)) /\ Cardinality(Above(l, S)) \in Nat /\ Cardinality(Above(l, S)) < n
        /\ Above(m, S) \in SUBSET (Above(l, S) \cup {l})
    BY <1>1, <1>2, <2>3, <2>6, <2>7
  <2>9. /\ IsFiniteSet(Above(l, S) \cup {l})
        /\ Cardinality(Above(l, S) \cup {l}) <= Cardinality(Above(l, S)) + 1
    BY <2>8, FS_AddElement
  <2>10. Cardinality(Above(m, S)) <= Cardinality(Above(l, S) \cup {l})
    BY <2>8, <2>9, FS_Subset
  <2>11. Cardinality(Above(l, S) \cup {l}) \in Nat /\ Cardinality(Above(m, S)) \in Nat
    BY <1>1, <2>1, <2>9, FS_CardinalityType
  <2>12. Cardinality(Above(m, S)) < n + 1
    BY <2>8, <2>9, <2>10, <2>11
  <2>13. m \in Newest(n + 1, S)
    BY <2>1, <2>12 DEF Newest, Above
  <2> QED  BY <1>6, <2>1, <2>13
<1> HIDE DEF P
<1>7. /\ P \subseteq S
      /\ \A m \in P, k \in S : k > m => k \in P
      /\ S # {} => P # {}
      /\ Newest(n + 1, S) = P => P = S
  BY <1>3, <1>4, <1>5, <1>6
<1> QED  BY <1>7 DEF P

(* A page that continues does so below its oldest row.                     *)
WellMade(page) ==
  page.next # Null =>
    page.next \in DOMAIN page.rows /\ \A n \in DOMAIN page.rows : page.next <= n

(* m is on the page or further down.                                       *)
Reaches(page, m) == m \in DOMAIN page.rows \/ (page.next # Null /\ m < page.next)

(* listMessagesHandler with the keyset query: a page has rows of what was  *)
(* asked for, and passes over none of it.                                  *)
LEMMA PageFacts ==
  ASSUME NEW limit \in Nat \ {0}, NEW after \in Message \cup {Start}, NEW unread \in BOOLEAN,
         table \in [Message -> ReadState]
  PROVE  LET page == Page(limit, after, unread)
             asked == Selected(after, unread)
         IN  /\ page \in PageRecord
             /\ WellMade(page)
             /\ DOMAIN page.rows \subseteq asked
             /\ \A m \in asked : Reaches(page, m)
<1> DEFINE S == Selected(after, unread)
           P == Newest(limit, S)
           next == IF Newest(limit + 1, S) # P THEN Min(P) ELSE Null
           rows == [m \in P |-> table[m]]
<1>1. S \in SUBSET Message /\ \A m \in S : table[m] \in BOOLEAN
  BY DEF Selected, Present, ReadState
<1> HIDE DEF S
<1>2. /\ P \subseteq S
      /\ \A m \in P, k \in S : k > m => k \in P
      /\ S # {} => P # {}
      /\ Newest(limit + 1, S) = P => P = S
  BY <1>1, NewestFacts
<1>3. Newest(limit + 1, S) # P => P # {}
  <2>1. S = {} => Newest(limit + 1, S) = {} /\ P = {}
    BY DEF Newest
  <2> QED  BY <1>2, <2>1
<1> HIDE DEF P
<1>4. P # {} => Min(P) \in P /\ \A k \in P : Min(P) <= k
  BY <1>1, <1>2, MinOf, MessageFacts
<1>5. /\ next \in Message \cup {Null}
      /\ next # Null => next \in P /\ \A n \in P : next <= n
      /\ next = Null => P = S
  <2>1. P \subseteq Message
    BY <1>1, <1>2
  <2>2. CASE Newest(limit + 1, S) # P
    <3>1. next = Min(P) /\ Min(P) \in P
      BY <1>3, <1>4, <2>2
    <3> QED  BY <1>3, <1>4, <2>1, <2>2, <3>1, PlaceAssumption
  <2>3. CASE Newest(limit + 1, S) = P
    BY <1>2, <2>3
  <2> QED  BY <2>2, <2>3
<1>6. rows \in Rows /\ DOMAIN rows = P
  <2>1. P \in SUBSET Message /\ rows \in [P -> BOOLEAN]
    BY <1>1, <1>2
  <2> QED  BY <2>1 DEF Rows
<1> HIDE DEF next, rows
<1>7. Page(limit, after, unread) = [rows |-> rows, next |-> next]
  BY DEF Page, PageOf, S, P, next, rows
<1>8. ASSUME NEW m \in S PROVE m \in P \/ (next # Null /\ m < next)
  <2>1. CASE next = Null
    BY <1>5, <2>1
  <2>2. CASE next # Null
    <3>1. next \in P /\ next \in Int /\ m \in Int
      BY <1>1, <1>2, <1>5, <2>2, MessageFacts
    <3>2. m > next => m \in P
      BY <1>2, <3>1
    <3>3. m = next => m \in P
      BY <3>1
    <3> QED  BY <2>2, <3>1, <3>2, <3>3
  <2> QED  BY <2>1, <2>2
<1> DEFINE page == [rows |-> rows, next |-> next]
<1>9. page \in PageRecord /\ WellMade(page) /\ DOMAIN page.rows \subseteq S
      /\ \A m \in S : Reaches(page, m)
  BY <1>2, <1>5, <1>6, <1>8 DEF PageRecord, WellMade, Reaches
<1> QED  BY <1>7, <1>9 DEF S

-----------------------------------------------------------------------------
(* The inductive invariant                                                 *)

UpTo(n, S) == \A m \in S : m <= n

(* No message the client or its requests know of is newer than the newest. *)
PlacesInv ==
  /\ UpTo(newest, Present)
  /\ \A m \in Message : pool[m] # Absent => m <= newest
  /\ listCursor # Null => listCursor <= newest
  /\ poolCursor \in Message => poolCursor <= newest
  /\ poolTop <= newest
  /\ poolCursor = Start => poolTop = 0

(* A message that is gone stays gone.                                      *)
PatchInv == \A m \in pending : patch[m].answer = "missing" => table[m] = Absent

SteadyInv == steady \subseteq Matching

NewerThan(m, S) == \A n \in S : n < m

(* m arrived after all that the list knows, and what it waits for.         *)
NewerThanList(m) ==
  /\ NewerThan(m, list)
  /\ listCursor # Null => listCursor < m
  /\ more # NoRequest => more.cursor < m

(* The answer to the first-page request that counts misses only what is    *)
(* further down and what arrived since.                                    *)
FirstInv ==
  \A r \in first : r.current =>
    /\ r.unreadOnly = unreadOnly
    /\ r.answer # Waiting =>
         /\ WellMade(r.answer)
         /\ UpTo(newest, DOMAIN r.answer.rows)
         /\ \A m \in steady :
              \/ Reaches(r.answer, m)
              \/ NewerThanList(m) /\ NewerThan(m, DOMAIN r.answer.rows)

(* The answer to loadMore that is meant for the list goes on where the     *)
(* list ends.                                                              *)
MoreInv ==
  more # NoRequest =>
    /\ more.cursor <= newest
    /\ more.meant => more.cursor = listCursor /\ more.unreadOnly = unreadOnly
    /\ more.answer # Waiting =>
         /\ WellMade(more.answer)
         /\ \A n \in DOMAIN more.answer.rows : n < more.cursor
         /\ more.meant => \A m \in steady : m < more.cursor => Reaches(more.answer, m)

(* So does the wide page, for the pool.                                    *)
WideInv ==
  wide # NoRequest =>
    /\ wide.cursor = poolCursor
    /\ wide.answer # Waiting =>
         /\ WellMade(wide.answer)
         /\ UpTo(newest, DOMAIN wide.answer.rows)
         /\ \A m \in Present :
              \/ Reaches(wide.answer, m)
              \/ IF wide.cursor = Start THEN NewerThan(m, DOMAIN wide.answer.rows)
                                        ELSE m >= wide.cursor

WebInv ==
  /\ WebTypeOK /\ PlacesInv /\ PatchInv /\ SteadyInv
  /\ FirstInv /\ MoreInv /\ WideInv
  /\ PendingKept /\ NoGapOfItsOwn /\ PoolHasNoGap

-----------------------------------------------------------------------------
(* Types of requests and answers                                           *)

LEMMA ConstantFacts ==
  /\ Absent \notin BOOLEAN /\ Null \notin Message /\ Start \notin Message /\ Start # Null
  /\ Waiting \notin PageRecord /\ Waiting # "done" /\ Waiting # "missing"
  /\ NoRequest \notin MoreRequests /\ NoRequest \notin WideRequests
  /\ NoRequest \notin PatchRequests
BY PlaceAssumption, NoAnswerAssumption, NoRequestAssumption

LEMMA PageRecordFacts ==
  ASSUME NEW page \in PageRecord
  PROVE  /\ page.next \in Message \cup {Null}
         /\ DOMAIN page.rows \in SUBSET Message
         /\ \A m \in DOMAIN page.rows : page.rows[m] \in BOOLEAN
BY DEF PageRecord, Rows

LEMMA FirstFacts ==
  ASSUME WebTypeOK, NEW r \in first
  PROVE  /\ r \in FirstRequests
         /\ r.mode \in {"fresh", "silent"} /\ r.unreadOnly \in BOOLEAN /\ r.current \in BOOLEAN
         /\ r.answer \in Answer /\ (r.answer # Waiting => r.answer \in PageRecord)
BY DEF WebTypeOK, FirstRequests, Answer

LEMMA MoreFacts ==
  ASSUME WebTypeOK, more # NoRequest
  PROVE  /\ more \in MoreRequests
         /\ more.cursor \in Message /\ more.unreadOnly \in BOOLEAN /\ more.meant \in BOOLEAN
         /\ more.answer \in Answer /\ (more.answer # Waiting => more.answer \in PageRecord)
BY DEF WebTypeOK, MoreRequests, Answer

LEMMA WideFacts ==
  ASSUME WebTypeOK, wide # NoRequest
  PROVE  /\ wide \in WideRequests
         /\ wide.cursor \in Message \cup {Start}
         /\ wide.answer \in Answer /\ (wide.answer # Waiting => wide.answer \in PageRecord)
BY DEF WebTypeOK, WideRequests, Answer

LEMMA PatchFacts ==
  ASSUME WebTypeOK
  PROVE  /\ patch \in [Message -> {NoRequest} \cup PatchRequests]
         /\ pending \subseteq Message
         /\ \A m \in pending : /\ patch[m] \in PatchRequests /\ patch[m].isRead \in BOOLEAN
                               /\ patch[m].answer \in {Waiting, "done", "missing"}
BY DEF WebTypeOK, pending, PatchRequests

(* IntoPool adds the rows of a page, and keeps what is pending.            *)
LEMMA IntoPoolFacts ==
  ASSUME WebTypeOK, NEW page \in PageRecord
  PROVE  /\ IntoPool(page) \in [Message -> ReadState]
         /\ \A m \in Message :
              /\ IntoPool(page)[m] # Absent <=> pool[m] # Absent \/ m \in DOMAIN page.rows
              /\ m \in pending /\ pool[m] # Absent => IntoPool(page)[m] = pool[m]
<1>1. pool \in [Message -> ReadState] /\ \A m \in DOMAIN page.rows : page.rows[m] \in BOOLEAN
  BY PageRecordFacts DEF WebTypeOK
<1> QED  BY <1>1, ConstantFacts DEF IntoPool, ReadState

(* Integers, for all that follows.                                         *)
LEMMA PlaceFacts ==
  ASSUME WebTypeOK
  PROVE  /\ newest \in Int /\ newest >= 0 /\ poolTop \in Int /\ poolTop >= 0
         /\ list \subseteq Message /\ (listCursor # Null => listCursor \in Message)
         /\ (more # NoRequest => more.cursor \in Message)
         /\ steady \subseteq Message /\ Present \subseteq Message
         /\ pool \in [Message -> ReadState] /\ table \in [Message -> ReadState]
BY MessageFacts, MoreFacts DEF WebTypeOK, Present

-----------------------------------------------------------------------------
(* What the mailbox does: rows arrive, go and change, and requests to mark *)
(* messages are served.                                                    *)

(* A message that is pending is in the pool.                               *)
LEMMA PendingFacts ==
  ASSUME WebTypeOK, PendingKept
  PROVE  \A m \in pending : pool[m] # Absent /\ pool[m] \in BOOLEAN
BY PatchFacts, ConstantFacts DEF PendingKept

LEMMA ServerInv ==
  ASSUME WebInv, WebTypeOK', newest <= newest',
         \A m \in Present' : m \in Present \/ newest < m,
         UpTo(newest', Present'),
         UNCHANGED <<dataVars, phase, unreadOnly, first, more, wide, poolTop, mixed>>, KeepSteady,
         pending' = pending, \A m \in pending : patch'[m].isRead = patch[m].isRead,
         \A m \in pending : patch'[m].answer = "missing" => patch[m].answer = "missing" \/ m \notin Present'
  PROVE  WebInv'
<1> USE DEF dataVars
<1>1. WebTypeOK /\ PlacesInv /\ PatchInv /\ SteadyInv /\ FirstInv /\ MoreInv /\ WideInv
      /\ PendingKept /\ NoGapOfItsOwn /\ PoolHasNoGap
  BY DEF WebInv
<1>2. /\ newest \in Int /\ newest' \in Int /\ \A m \in Message : m \in Int
      /\ steady \subseteq Message /\ steady' \subseteq Message
      /\ Present \subseteq Message /\ Present' \subseteq Message
  BY <1>1, PlaceFacts, MessageFacts DEF WebTypeOK, Present
<1>3. \A m \in steady' : m \in steady \/ newest < m
  BY <1>2 DEF KeepSteady, Matching, Selected, Present
<1>4. PlacesInv'
  <2>1. \A m \in Int : m <= newest => m <= newest'
    BY <1>2
  <2>2. /\ listCursor # Null => listCursor \in Int
        /\ poolTop \in Int
    BY <1>1, <1>2, PlaceFacts
  <2> QED  BY <1>1, <1>2, <2>1, <2>2 DEF PlacesInv
<1>5. PatchInv'
  <2>1. ASSUME NEW m \in pending, m \in Present', patch'[m].answer = "missing" PROVE FALSE
    <3>1. m \in Message /\ m \notin Present /\ m <= newest
      BY <1>1, <2>1, PatchFacts, PendingFacts DEF PatchInv, Present, PlacesInv
    <3> QED  BY <1>2, <2>1, <3>1
  <2> QED  BY <2>1, PatchFacts, <1>1 DEF PatchInv, Present
<1>6. SteadyInv'
  BY DEF SteadyInv, KeepSteady
<1>7. FirstInv'
  <2> SUFFICES ASSUME NEW r \in first, r.current
               PROVE  /\ r.unreadOnly = unreadOnly
                      /\ r.answer # Waiting =>
                           /\ WellMade(r.answer)
                           /\ UpTo(newest', DOMAIN r.answer.rows)
                           /\ \A m \in steady' :
                                \/ Reaches(r.answer, m)
                                \/ NewerThanList(m) /\ NewerThan(m, DOMAIN r.answer.rows)
    BY DEF FirstInv, NewerThanList
  <2>1. r.unreadOnly = unreadOnly
    BY <1>1 DEF FirstInv
  <2>2. ASSUME r.answer # Waiting
        PROVE  /\ WellMade(r.answer) /\ UpTo(newest, DOMAIN r.answer.rows)
               /\ DOMAIN r.answer.rows \subseteq Message
               /\ \A m \in steady :
                    \/ Reaches(r.answer, m)
                    \/ NewerThanList(m) /\ NewerThan(m, DOMAIN r.answer.rows)
    BY <1>1, <2>2, FirstFacts, PageRecordFacts DEF FirstInv
  <2>3. ASSUME NEW m \in steady', m \notin steady, r.answer # Waiting
        PROVE  NewerThanList(m) /\ NewerThan(m, DOMAIN r.answer.rows)
    <3>1. newest < m /\ m \in Int
      BY <1>2, <1>3, <2>3
    <3>2. UpTo(newest, list) /\ list \subseteq Message
      BY <1>1 DEF PlacesInv, WebTypeOK, UpTo
    <3>3. more # NoRequest => more.cursor <= newest
      BY <1>1 DEF MoreInv
    <3>4. (listCursor # Null => listCursor <= newest /\ listCursor \in Message)
          /\ (more # NoRequest => more.cursor \in Message)
      BY <1>1, PlaceFacts DEF PlacesInv
    <3>5. \A k \in Message : k <= newest => k < m
      BY <1>2, <3>1
    <3>6. NewerThan(m, DOMAIN r.answer.rows) /\ NewerThan(m, list)
      BY <2>2, <2>3, <3>2, <3>5 DEF NewerThan, UpTo
    <3> QED  BY <3>3, <3>4, <3>5, <3>6 DEF NewerThanList
  <2>4. r.answer # Waiting => UpTo(newest', DOMAIN r.answer.rows)
    BY <1>2, <2>2 DEF UpTo
  <2> QED  BY <2>1, <2>2, <2>3, <2>4
<1>8. MoreInv'
  <2>1. more # NoRequest => more.cursor <= newest /\ more.cursor \in Int
    BY <1>1, MoreFacts, MessageFacts DEF MoreInv
  <2> QED  BY <1>1, <1>2, <1>3, <2>1 DEF MoreInv
<1>9. WideInv'
  <2> SUFFICES ASSUME wide # NoRequest
               PROVE  WideInv'
    BY DEF WideInv
  <2>1. wide.cursor = poolCursor /\ wide.cursor \in Message \cup {Start}
    BY <1>1, WideFacts DEF WideInv
  <2>2. ASSUME wide.answer # Waiting
        PROVE  /\ WellMade(wide.answer) /\ UpTo(newest, DOMAIN wide.answer.rows)
               /\ DOMAIN wide.answer.rows \subseteq Message
               /\ \A m \in Present :
                    \/ Reaches(wide.answer, m)
                    \/ IF wide.cursor = Start THEN NewerThan(m, DOMAIN wide.answer.rows)
                                              ELSE m >= wide.cursor
    BY <1>1, <2>2, WideFacts, PageRecordFacts DEF WideInv
  <2>3. ASSUME NEW m \in Present', m \notin Present, wide.answer # Waiting
        PROVE  IF wide.cursor = Start THEN NewerThan(m, DOMAIN wide.answer.rows)
                                      ELSE m >= wide.cursor
    <3>1. newest < m /\ m \in Int
      BY <1>2, <2>3
    <3>2. wide.cursor # Start => wide.cursor <= newest /\ wide.cursor \in Int
      BY <1>1, <1>2, <2>1 DEF PlacesInv
    <3>3. \A k \in Message : k <= newest => k < m /\ m >= k
      BY <1>2, <3>1
    <3> QED  BY <2>1, <2>2, <2>3, <3>2, <3>3 DEF NewerThan, UpTo
  <2>4. wide.answer # Waiting => UpTo(newest', DOMAIN wide.answer.rows)
    BY <1>2, <2>2 DEF UpTo
  <2> QED  BY <2>1, <2>2, <2>3, <2>4 DEF WideInv
<1>10. PendingKept'
  BY <1>1 DEF PendingKept
<1>11. NoGapOfItsOwn'
  <2>1. \A n \in list : n <= newest /\ n \in Int
    BY <1>1, MessageFacts DEF PlacesInv, WebTypeOK
  <2> QED  BY <1>1, <1>2, <1>3, <2>1 DEF NoGapOfItsOwn, NoGap
<1>12. PoolHasNoGap'
  <2>1. poolTop <= newest /\ poolTop \in Int
    BY <1>1, <1>2, PlaceFacts DEF PlacesInv
  <2> QED  BY <1>1, <1>2, <2>1 DEF PoolHasNoGap
<1> QED  BY <1>4, <1>5, <1>6, <1>7, <1>8, <1>9, <1>10, <1>11, <1>12 DEF WebInv


(* New rows are newer than all there have been.                            *)
TableGrows ==
  /\ newest' \in Message \cup {0} /\ table' \in [Message -> ReadState]
  /\ changes' \in 0 .. MaxChanges
  /\ newest <= newest' /\ UpTo(newest', Present')
  /\ \A m \in Present' : m \in Present \/ newest < m

LEMMA RowChangesInv == WebInv /\ RowChanges => WebInv'
<1> SUFFICES ASSUME WebInv, RowChanges PROVE WebInv'
  OBVIOUS
<1> USE DEF RowChanges, requestVars, dataVars
<1>1. WebTypeOK /\ PlacesInv /\ UpTo(newest, Present)
  BY DEF WebInv, PlacesInv
<1>2. /\ newest \in Message \cup {0} /\ newest \in Int /\ table \in [Message -> ReadState]
      /\ changes \in 0 .. MaxChanges /\ Present \subseteq Message
  BY <1>1, PlaceFacts DEF WebTypeOK
<1>3. TableGrows
  <2>1. CASE Arrives /\ UNCHANGED changes
    <3>1. /\ newest' = newest + 1 /\ newest' \in Message /\ changes' = changes
          /\ table' = [table EXCEPT ![newest'] = FALSE]
      BY <2>1 DEF Arrives
    <3>2. table' \in [Message -> ReadState]
      BY <1>2, <3>1 DEF ReadState
    <3>3. \A m \in Present' : m \in Present \/ m = newest'
      BY <1>2, <3>1 DEF Present
    <3>4. \A m \in Present : m \in Int /\ m <= newest
      BY <1>1, <1>2, MessageFacts DEF UpTo
    <3>5. newest < newest' /\ newest <= newest' /\ newest' <= newest'
          /\ \A m \in Int : m <= newest => m <= newest'
      BY <1>2, <3>1
    <3> QED  BY <1>2, <3>1, <3>2, <3>3, <3>4, <3>5 DEF UpTo, TableGrows
  <2>2. ASSUME changes < MaxChanges, changes' = changes + 1, newest' = newest,
               NEW m \in Present, NEW v \in {~table[m], Absent}, table' = [table EXCEPT ![m] = v]
        PROVE  TableGrows
    <3>1. m \in Message /\ table[m] \in BOOLEAN /\ v \in ReadState
      BY <1>2, <2>2 DEF Present, ReadState
    <3>2. table' \in [Message -> ReadState] /\ Present' \subseteq Present
      BY <1>2, <2>2, <3>1 DEF Present
    <3>3. changes' \in 0 .. MaxChanges
      BY <1>2, <2>2, MaxChangesAssumption
    <3> QED  BY <1>1, <1>2, <2>2, <3>2, <3>3 DEF UpTo, TableGrows
  <2> QED  BY <2>1, <2>2 DEF OtherChange
<1>4. steady' \subseteq Message
  BY DEF KeepSteady, Matching, Selected, Present
<1>5. WebTypeOK'
  BY <1>1, <1>3, <1>4 DEF WebTypeOK, TableGrows
<1>6. pending' = pending
  BY DEF pending
<1> QED  BY <1>3, <1>5, <1>6, ServerInv DEF TableGrows

LEMMA PatchServedInv == WebInv => \A m \in Message : PatchServed(m) => WebInv'
<1> SUFFICES ASSUME WebInv, NEW m \in Message, PatchServed(m) PROVE WebInv'
  OBVIOUS
<1> USE DEF dataVars
<1>1. WebTypeOK /\ PlacesInv /\ UpTo(newest, Present)
  BY DEF WebInv, PlacesInv
<1>2. /\ patch \in [Message -> {NoRequest} \cup PatchRequests] /\ m \in pending
      /\ patch[m] \in PatchRequests /\ patch[m].isRead \in BOOLEAN /\ m \in Message
      /\ table \in [Message -> ReadState] /\ newest \in Int
  BY <1>1, PatchFacts, PlaceFacts DEF PatchServed, WebTypeOK
<1>3. PICK a \in {"done", "missing"} :
        /\ patch' = [patch EXCEPT ![m].answer = a]
        /\ table' \in [Message -> ReadState] /\ UNCHANGED <<newest, changes>>
        /\ \A n \in Message : table'[n] = Absent <=> table[n] = Absent
        /\ a = "missing" => table'[m] = Absent
  <2>1. CASE ReadStateWritten(m, patch[m].isRead) /\ patch' = [patch EXCEPT ![m].answer = "done"]
    <3>1. table' = [table EXCEPT ![m] = patch[m].isRead] /\ table[m] # Absent /\ UNCHANGED <<newest, changes>>
      BY <2>1 DEF ReadStateWritten
    <3>2. table' \in [Message -> ReadState] /\ \A n \in Message : table'[n] = Absent <=> table[n] = Absent
      BY <1>2, <3>1, ConstantFacts DEF ReadState
    <3> QED  BY <2>1, <3>1, <3>2
  <2>2. CASE table[m] = Absent /\ patch' = [patch EXCEPT ![m].answer = "missing"] /\ UNCHANGED serverVars
    BY <1>2, <2>2 DEF serverVars
  <2> QED  BY <2>1, <2>2 DEF PatchServed
<1> DEFINE p == [patch[m] EXCEPT !.answer = a]
<1>4. p \in PatchRequests /\ p.isRead = patch[m].isRead /\ p.answer = a
  BY <1>2, <1>3 DEF PatchRequests
<1> HIDE DEF p
<1>5. patch' = [patch EXCEPT ![m] = p]
  BY <1>3 DEF p
<1>6. /\ patch' \in [Message -> {NoRequest} \cup PatchRequests]
      /\ \A n \in Message : patch'[n] = IF n = m THEN p ELSE patch[n]
  BY <1>2, <1>4, <1>5
<1>7. pending' = pending
  BY <1>2, <1>4, <1>6, ConstantFacts DEF pending
<1>8. Present' = Present
  BY <1>3 DEF Present
<1>9. steady' \subseteq Message
  BY DEF PatchServed, KeepSteady, Matching, Selected, Present
<1>10. UNCHANGED <<pool, list, listCursor, poolCursor, phase, unreadOnly, first, more, wide, poolTop, mixed>>
  BY DEF PatchServed
<1>11. WebTypeOK'
  BY <1>1, <1>3, <1>6, <1>9, <1>10 DEF WebTypeOK
<1>12. \A n \in pending : /\ patch'[n].isRead = patch[n].isRead
                          /\ patch'[n].answer = "missing" => patch[n].answer = "missing" \/ n \notin Present'
  BY <1>1, <1>3, <1>4, <1>6, PatchFacts DEF Present
<1>13. newest <= newest' /\ UpTo(newest', Present') /\ KeepSteady /\ \A n \in Present' : n \in Present
  BY <1>1, <1>2, <1>3, <1>8 DEF PatchServed
<1> QED  BY <1>7, <1>10, <1>11, <1>12, <1>13, ServerInv


-----------------------------------------------------------------------------
(* setRead                                                                 *)

(* A step that changes values in the pool, and takes out only what is gone. *)
LEMMA PoolValuesInv ==
  ASSUME WebInv, WebTypeOK', PatchInv', PendingKept',
         UNCHANGED <<serverVars, listCursor, poolCursor, phase, unreadOnly, first, more, wide, historyVars>>,
         list' \subseteq list, \A m \in list : m \in list' \/ m \notin Present,
         \A m \in Message : pool'[m] # Absent => pool[m] # Absent,
         \A m \in Present : pool[m] # Absent => pool'[m] # Absent
  PROVE  WebInv'
<1> USE DEF serverVars, historyVars
<1>1. WebTypeOK /\ PlacesInv /\ PatchInv /\ SteadyInv /\ FirstInv /\ MoreInv /\ WideInv
      /\ PendingKept /\ NoGapOfItsOwn /\ PoolHasNoGap
  BY DEF WebInv
<1>2. Present' = Present /\ Matching' = Matching
  BY DEF Present, Matching, Selected
<1>3. PlacesInv' /\ SteadyInv'
  BY <1>1, <1>2 DEF PlacesInv, SteadyInv
<1>4. \A m \in steady : NewerThanList(m) => NewerThanList(m)'
  BY DEF NewerThanList, NewerThan
<1>5. FirstInv'
  BY <1>1, <1>4 DEF FirstInv
<1>6. MoreInv' /\ WideInv'
  BY <1>1, <1>2 DEF MoreInv, WideInv
<1>7. steady \subseteq Present
  BY <1>1 DEF SteadyInv, Matching, Selected
<1>8. NoGapOfItsOwn'
  BY <1>1, <1>7 DEF NoGapOfItsOwn, NoGap
<1>9. PoolHasNoGap'
  BY <1>1, <1>2 DEF PoolHasNoGap
<1> QED  BY <1>1, <1>3, <1>5, <1>6, <1>8, <1>9 DEF WebInv

(* setRead of one message or of several at once: the values of isRead      *)
(* show while the requests are under way.                                  *)
LEMMA ReadsInv ==
  ASSUME WebInv, NEW S \in SUBSET (Message \ pending), \A m \in S : pool[m] # Absent,
         NEW isRead \in [S -> BOOLEAN],
         pool' = [m \in Message |-> IF m \in S THEN isRead[m] ELSE pool[m]],
         patch' = [m \in Message |-> IF m \in S THEN [isRead |-> isRead[m], answer |-> Waiting]
                                     ELSE patch[m]],
         UNCHANGED <<serverVars, list, listCursor, poolCursor, phase, unreadOnly, first, more, wide, historyVars>>
  PROVE  WebInv'
<1>1. WebTypeOK /\ PatchInv /\ PendingKept /\ pool \in [Message -> ReadState]
  BY DEF WebInv, WebTypeOK
<1>2. /\ pool' \in [Message -> ReadState]
      /\ \A m \in Message : pool'[m] # Absent <=> pool[m] # Absent
  BY <1>1, ConstantFacts DEF ReadState
<1>3. \A m \in S : patch'[m] \in PatchRequests /\ patch'[m].answer = Waiting /\ patch'[m].isRead = isRead[m]
  BY DEF PatchRequests
<1>4. patch' \in [Message -> {NoRequest} \cup PatchRequests] /\ pending' = pending \cup S
  <2>1. patch \in [Message -> {NoRequest} \cup PatchRequests]
    BY <1>1, PatchFacts
  <2>2. \A m \in Message \ S : patch'[m] = patch[m]
    OBVIOUS
  <2>3. patch' \in [Message -> {NoRequest} \cup PatchRequests]
    BY <1>3, <2>1, <2>2
  <2>4. \A m \in S : patch'[m] # NoRequest
    BY <1>3, ConstantFacts
  <2> QED  BY <2>2, <2>3, <2>4 DEF pending
<1>5. WebTypeOK'
  BY <1>1, <1>2, <1>4 DEF WebTypeOK, serverVars, historyVars
<1>6. PatchInv'
  <2>1. \A m \in pending \ S : patch'[m] = patch[m] /\ table'[m] = table[m]
    BY <1>1, PatchFacts DEF serverVars
  <2> QED  BY <1>1, <1>3, <1>4, <2>1, ConstantFacts DEF PatchInv
<1>7. PendingKept'
  <2>1. \A m \in pending \ S : patch'[m] = patch[m] /\ pool'[m] = pool[m]
    BY <1>1, PatchFacts
  <2>2. \A m \in S : pool'[m] = isRead[m]
    OBVIOUS
  <2> QED  BY <1>1, <1>3, <1>4, <2>1, <2>2 DEF PendingKept
<1>8. Present \subseteq Message
  BY DEF Present
<1> QED  BY <1>2, <1>5, <1>6, <1>7, <1>8, PoolValuesInv

LEMMA SetReadInv == WebInv => \A m \in Message : SetRead(m) => WebInv'
<1> SUFFICES ASSUME WebInv, NEW m \in Message, SetRead(m) PROVE WebInv'
  OBVIOUS
<1> DEFINE isRead == [k \in {m} |-> ~pool[m]]
<1>1. /\ pool \in [Message -> ReadState] /\ pool[m] \in BOOLEAN
      /\ patch \in [Message -> {NoRequest} \cup PatchRequests]
  BY ConstantFacts DEF WebInv, WebTypeOK, SetRead, ReadState
<1>2. isRead \in [{m} -> BOOLEAN] /\ isRead[m] = ~pool[m]
  BY <1>1
<1> HIDE DEF isRead
<1>3. /\ pool' = [k \in Message |-> IF k \in {m} THEN isRead[k] ELSE pool[k]]
      /\ patch' = [k \in Message |-> IF k \in {m} THEN [isRead |-> isRead[k], answer |-> Waiting]
                                     ELSE patch[k]]
  BY <1>1, <1>2 DEF SetRead, PatchMessage
<1>4. {m} \in SUBSET (Message \ pending) /\ \A k \in {m} : pool[k] # Absent
  BY DEF SetRead
<1>5. UNCHANGED <<serverVars, list, listCursor, poolCursor, phase, unreadOnly, first, more, wide, historyVars>>
  BY DEF SetRead, PatchMessage
<1> QED  BY <1>2, <1>3, <1>4, <1>5, ReadsInv

LEMMA PatchEndsInv == WebInv => \A m \in Message : PatchArrives(m) \/ PatchFails(m) => WebInv'
<1> SUFFICES ASSUME WebInv, NEW m \in Message, PatchArrives(m) \/ PatchFails(m) PROVE WebInv'
  OBVIOUS
<1>1. WebTypeOK /\ PatchInv /\ PendingKept
  BY DEF WebInv
<1>2. /\ pool \in [Message -> ReadState] /\ list \subseteq {n \in Message : pool[n] # Absent}
      /\ patch \in [Message -> {NoRequest} \cup PatchRequests] /\ m \in pending
      /\ patch[m].isRead \in BOOLEAN /\ pool[m] # Absent
      /\ UNCHANGED <<serverVars, listCursor, poolCursor, phase, unreadOnly, first, more, wide, historyVars>>
      /\ patch' = [patch EXCEPT ![m] = NoRequest]
  BY <1>1, PatchFacts, PendingFacts
     DEF WebTypeOK, PatchArrives, PatchFails, PatchMessage, RemoveMessage
<1>3. /\ patch' \in [Message -> {NoRequest} \cup PatchRequests]
      /\ pending' = pending \ {m} /\ \A n \in pending' : patch'[n] = patch[n]
  BY <1>2 DEF pending
<1>4. PatchInv'
  BY <1>1, <1>2, <1>3 DEF PatchInv, serverVars
<1>5. CASE \E v \in BOOLEAN : PatchMessage(m, v)
  <2>1. PICK v \in BOOLEAN : pool' = [pool EXCEPT ![m] = v] /\ list' = list
    BY <1>2, <1>5 DEF PatchMessage
  <2>2. /\ pool' \in [Message -> ReadState]
        /\ \A n \in Message : pool'[n] # Absent <=> pool[n] # Absent
        /\ \A n \in Message \ {m} : pool'[n] = pool[n]
    BY <1>2, <2>1, ConstantFacts DEF ReadState
  <2>3. WebTypeOK'
    BY <1>1, <1>2, <1>3, <2>1, <2>2 DEF WebTypeOK, serverVars, historyVars
  <2>4. PendingKept'
    BY <1>1, <1>3, <2>2, PatchFacts DEF PendingKept
  <2>5. Present \subseteq Message
    BY DEF Present
  <2> QED  BY <1>2, <1>4, <2>1, <2>2, <2>3, <2>4, <2>5, PoolValuesInv
<1>6. CASE patch[m].answer = "missing" /\ RemoveMessage(m)
  <2>1. pool' = [pool EXCEPT ![m] = Absent] /\ list' = list \ {m} /\ m \notin Present
    BY <1>1, <1>2, <1>6 DEF RemoveMessage, PatchInv, Present
  <2>2. /\ pool' \in [Message -> ReadState]
        /\ \A n \in Message \ {m} : pool'[n] = pool[n]
        /\ pool'[m] = Absent
    BY <1>2, <2>1 DEF ReadState
  <2>3. WebTypeOK'
    <3>1. list' \subseteq {n \in Message : pool'[n] # Absent}
      BY <1>2, <2>1, <2>2
    <3> QED  BY <1>1, <1>2, <1>3, <2>2, <3>1 DEF WebTypeOK, serverVars, historyVars
  <2>4. PendingKept'
    BY <1>1, <1>3, <2>2, PatchFacts DEF PendingKept
  <2>5. Present \subseteq Message
    BY DEF Present
  <2> QED  BY <1>2, <1>4, <2>1, <2>2, <2>3, <2>4, <2>5, PoolValuesInv
<1> QED  BY <1>2, <1>5, <1>6 DEF PatchArrives, PatchFails


-----------------------------------------------------------------------------
(* loadOlder                                                               *)

(* A step of nothing but the request for a wide page.                      *)
LEMMA OnlyWideInv ==
  ASSUME WebInv, wide' \in {NoRequest} \cup WideRequests, WideInv',
         UNCHANGED <<serverVars, dataVars, phase, unreadOnly, first, more, patch, historyVars>>
  PROVE  WebInv'
<1> USE DEF serverVars, dataVars, historyVars
<1>1. WebTypeOK /\ PlacesInv /\ PatchInv /\ SteadyInv /\ FirstInv /\ MoreInv
      /\ PendingKept /\ NoGapOfItsOwn /\ PoolHasNoGap
  BY DEF WebInv
<1>2. Present' = Present /\ Matching' = Matching /\ pending' = pending
  BY DEF Present, Matching, Selected, pending
<1>3. WebTypeOK'
  BY <1>1 DEF WebTypeOK
<1>4. PlacesInv' /\ PatchInv' /\ SteadyInv' /\ PendingKept'
  BY <1>1, <1>2 DEF PlacesInv, PatchInv, SteadyInv, PendingKept
<1>5. FirstInv' /\ MoreInv'
  BY <1>1, <1>2 DEF FirstInv, MoreInv, NewerThanList
<1>6. NoGapOfItsOwn' /\ PoolHasNoGap'
  BY <1>1, <1>2 DEF NoGapOfItsOwn, NoGap, PoolHasNoGap
<1> QED  BY <1>3, <1>4, <1>5, <1>6 DEF WebInv

(* A new request goes on where the pool ends.                              *)
LEMMA WideRequestFacts ==
  ASSUME NEW cursor \in Message \cup {Start}
  PROVE  /\ WideRequest(cursor) \in WideRequests /\ WideRequest(cursor) # NoRequest
         /\ WideRequest(cursor).cursor = cursor /\ WideRequest(cursor).answer = Waiting
<1>1. WideRequest(cursor) \in WideRequests
  BY DEF WideRequest, WideRequests, Answer
<1> QED  BY <1>1, ConstantFacts DEF WideRequest

LEMMA WideAsksInv ==
  ASSUME WebInv,
         UNCHANGED <<serverVars, dataVars, phase, unreadOnly, first, more, patch, historyVars>>,
         wide' = NoRequest \/ (poolCursor # Null /\ wide' = WideRequest(poolCursor))
  PROVE  WebInv'
<1>1. poolCursor' = poolCursor /\ poolCursor \in Message \cup {Null, Start}
  BY DEF dataVars, WebInv, WebTypeOK, Cursor
<1>2. wide' \in {NoRequest} \cup WideRequests /\ WideInv'
  BY <1>1, WideRequestFacts DEF WideInv
<1> QED  BY <1>2, OnlyWideInv

LEMMA WideServedInv == WebInv /\ WideServed => WebInv' /\ wide' # NoRequest
<1> SUFFICES ASSUME WebInv, WideServed PROVE WebInv' /\ wide' # NoRequest
  OBVIOUS
<1> DEFINE page == Page(WIDE_PAGE_SIZE, wide.cursor, FALSE)
<1>1. /\ WebTypeOK /\ WideInv /\ UpTo(newest, Present) /\ table \in [Message -> ReadState]
      /\ wide # NoRequest /\ wide \in WideRequests /\ wide.cursor \in Message \cup {Start}
      /\ wide.cursor = poolCursor
  BY WideFacts DEF WebInv, WebTypeOK, PlacesInv, WideServed, WideInv
<1>2. /\ page \in PageRecord /\ WellMade(page)
      /\ DOMAIN page.rows \subseteq Selected(wide.cursor, FALSE)
      /\ \A m \in Selected(wide.cursor, FALSE) : Reaches(page, m)
  BY <1>1, PageFacts, PageSizesAssumption
<1> HIDE DEF page
<1>3. /\ wide' = [wide EXCEPT !.answer = page]
      /\ UNCHANGED <<serverVars, dataVars, phase, unreadOnly, first, more, patch, historyVars>>
  BY DEF WideServed, page
<1>4. wide' \in WideRequests /\ wide'.cursor = wide.cursor /\ wide'.answer = page
  BY <1>1, <1>2, <1>3 DEF WideRequests, Answer
<1>5. Present' = Present /\ newest' = newest /\ poolCursor' = poolCursor
  BY <1>3 DEF Present, serverVars, dataVars
<1>6. UpTo(newest, DOMAIN page.rows)
  BY <1>1, <1>2 DEF UpTo, Selected
<1>7. ASSUME NEW m \in Present, wide.cursor # Start, ~Reaches(page, m)
      PROVE  m >= wide.cursor
  <2>1. wide.cursor \in Int /\ m \in Int
    BY <1>1, <1>7, MessageFacts DEF Present
  <2> QED  BY <1>2, <1>7, <2>1 DEF Selected
<1>8. ASSUME NEW m \in Present, wide.cursor = Start PROVE Reaches(page, m)
  BY <1>2, <1>8 DEF Selected
<1>9. WideInv'
  BY <1>1, <1>2, <1>4, <1>5, <1>6, <1>7, <1>8 DEF WideInv
<1> QED  BY <1>3, <1>4, <1>9, OnlyWideInv, ConstantFacts

(* The answer, after which there is no request, or the next one.           *)
LEMMA WideAnsweredInv ==
  ASSUME WebInv, WideAnswered,
         wide' = NoRequest \/ (poolCursor' # Null /\ wide' = WideRequest(poolCursor'))
  PROVE  WebInv'
<1> DEFINE page == wide.answer
           rows == DOMAIN page.rows
<1> USE DEF serverVars
<1>1. WebTypeOK /\ PlacesInv /\ PatchInv /\ SteadyInv /\ FirstInv /\ MoreInv /\ WideInv
      /\ PendingKept /\ NoGapOfItsOwn /\ PoolHasNoGap
  BY DEF WebInv
<1>2. /\ page \in PageRecord /\ page.next \in Message \cup {Null} /\ rows \in SUBSET Message
      /\ wide.cursor = poolCursor /\ wide.cursor \in Message \cup {Start}
      /\ WellMade(page) /\ UpTo(newest, rows)
      /\ \A m \in Present :
            Reaches(page, m) \/ IF wide.cursor = Start THEN NewerThan(m, rows) ELSE m >= wide.cursor
  BY <1>1, WideFacts, PageRecordFacts DEF WideAnswered, WideInv
<1>3. /\ pool' = IntoPool(page) /\ poolCursor' = page.next
      /\ poolTop' = IF wide.cursor = Start THEN Max({0} \cup rows) ELSE poolTop
      /\ UNCHANGED <<table, newest, changes, list, listCursor, phase, unreadOnly, first, more,
                     patch, steady, mixed>>
  BY DEF WideAnswered, ApplyPoolPage
<1> HIDE DEF page, rows
<1>4. /\ pool' \in [Message -> ReadState]
      /\ \A m \in Message : pool'[m] # Absent <=> pool[m] # Absent \/ m \in rows
      /\ \A m \in pending : pool[m] # Absent => pool'[m] = pool[m]
  BY <1>1, <1>2, <1>3, IntoPoolFacts, PatchFacts DEF rows
<1>5. Present' = Present /\ Matching' = Matching /\ pending' = pending
  BY <1>3 DEF Present, Matching, Selected, pending
<1>6. /\ newest \in Message \cup {0} /\ newest \in Int /\ newest >= 0 /\ list \subseteq Message
      /\ poolTop \in Message \cup {0} /\ Present \subseteq Message
  BY <1>1, PlaceFacts DEF WebTypeOK
<1>7. /\ Max({0} \cup rows) \in {0} \cup rows /\ \A k \in {0} \cup rows : k <= Max({0} \cup rows)
  <2>1. IsFiniteSet({0} \cup rows) /\ {0} \cup rows \subseteq Int /\ {0} \cup rows # {}
    BY <1>2, MessageFacts, FS_EmptySet, FS_AddElement, FS_Union
  <2> QED  BY <2>1, MaxOf
<1>8. wide' \in {NoRequest} \cup WideRequests /\ WideInv'
  <2>1. wide' # NoRequest => wide' = WideRequest(poolCursor') /\ poolCursor' \in Message \cup {Start}
    BY <1>2, <1>3
  <2> QED  BY <2>1, WideRequestFacts DEF WideInv
<1>9. WebTypeOK'
  <2>1. list' \subseteq {m \in Message : pool'[m] # Absent}
    BY <1>1, <1>3, <1>4 DEF WebTypeOK
  <2>2. poolTop' \in Message \cup {0} /\ poolCursor' \in Cursor
    BY <1>2, <1>3, <1>6, <1>7 DEF Cursor
  <2> QED  BY <1>1, <1>3, <1>4, <1>8, <2>1, <2>2 DEF WebTypeOK
<1>10. PlacesInv'
  <2>1. \A m \in Message : pool'[m] # Absent => m <= newest
    BY <1>1, <1>2, <1>4 DEF PlacesInv, UpTo
  <2>2. poolCursor' # Null => poolCursor' <= newest
    BY <1>2, <1>3 DEF WellMade, UpTo, rows
  <2>3. poolTop' <= newest
    BY <1>1, <1>2, <1>3, <1>6, <1>7 DEF PlacesInv, UpTo
  <2>4. poolCursor' # Start
    BY <1>2, <1>3, ConstantFacts
  <2>5. poolCursor' \in Message => poolCursor' # Null
    BY ConstantFacts
  <2> QED  BY <1>1, <1>3, <1>5, <2>1, <2>2, <2>3, <2>4, <2>5 DEF PlacesInv
<1>11. PatchInv' /\ SteadyInv'
  BY <1>1, <1>3, <1>5 DEF PatchInv, SteadyInv
<1>12. FirstInv' /\ MoreInv'
  BY <1>1, <1>3 DEF FirstInv, MoreInv, NewerThanList
<1>13. PendingKept'
  BY <1>1, <1>3, <1>4, <1>5, PendingFacts DEF PendingKept
<1>14. NoGapOfItsOwn'
  BY <1>1, <1>3 DEF NoGapOfItsOwn, NoGap
<1>15. PoolHasNoGap'
  <2> SUFFICES ASSUME NEW m \in Present, m <= poolTop', poolCursor' = Null \/ m >= poolCursor'
               PROVE  pool'[m] # Absent
    BY <1>5 DEF PoolHasNoGap
  <2>0. m \in Message /\ m \in Int /\ m >= 1
    BY <1>6, MessageFacts
  <2>1. CASE Reaches(page, m)
    <3>1. page.next # Null => page.next \in Int
      BY <1>2, MessageFacts
    <3>2. m \in rows
      BY <1>3, <2>0, <2>1, <3>1 DEF Reaches, rows
    <3> QED  BY <1>4, <2>0, <3>2
  <2>2. CASE ~Reaches(page, m) /\ wide.cursor = Start
    <3>1. NewerThan(m, rows) /\ poolTop' \in {0} \cup rows
      BY <1>2, <1>3, <1>7, <2>2
    <3>2. poolTop' < m /\ poolTop' \in Int
      BY <1>2, <2>0, <3>1, MessageFacts DEF NewerThan
    <3> QED  BY <2>0, <3>2
  <2>3. CASE ~Reaches(page, m) /\ wide.cursor # Start
    <3>1. m >= poolCursor /\ poolTop' = poolTop
      BY <1>2, <1>3, <2>3
    <3> QED  BY <1>1, <1>4, <2>0, <3>1 DEF PoolHasNoGap
  <2> QED  BY <2>1, <2>2, <2>3
<1> QED  BY <1>1, <1>8, <1>9, <1>10, <1>11, <1>12, <1>13, <1>14, <1>15 DEF WebInv


-----------------------------------------------------------------------------
(* loadMore                                                                *)

(* A step of nothing but the request of loadMore.                          *)
LEMMA OnlyMoreInv ==
  ASSUME WebInv, more' \in {NoRequest} \cup MoreRequests, MoreInv',
         more' # NoRequest => \A m \in steady : NewerThanList(m) => more'.cursor < m,
         UNCHANGED <<serverVars, dataVars, phase, unreadOnly, first, wide, patch, historyVars>>
  PROVE  WebInv'
<1> USE DEF serverVars, dataVars, historyVars
<1>1. WebTypeOK /\ PlacesInv /\ PatchInv /\ SteadyInv /\ FirstInv /\ WideInv
      /\ PendingKept /\ NoGapOfItsOwn /\ PoolHasNoGap
  BY DEF WebInv
<1>2. Present' = Present /\ Matching' = Matching /\ pending' = pending
  BY DEF Present, Matching, Selected, pending
<1>3. WebTypeOK'
  BY <1>1 DEF WebTypeOK
<1>4. PlacesInv' /\ PatchInv' /\ SteadyInv' /\ PendingKept'
  BY <1>1, <1>2 DEF PlacesInv, PatchInv, SteadyInv, PendingKept
<1>5. \A m \in steady : NewerThanList(m) => NewerThanList(m)'
  BY DEF NewerThanList
<1>6. FirstInv'
  BY <1>1, <1>5 DEF FirstInv
<1>7. WideInv'
  BY <1>1, <1>2 DEF WideInv
<1>8. NoGapOfItsOwn' /\ PoolHasNoGap'
  BY <1>1, <1>2 DEF NoGapOfItsOwn, NoGap, PoolHasNoGap
<1> QED  BY <1>3, <1>4, <1>6, <1>7, <1>8 DEF WebInv

LEMMA MoreAsksInv == WebInv /\ (LoadMore \/ MoreFails) => WebInv'
<1> SUFFICES ASSUME WebInv, LoadMore \/ MoreFails PROVE WebInv'
  OBVIOUS
<1>1. CASE LoadMore
  <2>1. /\ UNCHANGED <<serverVars, dataVars, phase, unreadOnly, first, wide, patch, historyVars>>
        /\ listCursor \in Message /\ listCursor <= newest /\ unreadOnly \in BOOLEAN
        /\ newest' = newest /\ listCursor' = listCursor /\ unreadOnly' = unreadOnly
    BY <1>1 DEF LoadMore, WebInv, WebTypeOK, PlacesInv, serverVars, dataVars
  <2>2. /\ more' \in MoreRequests /\ more'.cursor = listCursor /\ more'.unreadOnly = unreadOnly
        /\ more'.answer = Waiting
    BY <1>1, <2>1 DEF LoadMore, MoreRequests, Answer
  <2>3. MoreInv'
    BY <2>1, <2>2 DEF MoreInv
  <2>4. \A m \in steady : NewerThanList(m) => more'.cursor < m
    BY <2>1, <2>2, ConstantFacts DEF NewerThanList
  <2> QED  BY <2>1, <2>2, <2>3, <2>4, OnlyMoreInv
<1>2. CASE MoreFails
  <2>1. MoreInv'
    BY <1>2 DEF MoreFails, MoreInv
  <2> QED  BY <1>2, <2>1, OnlyMoreInv DEF MoreFails
<1> QED  BY <1>1, <1>2

LEMMA MoreServedInv == WebInv /\ MoreServed => WebInv'
<1> SUFFICES ASSUME WebInv, MoreServed PROVE WebInv'
  OBVIOUS
<1> DEFINE page == Page(PAGE_SIZE, more.cursor, more.unreadOnly)
<1>1. /\ WebTypeOK /\ MoreInv /\ table \in [Message -> ReadState] /\ steady \subseteq Matching
      /\ more # NoRequest /\ more \in MoreRequests
      /\ more.cursor \in Message /\ more.unreadOnly \in BOOLEAN
  BY MoreFacts DEF WebInv, WebTypeOK, SteadyInv, MoreServed
<1>2. /\ page \in PageRecord /\ WellMade(page)
      /\ DOMAIN page.rows \subseteq Selected(more.cursor, more.unreadOnly)
      /\ \A m \in Selected(more.cursor, more.unreadOnly) : Reaches(page, m)
  BY <1>1, PageFacts, PageSizesAssumption
<1> HIDE DEF page
<1>3. /\ more' = [more EXCEPT !.answer = page]
      /\ UNCHANGED <<serverVars, dataVars, phase, unreadOnly, first, wide, patch, historyVars>>
  BY DEF MoreServed, page
<1>4. /\ more' \in MoreRequests /\ more'.cursor = more.cursor /\ more'.answer = page
      /\ more'.meant = more.meant /\ more'.unreadOnly = more.unreadOnly
  BY <1>1, <1>2, <1>3 DEF MoreRequests, Answer
<1>5. newest' = newest /\ listCursor' = listCursor /\ unreadOnly' = unreadOnly /\ steady' = steady
  BY <1>3 DEF serverVars, dataVars, historyVars
<1>6. \A n \in DOMAIN page.rows : n < more.cursor
  BY <1>1, <1>2, ConstantFacts DEF Selected
<1>7. ASSUME more.meant, NEW m \in steady, m < more.cursor
      PROVE  Reaches(page, m)
  <2>1. more.unreadOnly = unreadOnly
    BY <1>1, <1>7 DEF MoreInv
  <2>2. m \in Selected(more.cursor, more.unreadOnly)
    BY <1>1, <1>7, <2>1 DEF Matching, Selected
  <2> QED  BY <1>2, <2>2
<1>8. MoreInv'
  BY <1>1, <1>2, <1>4, <1>5, <1>6, <1>7 DEF MoreInv
<1> QED  BY <1>1, <1>3, <1>4, <1>8, OnlyMoreInv DEF NewerThanList

-----------------------------------------------------------------------------
(* A page comes into the list                                              *)

LEMMA ListPageInv ==
  ASSUME WebInv, NEW page \in PageRecord, UpTo(newest, DOMAIN page.rows), WellMade(page),
         pool' = IntoPool(page), list' \subseteq list \cup DOMAIN page.rows,
         listCursor' \in {listCursor, page.next},
         UNCHANGED <<serverVars, poolCursor, unreadOnly, wide, patch, steady, poolTop>>,
         phase' \in {"loading", "ready", "error"}, first' \subseteq first,
         more' \in {NoRequest} \cup MoreRequests, mixed' \in BOOLEAN,
         FirstInv', MoreInv', NoGapOfItsOwn'
  PROVE  WebInv'
<1> USE DEF serverVars
<1>1. WebTypeOK /\ PlacesInv /\ PatchInv /\ SteadyInv /\ WideInv /\ PendingKept /\ PoolHasNoGap
  BY DEF WebInv
<1>2. Present' = Present /\ Matching' = Matching /\ pending' = pending /\ newest' = newest
  BY DEF Present, Matching, Selected, pending
<1>3. /\ pool' \in [Message -> ReadState]
      /\ \A m \in Message : pool'[m] # Absent <=> pool[m] # Absent \/ m \in DOMAIN page.rows
      /\ \A m \in pending : pool[m] # Absent => pool'[m] = pool[m]
      /\ page.next \in Message \cup {Null} /\ DOMAIN page.rows \subseteq Message
  BY <1>1, IntoPoolFacts, PageRecordFacts, PatchFacts
<1>4. WebTypeOK'
  <2>1. list' \subseteq {m \in Message : pool'[m] # Absent}
    BY <1>1, <1>3 DEF WebTypeOK
  <2>2. listCursor' \in Message \cup {Null}
    BY <1>1, <1>3 DEF WebTypeOK
  <2> QED  BY <1>1, <1>3, <2>1, <2>2 DEF WebTypeOK
<1>5. PlacesInv'
  <2>1. \A m \in Message : pool'[m] # Absent => m <= newest
    BY <1>1, <1>3 DEF PlacesInv, UpTo
  <2>2. page.next # Null => page.next <= newest
    BY DEF WellMade, UpTo
  <2> QED  BY <1>1, <1>2, <2>1, <2>2 DEF PlacesInv
<1>6. PatchInv' /\ SteadyInv' /\ WideInv'
  BY <1>1, <1>2 DEF PatchInv, SteadyInv, WideInv
<1>7. PendingKept'
  BY <1>1, <1>2, <1>3, PendingFacts DEF PendingKept
<1>8. PoolHasNoGap'
  <2>1. Present \subseteq Message
    BY DEF Present
  <2> QED  BY <1>1, <1>2, <1>3, <2>1 DEF PoolHasNoGap
<1> QED  BY <1>4, <1>5, <1>6, <1>7, <1>8 DEF WebInv

LEMMA MoreArrivesInv == WebInv /\ MoreArrives => WebInv'
<1> SUFFICES ASSUME WebInv, MoreArrives PROVE WebInv'
  OBVIOUS
<1> DEFINE page == more.answer
           rows == DOMAIN page.rows
<1>1. WebTypeOK /\ PlacesInv /\ FirstInv /\ MoreInv /\ NoGapOfItsOwn
  BY DEF WebInv
<1>2. /\ page \in PageRecord /\ page.next \in Message \cup {Null} /\ rows \in SUBSET Message
      /\ more.cursor \in Message /\ more.cursor <= newest /\ more.meant \in BOOLEAN
      /\ more.meant => more.cursor = listCursor
      /\ WellMade(page) /\ \A n \in rows : n < more.cursor
      /\ more.meant => \A m \in steady : m < more.cursor => Reaches(page, m)
      /\ more # NoRequest
  BY <1>1, MoreFacts, PageRecordFacts DEF MoreArrives, MoreInv
<1>3. /\ pool' = IntoPool(page) /\ list' = list \cup rows /\ listCursor' = page.next
      /\ more' = NoRequest /\ mixed' = (mixed \/ ~more.meant)
      /\ UNCHANGED <<serverVars, poolCursor, phase, unreadOnly, first, wide, patch, steady, poolTop>>
  BY DEF MoreArrives, ApplyMorePage
<1> HIDE DEF page, rows
<1>4. /\ newest \in Int /\ more.cursor \in Int /\ \A m \in Message : m \in Int
      /\ rows \subseteq Message /\ steady \subseteq Message /\ list \subseteq Message
      /\ (page.next # Null => page.next \in rows)
  BY <1>1, <1>2, PlaceFacts, MessageFacts DEF WellMade, rows
<1>5. UpTo(newest, rows)
  BY <1>2, <1>4 DEF UpTo
<1>6. FirstInv'
  <2>1. ASSUME NEW m \in steady, NewerThanList(m) PROVE NewerThanList(m)'
    <3>1. more.cursor < m /\ NewerThan(m, list) /\ m \in Int
      BY <1>2, <1>4, <2>1 DEF NewerThanList
    <3>2. \A n \in rows : n < m
      BY <1>2, <1>4, <3>1
    <3> QED  BY <1>3, <1>4, <3>1, <3>2 DEF NewerThanList, NewerThan
  <2>2. newest' = newest
    BY <1>3 DEF serverVars
  <2> QED  BY <1>1, <1>3, <2>1, <2>2 DEF FirstInv
<1>7. MoreInv'
  BY <1>3 DEF MoreInv
<1>8. NoGapOfItsOwn'
  <2> SUFFICES ASSUME ~mixed, more.meant, NEW m \in steady, NEW n \in list \cup rows, n > m,
                      page.next = Null \/ m >= page.next
               PROVE  m \in list \cup rows
    BY <1>2, <1>3 DEF NoGapOfItsOwn, NoGap
  <2>1. m \in Int /\ n \in Int /\ (page.next # Null => page.next \in Int)
    BY <1>4
  <2>2. CASE m < more.cursor
    BY <1>2, <2>1, <2>2 DEF Reaches, rows
  <2>3. CASE m >= more.cursor
    <3>1. n \in list
      BY <1>2, <1>4, <2>1, <2>3
    <3>2. m >= listCursor
      BY <1>2, <2>3
    <3> QED  BY <1>1, <3>1, <3>2 DEF NoGapOfItsOwn, NoGap
  <2> QED  BY <1>4, <2>1, <2>2, <2>3
<1>9. mixed' \in BOOLEAN /\ phase' \in {"loading", "ready", "error"} /\ first' \subseteq first
  BY <1>1, <1>2, <1>3 DEF WebTypeOK
<1> QED  BY <1>2, <1>3, <1>5, <1>6, <1>7, <1>8, <1>9, ListPageInv DEF rows


-----------------------------------------------------------------------------
(* loadFirst                                                               *)

(* A step of nothing but the requests for the first page.                  *)
LEMMA OnlyFirstInv ==
  ASSUME WebInv, FirstInv', first' \subseteq FirstRequests,
         \A r, s \in first' : r.current /\ s.current => r = s,
         phase' \in {"loading", "ready", "error"},
         UNCHANGED <<serverVars, dataVars, unreadOnly, more, wide, patch, historyVars>>
  PROVE  WebInv'
<1> USE DEF serverVars, dataVars, historyVars
<1>1. WebTypeOK /\ PlacesInv /\ PatchInv /\ SteadyInv /\ MoreInv /\ WideInv
      /\ PendingKept /\ NoGapOfItsOwn /\ PoolHasNoGap
  BY DEF WebInv
<1>2. Present' = Present /\ Matching' = Matching /\ pending' = pending
  BY DEF Present, Matching, Selected, pending
<1>3. WebTypeOK'
  BY <1>1 DEF WebTypeOK
<1>4. PlacesInv' /\ PatchInv' /\ SteadyInv' /\ PendingKept'
  BY <1>1, <1>2 DEF PlacesInv, PatchInv, SteadyInv, PendingKept
<1>5. MoreInv' /\ WideInv'
  BY <1>1, <1>2 DEF MoreInv, WideInv
<1>6. NoGapOfItsOwn' /\ PoolHasNoGap'
  BY <1>1, <1>2 DEF NoGapOfItsOwn, NoGap, PoolHasNoGap
<1> QED  BY <1>3, <1>4, <1>5, <1>6 DEF WebInv

(* Of the requests there are after a load begins, only the new one counts. *)
LEMMA LoadFirstFacts ==
  ASSUME WebTypeOK, NEW mode \in {"fresh", "silent"}, LoadFirst(mode), unreadOnly' \in BOOLEAN
  PROVE  /\ first' \subseteq FirstRequests
         /\ \A r, s \in first' : r.current /\ s.current => r = s
         /\ \A r \in first' : r.current => r.unreadOnly = unreadOnly' /\ r.answer = Waiting
         /\ phase' \in {"loading", "ready", "error"}
<1>1. Load(mode, unreadOnly') \in FirstRequests
  BY DEF Load, FirstRequests, Answer
<1>2. \A r \in first : [r EXCEPT !.current = FALSE] \in FirstRequests
                       /\ [r EXCEPT !.current = FALSE].current = FALSE
  BY DEF WebTypeOK, FirstRequests
<1>3. first' = {[r EXCEPT !.current = FALSE] : r \in first} \cup {Load(mode, unreadOnly')}
  BY DEF LoadFirst
<1>4. \A r \in first' : r \in FirstRequests /\ (r.current => r = Load(mode, unreadOnly'))
  BY <1>1, <1>2, <1>3
<1>5. phase' \in {"loading", "ready", "error"}
  BY DEF LoadFirst, WebTypeOK
<1>6. Load(mode, unreadOnly').unreadOnly = unreadOnly' /\ Load(mode, unreadOnly').answer = Waiting
  BY DEF Load
<1>7. \A r \in first' : r.current => r.unreadOnly = unreadOnly' /\ r.answer = Waiting
  BY <1>4, <1>6
<1>8. \A r, s \in first' : r.current /\ s.current => r = s
  BY <1>4
<1>9. first' \subseteq FirstRequests
  BY <1>4
<1> QED  BY <1>5, <1>7, <1>8, <1>9

LEMMA LoadsInv == WebInv /\ (Refresh \/ AfterSend \/ Reload) => WebInv'
<1> SUFFICES ASSUME WebInv, Refresh \/ AfterSend \/ Reload PROVE WebInv'
  OBVIOUS
<1>1. PICK mode \in {"fresh", "silent"} : LoadFirst(mode)
  BY DEF Refresh, AfterSend, Reload
<1>2. /\ UNCHANGED <<serverVars, dataVars, unreadOnly, more, wide, patch, historyVars>>
      /\ WebTypeOK /\ unreadOnly' \in BOOLEAN
  BY DEF Refresh, AfterSend, Reload, WebInv, WebTypeOK
<1>3. /\ first' \subseteq FirstRequests
      /\ \A r, s \in first' : r.current /\ s.current => r = s
      /\ \A r \in first' : r.current => r.unreadOnly = unreadOnly' /\ r.answer = Waiting
      /\ phase' \in {"loading", "ready", "error"}
  BY <1>1, <1>2, LoadFirstFacts
<1>4. FirstInv'
  BY <1>3 DEF FirstInv
<1> QED  BY <1>2, <1>3, <1>4, OnlyFirstInv

LEMMA FirstServedInv == WebInv /\ FirstServed => WebInv'
<1> SUFFICES ASSUME WebInv, FirstServed PROVE WebInv'
  OBVIOUS
<1>1. PICK r \in first :
        /\ r.answer = Waiting
        /\ first' = (first \ {r}) \cup {[r EXCEPT !.answer = Page(PAGE_SIZE, Start, r.unreadOnly)]}
  BY DEF FirstServed
<1> DEFINE page == Page(PAGE_SIZE, Start, r.unreadOnly)
           served == [r EXCEPT !.answer = page]
<1>2. /\ WebTypeOK /\ FirstInv /\ steady \subseteq Matching /\ UpTo(newest, Present)
      /\ table \in [Message -> ReadState] /\ first \subseteq FirstRequests
      /\ \A q, s \in first : q.current /\ s.current => q = s
      /\ r \in FirstRequests /\ r.unreadOnly \in BOOLEAN /\ phase \in {"loading", "ready", "error"}
  BY FirstFacts DEF WebInv, WebTypeOK, SteadyInv, PlacesInv
<1>3. /\ page \in PageRecord /\ WellMade(page)
      /\ DOMAIN page.rows \subseteq Selected(Start, r.unreadOnly)
      /\ \A m \in Selected(Start, r.unreadOnly) : Reaches(page, m)
  BY <1>2, PageFacts, PageSizesAssumption
<1> HIDE DEF page
<1>4. /\ served \in FirstRequests /\ served.current = r.current /\ served.answer = page
      /\ served.unreadOnly = r.unreadOnly
  BY <1>2, <1>3 DEF FirstRequests, Answer
<1>5. first' = (first \ {r}) \cup {served}
  BY <1>1 DEF page
<1> HIDE DEF served
<1>6. UNCHANGED <<serverVars, dataVars, phase, unreadOnly, more, wide, patch, historyVars>>
  BY DEF FirstServed
<1>7. /\ newest' = newest /\ unreadOnly' = unreadOnly /\ steady' = steady /\ phase' = phase
      /\ \A m : NewerThanList(m)' <=> NewerThanList(m)
  BY <1>6 DEF serverVars, dataVars, historyVars, NewerThanList
<1>8. UpTo(newest, DOMAIN page.rows)
  BY <1>2, <1>3 DEF UpTo, Selected
<1>9. r.current => r.unreadOnly = unreadOnly /\ \A m \in steady : Reaches(page, m)
  BY <1>2, <1>3 DEF FirstInv, Matching
<1>10. FirstInv'
  BY <1>2, <1>3, <1>4, <1>5, <1>7, <1>8, <1>9 DEF FirstInv
<1>11. first' \subseteq FirstRequests /\ \A q, s \in first' : q.current /\ s.current => q = s
  BY <1>2, <1>4, <1>5
<1> QED  BY <1>2, <1>6, <1>7, <1>10, <1>11, OnlyFirstInv

LEMMA FirstFailsInv == WebInv /\ FirstFails => WebInv'
<1> SUFFICES ASSUME WebInv, FirstFails PROVE WebInv'
  OBVIOUS
<1>1. /\ UNCHANGED <<serverVars, dataVars, unreadOnly, more, wide, patch, historyVars>>
      /\ first' \subseteq first /\ phase' \in {"loading", "ready", "error"}
      /\ WebTypeOK /\ FirstInv
  BY DEF FirstFails, WebInv, WebTypeOK
<1>2. /\ newest' = newest /\ unreadOnly' = unreadOnly /\ steady' = steady
      /\ \A m : NewerThanList(m)' <=> NewerThanList(m)
  BY <1>1 DEF serverVars, dataVars, historyVars, NewerThanList
<1>3. FirstInv'
  BY <1>1, <1>2 DEF FirstInv
<1>4. first' \subseteq FirstRequests /\ \A q, s \in first' : q.current /\ s.current => q = s
  BY <1>1 DEF WebTypeOK
<1> QED  BY <1>1, <1>3, <1>4, OnlyFirstInv

(* The list starts again: loadMore has no request, or one not meant for it. *)
LEMMA ListReplacedFacts ==
  ASSUME WebTypeOK, MoreInv, ListReplaced, newest' = newest
  PROVE  more' \in {NoRequest} \cup MoreRequests /\ MoreInv' /\ mixed' = FALSE
<1>1. CASE more = NoRequest
  BY <1>1 DEF ListReplaced, MoreInv
<1>2. CASE more # NoRequest
  <2>1. more \in MoreRequests /\ more' = [more EXCEPT !.meant = FALSE]
    BY <1>2, MoreFacts DEF ListReplaced
  <2>2. /\ more' \in MoreRequests /\ more'.meant = FALSE
        /\ more'.cursor = more.cursor /\ more'.answer = more.answer
    BY <2>1 DEF MoreRequests
  <2> QED  BY <1>2, <2>2 DEF MoreInv, ListReplaced
<1> QED  BY <1>1, <1>2

LEMMA SetUnreadOnlyInv == WebInv /\ SetUnreadOnly => WebInv'
<1> SUFFICES ASSUME WebInv, SetUnreadOnly PROVE WebInv'
  OBVIOUS
<1> USE DEF serverVars
<1>1. WebTypeOK /\ PlacesInv /\ PatchInv /\ MoreInv /\ WideInv /\ PendingKept /\ PoolHasNoGap
  BY DEF WebInv
<1>2. /\ unreadOnly' = ~unreadOnly /\ list' = {} /\ listCursor' = Null
      /\ LoadFirst("fresh") /\ ListReplaced /\ steady' = Selected(Start, ~unreadOnly)
      /\ UNCHANGED <<table, newest, changes, pool, poolCursor, wide, patch, poolTop>>
      /\ unreadOnly' \in BOOLEAN
  BY <1>1 DEF SetUnreadOnly, WebTypeOK
<1>3. /\ first' \subseteq FirstRequests
      /\ \A r, s \in first' : r.current /\ s.current => r = s
      /\ \A r \in first' : r.current => r.unreadOnly = unreadOnly' /\ r.answer = Waiting
      /\ phase' \in {"loading", "ready", "error"}
  BY <1>1, <1>2, LoadFirstFacts
<1>4. more' \in {NoRequest} \cup MoreRequests /\ MoreInv' /\ mixed' = FALSE
  BY <1>1, <1>2, ListReplacedFacts
<1>5. Present' = Present /\ pending' = pending /\ Matching' = steady' /\ steady' \subseteq Message
  <2>1. Present' = Present /\ pending' = pending /\ Present \subseteq Message
    BY <1>2 DEF Present, pending
  <2>2. Matching' = {m \in Present : unreadOnly' => ~table[m]}
    BY <1>2, <2>1 DEF Matching, Selected
  <2>3. steady' = {m \in Present : unreadOnly' => ~table[m]}
    BY <1>2 DEF Selected
  <2> QED  BY <2>1, <2>2, <2>3
<1>6. WebTypeOK'
  BY <1>1, <1>2, <1>3, <1>4, <1>5 DEF WebTypeOK
<1>7. PlacesInv' /\ PatchInv' /\ SteadyInv' /\ PendingKept' /\ PoolHasNoGap'
  BY <1>1, <1>2, <1>5 DEF PlacesInv, PatchInv, SteadyInv, PendingKept, PoolHasNoGap
<1>8. FirstInv' /\ WideInv'
  BY <1>1, <1>2, <1>3, <1>5 DEF FirstInv, WideInv
<1>9. NoGapOfItsOwn'
  BY <1>2 DEF NoGapOfItsOwn, NoGap
<1> QED  BY <1>4, <1>6, <1>7, <1>8, <1>9 DEF WebInv


(* The page takes the place of the list, or is merged into it.             *)
LEMMA FirstArrivesInv == WebInv /\ FirstArrives => WebInv' /\ KeepsPages
<1> SUFFICES ASSUME WebInv, FirstArrives PROVE WebInv' /\ KeepsPages
  OBVIOUS
<1>1. /\ WebTypeOK /\ FirstInv /\ MoreInv /\ NoGapOfItsOwn
      /\ \A q, s \in first : q.current /\ s.current => q = s
  BY DEF WebInv, WebTypeOK
<1>2. PICK r \in first :
        /\ r.answer # Waiting
        /\ first' = first \ {r}
        /\ \/ ~r.current /\ UNCHANGED <<dataVars, phase, more, mixed>>
           \/ /\ r.current
              /\ phase' = "ready"
              /\ IF r.mode = "fresh" THEN ApplyFirstPage(r.answer) ELSE ApplyRefreshedPage(r.answer)
        /\ UNCHANGED <<serverVars, unreadOnly, wide, patch, steady, poolTop>>
  BY DEF FirstArrives
<1>3. newest' = newest /\ unreadOnly' = unreadOnly /\ steady' = steady
  BY <1>2 DEF serverVars
<1>4. CASE ~r.current /\ UNCHANGED <<dataVars, phase, more, mixed>>
  <2>1. FirstInv'
    BY <1>1, <1>2, <1>3, <1>4 DEF FirstInv, NewerThanList, dataVars
  <2>2. /\ first' \subseteq FirstRequests /\ phase' \in {"loading", "ready", "error"}
        /\ \A q, s \in first' : q.current /\ s.current => q = s
    BY <1>1, <1>2, <1>4 DEF WebTypeOK
  <2>3. WebInv'
    BY <1>2, <1>4, <2>1, <2>2, OnlyFirstInv DEF historyVars
  <2>4. KeepsPages
    BY <1>4 DEF dataVars, KeepsPages
  <2> QED  BY <2>3, <2>4
<1>5. CASE r.current /\ phase' = "ready"
           /\ IF r.mode = "fresh" THEN ApplyFirstPage(r.answer) ELSE ApplyRefreshedPage(r.answer)
  <2> DEFINE page == r.answer
             rows == DOMAIN page.rows
  <2>1. /\ page \in PageRecord /\ page.next \in Message \cup {Null} /\ rows \in SUBSET Message
        /\ WellMade(page) /\ UpTo(newest, rows)
        /\ \A m \in steady :
              Reaches(page, m) \/ (NewerThanList(m) /\ NewerThan(m, rows))
    BY <1>1, <1>2, <1>5, FirstFacts, PageRecordFacts DEF FirstInv
  <2>2. FirstInv'
    <3>1. \A q \in first' : ~q.current
      BY <1>1, <1>2, <1>5
    <3> QED  BY <3>1 DEF FirstInv
  <2>3. /\ steady \subseteq Message /\ list \subseteq Message /\ \A m \in Message : m \in Int
        /\ page.next # Null => page.next \in rows /\ \A n \in rows : page.next <= n
    BY <1>1, <2>1, PlaceFacts, MessageFacts DEF WellMade
  <2>4. \A m \in steady : m \in rows \/ (page.next # Null /\ m < page.next)
                          \/ (\A n \in list \cup rows : n < m)
    BY <2>1 DEF Reaches, NewerThanList, NewerThan
  <2>5. first' \subseteq first /\ phase' \in {"loading", "ready", "error"}
        /\ UNCHANGED <<serverVars, unreadOnly, wide, patch, steady, poolTop>>
    BY <1>2, <1>5
  <2> HIDE DEF page, rows
  <2>6. CASE ApplyFirstPage(page) /\ (r.mode = "fresh" \/ list \cap rows = {} \/ page.next = Null)
    <3>1. pool' = IntoPool(page) /\ list' = rows /\ listCursor' = page.next /\ poolCursor' = poolCursor
      BY <2>6 DEF ApplyFirstPage, rows
    <3>2. more' \in {NoRequest} \cup MoreRequests /\ MoreInv' /\ mixed' = FALSE
      BY <1>1, <1>3, <2>6, ListReplacedFacts DEF ApplyFirstPage
    <3>3. NoGapOfItsOwn'
      <4> SUFFICES ASSUME NEW m \in steady, NEW n \in rows, n > m, page.next = Null \/ m >= page.next
                   PROVE  m \in rows
        BY <1>3, <3>1 DEF NoGapOfItsOwn, NoGap
      <4>1. m \in Int /\ n \in Int /\ (page.next # Null => page.next \in Int)
        BY <2>1, <2>3
      <4> QED  BY <2>4, <4>1
    <3>4. KeepsPages
      <4> SUFFICES ASSUME NEW m \in list, m \notin rows, m \in steady, page.next = Null
                   PROVE  FALSE
        BY <1>5, <2>6, <3>1 DEF KeepsPages
      <4>1. m \in Int
        BY <2>3
      <4> QED  BY <2>4, <4>1
    <3> QED  BY <2>1, <2>2, <2>5, <3>1, <3>2, <3>3, <3>4, ListPageInv DEF rows
  <2>7. CASE /\ page.next # Null /\ list \cap rows # {}
             /\ pool' = IntoPool(page)
             /\ list' = {m \in list : m < Min(rows)} \cup rows
             /\ UNCHANGED <<listCursor, poolCursor, more, mixed>>
    <3>1. Min(rows) = page.next
      <4>1. Min(rows) \in rows /\ \A k \in rows : Min(rows) <= k
        BY <2>1, <2>7, MinOf, MessageFacts
      <4>2. page.next \in Int /\ Min(rows) \in Int
        BY <2>1, <2>3, <2>7, <4>1
      <4> QED  BY <2>3, <2>7, <4>1, <4>2
    <3>2. more' \in {NoRequest} \cup MoreRequests /\ MoreInv' /\ mixed' \in BOOLEAN
      BY <1>1, <1>3, <2>7 DEF MoreInv, WebTypeOK
    <3>3. NoGapOfItsOwn'
      <4> SUFFICES ASSUME ~mixed, NEW m \in steady, NEW n \in list \cup rows, n > m,
                          listCursor = Null \/ m >= listCursor
                   PROVE  (m \in list /\ m < page.next) \/ m \in rows
        BY <1>3, <2>7, <3>1 DEF NoGapOfItsOwn, NoGap
      <4>1. m \in Int /\ n \in Int /\ page.next \in Int
        BY <2>1, <2>3, <2>7
      <4>2. PICK k \in list \cap rows : TRUE
        BY <2>7
      <4>3. m < page.next => k > m
        BY <2>3, <2>7, <4>1
      <4>4. m < page.next => m \in list
        BY <1>1, <4>3 DEF NoGapOfItsOwn, NoGap
      <4> QED  BY <2>4, <4>1, <4>4
    <3>4. KeepsPages
      <4> SUFFICES ASSUME NEW m \in list, ~(m < page.next), m \notin rows, m \in steady
                   PROVE  FALSE
        BY <2>7, <3>1 DEF KeepsPages
      <4>1. m \in Int
        BY <2>3
      <4> QED  BY <2>4, <4>1
    <3>5. list' \subseteq list \cup DOMAIN page.rows /\ UpTo(newest, DOMAIN page.rows)
          /\ listCursor' \in {listCursor, page.next}
      BY <2>1, <2>7 DEF rows
    <3> QED  BY <2>1, <2>2, <2>5, <2>7, <3>2, <3>3, <3>4, <3>5, ListPageInv
  <2> QED  BY <1>5, <2>6, <2>7 DEF ApplyRefreshedPage, page, rows
<1> QED  BY <1>2, <1>4, <1>5

-----------------------------------------------------------------------------
(* The theorems                                                            *)

LEMMA InitInv == Init => WebInv
<1> SUFFICES ASSUME Init PROVE WebInv
  OBVIOUS
<1> USE DEF Init
<1>1. /\ newest \in Message \cup {0} /\ newest \in Int /\ newest >= 0
      /\ table \in [Message -> ReadState] /\ Present = 1 .. newest
      /\ changes \in 0 .. MaxChanges
  BY MessageFacts, MaxChangesAssumption DEF ServerInit, ReadState
<1>2. first = {Load("fresh", FALSE)} /\ Load("fresh", FALSE) \in FirstRequests
      /\ Load("fresh", FALSE).unreadOnly = FALSE /\ Load("fresh", FALSE).answer = Waiting
  BY DEF Load, FirstRequests, Answer
<1>3. pending = {} /\ Matching = Present /\ Present \subseteq Message
  BY DEF pending, Matching, Selected, Present
<1>4. WebTypeOK
  BY <1>1, <1>2, <1>3, ConstantFacts DEF WebTypeOK, ReadState, Cursor
<1>5. PlacesInv
  BY <1>1, ConstantFacts DEF PlacesInv, UpTo
<1>6. PatchInv /\ SteadyInv /\ PendingKept
  BY <1>3 DEF PatchInv, SteadyInv, PendingKept
<1>7. FirstInv /\ MoreInv /\ WideInv
  BY <1>2 DEF FirstInv, MoreInv, WideInv
<1>8. NoGapOfItsOwn
  BY DEF NoGapOfItsOwn, NoGap
<1>9. PoolHasNoGap
  <2>1. \A m \in Present : ~(m <= 0)
    BY <1>3, MessageFacts
  <2> QED  BY <2>1 DEF PoolHasNoGap
<1> QED  BY <1>4, <1>5, <1>6, <1>7, <1>8, <1>9 DEF WebInv

(* Nothing but the answer to loadFirst takes a row out of the list that    *)
(* still matches.                                                          *)
LEMMA ListNextInv == WebInv /\ ListNext => WebInv' /\ KeepsPages
<1> SUFFICES ASSUME WebInv, ListNext PROVE WebInv' /\ KeepsPages
  OBVIOUS
<1>1. CASE SetUnreadOnly
  <2>1. unreadOnly' # unreadOnly
    BY <1>1 DEF SetUnreadOnly, WebInv, WebTypeOK
  <2> QED  BY <1>1, <2>1, SetUnreadOnlyInv DEF KeepsPages
<1>2. CASE Refresh \/ AfterSend \/ Reload
  BY <1>2, LoadsInv DEF Refresh, AfterSend, Reload, dataVars, KeepsPages
<1>3. CASE FirstServed
  BY <1>3, FirstServedInv DEF FirstServed, dataVars, KeepsPages
<1>4. CASE FirstArrives
  BY <1>4, FirstArrivesInv
<1>5. CASE FirstFails
  BY <1>5, FirstFailsInv DEF FirstFails, dataVars, KeepsPages
<1>6. CASE LoadMore \/ MoreFails
  BY <1>6, MoreAsksInv DEF LoadMore, MoreFails, dataVars, KeepsPages
<1>7. CASE MoreServed
  BY <1>7, MoreServedInv DEF MoreServed, dataVars, KeepsPages
<1>8. CASE MoreArrives
  BY <1>8, MoreArrivesInv DEF MoreArrives, ApplyMorePage, KeepsPages
<1>9. ASSUME NEW m \in Message, SetRead(m) PROVE WebInv' /\ KeepsPages
  BY <1>9, SetReadInv DEF SetRead, PatchMessage, KeepsPages
<1>10. ASSUME NEW m \in Message, PatchServed(m) PROVE WebInv' /\ KeepsPages
  BY <1>10, PatchServedInv DEF PatchServed, dataVars, KeepsPages
<1>11. ASSUME NEW m \in Message, PatchArrives(m) \/ PatchFails(m) PROVE WebInv' /\ KeepsPages
  <2>1. CASE list' = list
    BY <1>11, <2>1, PatchEndsInv DEF KeepsPages
  <2>2. CASE patch[m].answer = "missing" /\ m \in pending /\ list' = list \ {m}
    <3>1. m \notin steady
      BY <2>2 DEF WebInv, PatchInv, SteadyInv, Matching, Selected, Present
    <3> QED  BY <1>11, <2>2, <3>1, PatchEndsInv DEF KeepsPages
  <2> QED  BY <1>11, <2>1, <2>2 DEF PatchArrives, PatchFails, PatchMessage, RemoveMessage
<1>12. CASE RowChanges
  BY <1>12, RowChangesInv DEF RowChanges, dataVars, KeepsPages
<1> QED  BY <1>1, <1>2, <1>3, <1>4, <1>5, <1>6, <1>7, <1>8, <1>9, <1>10, <1>11, <1>12 DEF ListNext

LEMMA StutterInv == WebInv /\ UNCHANGED vars => WebInv'
<1> SUFFICES ASSUME WebInv, UNCHANGED vars PROVE WebInv'
  OBVIOUS
<1>1. wide' = wide /\ UNCHANGED <<serverVars, dataVars, phase, unreadOnly, first, more, patch, historyVars>>
  BY DEF vars, requestVars
<1>2. wide' \in {NoRequest} \cup WideRequests
  BY <1>1 DEF WebInv, WebTypeOK
<1>3. Present' = Present /\ newest' = newest /\ poolCursor' = poolCursor
  BY <1>1 DEF Present, serverVars, dataVars
<1>4. WideInv'
  BY <1>1, <1>3 DEF WebInv, WideInv
<1> QED  BY <1>1, <1>2, <1>4, OnlyWideInv

LEMMA NextInv == WebInv /\ [Next]_vars => WebInv' /\ [KeepsPages]_vars
<1> SUFFICES ASSUME WebInv, [Next]_vars PROVE WebInv' /\ [KeepsPages]_vars
  OBVIOUS
<1>1. CASE ListNext
  BY <1>1, ListNextInv
<1>2. CASE LoadOlder \/ WideFails
  BY <1>2, WideAsksInv DEF LoadOlder, WideFails, dataVars, KeepsPages
<1>3. CASE WideServed
  BY <1>3, WideServedInv DEF WideServed, dataVars, KeepsPages
<1>4. CASE WideArrives
  BY <1>4, WideAnsweredInv DEF WideArrives, WideAnswered, ApplyPoolPage, KeepsPages
<1>5. CASE UNCHANGED vars
  BY <1>5, StutterInv
<1> QED  BY <1>1, <1>2, <1>3, <1>4, <1>5 DEF Next

(* MailboxProvider.tsx: the list, the pool and the four kinds of request   *)
(* fit together in every state, whatever order the answers come in.        *)
THEOREM WebMailboxInvariant == Spec => []WebInv
<1>1. Init => WebInv
  BY InitInv
<1>2. WebInv /\ [Next]_vars => WebInv'
  BY NextInv
<1> QED  BY <1>1, <1>2, PTL DEF Spec

(* What the state of the mailbox may be.                                   *)
THEOREM WebMailboxTypeCorrect == Spec => []WebTypeOK
<1>1. WebInv => WebTypeOK
  BY DEF WebInv
<1> QED  BY <1>1, WebMailboxInvariant, PTL

(* applyPage of mailbox-state.ts: no answer overwrites a row whose change  *)
(* of isRead is under way.                                                 *)
THEOREM PendingKeptTheorem == Spec => []PendingKept
<1>1. WebInv => PendingKept
  BY DEF WebInv
<1> QED  BY <1>1, WebMailboxInvariant, PTL

(* loadMore and the silent refresh fit together: no row that has matched   *)
(* all along is missing between the newest shown and the cursor.           *)
THEOREM NoGapTheorem == Spec => []NoGapOfItsOwn
<1>1. WebInv => NoGapOfItsOwn
  BY DEF WebInv
<1> QED  BY <1>1, WebMailboxInvariant, PTL

(* loadOlder: the pool has every message down to the place it has reached. *)
THEOREM PoolHasNoGapTheorem == Spec => []PoolHasNoGap
<1>1. WebInv => PoolHasNoGap
  BY DEF WebInv
<1> QED  BY <1>1, WebMailboxInvariant, PTL

(* The refresh merges "without discarding pages already loaded".           *)
THEOREM PagesKeptTheorem == Spec => PagesKept
<1>1. WebInv /\ [Next]_vars => [KeepsPages]_vars
  BY NextInv
<1> QED  BY <1>1, WebMailboxInvariant, PTL DEF Spec, PagesKept

-----------------------------------------------------------------------------
(* ThreadLookup: the inductive invariant, on top of WebMailbox's           *)

(* Where "missing" and "that is all the mail" come from.                   *)
LookedInv ==
  /\ search.exhausted => poolCursor = Null
  /\ open # NoThread /\ lookup = "missing" => poolCursor = Null \/ looked = MAX_WIDE_PAGES

ThreadInv == WebInv /\ LookupTypeOK /\ LookedInv

(* While a page is under way the pool has not reached its end.             *)
LEMMA WideMeansMore == WebInv => (wide # NoRequest => poolCursor # Null)
BY WideFacts, ConstantFacts DEF WebInv, WideInv

(* What is there and not in the pool was not passed over.                  *)
LEMMA HonestFacts == ThreadInv => EndIsHonest
<1> SUFFICES ASSUME ThreadInv PROVE EndIsHonest
  OBVIOUS
<1>1. WebTypeOK /\ PlacesInv /\ PoolHasNoGap /\ LookedInv
  BY DEF ThreadInv, WebInv
<1>2. ASSUME NEW m \in Present, pool[m] = Absent
      PROVE  m > poolTop \/ (poolCursor # Null /\ m < poolCursor)
  <2>1. m \in Int /\ m >= 1 /\ poolTop \in Int /\ (m <= poolTop \/ m > poolTop)
    BY <1>1, PlaceFacts, MessageFacts DEF Present
  <2>2. CASE poolCursor = Start
    BY <1>1, <2>1, <2>2 DEF PlacesInv
  <2>3. CASE poolCursor = Null
    BY <1>1, <1>2, <2>1, <2>3 DEF PoolHasNoGap
  <2>4. CASE poolCursor \in Message
    <3>1. poolCursor \in Int /\ poolCursor # Null
      BY <2>4, MessageFacts, ConstantFacts
    <3> QED  BY <1>1, <1>2, <2>1, <3>1 DEF PoolHasNoGap
  <2> QED  BY <1>1, <2>2, <2>3, <2>4 DEF WebTypeOK, Cursor
<1> QED  BY <1>1, <1>2 DEF EndIsHonest, LookedInv

(* What the list does leaves the wide pages alone.                         *)
LEMMA ListNextKeepsWide == ListNext => wide' = wide /\ poolCursor' = poolCursor
<1> SUFFICES ASSUME ListNext PROVE wide' = wide /\ poolCursor' = poolCursor
  OBVIOUS
<1> USE DEF dataVars
<1>1. CASE SetUnreadOnly \/ Refresh \/ AfterSend \/ Reload \/ FirstServed \/ FirstFails
           \/ LoadMore \/ MoreServed \/ MoreFails \/ RowChanges
  BY <1>1 DEF SetUnreadOnly, Refresh, AfterSend, Reload, FirstServed, FirstFails,
              LoadMore, MoreServed, MoreFails, RowChanges, requestVars
<1>2. CASE FirstArrives
  BY <1>2 DEF FirstArrives, ApplyFirstPage, ApplyRefreshedPage
<1>3. CASE MoreArrives
  BY <1>3 DEF MoreArrives, ApplyMorePage
<1>4. CASE \E m \in Message : SetRead(m) \/ PatchServed(m) \/ PatchArrives(m) \/ PatchFails(m)
  BY <1>4 DEF SetRead, PatchServed, PatchArrives, PatchFails, PatchMessage, RemoveMessage
<1> QED  BY <1>1, <1>2, <1>3, <1>4 DEF ListNext

-----------------------------------------------------------------------------
(* findThread                                                              *)

LoopRecord == [thread : Thread, live : BOOLEAN, pages : 0 .. MAX_WIDE_PAGES - 1]

LEMMA CancelledFacts ==
  LookupTypeOK => Cancelled \subseteq LoopRecord /\ (\A l \in Cancelled : ~l.live)
                  /\ (Cancelled = {} <=> loops = {})
<1> SUFFICES ASSUME LookupTypeOK
             PROVE  Cancelled \subseteq LoopRecord /\ (\A l \in Cancelled : ~l.live)
                    /\ (Cancelled = {} <=> loops = {})
  OBVIOUS
<1>1. \A l \in loops : [l EXCEPT !.live = FALSE] \in LoopRecord /\ ~[l EXCEPT !.live = FALSE].live
  BY DEF LookupTypeOK, LoopRecord
<1> QED  BY <1>1 DEF Cancelled

LEMMA FindThreadInv ==
  ASSUME ThreadInv, NEW thread \in Thread, FindThread(thread), open' = thread,
         UNCHANGED <<serverVars, dataVars, phase, unreadOnly, first, more, patch, historyVars,
                     search, older>>
  PROVE  ThreadInv' /\ HasWhatIsFound
<1>1. WebInv /\ LookupTypeOK /\ LookedInv /\ MAX_WIDE_PAGES \in Nat \ {0}
  BY ThreadAssumption DEF ThreadInv
<1>2. poolCursor' = poolCursor /\ pool' = pool /\ search' = search /\ older' = older
      /\ poolCursor \in Message \cup {Null, Start}
  BY <1>1 DEF dataVars, WebInv, WebTypeOK, Cursor
<1>3. /\ Cancelled \subseteq LoopRecord /\ (\A l \in Cancelled : ~l.live)
      /\ (Cancelled = {} <=> loops = {})
  BY <1>1, CancelledFacts
<1>4. marked' = FALSE /\ looked' = 0 /\ 0 \in 0 .. MAX_WIDE_PAGES /\ 0 \in 0 .. MAX_WIDE_PAGES - 1
  BY <1>1 DEF FindThread
<1>5. CASE Has(thread) /\ lookup' = "found" /\ loops' = Cancelled /\ wide' = wide
  <2>1. WebInv'
    BY <1>1, <1>5, OnlyWideInv, <1>2 DEF WebInv, WebTypeOK, WideInv, serverVars, dataVars, Present
  <2>2. LookupTypeOK'
    BY <1>1, <1>2, <1>3, <1>4, <1>5 DEF LookupTypeOK, LoopRecord
  <2>3. LookedInv' /\ HasWhatIsFound
    BY <1>1, <1>2, <1>5 DEF LookedInv, HasWhatIsFound, Has
  <2> QED  BY <2>1, <2>2, <2>3 DEF ThreadInv
<1>6. CASE wide = NoRequest /\ poolCursor = Null /\ lookup' = "missing" /\ loops' = Cancelled /\ wide' = wide
  <2>1. WebInv'
    BY <1>1, <1>6, WideAsksInv
  <2>2. LookupTypeOK'
    BY <1>1, <1>2, <1>3, <1>4, <1>6 DEF LookupTypeOK, LoopRecord
  <2>3. LookedInv' /\ HasWhatIsFound
    BY <1>1, <1>2, <1>6 DEF LookedInv, HasWhatIsFound
  <2> QED  BY <2>1, <2>2, <2>3 DEF ThreadInv
<1>7. CASE /\ wide # NoRequest \/ poolCursor # Null
           /\ lookup' = "searching"
           /\ loops' = Cancelled \cup {[thread |-> thread, live |-> TRUE, pages |-> 0]}
           /\ wide' = IF wide = NoRequest THEN WideRequest(poolCursor) ELSE wide
  <2>1. WebInv'
    <3>1. CASE wide = NoRequest
      BY <1>1, <1>7, <3>1, WideAsksInv
    <3>2. CASE wide # NoRequest
      BY <1>1, <1>7, <3>2, OnlyWideInv, <1>2 DEF WebInv, WebTypeOK, WideInv, serverVars, dataVars, Present
    <3> QED  BY <3>1, <3>2
  <2>2. wide' # NoRequest
    BY <1>2, <1>7, WideRequestFacts
  <2>3. [thread |-> thread, live |-> TRUE, pages |-> 0] \in LoopRecord
    BY <1>4 DEF LoopRecord
  <2>4. LookupTypeOK'
    <3>1. /\ loops' \subseteq LoopRecord
          /\ \A l \in loops' : l.live => l = [thread |-> thread, live |-> TRUE, pages |-> 0]
      BY <1>3, <1>7, <2>3
    <3>2. \A k, l \in loops' : k.live /\ l.live => k = l
      BY <3>1
    <3>3. \A l \in loops' : l.live => l.thread = open' /\ lookup' = "searching"
      BY <1>7, <3>1
    <3> QED  BY <1>1, <1>2, <1>4, <1>7, <2>2, <3>1, <3>2, <3>3 DEF LookupTypeOK, LoopRecord
  <2>5. LookedInv' /\ HasWhatIsFound
    BY <1>1, <1>2, <1>7 DEF LookedInv, HasWhatIsFound
  <2> QED  BY <2>1, <2>4, <2>5 DEF ThreadInv
<1> QED  BY <1>5, <1>6, <1>7 DEF FindThread

LEMMA OpensInv == ThreadInv /\ (OpenThread \/ RetryLookup) => ThreadInv' /\ HasWhatIsFound
<1> SUFFICES ASSUME ThreadInv, OpenThread \/ RetryLookup PROVE ThreadInv' /\ HasWhatIsFound
  OBVIOUS
<1>1. PICK thread \in Thread : FindThread(thread) /\ open' = thread
  BY DEF OpenThread, RetryLookup, ThreadInv, LookupTypeOK
<1>2. UNCHANGED <<serverVars, dataVars, phase, unreadOnly, first, more, patch, historyVars,
                  search, older>>
  BY DEF OpenThread, RetryLookup
<1> QED  BY <1>1, <1>2, FindThreadInv

LEMMA CloseThreadInv == ThreadInv /\ CloseThread => ThreadInv' /\ HasWhatIsFound
<1> SUFFICES ASSUME ThreadInv, CloseThread PROVE ThreadInv' /\ HasWhatIsFound
  OBVIOUS
<1>1. WebInv /\ LookupTypeOK /\ LookedInv /\ MAX_WIDE_PAGES \in Nat \ {0}
  BY ThreadAssumption DEF ThreadInv
<1>2. /\ open' = NoThread /\ lookup' = "searching" /\ marked' = FALSE /\ loops' = Cancelled
      /\ looked' = 0 /\ UNCHANGED vars /\ UNCHANGED <<search, older>>
      /\ wide' = wide /\ poolCursor' = poolCursor
  BY DEF CloseThread, vars, requestVars, dataVars
<1>3. LookupTypeOK'
  <2>1. 0 \in 0 .. MAX_WIDE_PAGES
    BY <1>1
  <2> QED  BY <1>1, <1>2, <2>1, CancelledFacts DEF LookupTypeOK, LoopRecord
<1>4. LookedInv' /\ HasWhatIsFound
  BY <1>1, <1>2 DEF LookedInv, HasWhatIsFound
<1> QED  BY <1>1, <1>2, <1>3, <1>4, StutterInv DEF ThreadInv

-----------------------------------------------------------------------------
(* The end of a wide page                                                  *)

(* Each call that waits goes on, or ends; the one that counts tells what   *)
(* the view shows.                                                         *)
LEMMA ResumeFacts ==
  ASSUME WebInv, LookupTypeOK, NEW ok \in BOOLEAN, NEW hasMore \in BOOLEAN,
         wide # NoRequest, Resume(ok, hasMore), SearchResumes(ok, hasMore), open' = open, marked' = marked,
         older' \in Nat, ok /\ hasMore => poolCursor' \in Message \cup {Start}
  PROVE  /\ LookupTypeOK' /\ HasWhatIsFound
         /\ wide' = NoRequest \/ (ok /\ hasMore /\ wide' = WideRequest(poolCursor'))
         /\ \/ lookup' = lookup /\ looked' = looked
            \/ lookup' = "missing" => ok /\ (~hasMore \/ looked' = MAX_WIDE_PAGES)
<1>1. /\ loops \subseteq LoopRecord /\ MAX_WIDE_PAGES \in Nat \ {0}
      /\ \A k, l \in loops : k.live /\ l.live => k = l
      /\ \A l \in loops : l.live => l.thread = open
  BY ThreadAssumption DEF LookupTypeOK, LoopRecord
<1> DEFINE on(l) == [l EXCEPT !.pages = @ + 1]
<1>2. ASSUME NEW l \in loops
      PROVE  /\ Outcome(l, ok, hasMore) \in {"searching", "found", "missing", "failed"}
             /\ l.pages \in 0 .. MAX_WIDE_PAGES - 1 /\ l.pages + 1 \in 0 .. MAX_WIDE_PAGES
             /\ on(l).live = l.live /\ on(l).thread = l.thread
             /\ Outcome(l, ok, hasMore) = "searching" => ok /\ hasMore /\ on(l) \in LoopRecord
             /\ Outcome(l, ok, hasMore) = "found" => Has(l.thread)'
             /\ Outcome(l, ok, hasMore) = "missing" => ok /\ (~hasMore \/ l.pages + 1 = MAX_WIDE_PAGES)
  <2>1. l \in LoopRecord /\ l.pages \in 0 .. MAX_WIDE_PAGES - 1 /\ l.pages + 1 \in 0 .. MAX_WIDE_PAGES
    BY <1>1 DEF LoopRecord
  <2>2. l.pages + 1 # MAX_WIDE_PAGES => on(l) \in LoopRecord
    BY <1>1, <2>1 DEF LoopRecord
  <2>3. on(l).live = l.live /\ on(l).thread = l.thread
    BY <2>1 DEF LoopRecord
  <2> QED  BY <2>1, <2>2, <2>3 DEF Outcome
<1>3. loops' = {on(l) : l \in {k \in loops : Outcome(k, ok, hasMore) = "searching"}}
  BY DEF Resume
<1> HIDE DEF on
<1>4. \A k \in loops' : \E l \in loops : k = on(l) /\ Outcome(l, ok, hasMore) = "searching"
  BY <1>3
<1>5. loops' # {} => ok /\ hasMore
  BY <1>2, <1>4
<1>6. wide' = IF loops' = {} THEN NoRequest ELSE WideRequest(poolCursor')
  BY DEF Resume
<1>7. loops' # {} => wide' # NoRequest
  BY <1>5, <1>6, WideRequestFacts
<1>8. loops' \subseteq LoopRecord /\ \A k, l \in loops' : k.live /\ l.live => k = l
  BY <1>1, <1>2, <1>4
<1>9. search' \in [on : BOOLEAN, asked : BOOLEAN, olderFailed : BOOLEAN, exhausted : BOOLEAN]
      /\ ~search'.asked
  BY DEF SearchResumes, LookupTypeOK
<1>10. CASE \E l \in loops : l.live
  <2>1. PICK l \in loops : l.live /\ lookup' = Outcome(l, ok, hasMore) /\ looked' = l.pages + 1
    BY <1>10 DEF Resume
  <2>2. \A k \in loops' : k.live => k.thread = open /\ lookup' = "searching"
    BY <1>1, <1>2, <1>4, <2>1
  <2>3. LookupTypeOK'
    BY <1>2, <1>7, <1>8, <1>9, <2>1, <2>2 DEF LookupTypeOK, LoopRecord
  <2>4. HasWhatIsFound
    BY <1>1, <1>2, <2>1 DEF HasWhatIsFound, Has
  <2> QED  BY <1>2, <1>5, <1>6, <2>1, <2>3, <2>4
<1>11. CASE ~ \E l \in loops : l.live
  <2>1. lookup' = lookup /\ looked' = looked
    BY <1>11 DEF Resume
  <2>2. \A k \in loops' : ~k.live
    BY <1>2, <1>4, <1>11
  <2>3. LookupTypeOK'
    BY <1>7, <1>8, <1>9, <2>1, <2>2 DEF LookupTypeOK, LoopRecord
  <2>4. HasWhatIsFound
    BY <2>1 DEF HasWhatIsFound
  <2> QED  BY <1>5, <1>6, <2>1, <2>3, <2>4
<1> QED  BY <1>10, <1>11

LEMMA OlderArrivesInv == ThreadInv /\ OlderArrives => ThreadInv' /\ HasWhatIsFound
<1> SUFFICES ASSUME ThreadInv, OlderArrives PROVE ThreadInv' /\ HasWhatIsFound
  OBVIOUS
<1> DEFINE hasMore == wide.answer.next # Null
<1>1. WebInv /\ LookupTypeOK /\ LookedInv /\ WebTypeOK
  BY DEF ThreadInv, WebInv
<1>2. /\ WideAnswered /\ wide # NoRequest /\ wide.answer # Waiting /\ older' \in Nat
      /\ poolCursor' = wide.answer.next /\ wide.answer.next \in Message \cup {Null}
      /\ Resume(TRUE, hasMore) /\ SearchResumes(TRUE, hasMore) /\ open' = open /\ marked' = marked
  <2>1. WideAnswered /\ wide # NoRequest /\ wide.answer # Waiting /\ poolCursor' = wide.answer.next
    BY DEF OlderArrives, WideAnswered, ApplyPoolPage
  <2>2. wide.answer.next \in Message \cup {Null}
    BY <1>1, <2>1, WideFacts, PageRecordFacts
  <2>3. older' \in Nat
    BY <1>1 DEF OlderArrives, LookupTypeOK
  <2> QED  BY <2>1, <2>2, <2>3 DEF OlderArrives
<1>3. poolCursor # Null
  BY <1>1, <1>2, WideMeansMore
<1>4. hasMore \in BOOLEAN /\ (hasMore <=> poolCursor' # Null) /\ (hasMore => poolCursor' \in Message \cup {Start})
  BY <1>2
<1> HIDE DEF hasMore
<1>5. /\ LookupTypeOK' /\ HasWhatIsFound
      /\ wide' = NoRequest \/ (hasMore /\ wide' = WideRequest(poolCursor'))
      /\ \/ lookup' = lookup /\ looked' = looked
         \/ lookup' = "missing" => ~hasMore \/ looked' = MAX_WIDE_PAGES
  BY <1>1, <1>2, <1>4, ResumeFacts
<1>6. WebInv'
  BY <1>1, <1>2, <1>4, <1>5, WideAnsweredInv
<1>7. LookedInv'
  <2>1. search'.exhausted => ~hasMore
    BY <1>1, <1>2, <1>3 DEF SearchResumes, LookedInv, LookupTypeOK
  <2> QED  BY <1>1, <1>2, <1>3, <1>4, <1>5, <2>1 DEF LookedInv
<1> QED  BY <1>5, <1>6, <1>7 DEF ThreadInv

LEMMA OlderFailsInv == ThreadInv /\ OlderFails => ThreadInv' /\ HasWhatIsFound
<1> SUFFICES ASSUME ThreadInv, OlderFails PROVE ThreadInv' /\ HasWhatIsFound
  OBVIOUS
<1>1. WebInv /\ LookupTypeOK /\ LookedInv
  BY DEF ThreadInv
<1>2. /\ wide # NoRequest /\ Resume(FALSE, TRUE) /\ SearchResumes(FALSE, TRUE)
      /\ open' = open /\ marked' = marked /\ older' \in Nat
      /\ UNCHANGED <<serverVars, dataVars, phase, unreadOnly, first, more, patch, historyVars>>
      /\ poolCursor' = poolCursor
  BY <1>1 DEF OlderFails, LookupTypeOK, dataVars
<1>3. /\ LookupTypeOK' /\ HasWhatIsFound /\ wide' = NoRequest
      /\ (lookup' = lookup /\ looked' = looked) \/ lookup' # "missing"
  BY <1>1, <1>2, ResumeFacts
<1>4. WebInv'
  BY <1>1, <1>2, <1>3, WideAsksInv
<1>5. LookedInv'
  BY <1>1, <1>2, <1>3 DEF LookedInv, SearchResumes, LookupTypeOK
<1> QED  BY <1>3, <1>4, <1>5 DEF ThreadInv

-----------------------------------------------------------------------------
(* The search, and the reading of what is shown                            *)

LEMMA TypeSearchInv == ThreadInv /\ TypeSearch => ThreadInv' /\ HasWhatIsFound
<1> SUFFICES ASSUME ThreadInv, TypeSearch PROVE ThreadInv' /\ HasWhatIsFound
  OBVIOUS
<1>1. WebInv /\ LookupTypeOK /\ LookedInv
  BY DEF ThreadInv
<1>2. /\ UNCHANGED vars /\ wide' = wide /\ poolCursor' = poolCursor
      /\ UNCHANGED <<open, lookup, marked, loops, older, looked>>
  BY DEF TypeSearch, vars, requestVars, dataVars
<1>3. /\ search' \in [on : BOOLEAN, asked : BOOLEAN, olderFailed : BOOLEAN, exhausted : BOOLEAN]
      /\ ~search'.asked /\ ~search'.exhausted
  <2>1. CASE search' = [NoSearch EXCEPT !.on = TRUE]
    BY <2>1 DEF NoSearch
  <2>2. CASE search' = NoSearch
    BY <2>2 DEF NoSearch
  <2> QED  BY <2>1, <2>2 DEF TypeSearch, SearchStarts, SearchEnds
<1>4. LookupTypeOK'
  BY <1>1, <1>2, <1>3 DEF LookupTypeOK
<1>5. LookedInv' /\ HasWhatIsFound
  BY <1>1, <1>2, <1>3 DEF LookedInv, HasWhatIsFound
<1> QED  BY <1>1, <1>2, <1>4, <1>5, StutterInv DEF ThreadInv

LEMMA SearchOlderInv == ThreadInv /\ SearchOlder => ThreadInv' /\ HasWhatIsFound
<1> SUFFICES ASSUME ThreadInv, SearchOlder PROVE ThreadInv' /\ HasWhatIsFound
  OBVIOUS
<1>1. WebInv /\ LookupTypeOK /\ LookedInv /\ poolCursor \in Message \cup {Null, Start}
  BY DEF ThreadInv, WebInv, WebTypeOK, Cursor
<1>2. UNCHANGED <<open, lookup, marked, loops, older, looked>>
  BY DEF SearchOlder
<1>3. CASE /\ poolCursor = Null /\ wide = NoRequest /\ UNCHANGED vars
           /\ search' = [search EXCEPT !.olderFailed = FALSE, !.exhausted = TRUE]
  <2>1. wide' = wide /\ poolCursor' = poolCursor
    BY <1>3 DEF vars, requestVars, dataVars
  <2>2. LookupTypeOK' /\ LookedInv' /\ HasWhatIsFound
    BY <1>1, <1>2, <1>3, <2>1 DEF LookupTypeOK, LookedInv, HasWhatIsFound
  <2> QED  BY <1>1, <1>3, <2>2, StutterInv DEF ThreadInv
<1>4. CASE LoadOlder /\ search' = [search EXCEPT !.olderFailed = FALSE, !.asked = TRUE]
  <2>1. /\ poolCursor # Null /\ wide' = WideRequest(poolCursor) /\ wide' # NoRequest
        /\ UNCHANGED <<serverVars, dataVars, phase, unreadOnly, first, more, patch, historyVars>>
        /\ poolCursor' = poolCursor
    BY <1>1, <1>4, WideRequestFacts DEF LoadOlder, dataVars
  <2>2. WebInv'
    BY <1>1, <2>1, WideAsksInv
  <2>3. LookupTypeOK' /\ LookedInv' /\ HasWhatIsFound
    BY <1>1, <1>2, <1>4, <2>1 DEF LookupTypeOK, LookedInv, HasWhatIsFound
  <2> QED  BY <2>2, <2>3 DEF ThreadInv
<1> QED  BY <1>3, <1>4 DEF SearchOlder

LEMMA MarkThreadReadInv == ThreadInv /\ MarkThreadRead => ThreadInv' /\ HasWhatIsFound
<1> SUFFICES ASSUME ThreadInv, MarkThreadRead PROVE ThreadInv' /\ HasWhatIsFound
  OBVIOUS
<1> DEFINE unread == {m \in open : pool[m] = FALSE} \ pending
           isRead == [m \in unread |-> TRUE]
<1>1. WebInv /\ LookupTypeOK /\ LookedInv
  BY DEF ThreadInv
<1>2. unread \in SUBSET (Message \ pending) /\ \A m \in unread : pool[m] # Absent
  BY <1>1, ThreadAssumption, ConstantFacts DEF MarkThreadRead, LookupTypeOK
<1>3. isRead \in [unread -> BOOLEAN] /\ \A m \in unread : isRead[m] = TRUE
  OBVIOUS
<1>4. /\ pool' = [m \in Message |-> IF m \in unread THEN isRead[m] ELSE pool[m]]
      /\ patch' = [m \in Message |-> IF m \in unread THEN [isRead |-> isRead[m], answer |-> Waiting]
                                     ELSE patch[m]]
      /\ UNCHANGED <<serverVars, list, listCursor, poolCursor, phase, unreadOnly, first, more, wide,
                     historyVars>>
  BY <1>3 DEF MarkThreadRead
<1> HIDE DEF unread, isRead
<1>5. WebInv'
  BY <1>1, <1>2, <1>3, <1>4, ReadsInv
<1>6. LookupTypeOK' /\ LookedInv' /\ HasWhatIsFound
  BY <1>1 DEF MarkThreadRead, LookupTypeOK, LookedInv, HasWhatIsFound
<1> QED  BY <1>5, <1>6 DEF ThreadInv

-----------------------------------------------------------------------------
(* The theorems                                                            *)

LEMMA ThreadInitInv == ThreadInit => ThreadInv
<1> SUFFICES ASSUME ThreadInit PROVE ThreadInv
  OBVIOUS
<1>1. 0 \in 0 .. MAX_WIDE_PAGES
  BY ThreadAssumption
<1>2. LookupTypeOK /\ LookedInv
  BY <1>1 DEF ThreadInit, LookupTypeOK, LookedInv, NoSearch
<1> QED  BY <1>2, InitInv DEF ThreadInit, ThreadInv

LEMMA ThreadNextInv ==
  ThreadInv /\ [ThreadNext]_threadVars => ThreadInv' /\ [HasWhatIsFound]_threadVars
<1> SUFFICES ASSUME ThreadInv, [ThreadNext]_threadVars
             PROVE  ThreadInv' /\ [HasWhatIsFound]_threadVars
  OBVIOUS
<1>1. WebInv /\ LookupTypeOK /\ LookedInv
  BY DEF ThreadInv
<1>2. ASSUME WebInv', UNCHANGED lookupVars, poolCursor' = poolCursor, wide # NoRequest => wide' # NoRequest
      PROVE  ThreadInv' /\ HasWhatIsFound
  BY <1>1, <1>2 DEF lookupVars, ThreadInv, LookupTypeOK, LookedInv, HasWhatIsFound
<1>3. CASE ListNext /\ UNCHANGED lookupVars
  BY <1>1, <1>2, <1>3, ListNextInv, ListNextKeepsWide
<1>4. CASE WideServed /\ UNCHANGED lookupVars
  <2>1. poolCursor' = poolCursor
    BY <1>4 DEF WideServed, dataVars
  <2> QED  BY <1>1, <1>2, <1>4, <2>1, WideServedInv
<1>5. CASE UNCHANGED threadVars
  <2>1. UNCHANGED vars /\ UNCHANGED lookupVars /\ wide' = wide /\ poolCursor' = poolCursor
    BY <1>5 DEF threadVars, vars, requestVars, dataVars
  <2> QED  BY <1>1, <1>2, <1>5, <2>1, StutterInv
<1> QED  BY <1>3, <1>4, <1>5, OpensInv, CloseThreadInv, MarkThreadReadInv, TypeSearchInv,
            SearchOlderInv, OlderArrivesInv, OlderFailsInv DEF ThreadNext

(* ThreadView.tsx and SearchResults.tsx over the mailbox: whoever waits    *)
(* has a page to wait for, and what they tell at the end is so.            *)
THEOREM ThreadLookupInvariant == ThreadSpec => []ThreadInv
<1>1. ThreadInit => ThreadInv
  BY ThreadInitInv
<1>2. ThreadInv /\ [ThreadNext]_threadVars => ThreadInv'
  BY ThreadNextInv
<1> QED  BY <1>1, <1>2, PTL DEF ThreadSpec

(* What the state of the lookups may be.                                   *)
THEOREM ThreadTypeCorrect == ThreadSpec => []ThreadTypeOK
<1>1. ThreadInv => ThreadTypeOK
  BY DEF ThreadInv, WebInv, ThreadTypeOK
<1> QED  BY <1>1, ThreadLookupInvariant, PTL

(* "This conversation isn't in your loaded mail" and "that is all the      *)
(* mail" are true when they are shown.                                     *)
THEOREM EndIsHonestTheorem == ThreadSpec => []EndIsHonest
<1>1. ThreadInv => EndIsHonest
  BY HonestFacts
<1> QED  BY <1>1, ThreadLookupInvariant, PTL

(* The view shows the conversation it found, not that of a lookup which    *)
(* was cancelled.                                                          *)
THEOREM FoundIsShownTheorem == ThreadSpec => FoundIsShown
<1>1. ThreadInv /\ [ThreadNext]_threadVars => [HasWhatIsFound]_threadVars
  BY ThreadNextInv
<1> QED  BY <1>1, ThreadLookupInvariant, PTL DEF ThreadSpec, FoundIsShown


=============================================================================
