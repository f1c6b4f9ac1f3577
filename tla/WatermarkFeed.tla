--------------------------- MODULE WatermarkFeed ----------------------------
(***************************************************************************)
(* What a consumer of a change feed with a watermark promises: the feed    *)
(* grows, states of the changed items are stored, and the mark moves       *)
(* forward to a point only when every change up to it was stored.  Where   *)
(* the feed has forgotten its oldest records, the mark may instead jump,   *)
(* and `base` says how far it has ever jumped.                             *)
(***************************************************************************)
EXTENDS Integers, Sequences

CONSTANTS Message, NoHistoryId

VARIABLES log, oldest, applied, base, mark

feedVars == <<log, oldest, applied, base, mark>>

Init ==
  /\ log = << >>
  /\ oldest = 0
  /\ applied = [m \in Message |-> 0]
  /\ base = 0
  /\ mark \in {NoHistoryId, 0}

Publish ==
  /\ \E m \in Message, type \in {"added", "labelsChanged", "deleted"} :
       log' = Append(log, [type |-> type, messageId |-> m])
  /\ UNCHANGED <<oldest, applied, base, mark>>

Forget ==
  /\ oldest' \in oldest + 1 .. Len(log)
  /\ UNCHANGED <<log, applied, base, mark>>

\* Storing a state of items never undoes that a newer one was stored.
Store ==
  /\ applied' \in [Message -> 0..Len(log)]
  /\ \A m \in Message : applied'[m] >= applied[m]
  /\ UNCHANGED <<log, oldest, base, mark>>

MoveMark(to) ==
  /\ mark # NoHistoryId
  /\ mark < to
  /\ mark' = to
  /\ UNCHANGED <<log, oldest, applied>>

Advance ==
  /\ \E to \in 1..Len(log) :
       /\ \A i \in 1..to : i <= base \/ applied[log[i].messageId] >= i
       /\ MoveMark(to)
  /\ UNCHANGED base

Jump ==
  /\ oldest > 0
  /\ \E to \in 1..Len(log) : MoveMark(to) /\ base' = to

Next == Publish \/ Forget \/ Store \/ Advance \/ Jump

Spec == Init /\ [][Next]_feedVars

=============================================================================
