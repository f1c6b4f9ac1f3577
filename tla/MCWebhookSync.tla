--------------------------- MODULE MCWebhookSync ----------------------------
(* Instances of WebhookSync and SyncInTurn for TLC.                        *)
EXTENDS SyncInTurn, TLC

\* The slots are interchangeable.
JobSymmetry == Permutations(Job)

\* Jobs that overlap meet a shorter history, of messages outside the inbox.
ShortOverlap ==
  overlapped =>
    /\ historyId < MaxHistory
    /\ \A i \in 1..historyId : log[i].type # "labelsChanged"
    /\ \A m \in Message : box[m] # NoRow => box[m].labels = {}

=============================================================================
