------------------------- MODULE MCMessageRequests --------------------------
(* Instances of MessageRequests for TLC. *)
EXTENDS MessageRequests, TLC

JobSymmetry == Permutations(Job)

\* What overlaps: at most one job that is not a read request, and no send.
OverlapOfReads == overlapped =>
  /\ \A p \in Job : job[p].pc \in SyncPC \cup ReadPC
  /\ \A p, q \in Job : p # q => job[p].pc \in ReadPC \cup {"idle"} \/ job[q].pc \in ReadPC \cup {"idle"}

=============================================================================
