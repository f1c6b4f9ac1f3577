----------------------------- MODULE MCWebMailbox ------------------------------
(* Instances of WebMailbox for TLC. *)
EXTENDS WebMailbox

CONSTANTS
  MaxInFlight,   \* bound on the requests in flight
  Marked         \* the message that is marked or deleted

Sent(request) == IF request = NoRequest THEN 0 ELSE 1

FewInFlight == Cardinality(first) + Sent(more) + Sent(wide) + Cardinality(pending) <= MaxInFlight

\* One message is read, marked or deleted; the others stay, and stay unread.
FewChange ==
  \A m \in Message \ {Marked} : (m <= newest => table[m] = FALSE) /\ m \notin pending

=============================================================================
