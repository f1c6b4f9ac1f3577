---------------------------- MODULE MCThreadLookup -----------------------------
(* Instances of ThreadLookup for TLC. *)
EXTENDS ThreadLookup

CONSTANTS MaxInFlight

FewInFlight ==
  /\ Cardinality(first) + Cardinality(pending) <= MaxInFlight
  /\ Cardinality(loops) + (IF search.on THEN 1 ELSE 0) <= 2
  /\ search.on /\ pending # {} => loops = {}

\* The filter, the further pages and the error panel of the list are left to the
\* instances of WebMailbox.
FirstPageOfAll == ~unreadOnly /\ more = NoRequest /\ phase # "error"

\* A conversation with a message on either side of another one; only its newest is ever
\* read on the server.
MCThread == {{1, 3}, {2}}
OneRead == (2 <= newest => table[2] = FALSE) /\ 2 \notin pending /\ table[1] # TRUE

=============================================================================
