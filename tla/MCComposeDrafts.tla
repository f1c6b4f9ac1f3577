-------------------------- MODULE MCComposeDrafts ---------------------------
(* ComposeDrafts on small instances. *)
EXTENDS ComposeDrafts, TLC

Symmetry == Permutations(Tab)

Of(to, copies, subject, text) == [to |-> to, copies |-> copies, subject |-> subject, bodyText |-> text]

(* A new message nobody has touched, one that cannot be sent yet and one   *)
(* that can; a reply nobody has touched, one with its subject changed and  *)
(* one with a text.                                                        *)
Contents ==
    {Of({}, {}, Blank, Blank),
     Of({"someone"}, {"invalid"}, "subject", "text"),
     Of({"someone"}, {}, "subject", "text"),
     Of({"correspondent"}, {}, "reSubject", Blank),
     Of({"correspondent"}, {}, "subject", Blank),
     Of({"correspondent"}, {}, "reSubject", "text")}

Used == {k \in Key : drafts[k] # NoDraft \/ left[k] # NoDrawer \/ k \in sent
                        \/ \E t \in Tab : drawer[t] # NoDrawer /\ drawer[t].key = k}

(***************************************************************************)
(* No property says anything of a shared key, and one draft does not touch *)
(* another.  Two tabs at a time, two tokens and two requests with one      *)
(* token, where nothing is composed; one of each, tab after tab, where     *)
(* something is.                                                           *)
(***************************************************************************)
OneStory ==
    /\ shared = {}
    /\ Cardinality(Used) <= 1
    /\ Used # {} => /\ issued <= 1
                    /\ \A t \in Tab, k \in 0..MaxTokens : asked[t][k] <= 1
                    /\ \E t \in Tab : tab[t].page = "away"
=============================================================================
