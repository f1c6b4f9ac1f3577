---------------------------- MODULE MCAppearance ----------------------------
(* Bounds for the settings of two tabs.                                    *)
EXTENDS Appearance, FiniteSets, TLC

CONSTANTS t1, t2, hearthside, meadow, grain, slow, fast

MCDefault == [theme |-> hearthside, pattern |-> grain, drift |-> slow, motion |-> TRUE,
              drifting |-> TRUE, rest |-> TRUE, shuffle |-> TRUE]

(* Saved by an earlier version, before there was a random look: with the   *)
(* quilt, without the background, and with a theme that is gone.           *)
MCOlder ==
    {[MCDefault EXCEPT !.shuffle = Unknown, !.pattern = p, !.theme = th, !.drifting = d] :
        p \in {Quilt, Plain}, th \in {Unknown, meadow}, d \in {Unknown, FALSE}}

Symmetry == Permutations({t1, t2})

(* Few settings are not the default, besides the random look: two of them  *)
(* with one tab open, one with two.                                        *)
FewChanges ==
    \A s \in {stored} \cup {tab[t].settings : t \in Tab} :
        s \in Settings => Cardinality({f \in DOMAIN s \ {"shuffle"} : s[f] # Default[f]})
                             <= IF \E t \in Tab : tab[t].pc = "closed" THEN 2 ELSE 1
=============================================================================
