--------------------------- MODULE MCReplacement ---------------------------
(***************************************************************************)
(* Instances of Replacement for TLC.  The blocks of the set are alike and  *)
(* have a tag each; other sets may use the tags as well.                   *)
(*                                                                         *)
(* The sampled accesses of a behaviour are those of one group of sets: the *)
(* set and another one, with both PCs; a set by itself, as many as its     *)
(* timer and its ring of intervals wrap in; or two sets that meet.         *)
(***************************************************************************)
EXTENDS Replacement, TLC

MCLevels     == <<1, 2>>
MCThresholds == <<3, 2, 1>>
MCSets       == {Home, "other", "alone", "left", "right"}
Groups       == {[sets |-> {Home, "other"},   pcs |-> PCs, length |-> 4],
                 [sets |-> {"alone"},         pcs |-> {0}, length |-> 9],
                 [sets |-> {"left", "right"}, pcs |-> {0}, length |-> 5]}
MCTraffic(t) == UNION {g.sets \X g.pcs : g \in {h \in Groups : /\ Len(t) < h.length
                                                               /\ \A k \in DOMAIN t : t[k].set \in h.sets}}
MCPlaceOf    == [b \in Blocks |-> <<"table", b>>]
Symmetric == Permutations(Blocks)
=============================================================================
