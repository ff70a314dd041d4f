---------------------- MODULE MCSuperRelationResolver ----------------------
(***************************************************************************)
(* Instances of the resolver for TLC.                                      *)
(***************************************************************************)
EXTENDS SuperRelationResolverProofs, SequencesExt

(* All references among three relations with up to two members each, the   *)
(* same member twice included; every combination of relations with and     *)
(* without nodes in a tile; scores with and without ties.                  *)
Small == 1..3
MCRefs == {f \in [Small -> SeqOf(Small, 2)] :
              \A r \in Small : \A i \in DOMAIN f[r] : f[r][i] # r}
MCSmall == [refs : {[r \in Rels |-> IF r \in Small THEN f[r] ELSE << >>] : f \in MCRefs},
            tiled : {[r \in Rels |-> r \in T] : T \in SUBSET Small},
            score : {[r \in Rels |-> 0], [r \in Rels |-> r]}]

(* Five relations: cycles that share relations, a cycle that is entered    *)
(* from outside, members that are missing or already indexed, and a chain  *)
(* that is nested too deeply.                                              *)
MCGraphs == { << <<2, 3>>, <<3, Missing, 1>>, <<1, 4>>, <<2, 5>>, <<Regular>> >>,
              << <<2>>, <<3>>, <<4>>, <<5>>, << >> >>,
              << <<4, 2>>, <<3, 3>>, <<2, 4, 2>>, <<5, 1>>, <<4, Missing>> >>,
              << <<Regular, 5>>, <<1, 5>>, <<2>>, <<3, 1>>, <<4, 2>> >>,
              << <<2, Missing>>, <<1>>, <<4>>, <<5, Regular>>, <<3>> >> }
MCLarge == [refs : MCGraphs,
            tiled : {[r \in Rels |-> TRUE], [r \in Rels |-> r = 1], [r \in Rels |-> FALSE]},
            score : {[r \in Rels |-> 0], [r \in Rels |-> (3 * r) % 5]}]

MCInputs == MCSmall \union MCLarge
=============================================================================
