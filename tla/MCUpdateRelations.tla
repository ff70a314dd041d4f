-------------------------- MODULE MCUpdateRelations --------------------------
(***************************************************************************)
(* Instances of the processing of relations for TLC.                       *)
(***************************************************************************)
EXTENDS UpdateRelations

(* Up to two relations, cycles included, a way that is gone before a       *)
(* relation, and a way that could not be processed behind one.             *)
MCTables == {<<Way>>} \union (SetToAllKPermutations(Rels) \ ({<< >>} \union SetToSeqs(Rels)))
            \union {<<Gone, 1>>, <<1, Stuck>>}

=============================================================================
