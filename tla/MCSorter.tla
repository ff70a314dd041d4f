------------------------------ MODULE MCSorter ------------------------------
(***************************************************************************)
(* Instances of the Sorter for TLC.                                        *)
(***************************************************************************)
EXTENDS Sorter

CONSTANTS w1, w2, w3

(* Batches of one node, two ways or two relations: the piles are flushed   *)
(* in the middle of a block as well as at its end.                         *)
MCBatchSize == [p \in 0..2 |-> IF p = 0 THEN 1 ELSE 2]

(* All kinds, phase changes in the middle of a block and between blocks,   *)
(* phases that no feature belongs to, and a file without blocks.           *)
MCFiles == { << >>,
             << <<0, 1, 2>>, <<3>> >>,
             << <<0>>, <<0, 2>>, <<3, 2>> >>,
             << <<1, 1>>, <<1>>, <<3>> >>,
             << <<0, 3>>, << >>, <<3>> >>,
             << <<0>>, <<0>>, <<3, 3>> >> }

MCWorkers == {w1, w2, w3}
=============================================================================
