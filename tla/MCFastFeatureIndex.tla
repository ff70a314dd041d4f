------------------------- MODULE MCFastFeatureIndex -------------------------
(***************************************************************************)
(* Instances of the feature index for TLC: nine entries of three bits in   *)
(* cells of four, and segments of three cells.  Four entries fit into a    *)
(* segment; the second and the third straddle two cells.                   *)
(***************************************************************************)
EXTENDS FastFeatureIndex

CONSTANTS w1, w2, w3

MCWriters == {w1, w2, w3}

(* All pile numbers from 1 to 7 in turn *)
MCPile == [id \in Ids |-> {b \in 0..2 : ((1 + (id % 7)) \div 2^b) % 2 = 1}]

(* Blocks have disjoint ranges of IDs, which need not touch; blocks with   *)
(* one or no entry; neighbours that share cells written by three workers.  *)
MCBlocks ==
    { [w1 |-> << <<0, 1, 2>>, <<7, 8>> >>, w2 |-> << <<3, 4>> >>, w3 |-> << <<5, 6>> >>],
      [w1 |-> << <<0>>, <<3>> >>, w2 |-> << <<1>>, << >>, <<4, 6>> >>, w3 |-> << <<2>> >>],
      [w1 |-> << <<2, 3, 4, 5, 6, 7>> >>, w2 |-> << <<0, 1>> >>, w3 |-> << <<8>> >>] }

MCWorkloads == {[w \in MCWriters |-> CASE w = w1 -> b.w1 [] w = w2 -> b.w2
                                       [] OTHER -> b.w3] : b \in MCBlocks}

=============================================================================
