--------------------------- MODULE MCUpdaterPhases ---------------------------
(***************************************************************************)
(* Instances of the phases of an update for TLC.                           *)
(***************************************************************************)
EXTENDS UpdaterPhases

CONSTANTS w1, w2

MCTiles == 1..4
MCWorkers == {w1, w2}

MCOrder == [S \in SUBSET MCTiles |-> SetToSortSeq(S, LAMBDA a, b : a < b)]

(* Chunks of different sizes, so that their order is visible.              *)
MCChunkSize == [t \in MCTiles |-> t]
=============================================================================
