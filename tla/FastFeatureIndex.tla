-------------------------- MODULE FastFeatureIndex --------------------------
(***************************************************************************)
(* The feature index of the Sorter (src/build/sort/FastFeatureIndex.cpp):  *)
(* a packed array of pile numbers, ValueWidth bits each, in memory cells   *)
(* of CellBits bits.  Each worker has its own FastFeatureIndex, and all    *)
(* write to the same memory without a lock.  A worker writes its entries   *)
(* in batches of ascending IDs, cell by cell: the first and the last cell  *)
(* of a batch with an atomic OR, the cells between by plain stores.        *)
(*                                                                         *)
(* A cell is the set of its bits that are 1, and a pile number the set of  *)
(* the bits of its binary form: OR is union and a shift moves the members. *)
(***************************************************************************)
EXTENDS Integers, Sequences, FiniteSets

CONSTANTS Writers,
          MaxId,            \* the highest ID
          ValueWidth,       \* bits of an entry
          CellBits,         \* bits of a memory cell (64)
          CellsPerSegment,  \* cells of a segment (1 GB); no entry crosses segments
          Pile,             \* the pile of each ID, as a set of bits
          Workloads         \* the possible inputs: each worker's batches of IDs

Ids == 0..MaxId
Bits == 0..(CellBits - 1)

ASSUME WidthAssumption ==
    /\ MaxId \in Nat
    /\ CellBits \in Nat \ {0}
    /\ ValueWidth \in 1..CellBits
    /\ CellsPerSegment \in Nat \ {0}
    /\ Pile \in [Ids -> (SUBSET (0..(ValueWidth - 1))) \ {{}}]

(* The IDs of a block ascend, and no block begins within the range of      *)
(* another (assumption 2 of FastFeatureIndex.h).                           *)
Ascends(b) == \A i, j \in DOMAIN b : i < j => b[i] < b[j]
Precedes(a, b) == \A i \in DOMAIN a, j \in DOMAIN b : a[i] < b[j]

IsWorkload(l) ==
    /\ l \in [Writers -> Seq(Seq(Ids))]
    /\ \A w \in Writers : \A i \in DOMAIN l[w] : Ascends(l[w][i])
    /\ \A v, w \in Writers : \A i \in DOMAIN l[v], j \in DOMAIN l[w] :
          <<v, i>> # <<w, j>> =>
            Precedes(l[v][i], l[w][j]) \/ Precedes(l[w][j], l[v][i])

ASSUME BatchAssumption == \A l \in Workloads : IsWorkload(l)

NOT_STARTED == -1
AT_START == 0
NoCell == -1

SlotsPerSegment == (CellsPerSegment * CellBits) \div ValueWidth

(* access(): the cell where an entry begins, and the bit of that cell.     *)
Access(id) == LET bit == (id % SlotsPerSegment) * ValueWidth
              IN  [cell   |-> CellsPerSegment * (id \div SlotsPerSegment)
                                + bit \div CellBits,
                   offset |-> bit % CellBits]

(* How many bits of an entry do not fit into the cell where it begins.     *)
Overflow(id) == Access(id).offset + ValueWidth - CellBits

Cells == 0..(Access(MaxId).cell + 1)

(* << and >>; bits shifted out of a cell are lost                          *)
ShiftLeft(S, n) == {b + n : b \in S} \intersect Bits
ShiftRight(S, n) == {b - n : b \in {b \in S : b >= n}}

VARIABLES
    load,       \* the batches each worker still has to end
    ended,      \* the IDs of the batches that have ended
    index,      \* the shared memory
    cell,       \* currentCell_ of each worker
    data,       \* cellData_
    writeState, \* writeState_
    rest,       \* the IDs of the current batch that are still to put
    at          \* "idle" between batches, "put", and "carry" within a put
                \* of a value that straddles two cells

cellVars == <<load, ended, index, cell, data, writeState, rest, at>>

(* get() *)
Get(id) == LET ref  == Access(id)
               low  == ShiftRight(index[ref.cell], ref.offset)
               high == IF Overflow(id) > 0
                       THEN ShiftLeft(index[ref.cell + 1], ValueWidth - Overflow(id))
                       ELSE {}
           IN  (low \union high) \intersect 0..(ValueWidth - 1)

IndexInit ==
    /\ load \in Workloads
    /\ ended = {}
    /\ index = [c \in Cells |-> {}]
    /\ cell = [w \in Writers |-> NoCell]
    /\ data = [w \in Writers |-> {}]
    /\ writeState = [w \in Writers |-> NOT_STARTED]
    /\ rest = [w \in Writers |-> << >>]
    /\ at = [w \in Writers |-> "idle"]

-----------------------------------------------------------------------------
(* The writes to memory *)

(* Slip: an atomic store where an atomic OR is needed. *)
FlushAtomicStore(w) == index' = [index EXCEPT ![cell[w]] = data[w]]

FlushAtomic(w) == index' = [index EXCEPT ![cell[w]] = @ \union data[w]]

(* Slip: the first cell of a batch is stored like those that follow. *)
FlushFirst(w) ==
    \/ /\ writeState[w] >= AT_START
       /\ index' = [index EXCEPT ![cell[w]] = data[w]]
       /\ UNCHANGED writeState
    \/ /\ writeState[w] = NOT_STARTED
       /\ UNCHANGED index
       /\ writeState' = [writeState EXCEPT ![w] = @ + 1]

(* The first call of a batch only takes note that the batch has started.   *)
FlushCell(w) ==
    \/ /\ writeState[w] > AT_START
       /\ index' = [index EXCEPT ![cell[w]] = data[w]]
       /\ UNCHANGED writeState
    \/ /\ writeState[w] = AT_START
       /\ FlushAtomic(w)
       /\ writeState' = [writeState EXCEPT ![w] = @ + 1]
    \/ /\ writeState[w] = NOT_STARTED
       /\ UNCHANGED index
       /\ writeState' = [writeState EXCEPT ![w] = @ + 1]

-----------------------------------------------------------------------------
(* A worker *)

StartBatch(w) ==
    /\ at[w] = "idle"
    /\ load[w] # << >>
    /\ rest' = [rest EXCEPT ![w] = Head(load[w])]
    /\ at' = [at EXCEPT ![w] = "put"]
    /\ UNCHANGED <<load, ended, index, cell, data, writeState>>

NextId(w) == Head(rest[w])

(* put() up to the flush of the first half of a straddling value           *)
PutEntry(w) ==
    /\ at[w] = "put"
    /\ rest[w] # << >>
    /\ LET id   == NextId(w)
           ref  == Access(id)
           bits == ShiftLeft(Pile[id], ref.offset)
       IN  /\ \/ /\ ref.cell = cell[w]
                 /\ data' = [data EXCEPT ![w] = @ \union bits]
                 /\ UNCHANGED <<index, writeState>>
              \/ /\ ref.cell # cell[w]
                 /\ FlushCell(w)
                 /\ data' = [data EXCEPT ![w] = bits]
           /\ cell' = [cell EXCEPT ![w] = ref.cell]
           /\ \/ /\ Overflow(id) > 0
                 /\ at' = [at EXCEPT ![w] = "carry"]
                 /\ UNCHANGED rest
              \/ /\ Overflow(id) <= 0
                 /\ rest' = [rest EXCEPT ![w] = Tail(@)]
                 /\ UNCHANGED at
    /\ UNCHANGED <<load, ended>>

(* Slip: the number of bits that did not fit is taken for those that did.  *)
CarryWrongShift(w) ==
    /\ at[w] = "carry"
    /\ FlushCell(w)
    /\ cell' = [cell EXCEPT ![w] = @ + 1]
    /\ data' = [data EXCEPT ![w] = ShiftRight(Pile[NextId(w)], Overflow(NextId(w)))]
    /\ rest' = [rest EXCEPT ![w] = Tail(@)]
    /\ at' = [at EXCEPT ![w] = "put"]
    /\ UNCHANGED <<load, ended>>

(* the rest of put() *)
Carry(w) ==
    /\ at[w] = "carry"
    /\ FlushCell(w)
    /\ cell' = [cell EXCEPT ![w] = @ + 1]
    /\ data' = [data EXCEPT ![w] =
                  ShiftRight(Pile[NextId(w)], ValueWidth - Overflow(NextId(w)))]
    /\ rest' = [rest EXCEPT ![w] = Tail(@)]
    /\ at' = [at EXCEPT ![w] = "put"]
    /\ UNCHANGED <<load, ended>>

BatchIds(w) == {Head(load[w])[i] : i \in DOMAIN Head(load[w])}

(* endBatch() *)
EndIndexBatch(w) ==
    /\ at[w] = "put"
    /\ rest[w] = << >>
    /\ IF cell[w] # NoCell THEN FlushAtomic(w) ELSE UNCHANGED index
    /\ cell' = [cell EXCEPT ![w] = NoCell]
    /\ data' = [data EXCEPT ![w] = {}]
    /\ writeState' = [writeState EXCEPT ![w] = NOT_STARTED]
    /\ ended' = ended \union BatchIds(w)
    /\ load' = [load EXCEPT ![w] = Tail(@)]
    /\ at' = [at EXCEPT ![w] = "idle"]
    /\ UNCHANGED rest

AllEnded ==
    /\ \A w \in Writers : at[w] = "idle" /\ load[w] = << >>
    /\ UNCHANGED cellVars

IndexNext ==
    \/ \E w \in Writers :
          StartBatch(w) \/ PutEntry(w) \/ Carry(w) \/ EndIndexBatch(w)
    \/ AllEnded

IndexSpec == IndexInit /\ [][IndexNext]_cellVars

-----------------------------------------------------------------------------
(* Properties *)

(* Nobody clobbers the entries of a batch that has ended, neither the      *)
(* batches of other workers that share its first or last cell nor the      *)
(* later batches of the same worker: get() returns what was put.           *)
EntriesKept == \A id \in ended : Get(id) = Pile[id]

PutIds(w) == IF at[w] = "idle" THEN {} ELSE BatchIds(w)

(* An ID that nobody has put reads 0, "missing": no value spills over into *)
(* the entry of a neighbour.                                               *)
NoStrayEntries ==
    \A id \in Ids :
        id \notin ended \union UNION {PutIds(w) : w \in Writers} => Get(id) = {}

=============================================================================
