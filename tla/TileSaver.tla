----------------------------- MODULE TileSaver -----------------------------
(***************************************************************************)
(* Saving tiles as a Geo-Object Bundle: TileSaver of src/gol/load,         *)
(* TesArchiveWriter of src/tile/tes, and SaveCommand, which calls them.    *)
(*                                                                         *)
(* Workers read and compress the tiles, and one output thread appends the  *)
(* results to a temporary file in the order in which they arrive. Only the *)
(* catalog, written last over the hole left at the start of the file,      *)
(* tells which chunk belongs to which tile.  The process may crash between *)
(* any two steps and the command may be run again.                         *)
(***************************************************************************)
EXTENDS Naturals, Sequences, FiniteSets

CONSTANTS
  Tips,         \* the tiles of the library
  TileOrder,    \* the tiles in the order of the walk, a sequence
  SaveThreads,  \* the worker threads of the TileSaver
  Idle,         \* what a thread is busy with when it has no task
  MaxCrashes    \* how often the process crashes at most

ASSUME TilesAssumption == /\ TileOrder \in Seq(Tips)
                          /\ \A i, j \in DOMAIN TileOrder : TileOrder[i] = TileOrder[j] => i = j
ASSUME IdleAssumption == Idle \notin Tips /\ MaxCrashes \in Nat

VARIABLES
  saveStage,  \* idle, saving, closing, renaming, saved
  posted,     \* queue of the worker threads
  reading,    \* the tile each worker reads and compresses
  outputs,    \* queue of the output thread
  entries,    \* the entries of the catalog so far (in memory)
  partFile,   \* the file TesArchiveWriter writes
  tmpFile,    \* the file SaveCommand asks it to write
  gobFile,    \* the file the user asked for
  crashes     \* crashes so far

saverVars == <<saveStage, posted, reading, outputs, entries, partFile, tmpFile, gobFile, crashes>>

(* A file: its chunks ("metadata" or the tile it holds) and its catalog.   *)
NoFile == [exists |-> FALSE, catalog |-> <<>>, chunks |-> <<>>]
EmptyFile == [exists |-> TRUE, catalog |-> <<>>, chunks |-> <<>>]

SaverInit ==
  /\ saveStage = "idle" /\ posted = <<>> /\ outputs = <<>> /\ entries = <<>>
  /\ reading = [w \in SaveThreads |-> Idle] /\ crashes = 0
  /\ partFile = NoFile /\ tmpFile = NoFile /\ gobFile = NoFile

(* writer_.open() creates the file or truncates one that is left over.     *)
Open ==
  /\ saveStage = "idle" /\ saveStage' = "saving"
  /\ partFile' = EmptyFile /\ entries' = <<>>
  /\ posted' = TileOrder /\ outputs' = <<>>
  /\ UNCHANGED <<reading, tmpFile, gobFile, crashes>>

(* The output thread writes the metadata before it takes any tile.         *)
WriteMetadata ==
  /\ saveStage = "saving" /\ Len(partFile.chunks) = Len(entries)
  /\ partFile' = [partFile EXCEPT !.chunks = Append(@, "metadata")]
  /\ UNCHANGED <<saveStage, posted, reading, outputs, entries, tmpFile, gobFile, crashes>>

TakeTile(w) ==
  /\ reading[w] = Idle /\ posted # <<>>
  /\ reading' = [reading EXCEPT ![w] = Head(posted)] /\ posted' = Tail(posted)
  /\ UNCHANGED <<saveStage, outputs, entries, partFile, tmpFile, gobFile, crashes>>

PostTile(w) ==
  /\ reading[w] # Idle
  /\ outputs' = Append(outputs, reading[w]) /\ reading' = [reading EXCEPT ![w] = Idle]
  /\ UNCHANGED <<saveStage, posted, entries, partFile, tmpFile, gobFile, crashes>>

(* writeTile() appends an entry and a chunk: they stay in step.            *)
AddEntryInOrder == Append(entries, TileOrder[Len(entries) + 1])
AddEntry == Append(entries, Head(outputs))

WriteTile ==
  /\ saveStage = "saving" /\ outputs # <<>> /\ Len(partFile.chunks) > Len(entries)
  /\ entries' = AddEntry
  /\ partFile' = [partFile EXCEPT !.chunks = Append(@, Head(outputs))]
  /\ outputs' = Tail(outputs)
  /\ UNCHANGED <<saveStage, posted, reading, tmpFile, gobFile, crashes>>

(* end() waits for workers and output thread; close() writes the catalog   *)
(* and forces it to the disk before the file gets its name.                *)
EngineIdle == posted = <<>> /\ outputs = <<>> /\ \A w \in SaveThreads : reading[w] = Idle

WriteCatalog ==
  /\ saveStage = "saving" /\ EngineIdle /\ Len(partFile.chunks) > Len(entries)
  /\ partFile' = [partFile EXCEPT !.catalog = entries] /\ saveStage' = "closing"
  /\ UNCHANGED <<posted, reading, outputs, entries, tmpFile, gobFile, crashes>>

RenamePart ==
  /\ saveStage = "closing" /\ saveStage' = "renaming"
  /\ tmpFile' = partFile /\ partFile' = NoFile
  /\ UNCHANGED <<posted, reading, outputs, entries, gobFile, crashes>>

Publish ==
  /\ saveStage = "renaming" /\ saveStage' = "saved"
  /\ gobFile' = tmpFile /\ tmpFile' = NoFile
  /\ UNCHANGED <<posted, reading, outputs, entries, partFile, crashes>>

(* Memory is lost, the files stay as they are; the command is run again.   *)
Crash ==
  /\ saveStage # "saved" /\ saveStage # "idle" /\ crashes < MaxCrashes
  /\ crashes' = crashes + 1 /\ saveStage' = "idle"
  /\ posted' = <<>> /\ outputs' = <<>> /\ entries' = <<>>
  /\ reading' = [w \in SaveThreads |-> Idle]
  /\ UNCHANGED <<partFile, tmpFile, gobFile>>

SaverStep ==
  \/ Open \/ WriteMetadata \/ WriteTile \/ WriteCatalog \/ RenamePart \/ Publish
  \/ \E w \in SaveThreads : TakeTile(w) \/ PostTile(w)
SaverNext == SaverStep \/ Crash

-----------------------------------------------------------------------------
(* A bundle that bears the name the user gave is whole, whenever the       *)
(* process crashed: metadata first, then one chunk for each tile, and each *)
(* entry of the catalog describes the chunk at its place                   *)
(* (TesArchiveWriter::close writes the catalog before it renames).         *)
PublishedWhole ==
  gobFile.exists =>
    /\ gobFile.chunks = <<"metadata">> \o gobFile.catalog
    /\ Len(gobFile.catalog) = Len(TileOrder)
    /\ {gobFile.catalog[i] : i \in DOMAIN gobFile.catalog} = {TileOrder[i] : i \in DOMAIN TileOrder}
=============================================================================
