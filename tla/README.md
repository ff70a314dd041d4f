# A formal model of the GeoDesk GOL tool

This directory holds TLA+ specifications of the `gol` command-line program
(C++20, `src/`), which turns OpenStreetMap data into GeoDesk's Geographic Object
Library (GOL) format, keeps such libraries up to date, checks them, and exports,
transfers and queries them. TLC checks the specifications on small instances;
for seven of them TLAPS proves safety properties for every instance.

Contents: [inventory](#inventory) · [modules](#modules) · [runs](#runs) ·
[bounds](#bounds) · [fairness](#fairness) · [proofs](#proofs) ·
[findings](#findings) · [observations](#observations) · [limits](#what-is-not-modelled) · [plan](#plan)

Paths are relative to the root of the repository (`src/src/…` is the folder
`src` of the project).

## Inventory

The program has four big subsystems and some libraries of its own. Two other
libraries, libgeodesk (feature store, queries) and libclarisma (`TaskEngine`,
`BlockingQueue`, `MappedFile`, `LinkedStack` …) are git submodules whose source
is not here; what the code expects of them is modelled from its use and marked
*external* in `PROJECT.json`.

### Build (`src/src/build`): OSM file → library

`GolBuilder` runs four passes one after the other. Each is a `TaskEngine`: one
reader thread posts blocks to a bounded work queue, workers process them and
post their output to a bounded output queue that one output thread empties;
`end()` joins all of them.

| Part | State | Operations | Hard behaviour | Correct if |
|---|---|---|---|---|
| **Analyzer** | string table and node counts per worker, totals | read blocks, merge, build the tile index | merge of the workers' results | totals do not depend on the schedule |
| **Sorter** | phase and pile writer per worker, `phaseCountdowns_`, condition variable, three feature indexes, pile file | decode a block, `advancePhase`, flush piles, `afterTasks`, `resolveSuperRelations` | a barrier in the middle of the work; lock-free reads of the indexes | nobody reads an index before it is complete; each feature is written once |
| **FastFeatureIndex** | packed array shared by the workers, one pending cell per worker | `beginBatch`, `put`, `endBatch`, `get` | entries straddle cells, cells are shared; plain and atomic stores mix | `get` returns what was put |
| **SuperRelationResolver** | levels, cursors, flags per relation, call stack, list of cyclical relations | `resolve`, `breakReferenceCycle`, `getLevels` | recursion that is unwound out of its loop and entered again | what remains is acyclic and levels ascend; no more is dropped than needed |
| **Validator** | exports per tile | find features that other tiles refer to | same engine; order of the exports | every foreign reference has an export |
| **Compiler** | tile models, export tables | lay out and encode tiles | byte formats | every reference resolves |
| **Driver, tables** | settings, string and tile catalogs, work folder | sequence of the passes | – | – |

### Change (`src/src/change`): library + change files → library

`Updater::update()` finds the revision of the library on a replication server
(**ReplicationClient**), downloads and reads the change files in two threads
(**ChangeIngester**, **ChangeReader**) into the **change model**, searches all
tiles for the features concerned (**TileChangeAnalyzer**, many threads, actions
recorded for the main thread), then decides what becomes of every feature
(**Updater analysis**, one thread), encodes the changes per tile
(**ChangeWriter**) into an archive, and applies the archive (**Updater phases**,
**TES** reader).

| Part | State | Operations | Hard behaviour | Correct if |
|---|---|---|---|---|
| **ReplicationClient** | bounds of a search | probe downward, then interpolate | missing revisions, lost requests, rounding | the update begins at the last revision older than the library |
| **ChangeIngester** | bounded queue, stop flag, status | download thread, main thread | full queue on either side of a failure; end markers | changes apply in order and completely, both threads end |
| **ChangeReader** | the feature being read | create, modify, delete | versions of a feature in any order | the newest version wins |
| **Change model** | changed features, flags, references | create, mark, cascade | marks without a place on the work list; past references and future tiles in the same fields | every marked feature is processed |
| **TileChangeAnalyzer** | actions per thread | compare a tile with the model | twins of one feature in two tiles analyzed at once, without a lock | one outcome for both twins |
| **Updater analysis** | stacks of nodes, ways, relations; flags | process each, cascade to parents, export | recursion, deferral, cycles, features that move between tiles | children before parents; every tile is told what it will hold |
| **ChangeWriter** | inventory, shared tables | gather, number, write records | numbers, deltas and references that depend on what was written before | what is read is what was meant |
| **Updater phases** | phase, countdown, semaphore, archive | post tiles, await, close, apply | the last task of a phase races with the next phase | phases are separate and complete |

### Transfer (`src/src/gol/load`, `src/src/tile/tes`, `src/src/clarisma/net`)

| Part | State | Operations | Hard behaviour | Correct if |
|---|---|---|---|---|
| **TileSaver** | entries and chunks of an archive | save a tile per worker, append, close, rename | output in any order; a crash at any step | a bundle that has its name is whole |
| **TileLoader**, **TileDownloadClient** | ranges, shared counter, clients, transaction | cut ranges, request, take tiles as bytes arrive, commit | the main client starts and joins the others while it receives a response itself; bytes to skip; failures | each wanted tile is loaded once, unchanged, before the commit |
| **TES** | position in a stream, tables, a tile | write, read and check a tile or its changes | three codes agree on one stream; changes that are applied twice | what is read is what was written |
| **HTTP client**, **Zip** | – | requests, redirects, compression | – | – |

### Query (`src/src/gol/query`, `src/src/osm`)

| Part | State | Operations | Hard behaviour | Correct if |
|---|---|---|---|---|
| **Query printers** | chunks per task, queue of batches, counts | query a tile per worker, submit, print | a printing thread that starts before its object is complete; the number of tiles is known late | the document is well-formed and has each result once |
| **OSM query printers** | set of features | collect results and what they need, sort | relations that contain each other | what is in the file has all its parts |
| **OSM PBF encoding** | block, strings, sections | add a feature or take it back | a feature that does not fit | a reader gets back what was put in |

### The rest

**Checker** reads a library and reports; **Commands**, **Tags**, **Tile model**,
**Tile compiler** and **Tile tasks** are sequential transformations of data or
formats (see [What is not modelled](#what-is-not-modelled)).

### Interactions

```
OSM file -> Analyzer -> Sorter (FastFeatureIndex, SuperRelationResolver)
         -> Validator -> Compiler -> library
server -> ReplicationClient -> ChangeIngester -> change model
       -> UpdaterPhases.SEARCH (TileChangeAnalyzer) -> UpdateRelations
       -> UpdaterPhases.PREPARE_UPDATE (ChangeWriter, TesArchiveWriter)
       -> UpdaterPhases.APPLY_UPDATE (TesArchive, TesReader, tile compiler) -> library
library -> TileSaver (TesWriter) -> bundle -> TileLoader (TesReader) -> library
library -> QueryPrinter -> text, or OsmQueryPrinter -> OsmPbfEncoder -> OSM file
```

Within the build, the Sorter calls the index and the resolver; within an
update, the parts run one after the other in the main thread, which uses an
engine of workers for SEARCH, PREPARE_UPDATE and APPLY_UPDATE.

## Modules

| Module | Models | Shape |
|---|---|---|
| `PhasedSort` | what the Sorter promises | abstract specification: features are settled kind by kind |
| `Sorter` | `Sorter.cpp`, `OsmPbfReader`, `PileWriter` | reader, N workers, output thread; one action per critical section or queue operation |
| `SorterProofs` | | theorems about `Sorter` and, in its second half, about `FastFeatureIndex` |
| `FastFeatureIndex` | `FastFeatureIndex.{h,cpp}` | bits in cells in segments; one action per access to shared memory |
| `SuperRelationResolver` | `SuperRelationResolver.cpp`, `SuperRelation.*` | sequential, explicit call stack, one action per step of the member loop |
| `SuperRelationResolverProofs` | | theorems about it |
| `ReplicationClient` | `findCurrentState()` | sequential, one action per fetched state file |
| `ChangeIngester` | `download()`, `performDownload()` | two threads and a bounded queue |
| `UpdateDownload` | the two together | composition: the search runs in the download thread while the main one waits; specification, fairness and liveness |
| `ReplicationProofs` | | theorems about all three |
| `UpdateRelations` | `processChanges()`, `processRelations()`, `processRelation()`, `memberBoundsChanged()` | sequential, explicit call stack |
| `UpdateRelationsProofs` | | theorems about it |
| `UpdaterPhases` | `update()`, `taskCompleted()`, `TesArchiveWriter`, offsets of `TesArchive` | main thread, workers, output thread |
| `UpdaterPhasesProofs` | | theorems about it |
| `TileSaver` | `TileSaver`, `TesArchiveWriter`, `SaveCommand` | workers, output thread, crash |
| `TileLoader` | `TileLoader`, `TileDownloadClient` | main client, further clients, engine with output thread |
| `TileExchange` | both together | composition; specification and liveness |
| `TileExchangeProofs` | | theorems about it |
| `DataTheorems` | | lemmas on induction, functions defined by recursion, sets that grow by their neighbours (closures), queues that hold nothing twice, sequences and concatenation, ledgers, and computations that come to an end |
| `TileData` | what a tile holds; tables, tags, numbers as they are encoded | operators |
| `TesWriter` | `TesWriter.cpp` | operators, one per method |
| `ChangeWriter` | `ChangeWriter.cpp`, `TableEncoder.h` | operators, one per method |
| `TesReader` | `TesReader.cpp` | state machine, one action per section or record |
| `TesChecker` | `TesChecker.cpp` | state machine of the same shape |
| `TileStream` | the four together | a tile built, saved, loaded, updated, updated again |
| `ChangeModel` | `src/src/change/model` | operators on the record `cm` |
| `ChangeReader` | `ChangeReader.cpp` | operators, one per handler |
| `TileChangeAnalyzer` | `TileChangeAnalyzer.cpp`, `ChangeAction.cpp` | operators, one per kind of feature and action |
| `FeatureUpdate` | `processNode()`, `processWay()`, `processRelation()` and what they call | operators, one per step |
| `ChangeAnalysis` | `update()` up to `processChanges()` | composition: reader, N search threads, three stacks |
| `FeaturePrinterBuffer` | `FeaturePrinterBuffer.h`, the printers for text | operators |
| `OsmQueryPrinter` | `OsmQueryPrinter.cpp`, `XmlQueryPrinter.cpp` | operators |
| `OsmPbfEncoder` | `OsmPbfEncoder.cpp` and a reader of what it writes | operators |
| `QueryPrinter` | `QueryPrinter.cpp`, `ParallelQueryPrinter.h`, `OsmPbfQueryPrinter.cpp` | composition: main thread, executor threads, printer, writer of the file |
| `QueryPrinterProofs` | | theorems about it |
| `MC…` | | instances for TLC |

Definitions named after code keep its names; `PROJECT.json` maps each to its
lines. A definition whose comment begins with *Slip:* is a plausible mistake;
it is not part of the specification and serves to show that a property would
notice the mistake.

**Sorter.** A feature is a pair of block and position with a kind (node, way,
relation, super-relation); IDs, tiles and encodings are left out. `pc[w]` is
where worker `w` stands: it decodes, flushes its piles when a batch is full
(`Flush`), and on the first feature of a later kind runs `advancePhase()`:
flush the piles, end the index batch, count itself out of every phase from its
own to the goal, wait until they are all at zero, checking again after every
wake-up. `afterTasks()` is the same with goal 3. `indexed` is what the shared
indexes hold; an entry that is put but whose cell is not yet flushed is in
`batch`. The main worker gathers the lists of super-relations and writes them
level by level. What is *not* assumed is as important: blocks may mix kinds, be
empty or skip phases, a worker may never get a block, and wake-ups may be
spurious. The one assumption about the file is `IsOrdered` (`FilesAssumption`),
the order of kinds that planet files have and that the code relies on.

**FastFeatureIndex.** A cell is a set of bits. `put` splits an entry that does
not fit, flushes the pending cell when it moves on, atomically (merge) for the
first and last cell of a batch and plainly (overwrite) otherwise. Two accesses
of one `put` are two steps (`PutEntry`, `Carry`). Its definitions are named apart
from those of `Sorter` (`Writers`, `IndexInit`, `FlushCell` …), so that one module
can speak of both. The batches of a workload ascend and lie one behind the other
(`IsWorkload`), which is assumption 2 of `FastFeatureIndex.h`.

**SuperRelationResolver.** The frames of `resolve()` are a sequence; `members`
are the references with those that were removed replaced by `Cleared`.
`FindCycle` starts the unwinding (`pc = "failed"`), `Unwind` returns from one
call after another, recording the relations, `BreakCycle` picks the loser by
score and the caller tries again. Levels and counters as in the code.

**ReplicationClient.** `lower`, `upper` and `probe` are the locals of the two
loops. A fetch may fail because the file does not exist or (up to `MaxLost`
times) for another reason; the code treats both alike.

**ChangeIngester, UpdateDownload.** `seq` and `queue` belong to the
download thread, `current`, `data` and `applied` to the main one. A file is a number: `r` is the file of
revision `r`, `-r` an empty one, 0 the end marker; the program cannot tell the
last two apart. Reading any file may fail (`ProcessFails`). The body of
`fetch()` is disabled at this commit; the model lets it return data, return
nothing or throw, which is what its callers handle. In `ChangeIngester` alone,
the search returns any revision up to the target; in `UpdateDownload`, it is the
search of `ReplicationClient` that runs where `dpc = "begin"`, and what it finds
is where the download begins. `Forget` resets the locals of a search that is
over, as `findCurrentState()` does by returning.

**UpdateRelations.** What the files and tiles say about a relation is its
`kind`; `changed`, `geom`, `processed`, `deferred`, `attempted` are flags in
the code. Assertions are compiled out, as in a release build. Whether bounds
change is left open. `memberSearchCompleted_` is constantly true and members
that are null are never met again, so the code for these cases is unreachable
and left out. The relations that the files touch are pushed in any order, since the
order of a file is nothing the code relies on.

**UpdaterPhases.** One task per tile and phase. A task is a number; a thread
looks at `phase_` for what it means (a tile, or an entry of the archive), as in
the code. `Order` is the order in which a set of tiles is walked, by the tile
index in `SEARCH` and by the iterator of `changedTiles()` later.
Sizes of header, entry and checksum are those of the code. Errors in tasks are
left out: a chunk read from the wrong place is "compiled" here.

**TileSaver, TileLoader, TileExchange.** A tile is a model value with a size.
`entries` and `chunks` grow when the output thread takes a result; the file has
a hole for the catalog until that is written, and a temporary name until it is
renamed. `Crash` may happen before any step and leaves the files as they are;
the command is run again. The loader has one record per client: the state of
its response, the entry it expects next, its place in the file. The ranges are
cut by an operator that follows `determineRanges()` with its sums and limits.
That a client takes *the bytes at its position* for *the tile at its position
in the catalog* is kept, so a wrong sum loads a wrong tile. The transaction is
in a library of its own; it is modelled as used: tiles put before `commit()` are
in the store, others are not. Any request may fail at any time (`Fail`).

**TileData, TesWriter, ChangeWriter, TesReader, TesChecker, TileStream.** A
stream is a sequence of numbers, the ones that the code writes as varints: flags,
zigzag differences, table entries with their bits packed by arithmetic, table
sizes in bytes. Strings are numbers, a coordinate is one number for both axes.
The change model of an update is computed from two *worlds* as the analysis
would leave it (`Changes`). `Applied` compares the tile that results with the
new world, not with the stream, so the encoding is checked against its purpose.

**ChangeModel, ChangeReader, TileChangeAnalyzer, FeatureUpdate,
ChangeAnalysis.** Stub, changed feature and the pointers between them are one
record per feature; `ref` and `refSE` are the past references that become
future tiles while features are processed, as in the code. The search of a tile
takes one step per feature, of any thread; the actions are applied thread by
thread, the last recorded first. `wrote` notes which tile wrote flags or
bounds, which are not atomic in the code. Each case comes with the library
before; `After` is the library that results from the newest version of each
feature, and the properties compare `changedTiles_` with it.

**FeaturePrinterBuffer, OsmQueryPrinter, OsmPbfEncoder, QueryPrinter.** A text
is a sequence of tokens, so that a cut inside a feature shows. A buffer is a
chain of chunks; the full ones are submitted and the unfinished feature moves to
a new one. In `OsmPbfEncoder`, room is counted in units, and a block keeps what
`Undo` leaves behind; `Read` reads a block by the rules of the format. In
`QueryPrinter` the printing thread may call virtual functions before the
derived object exists.

## Runs

| Run | Properties | Shows |
|---|---|---|
| `sorter` | `MembersIndexed SuperRelationsGathered EverythingWritten Termination SortsInPhases` | Nobody looks up a feature that is still on its way; all is written, once; the barrier and the queues never deadlock (a comment in `Sorter.cpp` fears it); the Sorter implements `PhasedSort`, fairness included |
| `feature_index` | `EntriesKept NoStrayEntries` | With disjoint batches no entry is lost or smeared |
| `super_relations` | `ChildrenBelow LevelsAscend OnlyCyclesBroken Termination` | Cycles, and only cycles, are broken; levels are right |
| `update_download` | `NothingSkipped BoundsNarrow SearchEnds IngestedInOrder AllIngested Termination` | The update begins where it must; the interpolation always makes progress; order, completeness, no deadlock around a full queue when either thread fails |
| `update_relations` | `ChildrenFirst OnlyBlockedLeft NeverTooLate Termination` | Children first, each relation once, only blocked ones left over |
| `update_phases` | `PhaseComplete ChunksInOrder Termination` | A phase ends with its last tile, not earlier; the archive is gapless and in catalog order |
| `tile_exchange` | `PublishedWhole TilesIntact CommitComplete LoadEnds` | A published bundle is whole after any crash; whoever loads it gets each tile unchanged, and commits all or nothing; no client or task is waited for in vain |
| `tile_stream` | `Applied Saved Reapplied Accepted` | Writer, reader and checker agree on the stream; what changed arrives; a second application changes nothing |
| `change_analysis` | `Analyzed OneWriter ParentsCurrent TilesUpdated Exported` | Whatever the order of versions, threads and actions, each tile is told what it will hold; the unlocked writes of the search never meet |
| `change_missing` | `MissingAreGone` *violated* | A node that stays is taken for missing |
| `query_output` | `OutputWhole OsmFileWhole QueryEnds` | Every format's document is whole and has each result once, whatever the interleaving; a PBF file has what `--complete-relations` asks for, an XML file with all relations too, and a reader of the PBF file gets just that |
| `query_xml` | `XmlAsRequested` *violated* | An XML file has more than `--complete-relations` asks for |

Each property of a passing run has a mutant in `PROJECT.json`: a slip in a
mapped definition that TLC finds by that property. Type invariants and the
inductive invariants are not in this table: they are proved (below).

### Bounds

- `sorter`: three workers, the least for which one waits while two pass each
  other; six files with every kind, phase changes within and between blocks,
  empty phases, an empty block and no blocks; queues of length one, so that
  every post may block; batches of one node and two others, so that flushes
  fall in the middle and at the end of blocks. The proof has no such bounds.
- `feature_index`: 9 entries of 3 bits, cells of 4 bits, 3 cells per segment:
  entries inside a cell, straddling two, and unused bits at the end of a
  segment all occur; up to three workers share a cell.
- `super_relations`: all graphs of three relations with up to two references
  each (no self-references, which the reader drops), every choice of relations
  without a tile, ties of scores; plus five graphs of five relations with
  overlapping cycles, cycles entered from outside, repeated members, and a
  chain deeper than `MaxRelationLevel = 3` (9 in the code).
- `update_download`: seven revisions, six points in time, so revisions
  coincide, bunch and spread, on servers that keep all, a tail, or lack some in
  the middle; `MaxLost = 1`. Queue of 2 and up to 6 revisions to fetch, so that
  the queue is full with files left over; any fetch and any file may fail.
- `update_relations`: `NRels = 3` (cycles of length 1 to 3, a grandparent);
  every kind of relation; a way only, any one or two distinct relations, and
  tables with a way that is gone or stuck.
- `update_phases`: four tiles, two workers, queues of two and one, every
  subset of tiles changed.
- `tile_exchange`: four tiles of sizes 3, 1, 4 and 2; every set of them is
  wanted in turn, with or without one that the library has, so that gaps occur
  at the start, inside and at the end, below, at and above `MaxSkippedBytes = 2`;
  two threads to save, two to load, two connections, so that a client waits,
  takes a second range and ends in every order; one crash; bundles and libraries
  whose flags or GUIDs do not match; a server or a file, with any request failing.
- `tile_stream`: three tiles side by side below a larger one, so that a feature
  is in one, in two, or foreign; three nodes, a way, two relations of which one
  may contain the other; differences of TEX that need the narrow and the wide
  form; keys and strings that are global and local; three worlds to begin with
  and up to eighty to end with, which differ in geometry, tags, members, roles,
  areas, existence. A longer chain of updates adds nothing, since an update
  depends only on the tile it begins with.
- `change_analysis`, `change_missing`: two tiles with a border, three nodes and a
  new one on four places (two on each side), one way, at most one relation; every
  pair of twenty edits that leaves the data consistent, on up to 24 libraries, and
  several versions of one feature in both orders; two threads, one for each
  tile, which is all the parallelism two tiles have.
- `query_output`, `query_xml`: chunks of four tokens with features of one to six, two
  workers, an executor and a queue of two, an output queue of one; seven formats
  for text with four sets of tiles (stale, empty, several pages); XML and PBF
  with three sets of tiles and three kinds of completeness (none, all, one type);
  blocks with room for ten units of strings and five of a section, so that either
  may overflow; and a PBF query of nodes that are close together but have ids far
  apart, whose ids do run over their section, so that the precondition of
  `OsmFileWhole` is not always true.

Counters that the code leaves unbounded (revisions, time, lost requests,
relations, tiles) are bounded by the constants just named and by no other guard.

### Fairness

Threads of the operating system: every thread that can take a step eventually
takes one. In `Sorter`, `UpdaterPhases` and `UpdateDownload` this is weak
fairness of each thread by itself (reader or main thread, output thread, every
worker), never of single actions. Weak fairness is enough because a thread that
waits at a queue, a condition or a semaphore depends on threads that, once the
condition holds, cannot take it away from *all* who wait for it; TLC confirms
it. Nobody relies on spurious wake-ups, which are not fair. The sequential
components (`SuperRelationResolver`, `UpdateRelations`) have weak fairness of
their next step: a running thread does not stop. In `UpdateDownload` the search
is part of the download thread and has its fairness; this includes that a
request ends, with a response or an error. `FastFeatureIndex` has no
liveness property of its own.

In `TileExchange`, the threads that save have one weak fairness and those that
load another; a crash or a failure is never forced. In `QueryPrinter` every
thread has its own. `ChangeAnalysis` and `TileStream` state no liveness: they
are compositions of code that cannot block.

Deadlock is checked in `sorter`, `feature_index`, `super_relations`,
`tile_exchange`, `tile_stream` and `change_analysis`, where the end is an
explicit stutter. The others stop when the program returns, so it is off there;
their liveness property says that they stop nowhere else.

## Proofs

All proofs assume no more than the named assumptions on constants
(`WorkersAssumption`, `FilesAssumption`, `SizesAssumption`, `TilesAssumption`
…), which TLC evaluates on every instance. Each follows the same argument: an
inductive invariant `IInv`, which contains the type invariant; one lemma
per action that the action preserves it; `Spec => []IInv` by temporal logic; then
each property from `IInv`.

- **`SorterProofs`** – any finite number of workers, any sorted files, any
  sizes: `TypeCorrect`, `IInvHolds`, `MembersAlwaysIndexed`,
  `AssertionsAlwaysHold`, `SuperRelationsAlwaysGathered`, `EverythingAlwaysWritten`,
  `Refinement`.
  `MembersIndexed` is not inductive: why a worker in phase 1 finds all nodes
  depends on what the others have counted, what they have yet to flush, and on
  the blocks that are not even taken. `IInv` says: goals lie ahead of phases
  (`GoalInv`); `countdown[p]` is the number of workers not yet counted out of
  `p` (`CountdownInv`); whoever is past `p` saw it at zero (`BarrierInv`); a
  worker's remaining block, and all blocks after the one it took, hold nothing
  of an earlier kind (`AheadInv`, which uses the sortedness of the file); idle
  and waiting workers hold nothing (`IdleInv`, `BatchInv`); super-relations are
  in a list, in the resolver or settled (`SuperInv`); no feature is lost
  between file, batch and index (`CoverInv`). `EverythingAlwaysWritten` needs three
  more: a feature is on its way to the pile file, or in it, exactly when it is in
  an index or a batch (`MatchInv`); a worker that has left its blocks has nothing
  in its piles (`EmptyInv`); and the resolver ends with nothing unresolved
  (`ResolvedInv`). `Refinement` proves that every
  step of `Sorter` is a step of `PhasedSort` or a stutter; that the promise is
  also *fulfilled* (fairness) is only model-checked.
- **`FastFeatureIndex`**, in `SorterProofs` – any width of entries and cells, any
  length of segments, any number of workers, any ascending batches whose ranges
  are disjoint: `EntriesAlwaysKept`, `NeverStrayEntries`, `NeverGoesBack` (the
  assertion of `put()`). First arithmetic: an entry begins where `access()` says
  (`Placement`), entries come in the order of their IDs and their bits are apart
  (`SpotOrder`, `RoomsApart`), one lies in a cell and at most the next
  (`RoomCells`), the shifts of `put()` make the two parts (`FirstPart`,
  `SecondPart`) and those of `get()` undo it (`GetReads`). Then the invariant
  (`IndexInv`): each bit that is set is one of an entry that was put
  (`NoStrayBits`); the bits of an entry that was put are in the index or in the
  pending cell (`BitsKept`); a plain store goes to a cell between the first of its
  batch and a later one (`StateOK`), and such a cell belongs to no entry of others
  (`Interior`), as long as what ends is beside what is left (`EndedBeside`).
- **`SuperRelationResolverProofs`** – any graph: `IInvHolds`,
  `ChildrenAlwaysBelow` (the result is acyclic), `AssertionsAlwaysHold`,
  `LevelsAlwaysAscend`, `OnlyCyclesAreBroken`. `IInv`: the stack is a simple path of pending relations
  (`StackInv`, `FrameInv`, `CallInv`, `TopInv`); while a failure unwinds, the
  recorded relations are a path back to the one that closes the cycle
  (`CycleInv`); resolved relations keep only lower members (`ChildrenBelow`)
  and are placed at their level (`PlacedInv`). For the last theorem, a member is
  only ever cleared for a reason (`MembersInv`), and each relation that a failure
  records reaches the one that closes the cycle, and is reached from the last one
  recorded (`RingInv`). That `Reachable`, computed in as many rounds as there are
  relations, is closed under references is a lemma: sets that grow by their
  neighbours come to rest within so many rounds.
- **`ReplicationProofs`** – of the search, for any server: `NothingEverSkipped`,
  `NothingEverRepeated`, `BoundsAlwaysNarrow`. `SearchInv`: `lower` is older than
  the wanted time and `upper` is not (`BracketInv`). The arithmetic of the rounded
  interpolation is a lemma. Of the download and the ingestion, for any queue size
  and any outcome of the fetches: `AlwaysInOrder`, `AlwaysComplete`. `IInv`: the
  revisions applied, in hand, in the queue and under way follow each other
  (`FlowInv`, `SeqInv`, `OrderInv`), and the end marker comes last (`EndInv`).
  Of the two together: what the search finds is at most the target
  (`SearchWithin`), so each step of `UpdateDownload` is one of `ChangeIngester` or
  a stutter (`DownloadImplements`) and inherits its theorems; and
  `DownloadSkipsNothing`.
- **`UpdateRelationsProofs`** – any number of relations, any graph of members,
  cycles included: `ChildrenAlwaysFirst`, `NeverEverTooLate`, `OnlyBlockedEverLeft`. That a written
  relation's members are all written before it has to be known for calls that
  are still under way, since a member may be processed, deferred or dropped
  while its parent waits for it. `IInv`: the calls on the stack are of
  different relations that are attempted and not processed (`OnStack`); what a
  call has passed and not left open is settled (`FramesOK`); only members that
  are gone or processed are dropped (`Dropped`, `Library`); what is processed
  has settled members (`ProcessedOK`); nothing happens before the ways
  (`Quiet`). For `OnlyBlockedEverLeft`, a second invariant (`LeftInv`): what is
  pushed is processed, deferred, attempted or still in a list (`Waiting`); calls
  go down along members (`Descent`); and whatever is deferred, or left open by a
  call, has a cycle, a stuck way or an absent relation below it (`FramesLeft`,
  `DeferredLeft`), where *below* is shown to be transitive and closed.
- **`UpdaterPhasesProofs`** – any number of tiles and workers, any order of
  walking the tiles, queues of any length, any set of changed tiles:
  `PhaseAlwaysComplete`, `ChunksAlwaysInOrder`. A counter at zero says nothing
  by itself about work that is done. `IInv`: a task is yet to be posted, in one
  queue or with one thread (`OnePlace`), `remaining` is the number of those
  (`Counted`), the semaphore is released by one thread, after the last of them
  (`ReleasedOnce`), threads work for the phase that is (`InPhase`), and what a
  phase has yet to do belongs to tasks that are not counted (`Progress`). The
  archive ends where the next chunk belongs (`Layout`).
- **`TileExchangeProofs`** – any tiles of any sizes, any number of threads,
  clients and crashes, any request failing: `PublishedAlwaysWhole`, `PlanOK`,
  `TilesAlwaysIntact`, `CommitsComplete`. For saving (`IInv`): a tile is in one
  place (`OnePlace`), none is lost while tiles are saved (`AllPlaced`), chunks
  follow the entries (`InStep`), so the file is whole when it is closed and keeps
  being so through both renames (`FilesWhole`). That as many entries as tiles are
  the tiles themselves is a lemma of `DataTheorems`. `PlanOK` is about
  `determineRanges()` as a function of the catalog: the ranges lie one behind the
  other, begin and end with a wanted tile, hold each wanted tile once, and start
  at the byte where the chunk of their first entry does. For loading (`LoadInv`):
  a tile that was received is in one queue, with one worker or put (`OneHolder`);
  the entries that clients still expect and those of ranges not yet taken are
  disjoint, and none of them has been received (`Apart`); no wanted tile is
  overlooked (`Covered`); a client's place in the file is the offset of the entry
  it expects, and its response reaches to the last one (`ClientsOK`); the ranges
  are as planned (`RangesOK`).

- **`QueryPrinterProofs`** – any queries in any format over any tiles, any number
  of threads, any sizes of texts, chunks, batches and queues:
  `QueryOutputWhole`. `OutputWhole` speaks of the end of a query only, and a
  queue of batches says nothing of what is in the hands of threads; so the
  invariant (`QInv`) keeps books. Each tile that was begun has a number of
  results that were submitted and, never smaller, of results that were counted
  (`Progressed`); what was printed, and then what the batches in the queue carry,
  in order, are a list of all that was submitted, with nothing twice (`Ledger`),
  and there is one such list for the texts, one for the counts and one for the
  tiles that ended (`Books`). A thread that works on a tile has, in its buffer,
  the text of what it has written and not submitted (`TaskAt`); each tile is with
  one thread, waiting, yet to be walked or ended (`Crew`). When as many tiles have
  ended as there are, nothing is left in these lists but what was printed. What
  remains is the text itself. `FeaturePrinterBuffer` is proved to pass it on
  unchanged, whatever the sizes: what chunks of `a`, followed by what is submitted
  later, contain is the text that was written (`WriteFeature`), whether a feature
  fills a chunk, moves to the next or spans several; and for each format, what is
  printed of a batch continues the document of the results before it, in pages, in
  lines, in lists with separators, or held back until the next is known
  (`PrintStep`). The definitions of the buffer are closed forms for this, with no
  loop over chunks. `QueriesAssumption` says what a query may be: its tiles lie in
  the library, a feature is found in one of them, and has a size if it is printed
  as text. A result that is the last of its tile may complete it while the
  count of tiles is not yet known; the invariant only needs that `total` is never
  less than the number of tiles that will end.

  `QueryOsmFileWhole` is about OSM files: for any library, they have what the
  results need, each feature once with its own tags and members, in order; and of
  the blocks of a PBF file, a reader makes just that. The argument has three parts.
  What is collected stays, batch by batch, the least closed set over the results
  that were printed (`Collected`, in `QInv`); that the calls of `addFeature()` for
  relations that contain each other come to an end is proved with them
  (`AddFeaturesGood`: fewer features are missing, or fewer calls are left), and
  relations that are met again need no calls, for theirs were made or are still to
  come (`Good`). What is sorted has each feature once (`SortedIs`). And what is
  encoded is read again: the numbers of a block stand for its strings (`Coding`),
  adding strings keeps the old ones in place (`AddedTo`), sums of differences are
  the values (`Summed`), so that a feature that is added is read after those before
  it and these are read as they were (`AddReads`). The invariant of the file
  (`FInv`) then says that what is read of the file, of the blocks in the queue and
  of the one under construction, followed by the features that are left, is the
  whole list (`Packed`, `Parts`). `IsLibrary` says what a library may be: finite,
  with members that exist, and ways whose members are nodes without roles. What
  the collector follows (`Takes`) and what the option asks for (`Needs`) are kept
  apart: they are the same in a PBF file, and in an XML file if all relations are
  asked for (`TakesForms`, `AsAsked`), and these are the files that the
  property speaks of (`TakenWanted`). The theorem has no condition: that ids stay in their section is not settled by the encoder (see
  Observations), so it is a premise inside the property (`SectionsKept`), for the
  blocks of PBF files only.

Induction is stated for sets in `DataTheorems` and follows there from the
pigeonhole principle; that a function defined by recursion over numbers exists
and obeys its equation is proved from it (`IterationExists`, `GrowingExists`).
This is what lets the proofs speak of reachability, of offsets as sums, and of
the ranges of a catalog.

Only model-checked: all liveness and the fair half of the refinement; and the
modules `TileStream` and `ChangeAnalysis` with those they use, which are made of folds
over sequences and, for the readers of a stream, of recursive operators. Liveness and `ENABLED`, theorems with operators
as parameters, folds and recursive operators are beyond the proof system used
here. `QInv` and `FInv` say that lists exist in which all submitted results, or all
features read of a file, are: too many to be enumerated. TLC checks what follows
from them (`OutputWhole`, `OsmFileWhole`), and the proof the rest.

## Findings

1. `change_missing`: a node that is only touched by an action (it leaves a
   relation, and is named by no other change) has no location when
   `processNode()` sees it; `Updater_analyze.cpp:150` takes it for missing, although
   `CRef.h:77` reserves that for features that do not exist. Its change of
   membership is dropped, and the ways that it belongs to are given up. TLC shows
   it on a library of two tiles.
2. `query_xml`: `--complete-relations` is offered for "pbf and xml only"
   (`QueryCommand.cpp:193-194`; `doc/releases/v2.3.5.md:3` says "OSM-PBF or
   OSM-XML"), but `XmlQueryPrinter::addRelation()` (`XmlQueryPrinter.cpp:77-91`) adds all members
   of every relation and never looks at the option. TLC shows an XML file with a
   member that was not asked for. In `Needs`, which the properties use, only the
   option counts; in `CompleteRelation`, which is the code, the format does too.

## Observations

Seen while modelling; the models follow the code, and the properties name or
leave out these cases where they would fail.

Build:

- `resolveSuperRelations()` (`Sorter.cpp:710`) puts super-relations between
  regular relations that are already indexed; the plain store of an interior
  cell erases the entries of its neighbours, although `FastFeatureIndex.h:26-33`
  demands disjoint ranges. `EntriesKept` is stated for such ranges.
- A super-relation without super-relation members gets level 1, where the
  comment says 0; levels are compared with each other and with
  `MAX_RELATION_LEVEL`, so this only costs one level of the depth allowed.

Change files:

- With nothing to download no end marker is posted (`ChangeIngester.cpp:85`) and
  `download()` waits forever (line 132), although lines 24-25 say to do nothing.
  `Termination` leaves this case out (`NothingNew`).
- A library of exactly the latest revision downloads and applies that revision
  again (the search looks for a strictly older one).
- `findCurrentState()` takes any I/O error for a missing revision; a connection
  that fails in the first loop may make it start too late (`NothingSkipped` is
  stated for no lost request; the code has a TODO). If revision 0 is on the
  server and not older than the library, the first loop repeats forever;
  `SearchEnds` and `Termination` name that case (`EndlessProbing`).
- If an empty change file stops the main thread, the download thread may block
  on a full queue and the join never returns; `Termination` names it
  (`StoppedEarly`).

Analysis of an update:

- `memberBoundsChanged()` marks a parent (`ChangeModel.cpp:902`) without pushing
  it to the list of changed relations, so its bounds stay as they were (compare
  line 906).
- A relation that is deferred because a member relation turns out to be missing
  is put back and then skipped as deferred (`Updater_analyze.cpp:111`), though
  lines 819-820 expect another attempt.
- A node that moves to another tile and leaves its last relation at the same
  time is written there with its past parents (`processNode()`, line 205): an
  empty table is taken for one that was not loaded. `ParentsCurrent` names it.
- `checkMemberExports()` (line 1090) passes over members that are only in the
  first of the two tiles of a relation; `Exported` leaves them out.
- A way with a changed node of unknown location is deferred to a second round
  that cannot resolve it; an anonymous node that becomes a feature does not
  update ways that are otherwise unchanged; a way all of whose feature nodes
  lose that status keeps its node table; ways and relations that leave a tile
  are not removed from it (TODO in the code).
- `hasActualChanges()` (`ChangedFeatureBase.h:91`) does not count
  `MEMBERS_CHANGED`: a feature with that change alone is not written.

Update archive:

- `applyUpdate()` (`Updater.cpp:329`) and `TesArchive::computeOffsets()` forget
  the four bytes of the catalog's checksum that the writer leaves room for
  (`TesArchiveWriter.cpp:42`; `TileLoader.cpp:305` counts them), so every chunk
  is read four bytes too early. The writer compresses chunks raw while
  `applyUpdate()` expects a sealed chunk.
- With no changed tile, `prepareUpdate()` posts nothing and waits for a
  semaphore that nobody releases; `Termination` names it (`HangsForNoTiles`).
- `update()` returns or throws without `end()` in some paths; `beginUpdate()`
  does not set the target revision.

Tile changes:

- `TesReader.cpp:742` returns before the flags of a relation are set when
  neither parents nor members nor bounds changed, so a relation that becomes an
  area by its tags alone keeps the old flag.
- Range checks on numbers of strings and tag tables use `>` where `>=` is
  needed; `readRemovedFeatures()` has no effect (TODO), `readExports()` asserts
  that there is no table yet; `IS_EXCEPTION_NODE` is never written by
  `ChangeWriter`. `TesChecker` passes the previous global tag by value and
  reads the number of exports only. Shared tables are numbered by ascending
  use, so the most used ones get the longest numbers.

Transfer:

- `load()` with nothing to load returns without ending engine and transaction.
- A response to a range request is accepted by its status: its ETag is not
  compared with the first one's. A response that ends before the last tile of
  its range is no error to the client.

Query:

- The constructor of `QueryPrinter` starts the printing thread before the
  derived object exists: `printHeader()` may be the base's, or read a
  `linewise_` that is not set. `OutputWhole` says what then holds.
- The printing thread waits forever if all tiles were processed before their
  number is set, or if there are none (TODO in the code); `QueryEnds` names both.
- `OsmPbfEncoder.cpp:65` ends the section of ids 16 bytes before the longitudes
  instead of the latitudes; ids wider than latitudes run over these.
  `OsmFileWhole` has as a premise that they do not (`SectionsKept`). A feature
  that is too big for an empty block makes its printer try forever.
- `ParallelQueryPrinter` does not free the pages of results.

## What is not modelled

- Data without control: bytes of PBF, tiles and tag tables, geometry, Zip,
  wording of features and command lines. Where a conversion decides about
  control, the model has its outcomes.
- The Analyzer, Validator and Compiler run on the engine that `Sorter` models,
  but use no barrier: workers share nothing but the queues, and what one of them
  does inside a block or a tile is an algorithm on data. A model of the engine
  alone would repeat `UpdaterPhases`.
- The Checker (`src/src/check`) reads and reports; Tags, Tile model, Tile
  compiler and Commands transform data in one thread. The HTTP client's
  parsing of headers is left out; its responses are part of `TileLoader`.
- In modelled components: the XML parser of change files, `SearchScope`,
  errors inside tasks of an update, locations that PBF files store with ways,
  `MapQueryPrinter`, the loss of export numbers (nothing uses it yet).
- Libraries outside the repository: queues and engines are modelled by what the
  code relies on (bounded FIFO, join, semaphore); the feature store's
  transactions and journal are not here to be read, so a crash *during a commit*
  is not modelled. A crash while saving is (`TileSaver`).

## Plan

Done, in this order: `PhasedSort`, `Sorter` and proofs; `FastFeatureIndex`
and proofs; `SuperRelationResolver` and proofs; `ReplicationClient` and proofs;
`ChangeIngester`, `UpdateDownload` and proofs; `UpdateRelations` and proofs; `UpdaterPhases` and
proofs; `TileSaver`, `TileLoader`, `TileExchange` and proofs; `TileStream` with the four
codes of a tile's stream; `ChangeAnalysis` with the change model; `QueryPrinter`
with the printers and the OSM PBF encoder; proofs about the output of queries,
then about the OSM files.

Left, most useful first:

1. Pure algorithms as functions against a reference definition: the tile index
   (`TileIndexBuilder`), the layout of a tile, the HTTP response reader.
2. Validator and Compiler: exports are complete and stable.
3. A composition of `ChangeAnalysis` and `UpdateRelations`, so that relations of
   relations move between tiles too.
