---------------------------- MODULE UpdaterPhases ----------------------------
(***************************************************************************)
(* The phases of an update: Updater::update() with the threads of its task *)
(* engine (src/change/Updater.cpp), and the archive of tile changes        *)
(* between the second and the third phase (src/tile/tes).                  *)
(*                                                                         *)
(* In each phase the main thread posts one task per tile and waits for a   *)
(* semaphore.  In the phase SEARCH the workers finish a task, in the other *)
(* two they post their output, and the output thread finishes it.  Whoever *)
(* counts the last task down releases the semaphore.                       *)
(*                                                                         *)
(* What the tiles contain is left out; the size of a chunk is kept, as the *)
(* places of the others in the archive depend on it.  So are errors: also  *)
(* a chunk that is read from the wrong place is compiled here.             *)
(***************************************************************************)
EXTENDS Integers, FiniteSets, SequencesExt

CONSTANTS
  Tiles,          \* the tiles of the library are numbers
  Workers,        \* the worker threads
  Output,         \* the output thread
  Order,          \* the order in which the main thread walks a set of tiles
  ChunkSize,      \* the size of a tile's changes, if it has any
  WorkQueueSize, OutQueueSize

ASSUME TilesAssumption == IsFiniteSet(Tiles) /\ Tiles # {} /\ Tiles \subseteq Nat
ASSUME ThreadsAssumption == IsFiniteSet(Workers) /\ Workers # {} /\ Output \notin Workers
(* TileIndexWalker and the iterator of changedTiles() visit each tile once.*)
ASSUME OrderAssumption ==
  \A S \in SUBSET Tiles : Order[S] \in Seq(S) /\ ToSet(Order[S]) = S /\ IsInjective(Order[S])
ASSUME SizesAssumption == /\ ChunkSize \in [Tiles -> Nat \ {0}]
                          /\ WorkQueueSize \in Nat \ {0} /\ OutQueueSize \in Nat \ {0}

Threads == Workers \union {Output}
Phases == {"SEARCH", "PREPARE_UPDATE", "APPLY_UPDATE"}

VARIABLES
  pc,          \* what the main thread does next
  phase,       \* phase_
  toPost,      \* the tasks that the main thread has yet to post
  remaining,   \* tasksRemaining_
  semaphore,   \* phaseCompleted_
  work, outq,  \* the queues of the engine
  step, task,  \* what each thread does next, and with which task
  analyzed,    \* tiles whose actions have been recorded
  changed,     \* the keys of changedTiles()
  catalog,     \* the entries of the archive
  chunkAt,     \* where the chunk of each tile is in the archive
  end,         \* the position at the end of the archive
  offsets,     \* tesOffsets_, as far as they are computed
  read         \* the tiles that were updated, with the place of the chunk

mainVars == <<pc, phase, toPost>>
counterVars == <<remaining, semaphore>>
threadVars == <<step, task>>
archiveVars == <<catalog, chunkAt, end>>
resultVars == <<analyzed, read>>
vars == <<mainVars, counterVars, work, outq, threadVars, analyzed, changed,
          archiveVars, offsets, read>>

(* A task is the number of a tile or of an entry of the archive; what it   *)
(* means depends on the phase.                                             *)
NoTask == -1

(* sizeof(TesArchiveHeader), sizeof(TesArchiveEntry), sizeof(uint32_t)     *)
HeaderSize == 64
EntrySize == 8
ChecksumSize == 4

Init ==
  /\ pc = "post" /\ phase = "SEARCH"
  /\ toPost = Order[Tiles] /\ remaining = Len(toPost) /\ semaphore = 0
  /\ work = << >> /\ outq = << >>
  /\ step = [t \in Threads |-> "idle"] /\ task = [t \in Threads |-> NoTask]
  /\ analyzed = {} /\ changed = {}
  /\ catalog = << >> /\ chunkAt = [t \in Tiles |-> 0] /\ end = 0
  /\ offsets = << >> /\ read = {}

-----------------------------------------------------------------------------
(* The threads of the engine *)

Goto(t, s) == step' = [step EXCEPT ![t] = s]

(* A thread of the engine runs the task, which looks at phase_.            *)
TakeWork(w) ==
  /\ step[w] = "idle" /\ work # << >>
  /\ task' = [task EXCEPT ![w] = Head(work)] /\ work' = Tail(work)
  /\ Goto(w, phase)
  /\ UNCHANGED <<mainVars, counterVars, outq, analyzed, changed, archiveVars, offsets, read>>

Analyze(w) ==
  /\ step[w] = "SEARCH" /\ analyzed' = analyzed \union {task[w]}
  /\ Goto(w, "count")
  /\ UNCHANGED <<mainVars, counterVars, work, outq, task, changed, archiveVars, offsets, read>>

PostOutput(w) ==
  /\ Len(outq) < OutQueueSize
  /\ outq' = Append(outq, task[w]) /\ Goto(w, "idle")
  /\ UNCHANGED <<mainVars, counterVars, work, task, analyzed, changed, archiveVars, offsets>>

(* prepareUpdate(): the changes of a tile, compressed.                     *)
PrepareTile(w) == step[w] = "PREPARE_UPDATE" /\ PostOutput(w) /\ UNCHANGED read

(* applyUpdate(): the entry gives the tile, tesOffsets_ the place.         *)
ApplyTile(w) ==
  /\ step[w] = "APPLY_UPDATE" /\ PostOutput(w)
  /\ read' = read \union {<<catalog[task[w]], offsets[task[w]]>>}

(* The output thread, Updater::processTask()                               *)
TakeOutput ==
  /\ step[Output] = "idle" /\ outq # << >>
  /\ task' = [task EXCEPT ![Output] = Head(outq)] /\ outq' = Tail(outq)
  /\ Goto(Output, phase)
  /\ UNCHANGED <<mainVars, counterVars, work, analyzed, changed, archiveVars, offsets, read>>

(* Slip: the entries are filled in from the last one.                      *)
WriteChunkBackwards(tile) ==
  /\ catalog' = << tile >> \o catalog
  /\ chunkAt' = [chunkAt EXCEPT ![tile] = end]
  /\ end' = end + ChunkSize[tile]

WriteChunk(tile) ==
  /\ catalog' = Append(catalog, tile)
  /\ chunkAt' = [chunkAt EXCEPT ![tile] = end]
  /\ end' = end + ChunkSize[tile]

(* Tiles that are updated are not written to the library yet.              *)
ProcessOutput ==
  /\ step[Output] \in Phases
  /\ IF step[Output] = "PREPARE_UPDATE" THEN WriteChunk(task[Output])
                                        ELSE UNCHANGED archiveVars
  /\ Goto(Output, "count")
  /\ UNCHANGED <<mainVars, counterVars, work, outq, task, analyzed, changed, offsets, read>>

(* Slip: the last but one releases the semaphore, too.                     *)
CountDownEarly(t) ==
  /\ step[t] = "count" /\ remaining' = remaining - 1
  /\ Goto(t, IF remaining' <= 1 THEN "release" ELSE "idle")
  /\ UNCHANGED <<mainVars, semaphore, work, outq, task, analyzed, changed, archiveVars, offsets, read>>

(* Slip: the counter is tested before it is decremented.                   *)
CountDownLate(t) ==
  /\ step[t] = "count" /\ remaining' = remaining - 1
  /\ Goto(t, IF remaining = 0 THEN "release" ELSE "idle")
  /\ UNCHANGED <<mainVars, semaphore, work, outq, task, analyzed, changed, archiveVars, offsets, read>>

(* taskCompleted(): the counter is decremented and tested at once.         *)
CountDown(t) ==
  /\ step[t] = "count" /\ remaining' = remaining - 1
  /\ Goto(t, IF remaining' = 0 THEN "release" ELSE "idle")
  /\ UNCHANGED <<mainVars, semaphore, work, outq, task, analyzed, changed, archiveVars, offsets, read>>

Release(t) ==
  /\ step[t] = "release" /\ semaphore' = semaphore + 1
  /\ Goto(t, "idle")
  /\ UNCHANGED <<mainVars, remaining, work, outq, task, analyzed, changed, archiveVars, offsets, read>>

-----------------------------------------------------------------------------
(* The main thread *)

(* Entries of the archive are posted with the number of the entry, after   *)
(* their offset has been computed.                                         *)
FirstOffset == HeaderSize + EntrySize * Len(catalog)
NextOffset == IF offsets = << >> THEN FirstOffset
              ELSE Last(offsets) + ChunkSize[catalog[Len(offsets)]]

PostWork ==
  /\ pc = "post" /\ toPost # << >> /\ Len(work) < WorkQueueSize
  /\ work' = Append(work, Head(toPost)) /\ toPost' = Tail(toPost)
  /\ offsets' = IF phase = "APPLY_UPDATE" THEN Append(offsets, NextOffset) ELSE offsets
  /\ UNCHANGED <<pc, phase, counterVars, outq, threadVars, analyzed, changed, archiveVars, read>>

AwaitPhaseCompletion ==
  /\ pc = "post" /\ toPost = << >>
  /\ semaphore = 1 /\ semaphore' = 0
  /\ pc' = "between"
  /\ UNCHANGED <<phase, toPost, remaining, work, outq, threadVars, analyzed, changed,
                 archiveVars, offsets, read>>

StartPhase(p, tasks) ==
  /\ phase' = p /\ toPost' = tasks /\ remaining' = Len(tasks) /\ pc' = "post"

(* applyActions(), processChanges() and prepareUpdate() as far as the      *)
(* loop; the catalog has room for as many entries as there are tasks.      *)
PrepareUpdate ==
  /\ pc = "between" /\ phase = "SEARCH"
  /\ changed' \in SUBSET analyzed
  /\ StartPhase("PREPARE_UPDATE", Order[changed'])
  /\ end' = HeaderSize + EntrySize * Cardinality(changed') + ChecksumSize
  /\ UNCHANGED <<semaphore, work, outq, threadVars, analyzed, catalog, chunkAt, offsets, read>>

(* close(), and applyUpdate() as far as the loop                           *)
ApplyUpdate ==
  /\ pc = "between" /\ phase = "PREPARE_UPDATE"
  /\ StartPhase("APPLY_UPDATE", [i \in 1..Len(catalog) |-> i])
  /\ UNCHANGED <<semaphore, work, outq, threadVars, analyzed, changed, archiveVars, offsets, read>>

(* end() joins the threads.                                                *)
End ==
  /\ pc = "between" /\ phase = "APPLY_UPDATE"
  /\ work = << >> /\ outq = << >> /\ \A t \in Threads : step[t] = "idle"
  /\ pc' = "done"
  /\ UNCHANGED <<phase, toPost, counterVars, work, outq, threadVars, analyzed, changed,
                 archiveVars, offsets, read>>

Main == PostWork \/ AwaitPhaseCompletion \/ PrepareUpdate \/ ApplyUpdate \/ End
Worker(w) == TakeWork(w) \/ Analyze(w) \/ PrepareTile(w) \/ ApplyTile(w)
             \/ CountDown(w) \/ Release(w)
OutputThread == TakeOutput \/ ProcessOutput \/ CountDown(Output) \/ Release(Output)

Next == Main \/ OutputThread \/ \E w \in Workers : Worker(w)

Spec == Init /\ [][Next]_vars

(* The system schedules every thread that can run.                         *)
FairSpec == Spec /\ WF_vars(Main) /\ WF_vars(OutputThread) /\ \A w \in Workers : WF_vars(Worker(w))

-----------------------------------------------------------------------------
(* Properties *)

Busy(t) == step[t] \in Phases \union {"count"}

(* All of the phase is done, in every thread, when the main thread is      *)
(* between two phases: all tiles are searched before the actions are       *)
(* applied, the archive is complete and not written any more when it is    *)
(* closed, and all its entries have been read before the engine ends.      *)
PhaseComplete ==
  pc = "between" =>
    /\ \A t \in Threads : ~Busy(t)
    /\ phase = "SEARCH" => analyzed = Tiles
    /\ phase = "PREPARE_UPDATE" => ToSet(catalog) = changed /\ IsInjective(catalog)
    /\ phase = "APPLY_UPDATE" => {r[1] : r \in read} = changed

(* The chunks follow the catalog in the order of its entries, without gaps *)
(* or overlaps, although many workers produce them in any order.           *)
ChunksInOrder ==
  \A i \in 1..Len(catalog) :
    chunkAt[catalog[i]] =
      IF i = 1 THEN HeaderSize + EntrySize * Cardinality(changed) + ChecksumSize
               ELSE chunkAt[catalog[i - 1]] + ChunkSize[catalog[i - 1]]

(* The update ends, except if no tile has changed: then nobody counts the  *)
(* tasks of PREPARE_UPDATE down.                                           *)
HangsForNoTiles == phase = "PREPARE_UPDATE" /\ changed = {}
Termination == <>(pc = "done" \/ HangsForNoTiles)

=============================================================================
