------------------------------- MODULE Sorter -------------------------------
(***************************************************************************)
(* The Sorter pass of the GOL build (src/build/sort/Sorter.cpp).           *)
(*                                                                         *)
(* One reader thread posts the blocks of an .osm.pbf file to a bounded     *)
(* queue, worker threads decode the blocks, and one output thread appends  *)
(* the encoded features to the pile file.  A worker records the pile of a  *)
(* feature in a shared index, one index for each of nodes, ways and        *)
(* relations, and reads the indexes of the lower kinds to place ways and   *)
(* relations.  The indexes are written and read without locks: what keeps  *)
(* a read from missing a write is the phase barrier of advancePhase(),     *)
(* which no worker passes before every worker has reached it.              *)
(*                                                                         *)
(* A feature is the pair <<block, position>>; its kind is 0 for a node, 1  *)
(* for a way, 2 for a relation and 3 for a super-relation (a relation that *)
(* has relations as members).  Encoding, tiles and IDs are left out.       *)
(***************************************************************************)
EXTENDS Integers, Sequences, FiniteSets

CONSTANTS Workers,      \* the worker threads
          MainWorker,   \* workContexts()[0], which resolves super-relations
          Files,        \* the possible inputs: sequences of blocks of kinds
          WorkQueueSize, OutQueueSize,   \* capacities of the two queues
          BatchSize     \* features per flush of the piles, for each phase

Kinds == 0..3
SUPER_RELATIONS == 3

(***************************************************************************)
(* Phase SUPER_RELATIONS starts after the tasks: while blocks are decoded, *)
(* super-relations belong to the RELATIONS phase.                          *)
(***************************************************************************)
GroupPhase(k) == IF k = SUPER_RELATIONS THEN 2 ELSE k

FeaturesOf(input) == UNION {{b} \X DOMAIN input[b] : b \in DOMAIN input}
KindOf(input, f) == input[f[1]][f[2]]

Before(f, g) == f[1] < g[1] \/ (f[1] = g[1] /\ f[2] < g[2])

(***************************************************************************)
(* The Sorter relies on the order the .osm.pbf files of planet extracts    *)
(* have: nodes before ways before relations.                               *)
(***************************************************************************)
IsOrdered(input) == \A f, g \in FeaturesOf(input) :
    Before(f, g) => GroupPhase(KindOf(input, f)) <= GroupPhase(KindOf(input, g))

ASSUME WorkersAssumption == IsFiniteSet(Workers) /\ MainWorker \in Workers
ASSUME FilesAssumption ==
    \A input \in Files : input \in Seq(Seq(Kinds)) /\ IsOrdered(input)
ASSUME SizesAssumption == /\ WorkQueueSize \in Nat \ {0}
                          /\ OutQueueSize \in Nat \ {0}
                          /\ BatchSize \in [0..2 -> Nat \ {0}]

VARIABLES
    file,        \* the input
    posted,      \* number of blocks posted to the work queue
    taken,       \* number of blocks taken from it
    closed,      \* the reader has called end()
    pc,          \* what each worker does next
    phase,       \* currentPhase_ of each worker
    goal,        \* the futurePhase of the worker's last advancePhase() call
    blk, pos,    \* block being decoded, and how much of it is decoded
    batch,       \* index entries put but not yet written
    piles,       \* features in the worker's pile writer
    deferred,    \* the worker's list of super-relations
    unresolved,  \* super-relations handed to the resolver
    indexed,     \* features whose entry is in the shared indexes
    dropped,     \* features that are rejected or omitted
    outq,        \* the output queue
    written,     \* features in the pile file
    countdown    \* phaseCountdowns_

readerVars == <<file, posted, closed>>
blockVars  == <<taken, blk, pos>>
phaseVars  == <<phase, goal, countdown>>
superVars  == <<deferred, unresolved>>
indexVars  == <<batch, indexed, dropped>>
pileVars   == <<piles, outq, written>>
vars == <<readerVars, blockVars, phaseVars, superVars, indexVars, pileVars, pc>>

Features == FeaturesOf(file)
Kind(f) == KindOf(file, f)

Init == /\ file \in Files
        /\ posted = 0 /\ taken = 0 /\ closed = FALSE
        /\ pc = [w \in Workers |-> "idle"]
        /\ phase = [w \in Workers |-> 0]
        /\ goal = [w \in Workers |-> 0]
        /\ blk = [w \in Workers |-> 0]
        /\ pos = [w \in Workers |-> 0]
        /\ batch = [w \in Workers |-> {}]
        /\ piles = [w \in Workers |-> {}]
        /\ deferred = [w \in Workers |-> {}]
        /\ unresolved = {}
        /\ indexed = {} /\ dropped = {} /\ written = {}
        /\ outq = << >>
        /\ countdown = [p \in 0..2 |-> Cardinality(Workers)]

Goto(w, label) == pc' = [pc EXCEPT ![w] = label]

-----------------------------------------------------------------------------
(* The reader thread, OsmPbfReader::read() *)

PostBlock == /\ posted < Len(file)
             /\ posted - taken < WorkQueueSize
             /\ posted' = posted + 1
             /\ UNCHANGED <<file, closed, blockVars, phaseVars, superVars,
                            indexVars, pileVars, pc>>

EndFile == /\ posted = Len(file)
           /\ ~closed
           /\ closed' = TRUE
           /\ UNCHANGED <<file, posted, blockVars, phaseVars, superVars,
                          indexVars, pileVars, pc>>

-----------------------------------------------------------------------------
(* The helpers of a worker *)

(* closePiles() and postOutput(), which blocks while the queue is full *)
PostPiles(w) == /\ Len(outq) < OutQueueSize
                /\ outq' = Append(outq, piles[w])
                /\ piles' = [piles EXCEPT ![w] = {}]
                /\ UNCHANGED written

(* FastFeatureIndex::endBatch() *)
EndBatch(w) == /\ indexed' = indexed \union batch[w]
               /\ batch' = [batch EXCEPT ![w] = {}]
               /\ UNCHANGED dropped

(* Writing a feature to its pile and putting its entry into the index *)
Put(w, S) == /\ piles' = [piles EXCEPT ![w] = @ \union S]
             /\ batch' = [batch EXCEPT ![w] = @ \union S]
             /\ UNCHANGED <<outq, written, indexed, dropped>>

-----------------------------------------------------------------------------
(* A worker decodes a block, OsmPbfContext::processTask() *)

TakeBlock(w) == /\ pc[w] = "idle"
                /\ taken < posted
                /\ taken' = taken + 1
                /\ blk' = [blk EXCEPT ![w] = taken + 1]
                /\ pos' = [pos EXCEPT ![w] = 0]
                /\ Goto(w, "decode")
                /\ UNCHANGED <<readerVars, phaseVars, superVars, indexVars, pileVars>>

NextFeature(w) == <<blk[w], pos[w] + 1>>
HasNext(w) == pc[w] = "decode" /\ pos[w] < Len(file[blk[w]])

(* beginWayGroup() and beginRelationGroup() call advancePhase(); there is  *)
(* no such call for nodes                                                  *)
MustAdvance(w) == LET k == Kind(NextFeature(w))
                  IN  k # 0 /\ phase[w] # GroupPhase(k)

BeginGroup(w) == /\ HasNext(w) /\ MustAdvance(w)
                 /\ goal' = [goal EXCEPT ![w] = GroupPhase(Kind(NextFeature(w)))]
                 /\ Goto(w, "post")
                 /\ UNCHANGED <<readerVars, blockVars, phase, countdown,
                                superVars, indexVars, pileVars>>

Decoding(w) == /\ HasNext(w) /\ ~MustAdvance(w)
               /\ pos' = [pos EXCEPT ![w] = @ + 1]
               /\ UNCHANGED <<readerVars, taken, blk, phaseVars>>

(* node(), way() or relation() accepts the feature; indexFeature() flushes *)
(* the piles once the batch is large enough.  batchCount_ is the number of *)
(* features in the pile writer.                                            *)
Accept(w) == /\ Decoding(w)
             /\ Kind(NextFeature(w)) # SUPER_RELATIONS
             /\ Put(w, {NextFeature(w)})
             /\ Goto(w, IF Cardinality(piles'[w]) >= BatchSize[phase[w]]
                        THEN "flush" ELSE "decode")
             /\ UNCHANGED superVars

(* A way with a missing node, or a relation none of whose members exist.   *)
Reject(w) == /\ Decoding(w)
             /\ Kind(NextFeature(w)) \in {1, 2}
             /\ dropped' = dropped \union {NextFeature(w)}
             /\ UNCHANGED <<superVars, batch, indexed, pileVars, pc>>

(* deferSuperRelation() *)
Defer(w) == /\ Decoding(w)
            /\ Kind(NextFeature(w)) = SUPER_RELATIONS
            /\ deferred' = [deferred EXCEPT ![w] = @ \union {NextFeature(w)}]
            /\ UNCHANGED <<unresolved, indexVars, pileVars, pc>>

Flush(w) == /\ pc[w] = "flush"
            /\ PostPiles(w)
            /\ Goto(w, "decode")
            /\ UNCHANGED <<readerVars, blockVars, phaseVars, superVars, indexVars>>

EndBlock(w) == /\ pc[w] = "decode"
               /\ pos[w] = Len(file[blk[w]])
               /\ EndBatch(w)
               /\ Goto(w, "idle")
               /\ UNCHANGED <<readerVars, blockVars, phaseVars, superVars, pileVars>>

(* Slip: afterTasks() only flushes the index. *)
AfterTasksNoFlush(w) == /\ pc[w] = "idle"
                        /\ closed /\ taken = posted
                        /\ goal' = [goal EXCEPT ![w] = SUPER_RELATIONS]
                        /\ Goto(w, "endbatch")
                        /\ UNCHANGED <<readerVars, blockVars, phase, countdown,
                                       superVars, indexVars, pileVars>>

(* The work queue is closed and drained: afterTasks() *)
AfterTasks(w) == /\ pc[w] = "idle"
                 /\ closed /\ taken = posted
                 /\ goal' = [goal EXCEPT ![w] = SUPER_RELATIONS]
                 /\ Goto(w, "post")
                 /\ UNCHANGED <<readerVars, blockVars, phase, countdown,
                                superVars, indexVars, pileVars>>

-----------------------------------------------------------------------------
(* SorterWorker::advancePhase() and Sorter::advancePhase() *)

AdvanceFlushPiles(w) == /\ pc[w] = "post"
                        /\ PostPiles(w)
                        /\ Goto(w, "endbatch")
                        /\ UNCHANGED <<readerVars, blockVars, phaseVars,
                                       superVars, indexVars>>

AdvanceFlushIndex(w) == /\ pc[w] = "endbatch"
                        /\ EndBatch(w)
                        /\ Goto(w, "barrier")
                        /\ UNCHANGED <<readerVars, blockVars, phaseVars,
                                       superVars, pileVars>>

(* currentPhase_ changes once the barrier is passed, and the caller of     *)
(* advancePhase() goes on.                                                 *)
Resumption(w) == IF goal[w] # SUPER_RELATIONS THEN "decode"
                 ELSE IF w = MainWorker THEN "resolve" ELSE "done"

(* One critical section of phaseMutex_: the worker counts itself out of    *)
(* the phases it leaves, wakes everybody when it is the last one of some   *)
(* phase, and goes on or waits.                                            *)
Left(w) == phase[w]..(goal[w] - 1)

CountedOut(w) == [p \in 0..2 |-> IF p \in Left(w) THEN countdown[p] - 1
                                                  ELSE countdown[p]]

(* Slip: the others are only woken at the end of the last phase left. *)
WakesTooFew(w) == CountedOut(w)[goal[w] - 1] = 0

Wakes(w) == \E p \in Left(w) : CountedOut(w)[p] = 0

(* Slip: the worker waits for the end of the phase it leaves, not of the   *)
(* one before the phase it enters.                                         *)
EnterBarrierEarly(w) ==
    /\ pc[w] = "barrier"
    /\ countdown' = CountedOut(w)
    /\ LET passes == countdown'[phase[w]] <= 0
       IN  /\ phase' = [phase EXCEPT ![w] = IF passes THEN goal[w] ELSE @]
           /\ pc' = [v \in Workers |->
                       IF v = w THEN (IF passes THEN Resumption(w) ELSE "waiting")
                       ELSE IF Wakes(w) /\ pc[v] = "waiting" THEN "woken"
                       ELSE pc[v]]
    /\ UNCHANGED <<goal, readerVars, blockVars, superVars, indexVars, pileVars>>

EnterBarrier(w) ==
    /\ pc[w] = "barrier"
    /\ countdown' = CountedOut(w)
    /\ LET passes == countdown'[goal[w] - 1] <= 0
       IN  /\ phase' = [phase EXCEPT ![w] = IF passes THEN goal[w] ELSE @]
           /\ pc' = [v \in Workers |->
                       IF v = w THEN (IF passes THEN Resumption(w) ELSE "waiting")
                       ELSE IF Wakes(w) /\ pc[v] = "waiting" THEN "woken"
                       ELSE pc[v]]
    /\ UNCHANGED <<goal, readerVars, blockVars, superVars, indexVars, pileVars>>

(* Slip: "if" instead of "while" around the wait. *)
RecheckNot(w) == /\ pc[w] = "woken"
                 /\ Goto(w, Resumption(w))
                 /\ phase' = [phase EXCEPT ![w] = goal[w]]
                 /\ UNCHANGED <<goal, countdown, readerVars, blockVars, superVars,
                                indexVars, pileVars>>

(* phaseStarted_.wait() returns with the lock, and the loop tests again.   *)
Recheck(w) == /\ pc[w] = "woken"
              /\ \/ /\ countdown[goal[w] - 1] > 0
                    /\ Goto(w, "waiting")
                    /\ UNCHANGED phase
                 \/ /\ countdown[goal[w] - 1] <= 0
                    /\ Goto(w, Resumption(w))
                    /\ phase' = [phase EXCEPT ![w] = goal[w]]
              /\ UNCHANGED <<goal, countdown, readerVars, blockVars, superVars,
                             indexVars, pileVars>>

(* A condition variable may also wake up for no reason. *)
SpuriousWakeup(w) == /\ pc[w] = "waiting"
                     /\ Goto(w, "woken")
                     /\ UNCHANGED <<readerVars, blockVars, phaseVars, superVars,
                                    indexVars, pileVars>>

-----------------------------------------------------------------------------
(* resolveSuperRelations(), by the main worker alone.  Which relations make *)
(* up a level, and which are omitted, is the business of the module         *)
(* SuperRelationResolver: any choice is allowed here.                       *)

(* Slip: the main worker resolves only its own super-relations. *)
GatherOwn(w) ==
    /\ pc[w] = "resolve"
    /\ unresolved' = deferred[w]
    /\ Goto(w, "level")
    /\ UNCHANGED <<readerVars, blockVars, phaseVars, deferred, indexVars, pileVars>>

GatherSuperRelations(w) ==
    /\ pc[w] = "resolve"
    /\ unresolved' = UNION {deferred[v] : v \in Workers}
    /\ Goto(w, "level")
    /\ UNCHANGED <<readerVars, blockVars, phaseVars, deferred, indexVars, pileVars>>

WriteLevel(w) == /\ pc[w] = "level"
                 /\ \E L \in SUBSET unresolved :
                       /\ L # {}
                       /\ Put(w, L)
                       /\ unresolved' = unresolved \ L
                 /\ Goto(w, "levelpost")
                 /\ UNCHANGED <<readerVars, blockVars, phaseVars, deferred>>

LevelFlushPiles(w) == /\ pc[w] = "levelpost"
                      /\ PostPiles(w)
                      /\ Goto(w, "levelindex")
                      /\ UNCHANGED <<readerVars, blockVars, phaseVars,
                                     superVars, indexVars>>

LevelEndBatch(w) == /\ pc[w] = "levelindex"
                    /\ EndBatch(w)
                    /\ Goto(w, "level")
                    /\ UNCHANGED <<readerVars, blockVars, phaseVars,
                                   superVars, pileVars>>

(* Whatever is left is omitted by the resolver. *)
EndResolve(w) == /\ pc[w] = "level"
                 /\ dropped' = dropped \union unresolved
                 /\ unresolved' = {}
                 /\ Goto(w, "done")
                 /\ UNCHANGED <<readerVars, blockVars, phaseVars, deferred,
                                batch, indexed, pileVars>>

-----------------------------------------------------------------------------
(* The output thread, Sorter::processTask() *)

WriteOutput == /\ outq # << >>
               /\ written' = written \union Head(outq)
               /\ outq' = Tail(outq)
               /\ UNCHANGED <<readerVars, blockVars, phaseVars, superVars,
                              indexVars, piles, pc>>

-----------------------------------------------------------------------------
Reader == PostBlock \/ EndFile

Worker(w) ==
    \/ TakeBlock(w) \/ BeginGroup(w)
    \/ Accept(w) \/ Reject(w) \/ Defer(w)
    \/ Flush(w) \/ EndBlock(w) \/ AfterTasks(w)
    \/ AdvanceFlushPiles(w) \/ AdvanceFlushIndex(w) \/ EnterBarrier(w) \/ Recheck(w)
    \/ GatherSuperRelations(w) \/ WriteLevel(w) \/ LevelFlushPiles(w)
    \/ LevelEndBatch(w) \/ EndResolve(w)

Finished == (\A w \in Workers : pc[w] = "done") /\ outq = << >>

(* end() has joined all threads: the program goes on to the next pass.     *)
Joined == Finished /\ UNCHANGED vars

Next == \/ Reader \/ WriteOutput \/ Joined
        \/ \E w \in Workers : Worker(w) \/ SpuriousWakeup(w)

Spec == Init /\ [][Next]_vars

(* Every thread keeps running as long as it is not blocked; nobody can     *)
(* count on a spurious wakeup.                                             *)
FairSpec == /\ Spec
            /\ WF_vars(Reader)
            /\ WF_vars(WriteOutput)
            /\ \A w \in Workers : WF_vars(Worker(w))

-----------------------------------------------------------------------------
(* Properties *)

Labels == {"idle", "decode", "flush", "post", "endbatch", "barrier", "waiting",
           "woken", "resolve", "level", "levelpost", "levelindex", "done"}

(* The state of the threads, the queues and the index is well-formed.      *)
TypeOK == /\ file \in Files
          /\ posted \in 0..Len(file) /\ taken \in 0..posted /\ closed \in BOOLEAN
          /\ pc \in [Workers -> Labels]
          /\ phase \in [Workers -> 0..3] /\ goal \in [Workers -> 0..3]
          /\ blk \in [Workers -> 0..taken] /\ pos \in [Workers -> Nat]
          /\ batch \in [Workers -> SUBSET Features]
          /\ piles \in [Workers -> SUBSET Features]
          /\ deferred \in [Workers -> SUBSET Features]
          /\ unresolved \subseteq Features
          /\ indexed \subseteq Features /\ dropped \subseteq Features
          /\ written \subseteq Features
          /\ outq \in Seq(SUBSET Features)
          /\ countdown \in [0..2 -> Int]

(* The features whose place is known for good. *)
Settled == indexed \union dropped

(* Whoever works in a phase can rely on the indexes of the earlier ones: a *)
(* worker decodes ways only when all nodes are indexed, relations only     *)
(* when all ways are, and super-relations are resolved only when all other *)
(* relations are.  get() takes no lock, so nothing else protects a lookup. *)
MembersIndexed ==
    \A w \in Workers, f \in Features : phase[w] > Kind(f) => f \in Settled

(* The resolver is handed every super-relation of the file, those of the   *)
(* other workers' lists included, and places or omits each of them.        *)
SuperRelationsGathered ==
    \A f \in Features :
        /\ Kind(f) = SUPER_RELATIONS
        /\ pc[MainWorker] \in {"level", "levelpost", "levelindex", "done"}
        => f \in unresolved \union batch[MainWorker] \union Settled

(* The assertions of Sorter.cpp: a phase is only left for a later one, no  *)
(* countdown goes below zero, and no index entry is pending after the      *)
(* tasks.  indexFeature() uses the index of the worker's current phase, so *)
(* an entry of another kind would end up in the wrong index.               *)
AssertionsHold ==
    \A w \in Workers :
        /\ pc[w] \in {"post", "endbatch", "barrier", "waiting", "woken"}
              => goal[w] > phase[w]
        /\ pc[w] = "barrier"
              => \A p \in phase[w]..(goal[w] - 1) : countdown[p] > 0
        /\ pc[w] \in {"waiting", "woken", "resolve", "done"} => batch[w] = {}
        /\ \A f \in batch[w] : Kind(f) = phase[w]

(* When the threads are joined, every feature that was not rejected is in  *)
(* the pile file and in its index: no partial batch is left behind.        *)
EverythingWritten ==
    Finished => /\ written = indexed
                /\ indexed \union dropped = Features

(* The pass ends.  Workers at the barrier hold a block and depend on other *)
(* workers that may still need one, and everybody depends on the output    *)
(* queue; a comment in Sorter.cpp fears a deadlock here.                   *)
Termination == <>Finished

(* The Sorter keeps the promise of PhasedSort. *)
PS == INSTANCE PhasedSort
        WITH Inputs  <- {[f \in FeaturesOf(input) |-> KindOf(input, f)] : input \in Files},
             kind    <- [f \in Features |-> Kind(f)],
             settled <- Settled

SortsInPhases == PS!FairSpec
=============================================================================
