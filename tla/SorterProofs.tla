---------------------------- MODULE SorterProofs ----------------------------
(***************************************************************************)
(* Proofs about the Sorter for any number of workers, any sorted file and  *)
(* any sizes of queues and batches; and, in the second half, about the     *)
(* index that its workers share, for entries and cells of any width.       *)
(***************************************************************************)
EXTENDS Sorter, FastFeatureIndex, DataTheorems, FiniteSetTheorems, TLAPS

(* The phase a worker has counted itself into. *)
Passed(w) == IF pc[w] \in {"waiting", "woken"} THEN goal[w] ELSE phase[w]

Advancing == {"post", "endbatch", "barrier", "waiting", "woken"}

(* The phase a worker is on its way to. *)
Target(w) == IF pc[w] \in Advancing THEN goal[w] ELSE phase[w]

Untaken == {f \in Features : f[1] > taken}
Remaining(w) == {f \in Features : f[1] = blk[w] /\ f[2] > pos[w]}

Behind(p) == {w \in Workers : Passed(w) <= p}

Resolving == {"resolve", "level", "levelpost", "levelindex"}

(* A worker advances to a later phase, and is done or resolving only in    *)
(* the last one.                                                           *)
GoalOf(w) ==
    /\ pc[w] \in Advancing => goal[w] > phase[w]
    /\ pc[w] \in Resolving \union {"done"} => phase[w] = SUPER_RELATIONS
    /\ pc[w] \in Resolving => w = MainWorker
    /\ pc[w] \in {"idle", "decode", "flush"} => phase[w] < SUPER_RELATIONS

GoalInv == \A w \in Workers : GoalOf(w)

(* The countdown of a phase counts the workers that have not left it.      *)
CountdownInv == \A p \in 0..2 : countdown[p] = Cardinality(Behind(p))

(* Nobody is in a phase that some worker has not counted itself into.      *)
BarrierInv == \A v, w \in Workers : Passed(v) >= phase[w]

(* What a worker may still have to decode does not belong to a phase it    *)
(* has left.                                                               *)
AheadInv == \A w \in Workers : \A f \in Untaken \union Remaining(w) :
               GroupPhase(Kind(f)) >= Target(w)

(* An idle worker is done with its block; one that decodes has a block.    *)
IdleOf(w) == /\ pc[w] = "idle" => Remaining(w) = {}
             /\ \/ pc[w] \in {"decode", "flush"}
                \/ pc[w] \in Advancing /\ goal[w] # SUPER_RELATIONS
                => blk[w] > 0

IdleInv == /\ \A w \in Workers : IdleOf(w)
           /\ closed => posted = Len(file)

(* Pending index entries belong to the current phase of their worker, and  *)
(* are flushed before the worker enters the barrier.                       *)
BatchOf(w) ==
    /\ \A f \in batch[w] : Kind(f) = phase[w]
    /\ pc[w] \in {"idle", "barrier", "waiting", "woken", "resolve", "level", "done"}
          => batch[w] = {}

BatchInv == \A w \in Workers : BatchOf(w)

SuperInv == /\ \A w \in Workers : \A f \in deferred[w] : Kind(f) = SUPER_RELATIONS
            /\ \A f \in unresolved : Kind(f) = SUPER_RELATIONS

(* No feature gets lost between the file and the indexes. *)
CoverInv == \A f \in Features :
    \/ f \in Untaken
    \/ \E w \in Workers : f \in Remaining(w)
    \/ Kind(f) # SUPER_RELATIONS /\ f \in Settled
    \/ Kind(f) # SUPER_RELATIONS /\ \E w \in Workers : f \in batch[w]
    \/ \E w \in Workers : f \in deferred[w]

IInv == TypeOK /\ GoalInv /\ CountdownInv /\ BarrierInv /\ AheadInv
        /\ IdleInv /\ BatchInv /\ SuperInv /\ CoverInv

(* A feature has been put into a pile, wherever it is on its way into the  *)
(* file, or has been entered, pending or not, into an index.               *)
Out(f) == \/ f \in written
          \/ \E i \in DOMAIN outq : f \in outq[i]
          \/ \E w \in Workers : f \in piles[w]

Entered(f) == f \in indexed \/ \E w \in Workers : f \in batch[w]

MatchInv == \A f \in Features : Out(f) <=> Entered(f)

(* The places in which a worker has nothing in its piles. *)
Emptied == {"endbatch", "barrier", "waiting", "woken", "resolve", "level",
            "levelindex", "done"}

EmptyInv == \A w \in Workers : pc[w] \in Emptied => piles[w] = {}

(* The resolver ends with nothing left to do. *)
ResolvedInv == pc[MainWorker] = "done" => unresolved = {}

-----------------------------------------------------------------------------
(* The elements of Features, and the kinds they have. *)

(* A feature is a position of a block, and features of one input compare.  *)
LEMMA FeatureOf ==
    ASSUME NEW input, NEW f
    PROVE  f \in FeaturesOf(input) <=>
             \E b \in DOMAIN input : \E i \in DOMAIN input[b] : f = <<b, i>>
BY DEF FeaturesOf

(* The kinds of the features of an input are kinds. *)
LEMMA FeatureFacts ==
    ASSUME NEW input \in Files, NEW f \in FeaturesOf(input)
    PROVE  /\ f = <<f[1], f[2]>>
           /\ f[1] \in 1..Len(input)
           /\ f[2] \in 1..Len(input[f[1]])
           /\ KindOf(input, f) \in Kinds
<1>1. input \in Seq(Seq(Kinds))
  BY FilesAssumption
<1>2. PICK b \in DOMAIN input : \E i \in DOMAIN input[b] : f = <<b, i>>
  BY FeatureOf
<1>3. PICK i \in DOMAIN input[b] : f = <<b, i>>
  BY <1>2
<1>4. b \in 1..Len(input) /\ input[b] \in Seq(Kinds)
  BY <1>1
<1>5. i \in 1..Len(input[b]) /\ input[b][i] \in Kinds
  BY <1>4
<1> QED
  BY <1>3, <1>4, <1>5 DEF KindOf

(* Later features of a sorted input belong to the same or a later phase.   *)
LEMMA SortedFacts ==
    ASSUME NEW input \in Files,
           NEW f \in FeaturesOf(input), NEW g \in FeaturesOf(input),
           f[1] < g[1] \/ (f[1] = g[1] /\ f[2] < g[2])
    PROVE  GroupPhase(KindOf(input, f)) <= GroupPhase(KindOf(input, g))
BY FilesAssumption DEF IsOrdered, Before

(* The feature a worker decodes next exists, and has not been decoded.     *)
LEMMA NextFeatureFacts ==
    ASSUME TypeOK, IdleInv, NEW w \in Workers, HasNext(w)
    PROVE  /\ NextFeature(w) \in Features
           /\ NextFeature(w) \in Remaining(w)
           /\ Kind(NextFeature(w)) \in Kinds
<1>1. /\ file \in Files /\ file \in Seq(Seq(Kinds))
      /\ blk[w] \in Nat /\ pos[w] \in Nat /\ blk[w] <= Len(file)
  BY FilesAssumption DEF TypeOK
<1>2. blk[w] \in DOMAIN file
  BY <1>1 DEF IdleInv, IdleOf, HasNext
<1>3. pos[w] + 1 \in DOMAIN file[blk[w]]
  BY <1>1, <1>2 DEF HasNext
<1>4. NextFeature(w) \in Features
  BY <1>2, <1>3, FeatureOf DEF NextFeature, Features
<1>5. NextFeature(w) \in Remaining(w)
  BY <1>1, <1>4 DEF NextFeature, Remaining
<1> QED
  BY <1>1, <1>4, <1>5, FeatureFacts DEF Features, Kind

(* The invariant holds initially. *)
LEMMA IInvInit == Init => IInv
<1> SUFFICES ASSUME Init PROVE IInv
  OBVIOUS
<1>0. file \in Seq(Seq(Kinds))
  BY FilesAssumption DEF Init
<1>1. TypeOK
  <2>1. Cardinality(Workers) \in Int
    BY WorkersAssumption, FS_CardinalityType
  <2>2. Len(file) \in Nat
    BY <1>0
  <2>3. outq \in Seq(SUBSET Features)
    BY DEF Init
  <2>4. countdown \in [0..2 -> Int]
    BY <2>1 DEF Init
  <2>5. /\ batch \in [Workers -> SUBSET Features]
        /\ piles \in [Workers -> SUBSET Features]
        /\ deferred \in [Workers -> SUBSET Features]
    BY DEF Init
  <2>6. /\ pc \in [Workers -> Labels]
        /\ phase \in [Workers -> 0..3] /\ goal \in [Workers -> 0..3]
        /\ blk \in [Workers -> 0..taken] /\ pos \in [Workers -> Nat]
    BY DEF Init, Labels
  <2>7. posted \in 0..Len(file) /\ taken \in 0..posted
    <3>1. posted = 0 /\ taken = 0
      BY DEF Init
    <3> QED
      BY <2>2, <3>1
  <2>9. closed \in BOOLEAN
    BY DEF Init
  <2>8. /\ file \in Files /\ unresolved = {}
        /\ indexed = {} /\ dropped = {} /\ written = {}
    BY DEF Init
  <2> QED
    BY <2>3, <2>4, <2>5, <2>6, <2>7, <2>8, <2>9 DEF TypeOK
<1>2. GoalInv
  BY DEF Init, GoalInv, GoalOf, Advancing, Resolving, SUPER_RELATIONS
<1>3. CountdownInv
  <2>1. \A p \in 0..2 : Behind(p) = Workers
    BY DEF Init, Behind, Passed
  <2> QED
    BY <2>1 DEF Init, CountdownInv
<1>4. BarrierInv
  BY DEF Init, BarrierInv, Passed
<1>5. AheadInv
  <2>1. \A f \in Features : Kind(f) \in Kinds
    BY FeatureFacts DEF Init, Features, Kind
  <2> QED
    BY <2>1 DEF Init, AheadInv, Target, Advancing, Untaken, Remaining, GroupPhase, Kinds,
             SUPER_RELATIONS
<1>6. IdleInv
  <2>1. \A f \in Features : f[1] \in 1..Len(file)
    BY FeatureFacts DEF Init, Features
  <2> QED
    BY <2>1 DEF Init, IdleInv, IdleOf, Remaining, Advancing
<1>7. BatchInv /\ SuperInv
  BY DEF Init, BatchInv, BatchOf, SuperInv
<1>8. CoverInv
  <2>1. \A f \in Features : f[1] \in 1..Len(file)
    BY FeatureFacts DEF Init, Features
  <2> QED
    BY <1>0, <2>1 DEF Init, CoverInv, Untaken
<1> QED
  BY <1>1, <1>2, <1>3, <1>4, <1>5, <1>6, <1>7, <1>8 DEF IInv
-----------------------------------------------------------------------------
(* Every step preserves the type invariant. *)

(* A step of a worker keeps the state well-formed. *)
LEMMA TypeWorker ==
    ASSUME IInv, NEW w \in Workers, Worker(w)
    PROVE  TypeOK'
<1> USE DEF IInv, TypeOK, Goto, readerVars, blockVars, phaseVars, superVars,
            indexVars, pileVars
<1>1. CASE TakeBlock(w)
  BY <1>1 DEF TakeBlock, Labels, Features
<1>2. CASE BeginGroup(w)
  <2>1. GroupPhase(Kind(NextFeature(w))) \in 0..SUPER_RELATIONS
    BY NextFeatureFacts, <1>2 DEF BeginGroup, Features, GroupPhase, SUPER_RELATIONS, Kinds
  <2>2. goal' = [goal EXCEPT ![w] = GroupPhase(Kind(NextFeature(w)))]
    BY <1>2 DEF BeginGroup
  <2>3. /\ pc' = [pc EXCEPT ![w] = "post"]
        /\ UNCHANGED <<readerVars, blockVars, phase, countdown, superVars, indexVars, pileVars>>
    BY <1>2 DEF BeginGroup
  <2>4. goal' \in [Workers -> 0..3] /\ pc' \in [Workers -> Labels]
    BY <2>1, <2>2, <2>3 DEF Labels, SUPER_RELATIONS
  <2> QED
    BY <2>3, <2>4 DEF Features
<1>3. CASE Accept(w)
  <2>1. NextFeature(w) \in Features
    BY NextFeatureFacts, <1>3 DEF Accept, Decoding
  <2>2. /\ pos' \in [Workers -> Nat]
        /\ UNCHANGED <<readerVars, taken, blk, phaseVars, superVars>>
    BY <1>3 DEF Accept, Decoding, superVars
  <2>3. /\ piles' \in [Workers -> SUBSET Features]
        /\ batch' \in [Workers -> SUBSET Features]
        /\ UNCHANGED <<outq, written, indexed, dropped>>
    BY <1>3, <2>1 DEF Accept, Put
  <2>4. pc' \in [Workers -> Labels]
    BY <1>3 DEF Accept, Labels
  <2> QED
    BY <2>2, <2>3, <2>4 DEF Features, superVars
<1>4. CASE Reject(w)
  BY NextFeatureFacts, <1>4 DEF Reject, Labels, Features, Decoding
<1>5. CASE Defer(w)
  <2>1. NextFeature(w) \in Features
    BY NextFeatureFacts, <1>5 DEF Defer, Decoding
  <2>2. /\ pos' \in [Workers -> Nat]
        /\ UNCHANGED <<readerVars, taken, blk, phaseVars>>
    BY <1>5 DEF Defer, Decoding
  <2>3. /\ deferred' \in [Workers -> SUBSET Features]
        /\ UNCHANGED <<unresolved, indexVars, pileVars, pc>>
    BY <1>5, <2>1 DEF Defer
  <2> QED
    BY <2>2, <2>3 DEF Features
<1>6. CASE Flush(w)
  BY <1>6 DEF Flush, Labels, Features, PostPiles
<1>7. CASE EndBlock(w)
  BY <1>7 DEF EndBlock, Labels, Features, EndBatch
<1>8. CASE AfterTasks(w)
  BY <1>8 DEF AfterTasks, Labels, Features, SUPER_RELATIONS
<1>9. CASE AdvanceFlushPiles(w)
  BY <1>9 DEF AdvanceFlushPiles, Labels, Features, PostPiles
<1>10. CASE AdvanceFlushIndex(w)
  BY <1>10 DEF AdvanceFlushIndex, Labels, Features, EndBatch
<1>11. CASE EnterBarrier(w)
  <2>1. pc' \in [Workers -> Labels]
    BY <1>11 DEF EnterBarrier, Labels, Resumption
  <2>2. phase' \in [Workers -> 0..3]
    BY <1>11 DEF EnterBarrier
  <2>3. countdown' \in [0..2 -> Int]
    BY <1>11 DEF EnterBarrier, CountedOut
  <2>4. UNCHANGED <<goal, readerVars, blockVars, superVars, indexVars, pileVars>>
    BY <1>11 DEF EnterBarrier
  <2> QED
    BY <2>1, <2>2, <2>3, <2>4 DEF Features
<1>12. CASE Recheck(w)
  <2>1. pc' \in [Workers -> Labels] /\ phase' \in [Workers -> 0..3]
    BY <1>12 DEF Recheck, Labels, Resumption
  <2>2. UNCHANGED <<goal, countdown, readerVars, blockVars, superVars,
                    indexVars, pileVars>>
    BY <1>12 DEF Recheck
  <2> QED
    BY <2>1, <2>2 DEF Features
<1>13. CASE GatherSuperRelations(w)
  BY <1>13 DEF GatherSuperRelations, Labels, Features
<1>14. CASE WriteLevel(w)
  BY <1>14 DEF WriteLevel, Labels, Features, Put
<1>15. CASE LevelFlushPiles(w)
  BY <1>15 DEF LevelFlushPiles, Labels, Features, PostPiles
<1>16. CASE LevelEndBatch(w)
  BY <1>16 DEF LevelEndBatch, Labels, Features, EndBatch
<1>17. CASE EndResolve(w)
  BY <1>17 DEF EndResolve, Labels, Features
<1> QED
  BY <1>1, <1>2, <1>3, <1>4, <1>5, <1>6, <1>7, <1>8, <1>9, <1>10, <1>11, <1>12, <1>13, <1>14, <1>15, <1>16, <1>17 DEF Worker

(* Every step keeps the state well-formed. *)
LEMMA TypeStep ==
    ASSUME IInv, [Next]_vars
    PROVE  TypeOK'
<1> USE DEF readerVars, blockVars, phaseVars, superVars, indexVars, pileVars, Features
<1>1. CASE PostBlock
  BY <1>1 DEF PostBlock, IInv, TypeOK
<1>2. CASE EndFile
  BY <1>2 DEF EndFile, IInv, TypeOK
<1>3. CASE WriteOutput
  <2>1. outq \in Seq(SUBSET Features) /\ outq # << >>
    BY <1>3 DEF WriteOutput, IInv, TypeOK
  <2>2. Head(outq) \in SUBSET Features /\ Tail(outq) \in Seq(SUBSET Features)
    BY <2>1
  <2> QED
    BY <1>3, <2>2 DEF WriteOutput, IInv, TypeOK
<1>4. CASE \E w \in Workers : Worker(w)
  BY <1>4, TypeWorker
<1>5. CASE UNCHANGED vars
  BY <1>5 DEF vars, IInv, TypeOK
<1>6. CASE \E w \in Workers : SpuriousWakeup(w)
  BY <1>6 DEF SpuriousWakeup, Goto, IInv, TypeOK, Labels
<1> QED
  BY <1>1, <1>2, <1>3, <1>4, <1>5, <1>6 DEF Next, Reader, Joined

-----------------------------------------------------------------------------
(* Every step preserves the rest of the inductive invariant. *)

(* A worker that enters the barrier either passes or waits; at most, other *)
(* waiting workers are woken.                                              *)
LEMMA BarrierShape ==
    ASSUME TypeOK, NEW w \in Workers, EnterBarrier(w)
    PROVE  /\ \/ pc'[w] = "waiting" /\ phase' = phase
              \/ /\ pc'[w] = Resumption(w)
                 /\ phase' = [phase EXCEPT ![w] = goal[w]]
                 /\ countdown'[goal[w] - 1] <= 0
           /\ \A v \in Workers \ {w} :
                 pc'[v] = pc[v] \/ (pc[v] = "waiting" /\ pc'[v] = "woken")
<1>1. CASE countdown'[goal[w] - 1] <= 0
  BY <1>1 DEF EnterBarrier, TypeOK
<1>2. CASE ~(countdown'[goal[w] - 1] <= 0)
  BY <1>2 DEF EnterBarrier, TypeOK
<1> QED
  BY <1>1, <1>2

(* Advancing workers keep going up, and only finish in the last phase.     *)
LEMMA GoalStep ==
    ASSUME IInv, NEW w \in Workers, Worker(w)
    PROVE  GoalInv'
<1>0. TypeOK /\ GoalInv
  BY DEF IInv
<1> USE <1>0 DEF GoalInv, GoalOf, Goto, Advancing, Resolving
<1>1. CASE BeginGroup(w)
  <2>1. GroupPhase(Kind(NextFeature(w))) > phase[w]
    <3>1. /\ GroupPhase(Kind(NextFeature(w))) >= phase[w]
          /\ Kind(NextFeature(w)) \in Kinds
      BY <1>1, NextFeatureFacts DEF BeginGroup, IInv, AheadInv, Target, HasNext
    <3>2. phase[w] # GroupPhase(Kind(NextFeature(w)))
      BY <1>1 DEF BeginGroup, MustAdvance
    <3>3. GroupPhase(Kind(NextFeature(w))) \in 0..2 /\ phase[w] \in 0..3
      BY <3>1 DEF TypeOK, GroupPhase, Kinds, SUPER_RELATIONS
    <3> QED
      BY <3>1, <3>2, <3>3
  <2> QED
    BY <1>1, <2>1 DEF BeginGroup, TypeOK
<1>2. CASE AfterTasks(w)
  BY <1>2 DEF AfterTasks, TypeOK, SUPER_RELATIONS
<1>3. CASE EnterBarrier(w)
  <2>1. UNCHANGED goal /\ goal[w] > phase[w] /\ pc[w] = "barrier"
    BY <1>3 DEF EnterBarrier
  <2>2. CASE pc'[w] = "waiting" /\ phase' = phase
    BY <1>3, <2>1, <2>2, BarrierShape DEF TypeOK
  <2>3. CASE pc'[w] = Resumption(w) /\ phase' = [phase EXCEPT ![w] = goal[w]]
    <3>1. GoalOf(w)'
      <4>1. /\ phase'[w] = goal[w] /\ goal[w] \in 0..3
            /\ pc'[w] = Resumption(w)
        BY <2>3 DEF TypeOK
      <4>2. CASE goal[w] = SUPER_RELATIONS
        BY <4>1, <4>2 DEF Resumption
      <4>3. CASE goal[w] # SUPER_RELATIONS
        BY <4>1, <4>3 DEF Resumption, SUPER_RELATIONS
      <4> QED
        BY <4>2, <4>3
    <3>2. ASSUME NEW v \in Workers \ {w} PROVE GoalOf(v)'
      <4>1. phase'[v] = phase[v]
        BY <2>3 DEF TypeOK
      <4> QED
        BY <1>3, <2>1, <4>1, BarrierShape
    <3> QED
      BY <3>1, <3>2
  <2> QED
    BY <1>3, <2>2, <2>3, BarrierShape
<1>6. CASE Recheck(w)
  BY <1>6 DEF Recheck, Resumption, TypeOK, SUPER_RELATIONS
<1>4. CASE \/ TakeBlock(w) \/ Accept(w) \/ Reject(w) \/ Defer(w)
           \/ Flush(w) \/ EndBlock(w) \/ AdvanceFlushPiles(w) \/ AdvanceFlushIndex(w)
  BY <1>4 DEF TakeBlock, Accept, Decoding, HasNext, Reject, Defer, Flush, EndBlock,
              AdvanceFlushPiles, AdvanceFlushIndex, phaseVars, TypeOK
<1>5. CASE \/ GatherSuperRelations(w) \/ WriteLevel(w) \/ LevelFlushPiles(w)
           \/ LevelEndBatch(w) \/ EndResolve(w)
  BY <1>5 DEF GatherSuperRelations, WriteLevel, LevelFlushPiles, LevelEndBatch,
              EndResolve, phaseVars, TypeOK
<1> QED
  BY <1>1, <1>2, <1>3, <1>4, <1>5, <1>6 DEF Worker

(* A worker's step moves nobody's barrier count except at the barrier,     *)
(* where it moves that worker's.                                           *)
LEMMA PassedStep ==
    ASSUME IInv, NEW w \in Workers, Worker(w)
    PROVE  /\ EnterBarrier(w) => Passed(w)' = goal[w]
           /\ ~EnterBarrier(w) => Passed(w)' = Passed(w) /\ countdown' = countdown
           /\ \A v \in Workers \ {w} : Passed(v)' = Passed(v)
<1>0. TypeOK
  BY DEF IInv
<1> USE <1>0 DEF Goto
<1>1. CASE EnterBarrier(w)
  <2>1. UNCHANGED goal
    BY <1>1 DEF EnterBarrier
  <2>2. \A v \in Workers \ {w} : Passed(v)' = Passed(v)
    BY <1>1, <2>1, BarrierShape DEF Passed, TypeOK
  <2>3. Passed(w)' = goal[w]
    BY <1>1, <2>1, BarrierShape DEF Passed, Resumption, TypeOK
  <2> QED
    BY <1>1, <2>2, <2>3
<1>2. CASE Recheck(w)
  BY <1>2 DEF Recheck, EnterBarrier, Resumption, Passed, TypeOK
<1>3. CASE BeginGroup(w) \/ AfterTasks(w)
  BY <1>3 DEF BeginGroup, AfterTasks, HasNext, EnterBarrier, Passed, TypeOK
<1>4. CASE \/ TakeBlock(w) \/ Accept(w) \/ Reject(w) \/ Defer(w)
           \/ Flush(w) \/ EndBlock(w) \/ AdvanceFlushPiles(w) \/ AdvanceFlushIndex(w)
  BY <1>4 DEF TakeBlock, Accept, Decoding, HasNext, Reject, Defer, Flush, EndBlock,
              AdvanceFlushPiles, AdvanceFlushIndex, phaseVars, Passed, EnterBarrier, TypeOK
<1>5. CASE \/ GatherSuperRelations(w) \/ WriteLevel(w) \/ LevelFlushPiles(w)
           \/ LevelEndBatch(w) \/ EndResolve(w)
  BY <1>5 DEF GatherSuperRelations, WriteLevel, LevelFlushPiles, LevelEndBatch,
              EndResolve, phaseVars, Passed, EnterBarrier, TypeOK
<1> QED
  BY <1>1, <1>2, <1>3, <1>4, <1>5 DEF Worker

(* Passed() is a phase. *)
LEMMA PassedType ==
    ASSUME TypeOK
    PROVE  \A v \in Workers : Passed(v) \in 0..3
BY DEF TypeOK, Passed

(* Sets of workers are finite. *)
LEMMA WorkerSets ==
    ASSUME NEW S \in SUBSET Workers
    PROVE  /\ IsFiniteSet(S)
           /\ Cardinality(S) \in Nat
           /\ Cardinality(S) <= 0 => S = {}
<1>1. IsFiniteSet(S)
  BY WorkersAssumption, FS_Subset
<1>2. Cardinality(S) \in Nat
  BY <1>1, FS_CardinalityType
<1>3. Cardinality(S) = 0 <=> S = {}
  BY <1>1, FS_EmptySet
<1> QED
  BY <1>1, <1>2, <1>3

(* The countdowns stay exact. *)
LEMMA CountdownStep ==
    ASSUME IInv, NEW w \in Workers, Worker(w)
    PROVE  CountdownInv'
<1>0. TypeOK /\ GoalInv /\ CountdownInv
  BY DEF IInv
<1>1. CASE ~EnterBarrier(w)
  <2>1. \A p \in 0..2 : Behind(p)' = Behind(p)
    BY <1>1, PassedStep DEF Behind
  <2> QED
    BY <1>0, <1>1, <2>1, PassedStep DEF CountdownInv
<1>2. CASE EnterBarrier(w)
  <2>1. /\ Passed(w) = phase[w] /\ Passed(w)' = goal[w]
        /\ phase[w] \in 0..3 /\ goal[w] \in 0..3 /\ goal[w] > phase[w]
        /\ countdown' = CountedOut(w)
    BY <1>0, <1>2, PassedStep DEF EnterBarrier, Passed, GoalInv, GoalOf, Advancing, TypeOK
  <2> SUFFICES ASSUME NEW p \in 0..2
               PROVE  countdown'[p] = Cardinality(Behind(p)')
    BY DEF CountdownInv
  <2>2. \A v \in Workers \ {w} : Passed(v)' = Passed(v)
    BY PassedStep
  <2>3. CASE p \in Left(w)
    <3>1. Behind(p)' = Behind(p) \ {w} /\ w \in Behind(p)
      BY <2>1, <2>2, <2>3 DEF Behind, Left
    <3>2. Cardinality(Behind(p) \ {w}) = Cardinality(Behind(p)) - 1
      <4>1. IsFiniteSet(Behind(p))
        BY WorkerSets DEF Behind
      <4> QED
        BY <3>1, <4>1, FS_RemoveElement
    <3> QED
      BY <1>0, <2>1, <2>3, <3>1, <3>2 DEF CountdownInv, CountedOut
  <2>4. CASE p \notin Left(w)
    <3>1. Behind(p)' = Behind(p)
      BY <2>1, <2>2, <2>4 DEF Behind, Left
    <3> QED
      BY <1>0, <2>1, <2>4, <3>1 DEF CountdownInv, CountedOut
  <2> QED
    BY <2>3, <2>4
<1> QED
  BY <1>1, <1>2

(* No worker gets past the barrier before all workers have reached it.     *)
LEMMA BarrierStep ==
    ASSUME IInv, NEW w \in Workers, Worker(w)
    PROVE  BarrierInv'
<1>0. TypeOK /\ GoalInv /\ CountdownInv /\ BarrierInv
  BY DEF IInv
<1>5. TypeOK' /\ CountdownInv'
  BY TypeWorker, CountdownStep
<1>1. \A v \in Workers : Passed(v)' >= Passed(v)
  <2>1. EnterBarrier(w) => Passed(w) = phase[w] /\ goal[w] > phase[w]
    BY <1>0 DEF EnterBarrier, Passed, GoalInv, GoalOf, Advancing
  <2>2. \A v \in Workers : Passed(v) \in 0..3
    BY <1>0, PassedType
  <2>3. goal[w] \in 0..3
    BY <1>0 DEF TypeOK
  <2> SUFFICES ASSUME NEW v \in Workers PROVE Passed(v)' >= Passed(v)
    OBVIOUS
  <2>4. CASE v # w
    BY <2>2, <2>4, PassedStep
  <2>5. CASE v = w
    <3>1. Passed(w)' >= Passed(w)
      BY <2>1, <2>2, <2>3, PassedStep
    <3> QED
      BY <2>5, <3>1
  <2> QED
    BY <2>4, <2>5
<1>4. \A v \in Workers : Passed(v)' \in 0..3
  BY <1>5 DEF TypeOK, Passed
<1>2. CASE phase' = phase
  <2>1. \A v \in Workers : phase[v] \in 0..3
    BY <1>0 DEF TypeOK
  <2>2. ASSUME NEW v \in Workers, NEW u \in Workers PROVE Passed(v)' >= phase[u]
    BY <1>0, <1>1, <1>4, <2>1, PassedType DEF BarrierInv
  <2> QED
    BY <1>2, <2>2 DEF BarrierInv
<1>3. CASE phase' # phase
  <2>1. /\ phase' = [phase EXCEPT ![w] = goal[w]]
        /\ countdown'[goal[w] - 1] <= 0
        /\ goal[w] \in 1..3
    <3>1. EnterBarrier(w) \/ Recheck(w)
      BY <1>3 DEF Worker, TakeBlock, BeginGroup, Accept, Reject, Defer, Decoding, Flush,
                  EndBlock, AfterTasks, AdvanceFlushPiles, AdvanceFlushIndex,
                  GatherSuperRelations, WriteLevel, LevelFlushPiles, LevelEndBatch,
                  EndResolve, phaseVars
    <3>2. goal[w] \in 1..3
      <4>1. goal[w] \in 0..3 /\ phase[w] \in 0..3
        BY <1>0 DEF TypeOK
      <4> QED
        BY <1>0, <3>1, <4>1 DEF EnterBarrier, Recheck, GoalInv, GoalOf, Advancing
    <3>3. CASE EnterBarrier(w)
      BY <1>0, <1>3, <3>2, <3>3, BarrierShape
    <3>4. CASE Recheck(w)
      BY <1>3, <3>2, <3>4 DEF Recheck
    <3> QED
      BY <3>1, <3>3, <3>4
  <2>2. \A v \in Workers : Passed(v)' >= goal[w]
    <3>1. PICK p \in 0..2 : p = goal[w] - 1
      BY <2>1
    <3>2. countdown'[p] = Cardinality(Behind(p)')
      BY <1>5 DEF CountdownInv
    <3>3. Behind(p)' \in SUBSET Workers
      BY DEF Behind
    <3>4. Behind(p)' = {}
      BY <2>1, <3>1, <3>2, <3>3, WorkerSets
    <3>5. \A v \in Workers : ~(Passed(v)' <= p)
      BY <3>4 DEF Behind
    <3> QED
      BY <1>4, <2>1, <3>1, <3>5
  <2> QED
    <3>1. ASSUME NEW v \in Workers, NEW u \in Workers PROVE Passed(v)' >= phase'[u]
      <4>1. CASE u = w
        BY <1>0, <2>1, <2>2, <4>1 DEF TypeOK
      <4>2. CASE u # w
        <5>1. phase'[u] = phase[u] /\ phase[u] \in 0..3
          BY <1>0, <2>1, <4>2 DEF TypeOK
        <5> QED
          BY <1>0, <1>1, <1>4, <5>1, PassedType DEF BarrierInv
      <4> QED
        BY <4>1, <4>2
    <3> QED
      BY <3>1 DEF BarrierInv
<1> QED
  BY <1>2, <1>3

(* The target of a worker changes only when it calls advancePhase().       *)
LEMMA TargetStep ==
    ASSUME IInv, NEW w \in Workers, Worker(w)
    PROVE  /\ \A v \in Workers \ {w} : Target(v)' = Target(v)
           /\ ~BeginGroup(w) /\ ~AfterTasks(w) => Target(w)' = Target(w)
<1>0. TypeOK
  BY DEF IInv
<1> USE <1>0 DEF Goto
<1>1. CASE EnterBarrier(w)
  <2>1. UNCHANGED goal /\ pc[w] = "barrier"
    BY <1>1 DEF EnterBarrier
  <2>2. \A v \in Workers \ {w} : Target(v)' = Target(v)
    BY <1>1, <2>1, BarrierShape DEF Target, Advancing, TypeOK
  <2>3. Target(w)' = goal[w] /\ Target(w) = goal[w]
    BY <1>1, <2>1, BarrierShape DEF Target, Advancing, Resumption, TypeOK
  <2> QED
    BY <2>2, <2>3
<1>2. CASE Recheck(w)
  BY <1>2 DEF Recheck, Resumption, Target, Advancing, TypeOK
<1>3. CASE BeginGroup(w) \/ AfterTasks(w)
  BY <1>3 DEF BeginGroup, AfterTasks, HasNext, Target, Advancing, TypeOK
<1>4. CASE \/ TakeBlock(w) \/ Accept(w) \/ Reject(w) \/ Defer(w)
           \/ Flush(w) \/ EndBlock(w) \/ AdvanceFlushPiles(w) \/ AdvanceFlushIndex(w)
  BY <1>4 DEF TakeBlock, Accept, Decoding, HasNext, Reject, Defer, Flush, EndBlock,
              AdvanceFlushPiles, AdvanceFlushIndex, phaseVars, Target, Advancing, TypeOK
<1>5. CASE \/ GatherSuperRelations(w) \/ WriteLevel(w) \/ LevelFlushPiles(w)
           \/ LevelEndBatch(w) \/ EndResolve(w)
  BY <1>5 DEF GatherSuperRelations, WriteLevel, LevelFlushPiles, LevelEndBatch,
              EndResolve, phaseVars, Target, Advancing, TypeOK
<1> QED
  BY <1>1, <1>2, <1>3, <1>4, <1>5 DEF Worker

(* The input stays the same. *)
LEMMA InputStep ==
    ASSUME NEW w \in Workers, Worker(w)
    PROVE  /\ UNCHANGED <<file, posted, closed>>
           /\ Features' = Features
           /\ \A f : Kind(f)' = Kind(f)
<1>1. UNCHANGED readerVars
  BY DEF Worker, TakeBlock, BeginGroup, Accept, Reject, Defer, Decoding, Flush,
         EndBlock, AfterTasks, AdvanceFlushPiles, AdvanceFlushIndex, EnterBarrier,
         Recheck, GatherSuperRelations, WriteLevel, LevelFlushPiles, LevelEndBatch,
         EndResolve
<1> QED
  BY <1>1 DEF readerVars, Features, Kind

(* What a worker does with its place in the file. *)
LEMMA BlockStep ==
    ASSUME NEW w \in Workers, Worker(w)
    PROVE  \/ TakeBlock(w)
           \/ Decoding(w)
           \/ UNCHANGED blockVars /\ ~TakeBlock(w) /\ ~Decoding(w)
<1>1. UNCHANGED blockVars \/ TakeBlock(w) \/ Decoding(w)
  BY DEF Worker, BeginGroup, Accept, Reject, Defer, Flush,
         EndBlock, AfterTasks, AdvanceFlushPiles, AdvanceFlushIndex, EnterBarrier,
         Recheck, GatherSuperRelations, WriteLevel, LevelFlushPiles, LevelEndBatch,
         EndResolve
<1> QED
  BY <1>1

(* No worker's step puts features ahead of a worker that were not before.  *)
LEMMA AheadSets ==
    ASSUME IInv, NEW w \in Workers, Worker(w)
    PROVE  /\ Untaken' \subseteq Untaken
           /\ \A v \in Workers :
                (Untaken \union Remaining(v))' \subseteq Untaken \union Remaining(v)
<1>0. /\ taken \in Nat /\ blk \in [Workers -> 0..taken] /\ pos \in [Workers -> Nat]
      /\ UNCHANGED file /\ Features' = Features
      /\ \A f \in Features : f[1] \in Nat /\ f[2] \in Nat
  <2>1. file \in Files
    BY DEF IInv, TypeOK
  <2>2. \A f \in Features : f[1] \in Nat /\ f[2] \in Nat
    BY <2>1, FeatureFacts DEF Features
  <2> QED
    BY <2>2, InputStep DEF IInv, TypeOK
<1>1. CASE TakeBlock(w)
  BY <1>0, <1>1 DEF TakeBlock, Untaken, Remaining
<1>2. CASE Decoding(w)
  BY <1>0, <1>2 DEF Decoding, Untaken, Remaining
<1>3. CASE UNCHANGED blockVars
  BY <1>0, <1>3 DEF blockVars, Untaken, Remaining
<1> QED
  BY <1>1, <1>2, <1>3, BlockStep

(* Nothing that is still to be decoded belongs to a phase that was left.   *)
LEMMA AheadStep ==
    ASSUME IInv, NEW w \in Workers, Worker(w)
    PROVE  AheadInv'
<1>0. TypeOK /\ AheadInv /\ IdleInv /\ GoalInv
  BY DEF IInv
<1>1. ASSUME NEW v \in Workers, Target(v)' = Target(v)
      PROVE  \A f \in (Untaken \union Remaining(v))' : GroupPhase(Kind(f)) >= Target(v)'
  BY <1>0, <1>1, AheadSets DEF AheadInv
<1>2. CASE BeginGroup(w)
  <2>1. Target(w)' = GroupPhase(Kind(NextFeature(w)))
    BY <1>0, <1>2 DEF BeginGroup, Goto, Target, Advancing, TypeOK
  <2>2. /\ NextFeature(w) \in Features
        /\ file \in Files
        /\ blk[w] \in Nat /\ pos[w] \in Nat /\ blk[w] <= taken
    BY <1>0, <1>2, NextFeatureFacts DEF BeginGroup, TypeOK
  <2>3. ASSUME NEW f \in Untaken \union Remaining(w)
        PROVE  GroupPhase(Kind(f)) >= GroupPhase(Kind(NextFeature(w)))
    <3>1. f \in Features /\ f = <<f[1], f[2]>> /\ f[1] \in Nat /\ f[2] \in Nat
      BY <2>2, <2>3, FeatureFacts DEF Untaken, Remaining, Features
    <3>2. CASE f = NextFeature(w)
      <4>1. GroupPhase(Kind(f)) \in Int
        BY <2>2, <3>1, FeatureFacts DEF Kind, Features, Kinds, GroupPhase, SUPER_RELATIONS
      <4> QED
        BY <3>2, <4>1
    <3>3. CASE f # NextFeature(w)
      <4>1. \/ NextFeature(w)[1] < f[1]
            \/ NextFeature(w)[1] = f[1] /\ NextFeature(w)[2] < f[2]
        <5>1. taken \in Nat
          BY <1>0 DEF TypeOK
        <5> QED
          BY <2>2, <2>3, <3>1, <3>3, <5>1 DEF NextFeature, Untaken, Remaining
      <4>2. GroupPhase(KindOf(file, NextFeature(w))) <= GroupPhase(KindOf(file, f))
        BY <2>2, <3>1, <4>1, SortedFacts DEF Features
      <4>3. GroupPhase(Kind(f)) \in Int /\ GroupPhase(Kind(NextFeature(w))) \in Int
        BY <2>2, <3>1, FeatureFacts DEF Kind, Features, Kinds, GroupPhase, SUPER_RELATIONS
      <4> QED
        BY <4>2, <4>3 DEF Kind
    <3> QED
      BY <3>2, <3>3
  <2>4. \A f \in (Untaken \union Remaining(w))' : GroupPhase(Kind(f)) >= Target(w)'
    BY <2>1, <2>3, AheadSets
  <2> QED
    BY <1>1, <2>4, TargetStep, InputStep DEF AheadInv
<1>3. CASE AfterTasks(w)
  <2>1. Remaining(w) = {} /\ Untaken = {}
    <3>1. file \in Files /\ taken = Len(file)
      BY <1>0, <1>3 DEF AfterTasks, IdleInv, TypeOK
    <3>2. \A f \in Features : f[1] \in 1..Len(file)
      BY <3>1, FeatureFacts DEF Features
    <3> QED
      BY <1>0, <1>3, <3>1, <3>2 DEF AfterTasks, IdleInv, IdleOf, Untaken, TypeOK
  <2>2. (Untaken \union Remaining(w))' = {}
    BY <2>1, AheadSets
  <2> QED
    BY <1>1, <2>2, TargetStep, InputStep DEF AheadInv
<1>4. CASE ~BeginGroup(w) /\ ~AfterTasks(w)
  <2>1. \A v \in Workers : Target(v)' = Target(v)
    BY <1>4, TargetStep
  <2> QED
    BY <1>1, <2>1, InputStep DEF AheadInv
<1> QED
  BY <1>2, <1>3, <1>4

(* Idle workers have nothing left of their block. *)
LEMMA IdleStep ==
    ASSUME IInv, NEW w \in Workers, Worker(w)
    PROVE  IdleInv'
<1>0. TypeOK /\ IdleInv /\ GoalInv
  BY DEF IInv
<1> USE <1>0 DEF IdleOf, Goto, Advancing
<1>1. ASSUME NEW v \in Workers \ {w}, pc'[v] = pc[v] \/ (pc[v] = "waiting" /\ pc'[v] = "woken"),
             goal'[v] = goal[v]
      PROVE  IdleOf(v)'
  <2>1. blk'[v] = blk[v] /\ pos'[v] = pos[v]
    BY BlockStep DEF TakeBlock, Decoding, blockVars, TypeOK
  <2>2. Remaining(v)' = Remaining(v)
    BY <2>1, InputStep DEF Remaining
  <2> QED
    BY <1>1, <2>1, <2>2 DEF IdleInv
<1>2. CASE TakeBlock(w)
  <2>1. IdleOf(w)'
    BY <1>2 DEF TakeBlock, TypeOK
  <2> QED
    BY <1>1, <1>2, <2>1, InputStep DEF TakeBlock, phaseVars, IdleInv, TypeOK
<1>3. CASE EndBlock(w)
  <2>1. Remaining(w)' = {}
    <3>1. \A f \in Features : f[2] \in 1..Len(file[f[1]])
      BY FeatureFacts DEF Features, TypeOK
    <3>2. \A f \in Features : f[1] = blk[w] => ~(f[2] > pos[w])
      BY <1>3, <3>1 DEF EndBlock, TypeOK
    <3> QED
      BY <1>3, <3>2, InputStep DEF EndBlock, blockVars, Remaining
  <2>2. IdleOf(w)'
    BY <1>3, <2>1 DEF EndBlock, TypeOK
  <2> QED
    BY <1>1, <1>3, <2>2, InputStep DEF EndBlock, phaseVars, IdleInv, TypeOK
<1>4. CASE BeginGroup(w) \/ AfterTasks(w)
  <2>1. IdleOf(w)'
    BY <1>4 DEF BeginGroup, HasNext, AfterTasks, blockVars, IdleInv, TypeOK
  <2> QED
    BY <1>1, <1>4, <2>1, InputStep DEF BeginGroup, AfterTasks, IdleInv, TypeOK
<1>5. CASE EnterBarrier(w)
  <2>1. UNCHANGED <<goal, blk>> /\ pc[w] = "barrier"
    BY <1>5 DEF EnterBarrier, blockVars
  <2>2. IdleOf(w)'
    BY <1>5, <2>1, BarrierShape DEF Resumption, IdleInv, TypeOK
  <2> QED
    BY <1>1, <1>5, <2>1, <2>2, BarrierShape, InputStep DEF IdleInv
<1>6. CASE Recheck(w)
  <2>1. IdleOf(w)'
    BY <1>6 DEF Recheck, Resumption, blockVars, IdleInv, TypeOK
  <2> QED
    BY <1>1, <1>6, <2>1, InputStep DEF Recheck, IdleInv, TypeOK
<1>7. CASE Accept(w) \/ Reject(w) \/ Defer(w)
  <2>1. IdleOf(w)'
    BY <1>7 DEF Accept, Reject, Defer, Decoding, HasNext, phaseVars, IdleInv, TypeOK
  <2> QED
    BY <1>1, <1>7, <2>1, InputStep DEF Accept, Reject, Defer, Decoding, phaseVars, IdleInv, TypeOK
<1>8. CASE Flush(w) \/ AdvanceFlushPiles(w) \/ AdvanceFlushIndex(w)
  <2>1. IdleOf(w)'
    BY <1>8 DEF Flush, AdvanceFlushPiles, AdvanceFlushIndex, blockVars, phaseVars, IdleInv, TypeOK
  <2> QED
    BY <1>1, <1>8, <2>1, InputStep
       DEF Flush, AdvanceFlushPiles, AdvanceFlushIndex, phaseVars, IdleInv, TypeOK
<1>9. CASE \/ GatherSuperRelations(w) \/ WriteLevel(w) \/ LevelFlushPiles(w)
           \/ LevelEndBatch(w) \/ EndResolve(w)
  <2>1. IdleOf(w)'
    BY <1>9 DEF GatherSuperRelations, WriteLevel, LevelFlushPiles, LevelEndBatch,
                EndResolve, TypeOK
  <2> QED
    BY <1>1, <1>9, <2>1, InputStep
       DEF GatherSuperRelations, WriteLevel, LevelFlushPiles, LevelEndBatch, EndResolve,
           phaseVars, IdleInv, TypeOK
<1> QED
  BY <1>2, <1>3, <1>4, <1>5, <1>6, <1>7, <1>8, <1>9 DEF Worker

(* Deferred relations are super-relations. *)
LEMMA SuperStep ==
    ASSUME IInv, NEW w \in Workers, Worker(w)
    PROVE  SuperInv'
<1>0. TypeOK /\ SuperInv
  BY DEF IInv
<1>1. CASE Defer(w)
  BY <1>0, <1>1, InputStep DEF Defer, SuperInv, TypeOK
<1>2. CASE GatherSuperRelations(w)
  BY <1>0, <1>2, InputStep DEF GatherSuperRelations, SuperInv
<1>3. CASE WriteLevel(w) \/ EndResolve(w)
  BY <1>0, <1>3, InputStep DEF WriteLevel, EndResolve, SuperInv
<1>4. CASE UNCHANGED superVars
  BY <1>0, <1>4, InputStep DEF superVars, SuperInv
<1> QED
  BY <1>1, <1>2, <1>3, <1>4
     DEF Worker, TakeBlock, BeginGroup, Accept, Reject, Flush,
         EndBlock, AfterTasks, AdvanceFlushPiles, AdvanceFlushIndex, EnterBarrier,
         Recheck, LevelFlushPiles, LevelEndBatch

(* Pending entries belong to their worker's phase, and are gone when the   *)
(* worker is at the barrier.                                               *)
LEMMA BatchStep ==
    ASSUME IInv, NEW w \in Workers, Worker(w)
    PROVE  BatchInv'
<1>0. TypeOK /\ BatchInv /\ SuperInv /\ GoalInv
  BY DEF IInv
<1> USE <1>0 DEF BatchOf, Goto
<1>1. ASSUME NEW v \in Workers \ {w}, pc'[v] = pc[v] \/ (pc[v] = "waiting" /\ pc'[v] = "woken"),
             phase'[v] = phase[v], batch'[v] = batch[v]
      PROVE  BatchOf(v)'
  BY <1>1, InputStep DEF BatchInv
<1>2. CASE Accept(w)
  <2>1. Kind(NextFeature(w)) = phase[w]
    <3>1. /\ GroupPhase(Kind(NextFeature(w))) >= phase[w]
          /\ Kind(NextFeature(w)) \in Kinds /\ phase[w] \in 0..3
      BY <1>2, NextFeatureFacts
         DEF Accept, Decoding, IInv, AheadInv, Target, Advancing, HasNext, TypeOK
    <3>2. /\ Kind(NextFeature(w)) # SUPER_RELATIONS
          /\ Kind(NextFeature(w)) # 0 => phase[w] = GroupPhase(Kind(NextFeature(w)))
      BY <1>2 DEF Accept, Decoding, MustAdvance
    <3> QED
      BY <3>1, <3>2 DEF GroupPhase, Kinds, SUPER_RELATIONS
  <2>2. BatchOf(w)'
    BY <1>2, <2>1, InputStep DEF Accept, Decoding, Put, phaseVars, BatchInv, TypeOK
  <2> QED
    BY <1>1, <1>2, <2>2 DEF Accept, Decoding, Put, phaseVars, BatchInv, TypeOK
<1>3. CASE EndBlock(w) \/ AdvanceFlushIndex(w) \/ LevelEndBatch(w)
  <2>1. BatchOf(w)'
    BY <1>3 DEF EndBlock, AdvanceFlushIndex, LevelEndBatch, EndBatch, TypeOK
  <2> QED
    BY <1>1, <1>3, <2>1
       DEF EndBlock, AdvanceFlushIndex, LevelEndBatch, EndBatch, phaseVars, BatchInv, TypeOK
<1>4. CASE EnterBarrier(w)
  <2>1. UNCHANGED batch /\ batch[w] = {}
    BY <1>4 DEF EnterBarrier, indexVars, BatchInv
  <2>2. \A v \in Workers \ {w} : phase'[v] = phase[v]
    BY <1>4, BarrierShape DEF TypeOK
  <2> QED
    BY <1>1, <1>4, <2>1, <2>2, BarrierShape DEF BatchInv
<1>5. CASE Recheck(w)
  <2>1. UNCHANGED batch /\ batch[w] = {}
    BY <1>5 DEF Recheck, indexVars, BatchInv
  <2> QED
    BY <1>1, <1>5, <2>1 DEF Recheck, BatchInv, TypeOK
<1>6. CASE WriteLevel(w)
  <2>1. BatchOf(w)'
    BY <1>6, InputStep
       DEF WriteLevel, Put, phaseVars, SuperInv, BatchInv, GoalInv, GoalOf, Resolving, TypeOK
  <2> QED
    BY <1>1, <1>6, <2>1 DEF WriteLevel, Put, phaseVars, BatchInv, TypeOK
<1>7. CASE TakeBlock(w) \/ BeginGroup(w) \/ AfterTasks(w)
  <2>1. BatchOf(w)'
    BY <1>7, InputStep
       DEF TakeBlock, BeginGroup, HasNext, AfterTasks, phaseVars, indexVars, BatchInv, TypeOK
  <2> QED
    BY <1>1, <1>7, <2>1
       DEF TakeBlock, BeginGroup, AfterTasks, phaseVars, indexVars, BatchInv, TypeOK
<1>8. CASE Reject(w) \/ Defer(w) \/ Flush(w) \/ AdvanceFlushPiles(w)
  <2>1. BatchOf(w)'
    BY <1>8, InputStep
       DEF Reject, Defer, Decoding, HasNext, Flush, AdvanceFlushPiles, phaseVars, indexVars,
           BatchInv, TypeOK
  <2> QED
    BY <1>1, <1>8, <2>1
       DEF Reject, Defer, Decoding, Flush, AdvanceFlushPiles, phaseVars, indexVars,
           BatchInv, TypeOK
<1>9. CASE GatherSuperRelations(w) \/ LevelFlushPiles(w) \/ EndResolve(w)
  <2>1. BatchOf(w)'
    BY <1>9, InputStep
       DEF GatherSuperRelations, LevelFlushPiles, EndResolve, phaseVars, indexVars,
           BatchInv, TypeOK
  <2> QED
    BY <1>1, <1>9, <2>1
       DEF GatherSuperRelations, LevelFlushPiles, EndResolve, phaseVars, indexVars,
           BatchInv, TypeOK
<1> QED
  BY <1>2, <1>3, <1>4, <1>5, <1>6, <1>7, <1>8, <1>9 DEF Worker

(* Features leave the not yet decoded part of the file one at a time.      *)
LEMMA LeaveStep ==
    ASSUME IInv, NEW w \in Workers, Worker(w), NEW f \in Features,
           f \in Untaken \/ \E v \in Workers : f \in Remaining(v)
    PROVE  \/ f \in Untaken' \/ \E v \in Workers : f \in Remaining(v)'
           \/ Decoding(w) /\ f = NextFeature(w)
<1>0. /\ taken \in Nat /\ blk \in [Workers -> 0..taken] /\ pos \in [Workers -> Nat]
      /\ UNCHANGED file /\ Features' = Features
      /\ f = <<f[1], f[2]>> /\ f[1] \in Nat /\ f[2] \in Nat \ {0}
  <2>1. file \in Files
    BY DEF IInv, TypeOK
  <2>2. f = <<f[1], f[2]>> /\ f[1] \in Nat /\ f[2] \in Nat \ {0}
    BY <2>1, FeatureFacts DEF Features
  <2> QED
    BY <2>2, InputStep DEF IInv, TypeOK
<1>1. CASE TakeBlock(w)
  <2>1. Remaining(w) = {}
    BY <1>1 DEF TakeBlock, IInv, IdleInv, IdleOf
  <2>2. CASE f \in Untaken
    <3>1. f \in Untaken' \/ f \in Remaining(w)'
      BY <1>0, <1>1, <2>2 DEF TakeBlock, Untaken, Remaining
    <3> QED
      BY <3>1
  <2>3. ASSUME NEW v \in Workers, f \in Remaining(v) PROVE f \in Remaining(v)'
    BY <1>0, <1>1, <2>1, <2>3 DEF TakeBlock, Remaining
  <2> QED
    BY <2>2, <2>3
<1>2. CASE Decoding(w)
  <2>1. f \in Untaken => f \in Untaken'
    BY <1>0, <1>2 DEF Decoding, Untaken
  <2>2. ASSUME NEW v \in Workers, f \in Remaining(v), f # NextFeature(w)
        PROVE  f \in Remaining(v)'
    BY <1>0, <1>2, <2>2 DEF Decoding, Remaining, NextFeature
  <2> QED
    BY <1>2, <2>1, <2>2
<1>3. CASE UNCHANGED blockVars
  BY <1>0, <1>3 DEF blockVars, Untaken, Remaining
<1> QED
  BY <1>1, <1>2, <1>3, BlockStep

(* Settled features stay settled, and pending entries get into the index.  *)
LEMMA KeepStep ==
    ASSUME IInv, NEW w \in Workers, Worker(w)
    PROVE  /\ Settled \subseteq Settled'
           /\ \A v \in Workers : batch[v] \subseteq batch'[v] \union Settled'
<1>0. TypeOK
  BY DEF IInv
<1> USE <1>0
<1>1. CASE UNCHANGED indexVars
  BY <1>1 DEF indexVars, Settled
<1>2. CASE EndBatch(w)
  BY <1>2 DEF EndBatch, Settled, TypeOK
<1>3. CASE Accept(w)
  BY <1>3 DEF Accept, Put, Settled, TypeOK
<1>4. CASE Reject(w)
  BY <1>4 DEF Reject, Settled
<1>5. CASE WriteLevel(w)
  BY <1>5 DEF WriteLevel, Put, Settled, TypeOK
<1>6. CASE EndResolve(w)
  BY <1>6 DEF EndResolve, Settled
<1> QED
  BY <1>1, <1>2, <1>3, <1>4, <1>5, <1>6
     DEF Worker, TakeBlock, BeginGroup, Defer, Flush, EndBlock, AfterTasks,
         AdvanceFlushPiles, AdvanceFlushIndex, EnterBarrier, Recheck,
         GatherSuperRelations, LevelFlushPiles, LevelEndBatch

(* The main worker gets to the levels through gathering, and gets done     *)
(* through the end of the resolver.                                        *)
LEMMA MainStep ==
    ASSUME IInv, NEW w \in Workers, Worker(w),
           ~GatherSuperRelations(w), ~EndResolve(w), ~WriteLevel(w)
    PROVE  /\ pc'[MainWorker] \in {"level", "levelpost", "levelindex"}
                => pc[MainWorker] \in {"level", "levelpost", "levelindex"}
           /\ pc'[MainWorker] = "done" => pc[MainWorker] = "done"
<1>0. TypeOK /\ MainWorker \in Workers
  BY WorkersAssumption DEF IInv
<1> USE <1>0 DEF Goto, TypeOK
<1>1. CASE EnterBarrier(w)
  BY <1>1, BarrierShape DEF Resumption, EnterBarrier
<1>2. CASE Recheck(w)
  BY <1>2 DEF Recheck, Resumption
<1>3. CASE \/ TakeBlock(w) \/ BeginGroup(w) \/ AfterTasks(w) \/ Accept(w) \/ Reject(w)
           \/ Defer(w) \/ Flush(w) \/ EndBlock(w) \/ AdvanceFlushPiles(w)
           \/ AdvanceFlushIndex(w) \/ LevelFlushPiles(w) \/ LevelEndBatch(w)
  BY <1>3 DEF TakeBlock, BeginGroup, AfterTasks, Accept, Reject, Defer, Flush, EndBlock,
              AdvanceFlushPiles, AdvanceFlushIndex, LevelFlushPiles, LevelEndBatch
<1> QED
  BY <1>1, <1>2, <1>3 DEF Worker

(* No feature gets lost. *)
LEMMA CoverStep ==
    ASSUME IInv, NEW w \in Workers, Worker(w)
    PROVE  CoverInv'
<1>0. TypeOK /\ CoverInv
  BY DEF IInv
<1> USE <1>0
<1>1. \A v \in Workers : deferred[v] \subseteq deferred'[v]
  <2>1. UNCHANGED deferred \/ Defer(w)
    BY DEF Worker, TakeBlock, BeginGroup, Accept, Reject, Flush, superVars,
           EndBlock, AfterTasks, AdvanceFlushPiles, AdvanceFlushIndex, EnterBarrier,
           Recheck, GatherSuperRelations, WriteLevel, LevelFlushPiles, LevelEndBatch,
           EndResolve
  <2> QED
    BY <2>1 DEF Defer, TypeOK
<1>2. /\ Settled \subseteq Settled'
      /\ \A v \in Workers : batch[v] \subseteq batch'[v] \union Settled'
  BY KeepStep
<1>3. ASSUME Decoding(w), NEW f, f = NextFeature(w), f \in Features
      PROVE  \/ Kind(f) # SUPER_RELATIONS /\ f \in Settled'
             \/ Kind(f) # SUPER_RELATIONS /\ f \in batch'[w]
             \/ f \in deferred'[w]
  <2>1. pc[w] = "decode" /\ ~MustAdvance(w) /\ pos' # pos
    BY <1>3 DEF Decoding, HasNext, TypeOK
  <2>2. Accept(w) \/ Reject(w) \/ Defer(w)
    BY <2>1 DEF Worker, TakeBlock, BeginGroup, Flush, EndBlock, AfterTasks,
           AdvanceFlushPiles, AdvanceFlushIndex, EnterBarrier, Recheck, blockVars,
           GatherSuperRelations, WriteLevel, LevelFlushPiles, LevelEndBatch, EndResolve
  <2> QED
    BY <1>3, <2>2 DEF Accept, Put, Reject, Defer, Settled, SUPER_RELATIONS, TypeOK
<1> SUFFICES ASSUME NEW f \in Features
             PROVE  \/ f \in Untaken'
                    \/ \E v \in Workers : f \in Remaining(v)'
                    \/ Kind(f) # SUPER_RELATIONS /\ f \in Settled'
                    \/ Kind(f) # SUPER_RELATIONS /\ \E v \in Workers : f \in batch'[v]
                    \/ \E v \in Workers : f \in deferred'[v]
  BY InputStep DEF CoverInv
<1>4. CASE f \in Untaken \/ \E v \in Workers : f \in Remaining(v)
  BY <1>3, <1>4, LeaveStep
<1>5. CASE Kind(f) # SUPER_RELATIONS /\ f \in Settled
  BY <1>2, <1>5
<1>6. CASE Kind(f) # SUPER_RELATIONS /\ \E v \in Workers : f \in batch[v]
  BY <1>2, <1>6
<1>7. CASE \E v \in Workers : f \in deferred[v]
  BY <1>1, <1>7
<1> QED
  BY <1>4, <1>5, <1>6, <1>7 DEF CoverInv

(* The steps of the reader and the output thread leave the workers alone.  *)
LEMMA OtherStep ==
    ASSUME IInv, Reader \/ WriteOutput \/ UNCHANGED vars
    PROVE  /\ GoalInv' /\ CountdownInv' /\ BarrierInv' /\ AheadInv'
           /\ IdleInv' /\ BatchInv' /\ SuperInv' /\ CoverInv'
<1>1. /\ UNCHANGED <<file, blockVars, phaseVars, superVars, indexVars, pc>>
      /\ closed' => posted' = Len(file')
  BY DEF Reader, PostBlock, EndFile, WriteOutput, vars, readerVars, IInv, IdleInv, TypeOK
<1>2. Features' = Features /\ \A f : Kind(f)' = Kind(f)
  BY <1>1 DEF Features, Kind
<1>3. /\ \A v \in Workers : Passed(v)' = Passed(v) /\ Target(v)' = Target(v)
                            /\ Remaining(v)' = Remaining(v)
      /\ Untaken' = Untaken /\ \A p \in 0..2 : Behind(p)' = Behind(p)
  BY <1>1, <1>2 DEF phaseVars, blockVars, Passed, Target, Remaining, Untaken, Behind
<1>4. GoalInv' /\ CountdownInv'
  BY <1>1, <1>3 DEF IInv, GoalInv, GoalOf, CountdownInv, phaseVars
<1>5. BarrierInv' /\ AheadInv'
  BY <1>1, <1>2, <1>3 DEF IInv, BarrierInv, AheadInv, phaseVars
<1>6. IdleInv' /\ BatchInv' /\ SuperInv'
  BY <1>1, <1>2, <1>3 DEF IInv, IdleInv, IdleOf, BatchInv, BatchOf, SuperInv, phaseVars,
     blockVars, indexVars, superVars
<1>7. CoverInv'
  BY <1>1, <1>2, <1>3 DEF IInv, CoverInv, Settled, indexVars, superVars
<1> QED
  BY <1>4, <1>5, <1>6, <1>7

(* A spurious wakeup changes nothing that matters. *)
LEMMA SpuriousStep ==
    ASSUME IInv, NEW w \in Workers, SpuriousWakeup(w)
    PROVE  /\ TypeOK' /\ GoalInv' /\ CountdownInv' /\ BarrierInv' /\ AheadInv'
           /\ IdleInv' /\ BatchInv' /\ SuperInv' /\ CoverInv'
<1>0. TypeOK
  BY DEF IInv
<1>1. /\ UNCHANGED <<file, taken, blk, pos, phase, goal, countdown, deferred, unresolved,
                     batch, indexed, dropped, posted, closed, piles, outq, written>>
      /\ pc[w] = "waiting" /\ pc' = [pc EXCEPT ![w] = "woken"]
  BY DEF SpuriousWakeup, Goto, readerVars, blockVars, phaseVars, superVars, indexVars, pileVars
<1>2. Features' = Features /\ \A f : Kind(f)' = Kind(f)
  BY <1>1 DEF Features, Kind
<1>3. /\ \A v \in Workers : Passed(v)' = Passed(v) /\ Target(v)' = Target(v)
                            /\ Remaining(v)' = Remaining(v)
      /\ Untaken' = Untaken /\ \A p \in 0..2 : Behind(p)' = Behind(p)
  <2>1. \A v \in Workers : Passed(v)' = Passed(v) /\ Target(v)' = Target(v)
    BY <1>0, <1>1 DEF Passed, Target, Advancing, TypeOK
  <2> QED
    BY <1>1, <1>2, <2>1 DEF Remaining, Untaken, Behind
<1>4. TypeOK' /\ GoalInv'
  <2>1. TypeOK'
    BY <1>0, <1>1, <1>2 DEF TypeOK, Labels
  <2>2. GoalInv'
    BY <1>0, <1>1 DEF IInv, GoalInv, GoalOf, Advancing, Resolving, TypeOK
  <2> QED
    BY <2>1, <2>2
<1>5. CountdownInv' /\ BarrierInv' /\ AheadInv'
  BY <1>1, <1>2, <1>3 DEF IInv, CountdownInv, BarrierInv, AheadInv
<1>6. IdleInv' /\ BatchInv'
  BY <1>0, <1>1, <1>2, <1>3 DEF IInv, IdleInv, IdleOf, BatchInv, BatchOf, Advancing, TypeOK
<1>7. SuperInv' /\ CoverInv'
  BY <1>1, <1>2, <1>3 DEF IInv, SuperInv, CoverInv, Settled
<1> QED
  BY <1>4, <1>5, <1>6, <1>7

(* The inductive invariant is preserved by every step. *)
LEMMA IInvStep == IInv /\ [Next]_vars => IInv'
<1> SUFFICES ASSUME IInv, [Next]_vars PROVE IInv'
  OBVIOUS
<1>1. TypeOK'
  BY TypeStep
<1>2. ASSUME NEW w \in Workers, Worker(w) PROVE IInv'
  BY <1>1, <1>2, GoalStep, CountdownStep, BarrierStep, AheadStep, IdleStep, BatchStep,
     SuperStep, CoverStep DEF IInv
<1>3. CASE Reader \/ WriteOutput \/ UNCHANGED vars
  BY <1>1, <1>3, OtherStep DEF IInv
<1>4. ASSUME NEW w \in Workers, SpuriousWakeup(w) PROVE IInv'
  BY <1>4, SpuriousStep DEF IInv
<1> QED
  BY <1>2, <1>3, <1>4 DEF Next, Joined

-----------------------------------------------------------------------------
(* The theorems. *)

(* The inductive invariant holds in every reachable state of the sorter.   *)
THEOREM IInvHolds == Spec => []IInv
<1>1. Init => IInv
  BY IInvInit
<1>2. IInv /\ [Next]_vars => IInv'
  BY IInvStep
<1> QED
  BY <1>1, <1>2, PTL DEF Spec

(* Threads, queues and indexes of the sorter stay well-formed.             *)
THEOREM TypeCorrect == Spec => []TypeOK
<1>1. IInv => TypeOK
  BY DEF IInv
<1> QED
  BY <1>1, IInvHolds, PTL

(* What the barrier protects, in a single state. *)
LEMMA LowerKindsSettled ==
    ASSUME IInv, NEW w \in Workers, NEW f \in Features, phase[w] > Kind(f)
    PROVE  f \in Settled
<1>1. /\ \A v \in Workers : phase[v] \in 0..3 /\ Passed(v) \in 0..3 /\ Passed(v) >= phase[w]
      /\ Kind(f) \in Kinds
  BY PassedType, FeatureFacts DEF IInv, TypeOK, BarrierInv, Features, Kind
<1>2. GroupPhase(Kind(f)) <= Kind(f) /\ Kind(f) # SUPER_RELATIONS /\ GroupPhase(Kind(f)) \in 0..2
  BY <1>1 DEF Kinds, GroupPhase, SUPER_RELATIONS
<1>3. \A v \in Workers : Target(v) \in 0..3 /\ Target(v) >= Passed(v)
  <2>1. \A v \in Workers : goal[v] \in 0..3 /\ (pc[v] \in Advancing => goal[v] > phase[v])
    BY DEF IInv, TypeOK, GoalInv, GoalOf
  <2> QED
    BY <1>1, <2>1 DEF Target, Passed, Advancing
<1>4. \A v \in Workers : f \notin Untaken /\ f \notin Remaining(v)
  <2> SUFFICES ASSUME NEW v \in Workers, f \in Untaken \union Remaining(v) PROVE FALSE
    OBVIOUS
  <2>1. GroupPhase(Kind(f)) >= Target(v)
    BY DEF IInv, AheadInv
  <2>2. GroupPhase(Kind(f)) < phase[w] /\ Target(v) >= phase[w]
    BY <1>1, <1>2, <1>3 DEF Kinds
  <2> QED
    BY <1>1, <1>2, <1>3, <2>1, <2>2
<1>5. \A v \in Workers : f \notin batch[v]
  <2> SUFFICES ASSUME NEW v \in Workers, f \in batch[v] PROVE FALSE
    OBVIOUS
  <2>1. Kind(f) = phase[v] /\ ~(pc[v] \in {"waiting", "woken"})
    BY DEF IInv, BatchInv, BatchOf
  <2> QED
    BY <1>1, <2>1 DEF Passed
<1>6. \A v \in Workers : f \notin deferred[v]
  BY <1>2 DEF IInv, SuperInv
<1> QED
  BY <1>4, <1>5, <1>6 DEF IInv, CoverInv

(* Whoever works in a phase finds the members of lower kinds in the        *)
(* indexes, whatever the number of workers and the interleaving.           *)
THEOREM MembersAlwaysIndexed == Spec => []MembersIndexed
<1>1. IInv => MembersIndexed
  <2> SUFFICES ASSUME IInv, NEW w \in Workers, NEW f \in Features, phase[w] > Kind(f)
               PROVE  f \in Settled
    BY DEF MembersIndexed
  <2> QED
    BY LowerKindsSettled
<1> QED
  BY <1>1, IInvHolds, PTL

(* The assertions of the code hold: phases only increase, countdowns never *)
(* go below zero, no entry is left pending or put into a wrong index.      *)
THEOREM AssertionsAlwaysHold == Spec => []AssertionsHold
<1>1. ASSUME IInv, NEW w \in Workers, pc[w] = "barrier",
             NEW p \in phase[w]..(goal[w] - 1)
      PROVE  countdown[p] > 0
  <2>1. p \in 0..2 /\ phase[w] <= p
    <3>1. phase[w] \in 0..3 /\ goal[w] \in 0..3
      BY <1>1 DEF IInv, TypeOK
    <3> QED
      BY <3>1
  <2>2. w \in Behind(p)
    BY <1>1, <2>1 DEF Behind, Passed
  <2>3. Behind(p) \in SUBSET Workers
    BY DEF Behind
  <2>4. countdown[p] = Cardinality(Behind(p))
    BY <1>1, <2>1 DEF IInv, CountdownInv
  <2>5. Cardinality(Behind(p)) \in Nat /\ ~(Cardinality(Behind(p)) <= 0)
    BY <2>2, <2>3, WorkerSets
  <2> QED
    BY <2>4, <2>5
<1>2. IInv => AssertionsHold
  <2> SUFFICES ASSUME IInv, NEW w \in Workers
               PROVE  /\ pc[w] \in Advancing => goal[w] > phase[w]
                      /\ pc[w] = "barrier"
                            => \A p \in phase[w]..(goal[w] - 1) : countdown[p] > 0
                      /\ pc[w] \in {"waiting", "woken", "resolve", "done"} => batch[w] = {}
                      /\ \A f \in batch[w] : Kind(f) = phase[w]
    BY DEF AssertionsHold, Advancing
  <2>1. pc[w] \in Advancing => goal[w] > phase[w]
    BY DEF IInv, GoalInv, GoalOf
  <2>2. BatchOf(w)
    BY DEF IInv, BatchInv
  <2> QED
    BY <1>1, <2>1, <2>2 DEF BatchOf
<1> QED
  BY <1>2, IInvHolds, PTL

(* The resolver sees every super-relation of the file. *)
THEOREM SuperRelationsAlwaysGathered == Spec => []SuperRelationsGathered
<1>1. Init => SuperRelationsGathered
  BY WorkersAssumption DEF Init, SuperRelationsGathered
<1>2. ASSUME IInv, SuperRelationsGathered, NEW w \in Workers, Worker(w)
      PROVE  SuperRelationsGathered'
  <2>0. MainWorker \in Workers /\ TypeOK
    BY <1>2, WorkersAssumption DEF IInv
  <2>1. CASE GatherSuperRelations(w)
    <3>1. w = MainWorker /\ phase[w] = SUPER_RELATIONS
      BY <1>2, <2>1 DEF GatherSuperRelations, IInv, GoalInv, GoalOf, Resolving
    <3>2. ASSUME NEW f \in Features, Kind(f) = SUPER_RELATIONS
          PROVE  \E v \in Workers : f \in deferred[v]
      <4>1. GroupPhase(Kind(f)) = 2
        BY <3>2 DEF GroupPhase
      <4>2. ASSUME NEW v \in Workers PROVE Target(v) >= 3 /\ Target(v) \in 0..3
        <5>1. /\ Passed(v) >= phase[w] /\ goal[v] \in 0..3 /\ phase[v] \in 0..3
              /\ pc[v] \in Advancing => goal[v] > phase[v]
          BY <1>2 DEF IInv, BarrierInv, GoalInv, GoalOf, TypeOK
        <5> QED
          BY <3>1, <5>1 DEF Passed, Target, Advancing, SUPER_RELATIONS
      <4>3. \A v \in Workers : f \notin Untaken /\ f \notin Remaining(v)
        BY <1>2, <4>1, <4>2 DEF IInv, AheadInv
      <4> QED
        BY <1>2, <3>2, <4>3 DEF IInv, CoverInv
    <3> QED
      BY <1>2, <2>1, <3>2, InputStep DEF GatherSuperRelations, SuperRelationsGathered
  <2>2. CASE WriteLevel(w)
    <3>1. w = MainWorker
      BY <1>2, <2>2 DEF WriteLevel, IInv, GoalInv, GoalOf, Resolving
    <3> QED
      BY <1>2, <2>0, <2>2, <3>1, InputStep
         DEF WriteLevel, Put, Settled, SuperRelationsGathered, Goto, TypeOK
  <2>3. CASE EndResolve(w)
    BY <1>2, <2>0, <2>3, InputStep
       DEF EndResolve, Settled, SuperRelationsGathered, Goto, IInv, GoalInv, GoalOf,
           Resolving, TypeOK
  <2>4. CASE ~GatherSuperRelations(w) /\ ~WriteLevel(w) /\ ~EndResolve(w)
    <3>1. UNCHANGED unresolved
      BY <1>2, <2>4 DEF Worker, TakeBlock, BeginGroup, Accept, Reject, Defer, Flush,
             EndBlock, AfterTasks, AdvanceFlushPiles, AdvanceFlushIndex, EnterBarrier,
             Recheck, LevelFlushPiles, LevelEndBatch, superVars
    <3>2. /\ Settled \subseteq Settled'
          /\ batch[MainWorker] \subseteq batch'[MainWorker] \union Settled'
      BY <1>2, <2>0, KeepStep
    <3>3. /\ pc'[MainWorker] \in {"level", "levelpost", "levelindex"}
                => pc[MainWorker] \in {"level", "levelpost", "levelindex"}
          /\ pc'[MainWorker] = "done" => pc[MainWorker] = "done"
      BY <1>2, <2>0, <2>4, MainStep
    <3> QED
      BY <1>2, <3>1, <3>2, <3>3, InputStep DEF SuperRelationsGathered
  <2> QED
    BY <2>1, <2>2, <2>3, <2>4
<1>3. ASSUME IInv, SuperRelationsGathered, Reader \/ WriteOutput \/ UNCHANGED vars
      PROVE  SuperRelationsGathered'
  BY <1>3 DEF Reader, PostBlock, EndFile, WriteOutput, vars, superVars, indexVars,
              readerVars, SuperRelationsGathered, Settled, Features, Kind
<1>5. ASSUME IInv, SuperRelationsGathered, NEW w \in Workers, SpuriousWakeup(w)
      PROVE  SuperRelationsGathered'
  BY <1>5 DEF SpuriousWakeup, Goto, superVars, indexVars, readerVars, IInv, TypeOK,
              SuperRelationsGathered, Settled, Features, Kind
<1>4. IInv /\ SuperRelationsGathered /\ [Next]_vars => SuperRelationsGathered'
  BY <1>2, <1>3, <1>5 DEF Next, Joined
<1> QED
  BY <1>1, <1>4, IInvHolds, PTL DEF Spec

-----------------------------------------------------------------------------
(* Nothing that was put into a pile or into an index batch is left behind. *)

(* Closing and posting the piles loses and invents no feature. *)
LEMMA PostKeeps ==
    ASSUME TypeOK, NEW w \in Workers, PostPiles(w), NEW f
    PROVE  Out(f)' <=> Out(f)
<1>1. /\ outq \in Seq(SUBSET Features) /\ piles \in [Workers -> SUBSET Features]
      /\ outq' = Append(outq, piles[w]) /\ piles' = [piles EXCEPT ![w] = {}]
      /\ written' = written
  BY DEF TypeOK, PostPiles
<1>2. piles[w] \in SUBSET Features
  BY <1>1
<1>3. /\ Len(outq) \in Nat /\ DOMAIN outq = 1..Len(outq)
      /\ DOMAIN outq' = 1..(Len(outq) + 1)
      /\ outq'[Len(outq) + 1] = piles[w]
      /\ \A i \in 1..Len(outq) : outq'[i] = outq[i]
  BY <1>1, <1>2
<1>4. (\E i \in DOMAIN outq' : f \in outq'[i]) <=> f \in piles[w] \/ \E i \in DOMAIN outq : f \in outq[i]
  <2>1. \A i \in DOMAIN outq' : i = Len(outq) + 1 \/ i \in DOMAIN outq
    BY <1>3
  <2>2. DOMAIN outq \subseteq DOMAIN outq' /\ Len(outq) + 1 \in DOMAIN outq'
    BY <1>3
  <2> QED
    BY <1>3, <2>1, <2>2
<1>5. (\E v \in Workers : f \in piles'[v]) <=> \E v \in Workers \ {w} : f \in piles[v]
  BY <1>1
<1> QED
  BY <1>1, <1>4, <1>5 DEF Out

(* The output thread moves a buffer from the queue to the file. *)
LEMMA WriteKeeps ==
    ASSUME TypeOK, WriteOutput, NEW f
    PROVE  Out(f)' <=> Out(f)
<1>1. /\ outq \in Seq(SUBSET Features) /\ outq # << >> /\ outq' = Tail(outq)
      /\ written' = written \union Head(outq) /\ piles' = piles
  BY DEF TypeOK, WriteOutput
<1>2. /\ Len(outq) \in Nat \ {0} /\ DOMAIN outq = 1..Len(outq)
      /\ DOMAIN outq' = 1..(Len(outq) - 1)
      /\ Head(outq) = outq[1]
      /\ \A i \in 1..(Len(outq) - 1) : outq'[i] = outq[i + 1]
  BY <1>1
<1>3. \A i \in DOMAIN outq : i = 1 \/ (i - 1 \in DOMAIN outq' /\ outq'[i - 1] = outq[i])
  BY <1>2
<1>4. 1 \in DOMAIN outq
      /\ \A i \in DOMAIN outq' : i + 1 \in DOMAIN outq /\ outq'[i] = outq[i + 1]
  BY <1>2
<1>5. f \in Head(outq) \/ (\E i \in DOMAIN outq' : f \in outq'[i])
        <=> \E i \in DOMAIN outq : f \in outq[i]
  <2>1. ASSUME NEW i \in DOMAIN outq, f \in outq[i]
        PROVE  f \in Head(outq) \/ \E j \in DOMAIN outq' : f \in outq'[j]
    BY <1>2, <1>3, <2>1
  <2>2. ASSUME NEW j \in DOMAIN outq', f \in outq'[j]
        PROVE  \E i \in DOMAIN outq : f \in outq[i]
    BY <1>4, <2>2
  <2> QED
    BY <1>2, <1>4, <2>1, <2>2
<1> QED
  BY <1>1, <1>5 DEF Out

(* Handing the pending entries to the index loses and invents none. *)
LEMMA EndBatchKeeps ==
    ASSUME TypeOK, NEW w \in Workers, EndBatch(w), NEW f
    PROVE  Entered(f)' <=> Entered(f)
BY DEF TypeOK, EndBatch, Entered

(* A feature that is put is both in a pile and among the pending entries.  *)
LEMMA PutAdds ==
    ASSUME TypeOK, NEW w \in Workers, NEW S, Put(w, S), NEW f
    PROVE  /\ Out(f)' <=> Out(f) \/ f \in S
           /\ Entered(f)' <=> Entered(f) \/ f \in S
<1>1. /\ piles' = [piles EXCEPT ![w] = @ \union S]
      /\ batch' = [batch EXCEPT ![w] = @ \union S]
      /\ UNCHANGED <<outq, written, indexed, dropped>>
      /\ DOMAIN piles = Workers /\ DOMAIN batch = Workers
  BY DEF TypeOK, Put
<1>2. (\E v \in Workers : f \in piles'[v]) <=> f \in S \/ \E v \in Workers : f \in piles[v]
  BY <1>1
<1>3. (\E v \in Workers : f \in batch'[v]) <=> f \in S \/ \E v \in Workers : f \in batch[v]
  BY <1>1
<1>4. Out(f)' <=> Out(f) \/ f \in S
  BY <1>1, <1>2 DEF Out
<1>5. Entered(f)' <=> Entered(f) \/ f \in S
  BY <1>1, <1>3 DEF Entered
<1> QED
  BY <1>4, <1>5

(* A step that touches piles or entries posts the piles, writes a buffer,  *)
(* ends a batch or puts features.                                          *)
LEMMA PileStep ==
    ASSUME [Next]_vars
    PROVE  \/ \E w \in Workers : PostPiles(w) /\ UNCHANGED indexVars
           \/ WriteOutput
           \/ \E w \in Workers : EndBatch(w) /\ UNCHANGED pileVars
           \/ \E w \in Workers : \E S : Put(w, S)
           \/ UNCHANGED <<pileVars, batch, indexed>>
<1>1. CASE Reader \/ UNCHANGED vars
  BY <1>1 DEF Reader, PostBlock, EndFile, vars, indexVars
<1>2. ASSUME NEW w \in Workers, Flush(w) \/ AdvanceFlushPiles(w) \/ LevelFlushPiles(w)
      PROVE  PostPiles(w) /\ UNCHANGED indexVars
  BY <1>2 DEF Flush, AdvanceFlushPiles, LevelFlushPiles
<1>3. ASSUME NEW w \in Workers, EndBlock(w) \/ AdvanceFlushIndex(w) \/ LevelEndBatch(w)
      PROVE  EndBatch(w) /\ UNCHANGED pileVars
  BY <1>3 DEF EndBlock, AdvanceFlushIndex, LevelEndBatch
<1>4. ASSUME NEW w \in Workers, Accept(w) \/ WriteLevel(w)
      PROVE  \E S : Put(w, S)
  BY <1>4 DEF Accept, WriteLevel
<1>5. ASSUME NEW w \in Workers,
             \/ TakeBlock(w) \/ BeginGroup(w) \/ Reject(w) \/ Defer(w) \/ AfterTasks(w)
             \/ EnterBarrier(w) \/ Recheck(w) \/ GatherSuperRelations(w)
             \/ EndResolve(w) \/ SpuriousWakeup(w)
      PROVE  UNCHANGED <<pileVars, batch, indexed>>
  BY <1>5 DEF TakeBlock, BeginGroup, Reject, Defer, AfterTasks, EnterBarrier, Recheck,
              GatherSuperRelations, EndResolve, SpuriousWakeup, indexVars
<1>6. ASSUME NEW w \in Workers, Worker(w) \/ SpuriousWakeup(w)
      PROVE  \/ PostPiles(w) /\ UNCHANGED indexVars
             \/ EndBatch(w) /\ UNCHANGED pileVars
             \/ \E S : Put(w, S)
             \/ UNCHANGED <<pileVars, batch, indexed>>
  BY <1>2, <1>3, <1>4, <1>5, <1>6, Zenon DEF Worker
<1> QED
  BY <1>1, <1>6, Zenon DEF Next, Joined

(* Piles and entries stay in step with each other. *)
LEMMA MatchStep ==
    ASSUME TypeOK, MatchInv, [Next]_vars
    PROVE  MatchInv'
<1>6. Features' = Features
  BY InputStep DEF Next, Reader, PostBlock, EndFile, WriteOutput, Joined, SpuriousWakeup, vars,
                   readerVars, Features
<1> SUFFICES ASSUME NEW f \in Features PROVE Out(f)' <=> Entered(f)'
  BY <1>6 DEF MatchInv
<1>0. Out(f) <=> Entered(f)
  BY DEF MatchInv
<1>1. CASE \E w \in Workers : PostPiles(w) /\ UNCHANGED indexVars
  BY <1>0, <1>1, PostKeeps DEF indexVars, Entered
<1>2. CASE WriteOutput
  BY <1>0, <1>2, WriteKeeps DEF WriteOutput, indexVars, Entered
<1>3. CASE \E w \in Workers : EndBatch(w) /\ UNCHANGED pileVars
  BY <1>0, <1>3, EndBatchKeeps DEF pileVars, Out
<1>4. CASE \E w \in Workers : \E S : Put(w, S)
  BY <1>0, <1>4, PutAdds
<1>5. CASE UNCHANGED <<pileVars, batch, indexed>>
  BY <1>0, <1>5 DEF pileVars, Out, Entered
<1> QED
  BY <1>1, <1>2, <1>3, <1>4, <1>5, PileStep

(* Past the flush of its piles a worker has nothing in them until it       *)
(* decodes again or writes the next level.                                 *)
LEMMA EmptyStep ==
    ASSUME TypeOK, EmptyInv, [Next]_vars
    PROVE  EmptyInv'
<1> SUFFICES ASSUME NEW v \in Workers, pc'[v] \in Emptied PROVE piles'[v] = {}
  BY DEF EmptyInv
<1>0. pc[v] \in Emptied => piles[v] = {}
  BY DEF EmptyInv
<1>1. CASE Reader \/ WriteOutput \/ UNCHANGED vars
  BY <1>0, <1>1 DEF Reader, PostBlock, EndFile, WriteOutput, vars, pileVars
<1>2. ASSUME NEW w \in Workers, Worker(w) \/ SpuriousWakeup(w), v # w
      PROVE  piles'[v] = {}
  <2>1. piles'[v] = piles[v]
    <3>1. CASE UNCHANGED piles
      BY <3>1
    <3>2. CASE PostPiles(w) \/ \E S : Put(w, S)
      BY <1>2, <3>2 DEF PostPiles, Put, TypeOK
    <3> QED
      BY <1>2, <3>1, <3>2 DEF Worker, TakeBlock, BeginGroup, Accept, Reject, Defer, Flush,
         EndBlock, AfterTasks, AdvanceFlushPiles, AdvanceFlushIndex, EnterBarrier, Recheck,
         GatherSuperRelations, WriteLevel, LevelFlushPiles, LevelEndBatch, EndResolve,
         SpuriousWakeup, pileVars
  <2>2. pc'[v] = pc[v] \/ pc[v] = "waiting"
    <3>1. CASE EnterBarrier(w)
      BY <1>2, <3>1, BarrierShape
    <3>2. CASE UNCHANGED pc \/ \E l : Goto(w, l)
      BY <1>2, <3>2 DEF Goto, TypeOK
    <3> QED
      BY <1>2, <3>1, <3>2 DEF Worker, TakeBlock, BeginGroup, Accept, Reject, Defer, Flush,
         EndBlock, AfterTasks, AdvanceFlushPiles, AdvanceFlushIndex, Recheck,
         GatherSuperRelations, WriteLevel, LevelFlushPiles, LevelEndBatch, EndResolve,
         SpuriousWakeup
  <2> QED
    BY <1>0, <2>1, <2>2 DEF Emptied
<1>3. CASE \/ TakeBlock(v) \/ BeginGroup(v) \/ Accept(v) \/ Reject(v) \/ Defer(v)
           \/ Flush(v) \/ EndBlock(v) \/ AfterTasks(v) \/ WriteLevel(v)
  BY <1>3 DEF TakeBlock, BeginGroup, Accept, Reject, Defer, Decoding, HasNext, Flush,
              EndBlock, AfterTasks, WriteLevel, Goto, Emptied, TypeOK
<1>4. CASE AdvanceFlushPiles(v) \/ LevelFlushPiles(v)
  BY <1>4 DEF AdvanceFlushPiles, LevelFlushPiles, PostPiles, TypeOK
<1>5. CASE \/ AdvanceFlushIndex(v) \/ EnterBarrier(v) \/ Recheck(v) \/ GatherSuperRelations(v)
           \/ LevelEndBatch(v) \/ EndResolve(v) \/ SpuriousWakeup(v)
  BY <1>0, <1>5 DEF AdvanceFlushIndex, EnterBarrier, Recheck, GatherSuperRelations,
                    LevelEndBatch, EndResolve, SpuriousWakeup, pileVars, Emptied
<1> QED
  BY <1>1, <1>2, <1>3, <1>4, <1>5 DEF Next, Worker, Joined

(* Nothing is left to the resolver once it has ended. *)
LEMMA ResolvedStep ==
    ASSUME IInv, ResolvedInv, [Next]_vars
    PROVE  ResolvedInv'
<1>0. MainWorker \in Workers /\ TypeOK
  BY WorkersAssumption DEF IInv
<1> SUFFICES ASSUME pc'[MainWorker] = "done" PROVE unresolved' = {}
  BY DEF ResolvedInv
<1>1. ASSUME NEW w \in Workers, GatherSuperRelations(w) \/ WriteLevel(w) PROVE FALSE
  BY <1>0, <1>1 DEF GatherSuperRelations, WriteLevel, Goto, IInv, GoalInv, GoalOf, Resolving,
                    TypeOK
<1>2. ASSUME NEW w \in Workers, EndResolve(w) PROVE unresolved' = {}
  BY <1>2 DEF EndResolve
<1>3. ASSUME NEW w \in Workers, Worker(w), ~EndResolve(w) PROVE unresolved' = {}
  <2>1. pc[MainWorker] = "done"
    BY <1>1, <1>3, MainStep
  <2>2. UNCHANGED unresolved
    BY <1>1, <1>3 DEF Worker, TakeBlock, BeginGroup, Accept, Reject, Defer, Flush,
       EndBlock, AfterTasks, AdvanceFlushPiles, AdvanceFlushIndex, EnterBarrier,
       Recheck, LevelFlushPiles, LevelEndBatch, superVars
  <2> QED
    BY <2>1, <2>2 DEF ResolvedInv
<1>4. CASE Reader \/ WriteOutput \/ UNCHANGED vars
  BY <1>4 DEF Reader, PostBlock, EndFile, WriteOutput, vars, superVars, ResolvedInv
<1>5. ASSUME NEW w \in Workers, SpuriousWakeup(w) PROVE unresolved' = {}
  BY <1>0, <1>5 DEF SpuriousWakeup, Goto, superVars, ResolvedInv, TypeOK
<1> QED
  BY <1>2, <1>3, <1>4, <1>5 DEF Next, Joined

(* What the three invariants and the cover of the file say of the end.     *)
LEMMA FinishedFacts ==
    ASSUME IInv, MatchInv, EmptyInv, ResolvedInv, SuperRelationsGathered, Finished
    PROVE  written = indexed /\ indexed \union dropped = Features
<1>0. /\ MainWorker \in Workers /\ TypeOK
      /\ \A w \in Workers : pc[w] = "done"
      /\ outq = << >>
  BY WorkersAssumption DEF IInv, Finished
<1>1. \A w \in Workers : batch[w] = {} /\ piles[w] = {} /\ phase[w] = SUPER_RELATIONS
  BY <1>0 DEF IInv, BatchInv, BatchOf, EmptyInv, Emptied, GoalInv, GoalOf
<1>2. \A f \in Features : f \in written <=> f \in indexed
  BY <1>0, <1>1 DEF MatchInv, Out, Entered
<1>3. ASSUME NEW f \in Features PROVE f \in Settled
  <2>1. Kind(f) \in Kinds
    BY <1>0, FeatureFacts DEF TypeOK, Features, Kind
  <2>2. ~(GroupPhase(Kind(f)) >= SUPER_RELATIONS)
    BY <2>1 DEF GroupPhase, Kinds, SUPER_RELATIONS
  <2>3. \A w \in Workers : f \notin Untaken /\ f \notin Remaining(w)
    <3>1. \A w \in Workers : Target(w) = SUPER_RELATIONS
      BY <1>0, <1>1 DEF Target, Advancing
    <3> QED
      BY <2>2, <3>1 DEF IInv, AheadInv
  <2>4. CASE \E w \in Workers : f \in deferred[w]
    <3>1. Kind(f) = SUPER_RELATIONS
      BY <2>4 DEF IInv, SuperInv
    <3>2. unresolved = {}
      BY <1>0 DEF ResolvedInv
    <3> QED
      BY <1>0, <1>1, <3>1, <3>2 DEF SuperRelationsGathered
  <2> QED
    BY <1>0, <1>1, <2>3, <2>4 DEF IInv, CoverInv
<1>4. indexed \subseteq Features /\ dropped \subseteq Features /\ written \subseteq Features
  BY <1>0 DEF TypeOK
<1> QED
  BY <1>2, <1>3, <1>4 DEF Settled

(* When the threads are joined, every feature of the file that was not     *)
(* rejected is in the pile file and in its index, and nothing else is:     *)
(* afterTasks() and the flushes of a level leave no partial buffer.        *)
THEOREM EverythingAlwaysWritten == Spec => []EverythingWritten
<1>1. Init => MatchInv /\ EmptyInv /\ ResolvedInv
  BY WorkersAssumption DEF Init, MatchInv, Out, Entered, EmptyInv, Emptied, ResolvedInv
<1>2. /\ IInv /\ [Next]_vars /\ MatchInv => MatchInv'
      /\ IInv /\ [Next]_vars /\ EmptyInv => EmptyInv'
      /\ IInv /\ [Next]_vars /\ ResolvedInv => ResolvedInv'
  BY MatchStep, EmptyStep, ResolvedStep DEF IInv
<1>3. IInv /\ MatchInv /\ EmptyInv /\ ResolvedInv /\ SuperRelationsGathered
        => EverythingWritten
  BY FinishedFacts DEF EverythingWritten
<1> QED
  BY <1>1, <1>2, <1>3, IInvHolds, SuperRelationsAlwaysGathered, PTL DEF Spec

-----------------------------------------------------------------------------
(* The Sorter implements PhasedSort. *)

(* What a step settles has the lowest kind of what was unsettled.          *)
LEMMA SettleStep ==
    ASSUME IInv, [Next]_vars
    PROVE  /\ Settled \subseteq Settled' /\ Settled' \subseteq Features
           /\ \A f \in Settled' \ Settled, g \in Features \ Settled : Kind(f) <= Kind(g)
<1>0. /\ TypeOK /\ TypeOK' /\ UNCHANGED file
      /\ \A f \in Features : Kind(f) \in Kinds
  <2>1. UNCHANGED file
    BY InputStep DEF Next, Reader, PostBlock, EndFile, WriteOutput, Joined, SpuriousWakeup, vars, readerVars
  <2>2. \A f \in Features : Kind(f) \in Kinds
    BY FeatureFacts DEF IInv, TypeOK, Features, Kind
  <2> QED
    BY <2>1, <2>2, TypeStep DEF IInv
<1>1. ASSUME NEW w \in Workers, NEW f \in Features, Kind(f) = phase[w],
             NEW g \in Features \ Settled
      PROVE  Kind(f) <= Kind(g)
  <2>1. ~(phase[w] > Kind(g))
    BY <1>1, LowerKindsSettled
  <2> QED
    BY <1>0, <1>1, <2>1 DEF Kinds
<1>2. CASE UNCHANGED <<indexed, dropped>>
  BY <1>0, <1>2 DEF Settled, TypeOK, Features
<1>3. ASSUME NEW w \in Workers, Worker(w), ~UNCHANGED <<indexed, dropped>>
      PROVE  /\ Settled \subseteq Settled'
             /\ \A f \in Settled' \ Settled : f \in Features /\ Kind(f) = phase[w]
  <2>1. CASE EndBatch(w)
    BY <1>0, <2>1 DEF EndBatch, Settled, IInv, BatchInv, BatchOf, TypeOK
  <2>2. CASE Reject(w)
    <3>1. NextFeature(w) \in Features /\ Kind(NextFeature(w)) = phase[w]
      BY <2>2, NextFeatureFacts
         DEF Reject, Decoding, MustAdvance, GroupPhase, SUPER_RELATIONS, IInv
    <3> QED
      BY <2>2, <3>1 DEF Reject, Settled
  <2>3. CASE EndResolve(w)
    BY <1>0, <2>3 DEF EndResolve, Settled, IInv, GoalInv, GoalOf, Resolving, SuperInv, TypeOK
  <2>4. EndBatch(w) \/ Reject(w) \/ EndResolve(w)
    BY <1>3 DEF Worker, TakeBlock, BeginGroup, Accept, Defer, Flush, EndBlock, AfterTasks,
           AdvanceFlushPiles, AdvanceFlushIndex, EnterBarrier, Recheck, Put, indexVars,
           GatherSuperRelations, WriteLevel, LevelFlushPiles, LevelEndBatch
  <2> QED
    BY <2>1, <2>2, <2>3, <2>4
<1>4. CASE \E w \in Workers : Worker(w) /\ ~UNCHANGED <<indexed, dropped>>
  <2>1. PICK w \in Workers : Worker(w) /\ ~UNCHANGED <<indexed, dropped>>
    BY <1>4
  <2>2. Settled' \subseteq Features
    BY <1>0 DEF TypeOK, Settled, Features
  <2> QED
    BY <1>1, <1>3, <2>1, <2>2
<1> QED
  BY <1>2, <1>4
     DEF Next, Reader, PostBlock, EndFile, WriteOutput, Joined, SpuriousWakeup, vars, indexVars

(* Every behaviour of the sorter settles the features of its input in the  *)
(* order of their kinds, as PhasedSort demands.                            *)
THEOREM Refinement == Spec => PS!Spec
<1>1. Init => PS!Init
  BY DEF Init, PS!Init, Settled, Features, Kind
<1>2. IInv /\ [Next]_vars => [PS!Next]_(PS!vars)
  <2> SUFFICES ASSUME IInv, [Next]_vars PROVE [PS!Next]_(PS!vars)
    OBVIOUS
  <2>1. Features' = Features /\ [f \in Features |-> Kind(f)]' = [f \in Features |-> Kind(f)]
    <3>1. UNCHANGED file
      BY InputStep DEF Next, Reader, PostBlock, EndFile, WriteOutput, Joined, SpuriousWakeup, vars, readerVars
    <3> QED
      BY <3>1 DEF Features, Kind
  <2>2. CASE Settled' = Settled
    BY <2>1, <2>2 DEF PS!vars
  <2>3. CASE Settled' # Settled
    <3>1. /\ Settled' \ Settled \in SUBSET PS!Unsettled
          /\ Settled' \ Settled # {}
          /\ Settled' = Settled \union (Settled' \ Settled)
      BY <2>3, SettleStep DEF PS!Unsettled
    <3>2. PS!Settle(Settled' \ Settled)
      <4>1. \A f \in Settled' \ Settled, g \in PS!Unsettled :
               [h \in Features |-> Kind(h)][f] <= [h \in Features |-> Kind(h)][g]
        BY SettleStep DEF PS!Unsettled
      <4> QED
        BY <2>1, <3>1, <4>1 DEF PS!Settle
    <3> QED
      BY <3>1, <3>2 DEF PS!Next
  <2> QED
    BY <2>2, <2>3
<1> QED
  BY <1>1, <1>2, IInvHolds, PTL DEF Spec, PS!Spec

-----------------------------------------------------------------------------
(***************************************************************************)
(* The feature index, for entries and cells of any width, and any number   *)
(* of workers that write batches of disjoint ranges.                       *)
(***************************************************************************)

(* The bit of the index where an entry begins, when the cells are laid out *)
(* one behind the other; the bits of a cell that belong to an entry; and   *)
(* those of them that are 1 once it has been put.                          *)
Spot(id) == CellsPerSegment * CellBits * (id \div SlotsPerSegment)
              + (id % SlotsPerSegment) * ValueWidth
Room(id, c) == {b \in Bits : CellBits * c + b - Spot(id) \in 0..(ValueWidth - 1)}
Part(id, c) == {b \in Bits : CellBits * c + b - Spot(id) \in Pile[id]}

LastCell(id) == IF Overflow(id) > 0 THEN Access(id).cell + 1 ELSE Access(id).cell

-----------------------------------------------------------------------------
(* Arithmetic *)

LEMMA Division ==
  ASSUME NEW a \in Nat, NEW b \in Nat \ {0}
  PROVE  /\ a \div b \in Nat /\ a % b \in Nat /\ a % b < b
         /\ a = b * (a \div b) + (a % b)
OBVIOUS

LEMMA Times ==
  ASSUME NEW a \in Nat, NEW b \in Nat, NEW c \in Nat, a <= b
  PROVE  a * c <= b * c /\ c * a <= c * b /\ a * c \in Nat
OBVIOUS

(* In numbers of the form q * b + r with r < b, the quotient decides.      *)
LEMMA Quotients ==
  ASSUME NEW b \in Nat \ {0}, NEW p \in Nat, NEW q \in Nat, NEW x \in Int, NEW y \in Nat,
         x < b, b * p + y <= b * q + x
  PROVE  p <= q
<1> SUFFICES ASSUME q + 1 <= p PROVE FALSE
  OBVIOUS
<1>1. b * (q + 1) <= b * p
  BY Times
<1>2. b * (q + 1) = b * q + b
  OBVIOUS
<1>3. b * q \in Nat /\ b * p \in Nat /\ b * (q + 1) \in Nat
  OBVIOUS
<1> QED BY <1>1, <1>2, <1>3

(* A segment has room for its slots.                                       *)
LEMMA Slots ==
  /\ SlotsPerSegment \in Nat \ {0}
  /\ SlotsPerSegment * ValueWidth <= CellsPerSegment * CellBits
  /\ CellsPerSegment * CellBits \in Nat
<1>1. PICK x : x = CellsPerSegment * CellBits
  OBVIOUS
<1>2. x \in Nat /\ CellBits <= x
  <2>1. CellsPerSegment \in Nat /\ 1 <= CellsPerSegment /\ CellBits \in Nat
    BY WidthAssumption
  <2>2. 1 * CellBits <= CellsPerSegment * CellBits /\ CellsPerSegment * CellBits \in Nat
    BY <2>1, Times
  <2> QED BY <1>1, <2>1, <2>2
<1>3. ValueWidth \in Nat \ {0} /\ ValueWidth <= x
  BY <1>2, WidthAssumption
<1>4. PICK q, r : q = x \div ValueWidth /\ r = x % ValueWidth
  OBVIOUS
<1>5. q \in Nat /\ r \in Nat /\ r < ValueWidth /\ x = ValueWidth * q + r
  BY <1>2, <1>3, <1>4, Division
<1>6. q # 0
  <2> SUFFICES ASSUME q = 0 PROVE FALSE
    OBVIOUS
  <2>1. ValueWidth * q = 0
    BY <1>3
  <2> QED BY <1>3, <1>5, <2>1
<1>7. q * ValueWidth <= x
  <2>1. q * ValueWidth = ValueWidth * q /\ q * ValueWidth \in Nat
    BY <1>3, <1>5
  <2> QED BY <1>5, <2>1
<1> QED BY <1>1, <1>2, <1>4, <1>5, <1>6, <1>7 DEF SlotsPerSegment

(* access() finds the spot of an entry.                                    *)
LEMMA Placement ==
  ASSUME NEW id \in Ids
  PROVE  /\ Access(id).cell \in Nat /\ Access(id).offset \in Bits
         /\ Access(id).offset \in Nat /\ Spot(id) \in Nat
         /\ Spot(id) = CellBits * Access(id).cell + Access(id).offset
         /\ Overflow(id) = Access(id).offset + ValueWidth - CellBits
<1>1. PICK s : s = SlotsPerSegment
  OBVIOUS
<1>2. s \in Nat \ {0}
  BY <1>1, Slots
<1>3. id \in Nat
  BY WidthAssumption DEF Ids
<1>4. PICK q, r : q = id \div s /\ r = id % s
  OBVIOUS
<1>5. q \in Nat /\ r \in Nat
  BY <1>2, <1>3, <1>4, Division
<1>6. ValueWidth \in Nat /\ CellBits \in Nat \ {0} /\ CellsPerSegment \in Nat
  BY WidthAssumption
<1>7. PICK bit : bit = r * ValueWidth
  OBVIOUS
<1>8. bit \in Nat
  BY <1>5, <1>6, <1>7
<1>9. PICK d, o : d = bit \div CellBits /\ o = bit % CellBits
  OBVIOUS
<1>10. d \in Nat /\ o \in Nat /\ o < CellBits /\ bit = CellBits * d + o
  BY <1>6, <1>8, <1>9, Division
<1>11. Access(id) = [cell |-> CellsPerSegment * q + d, offset |-> o]
  BY <1>1, <1>4, <1>7, <1>9 DEF Access
<1>12. Spot(id) = CellsPerSegment * CellBits * q + bit
  BY <1>1, <1>4, <1>7 DEF Spot
<1>13. CellsPerSegment * q \in Nat
  BY <1>5, <1>6
<1>14. CellBits * (CellsPerSegment * q + d) = CellsPerSegment * CellBits * q + CellBits * d
  BY <1>5, <1>6, <1>10
<1>15. CellsPerSegment * CellBits * q \in Nat
  <2>1. CellsPerSegment * CellBits \in Nat
    BY <1>6
  <2> QED BY <1>5, <2>1
<1>16. CellBits * d \in Nat
  BY <1>6, <1>10
<1> QED BY <1>6, <1>8, <1>10, <1>11, <1>12, <1>13, <1>14, <1>15, <1>16 DEF Bits, Overflow

(* The entries of greater IDs lie behind.                                  *)
LEMMA SpotOrder ==
  ASSUME NEW i \in Ids, NEW j \in Ids, i < j
  PROVE  Spot(i) + ValueWidth <= Spot(j)
<1>1. PICK s, x, v : s = SlotsPerSegment /\ x = CellsPerSegment * CellBits /\ v = ValueWidth
  OBVIOUS
<1>2. s \in Nat \ {0} /\ x \in Nat /\ v \in Nat /\ s * v <= x
  BY <1>1, Slots, WidthAssumption
<1>3. i \in Nat /\ j \in Nat
  BY WidthAssumption DEF Ids
<1>4. PICK p, q, k, l : p = i \div s /\ q = i % s /\ k = j \div s /\ l = j % s
  OBVIOUS
<1>5. p \in Nat /\ q \in Nat /\ q < s /\ i = s * p + q
  BY <1>2, <1>3, <1>4, Division
<1>6. k \in Nat /\ l \in Nat /\ l < s /\ j = s * k + l
  BY <1>2, <1>3, <1>4, Division
<1>7. Spot(i) = x * p + q * v /\ Spot(j) = x * k + l * v
  BY <1>1, <1>4 DEF Spot
<1>8. p <= k
  <2>1. s * p + q <= s * k + l
    BY <1>3, <1>5, <1>6
  <2> QED BY <1>2, <1>5, <1>6, <2>1, Quotients
<1>9. x * p \in Nat /\ q * v \in Nat /\ x * k \in Nat /\ l * v \in Nat /\ (q + 1) * v = q * v + v
  BY <1>2, <1>5, <1>6
<1>10. CASE p = k
  <2>1. q + 1 <= l
    <3>1. s * p \in Nat
      BY <1>2, <1>5
    <3> QED BY <1>3, <1>5, <1>6, <1>10, <3>1
  <2>2. (q + 1) * v <= l * v
    BY <1>2, <1>5, <1>6, <2>1, Times
  <2> QED BY <1>1, <1>2, <1>7, <1>9, <1>10, <2>2
<1>11. CASE p + 1 <= k
  <2>1. (q + 1) * v <= s * v /\ s * v \in Nat
    BY <1>2, <1>5, Times
  <2>2. x * (p + 1) <= x * k /\ x * (p + 1) = x * p + x
    BY <1>2, <1>5, <1>6, <1>11, Times
  <2> QED BY <1>1, <1>2, <1>7, <1>9, <2>1, <2>2
<1> QED BY <1>5, <1>6, <1>8, <1>10, <1>11

(* What a cell holds of an entry is in the cell where it begins or, if it  *)
(* does not fit, in the next one.                                          *)
LEMMA RoomCells ==
  ASSUME NEW id \in Ids, NEW c \in Nat, NEW b \in Room(id, c)
  PROVE  Access(id).cell <= c /\ c <= LastCell(id)
<1>1. PICK n, o : n = Access(id).cell /\ o = Access(id).offset
  OBVIOUS
<1>2. n \in Nat /\ o \in Nat /\ o < CellBits /\ Spot(id) = CellBits * n + o
  BY <1>1, Placement, WidthAssumption DEF Bits
<1>3. Overflow(id) = o + ValueWidth - CellBits
  BY <1>1, Placement
<1>4. CellBits \in Nat \ {0} /\ ValueWidth \in Nat /\ ValueWidth <= CellBits
  BY WidthAssumption
<1>5. CellBits * n \in Nat /\ CellBits * c \in Nat
  BY <1>2, <1>4
<1>6. b \in Nat /\ b < CellBits /\ Spot(id) <= CellBits * c + b
      /\ CellBits * c + b < Spot(id) + ValueWidth
  BY <1>2, <1>4, <1>5 DEF Room, Bits
<1>7. n <= c
  <2>1. CellBits * n + o <= CellBits * c + b
    BY <1>2, <1>6
  <2> QED BY <1>2, <1>4, <1>6, <2>1, Quotients
<1>8. CASE Overflow(id) > 0
  <2>1. CellBits * c + b <= CellBits * (n + 1) + (o + ValueWidth - CellBits - 1)
    BY <1>2, <1>4, <1>5, <1>6
  <2>2. o + ValueWidth - CellBits - 1 \in Int /\ o + ValueWidth - CellBits - 1 < CellBits
    BY <1>2, <1>4
  <2>3. c <= n + 1
    BY <1>2, <1>4, <1>6, <2>1, <2>2, Quotients
  <2> QED BY <1>1, <1>7, <1>8, <2>3 DEF LastCell
<1>9. CASE ~(Overflow(id) > 0)
  <2>1. CellBits * c + b <= CellBits * n + (o + ValueWidth - 1)
    BY <1>2, <1>4, <1>5, <1>6
  <2>2. o + ValueWidth - 1 \in Int /\ o + ValueWidth - 1 < CellBits
    BY <1>2, <1>3, <1>4, <1>9
  <2>3. c <= n
    BY <1>2, <1>4, <1>6, <2>1, <2>2, Quotients
  <2> QED BY <1>1, <1>7, <1>9, <2>3 DEF LastCell
<1> QED BY <1>8, <1>9

(* The cells of entries come in the order of their IDs.                    *)
LEMMA CellOrder ==
  ASSUME NEW i \in Ids, NEW j \in Ids, i < j
  PROVE  Access(i).cell <= LastCell(i) /\ LastCell(i) <= Access(j).cell
<1>1. PICK m, o, n, u : /\ m = Access(i).cell /\ o = Access(i).offset
                        /\ n = Access(j).cell /\ u = Access(j).offset
  OBVIOUS
<1>2. m \in Nat /\ o \in Nat /\ o < CellBits /\ Spot(i) = CellBits * m + o
  BY <1>1, Placement, WidthAssumption DEF Bits
<1>3. n \in Nat /\ u \in Nat /\ u < CellBits /\ Spot(j) = CellBits * n + u
  BY <1>1, Placement, WidthAssumption DEF Bits
<1>4. Overflow(i) = o + ValueWidth - CellBits
  BY <1>1, Placement
<1>5. CellBits \in Nat \ {0} /\ ValueWidth \in Nat
  BY WidthAssumption
<1>6. CellBits * m \in Nat /\ CellBits * n \in Nat /\ CellBits * (m + 1) = CellBits * m + CellBits
  BY <1>2, <1>3, <1>5
<1>7. CellBits * m + (o + ValueWidth) <= CellBits * n + u
  BY <1>2, <1>3, <1>5, <1>6, SpotOrder
<1>8. CASE Overflow(i) > 0
  <2>1. CellBits * (m + 1) + (o + ValueWidth - CellBits) <= CellBits * n + u
    BY <1>2, <1>3, <1>5, <1>6, <1>7
  <2>2. o + ValueWidth - CellBits \in Nat
    BY <1>2, <1>4, <1>5, <1>8
  <2>3. m + 1 <= n
    BY <1>2, <1>3, <1>5, <2>1, <2>2, Quotients
  <2> QED BY <1>1, <1>2, <1>8, <2>3 DEF LastCell
<1>9. CASE ~(Overflow(i) > 0)
  <2>1. m <= n
    BY <1>2, <1>3, <1>5, <1>7, Quotients
  <2> QED BY <1>1, <1>2, <1>9, <2>1 DEF LastCell
<1> QED BY <1>8, <1>9

(* Every entry lies in the cells of the index.                             *)
LEMMA InCells ==
  ASSUME NEW id \in Ids
  PROVE  Access(id).cell \in Cells /\ LastCell(id) \in Cells /\ Cells \subseteq Nat
<1>1. MaxId \in Ids /\ id \in Nat /\ MaxId \in Nat /\ id <= MaxId
  BY WidthAssumption DEF Ids
<1>2. PICK m, n : m = Access(id).cell /\ n = Access(MaxId).cell
  OBVIOUS
<1>3. m \in Nat /\ n \in Nat
  BY <1>1, <1>2, Placement
<1>4. m <= n
  <2>1. CASE id = MaxId
    BY <1>2, <1>3, <2>1
  <2>2. CASE id < MaxId
    <3>1. Access(id).cell <= LastCell(id) /\ LastCell(id) <= Access(MaxId).cell
      BY <1>1, <2>2, CellOrder
    <3>2. LastCell(id) \in Nat
      BY <1>2, <1>3 DEF LastCell
    <3> QED BY <1>2, <1>3, <3>1, <3>2
  <2> QED BY <1>1, <2>1, <2>2
<1>5. Cells = 0..(n + 1)
  BY <1>2 DEF Cells
<1>6. LastCell(id) \in {m, m + 1}
  BY <1>2 DEF LastCell
<1> QED BY <1>2, <1>3, <1>4, <1>5, <1>6

LEMMA CellsAreNumbers == Cells \subseteq Nat
<1>1. MaxId \in Ids
  BY WidthAssumption DEF Ids
<1> QED BY <1>1, InCells

(* No two entries share a bit.                                             *)
LEMMA RoomsApart ==
  ASSUME NEW i \in Ids, NEW j \in Ids, NEW c \in Nat, NEW b \in Room(i, c), b \in Room(j, c)
  PROVE  i = j
<1>1. ASSUME NEW k \in Ids, NEW l \in Ids, k < l, b \in Room(k, c), b \in Room(l, c)
      PROVE  FALSE
  <2>1. Spot(k) + ValueWidth <= Spot(l) /\ Spot(k) \in Nat /\ Spot(l) \in Nat /\ ValueWidth \in Nat
    BY <1>1, SpotOrder, Placement, WidthAssumption
  <2>2. PICK x : x = CellBits * c + b
    OBVIOUS
  <2>3. x \in Nat
    BY <1>1, <2>2, WidthAssumption DEF Room, Bits
  <2>4. /\ CellBits * c + b - Spot(k) \in 0..(ValueWidth - 1)
        /\ CellBits * c + b - Spot(l) \in 0..(ValueWidth - 1)
    BY <1>1 DEF Room
  <2>5. x - Spot(k) \in 0..(ValueWidth - 1) /\ x - Spot(l) \in 0..(ValueWidth - 1)
    <3>1. CellBits * c \in Nat /\ b \in Nat
      BY <1>1, WidthAssumption DEF Room, Bits
    <3> QED BY <2>1, <2>2, <2>4, <3>1
  <2>6. PICK u, v, z : u = Spot(k) /\ v = Spot(l) /\ z = ValueWidth
    OBVIOUS
  <2>7. u + z <= v /\ u \in Nat /\ v \in Nat /\ z \in Nat /\ x - u < z /\ x - v >= 0
    BY <2>1, <2>3, <2>5, <2>6
  <2> QED BY <2>3, <2>7
<1>2. i \in Nat /\ j \in Nat
  BY WidthAssumption DEF Ids
<1>3. i < j \/ j < i \/ i = j
  BY <1>2
<1> QED BY <1>1, <1>3

-----------------------------------------------------------------------------
(* What the shifts compute *)

LEMMA PartInRoom == ASSUME NEW id \in Ids, NEW c PROVE Part(id, c) \subseteq Room(id, c)
<1>1. Pile[id] \subseteq 0..(ValueWidth - 1)
  BY WidthAssumption
<1> QED BY <1>1 DEF Part, Room

(* put() shifts a value to its place in the first cell, and what does not  *)
(* fit to that in the next one.                                            *)
LEMMA FirstPart ==
  ASSUME NEW id \in Ids
  PROVE  ShiftLeft(Pile[id], Access(id).offset) = Part(id, Access(id).cell)
<1>1. PICK n, o, p : n = Access(id).cell /\ o = Access(id).offset /\ p = Pile[id]
  OBVIOUS
<1>2. n \in Nat /\ o \in Nat /\ Spot(id) = CellBits * n + o /\ p \subseteq Nat
  BY <1>1, Placement, WidthAssumption
<1>3. CellBits * n \in Nat /\ CellBits \in Nat
  BY <1>2, WidthAssumption
<1>4. \A b \in Bits : CellBits * n + b - Spot(id) = b - o
  BY <1>2, <1>3 DEF Bits
<1>5. Part(id, n) = {b \in Bits : b - o \in p}
  BY <1>1, <1>4 DEF Part
<1>6. ShiftLeft(p, o) = {b \in Bits : b - o \in p}
  <2>1. ASSUME NEW b \in ShiftLeft(p, o) PROVE b \in Bits /\ b - o \in p
    <3>1. PICK a \in p : b = a + o /\ b \in Bits
      BY <2>1 DEF ShiftLeft
    <3> QED BY <1>2, <3>1
  <2>2. ASSUME NEW b \in Bits, b - o \in p PROVE b \in ShiftLeft(p, o)
    <3>1. b = (b - o) + o
      BY <1>2, <1>3 DEF Bits
    <3> QED BY <2>2, <3>1 DEF ShiftLeft
  <2> QED BY <2>1, <2>2
<1> QED BY <1>1, <1>5, <1>6

LEMMA SecondPart ==
  ASSUME NEW id \in Ids, Overflow(id) > 0
  PROVE  ShiftRight(Pile[id], ValueWidth - Overflow(id)) = Part(id, Access(id).cell + 1)
<1>1. PICK n, o, p, h : /\ n = Access(id).cell /\ o = Access(id).offset /\ p = Pile[id]
                        /\ h = ValueWidth - Overflow(id)
  OBVIOUS
<1>2. /\ n \in Nat /\ o \in Nat /\ o < CellBits /\ Spot(id) = CellBits * n + o
      /\ CellBits \in Nat /\ ValueWidth \in Nat /\ ValueWidth <= CellBits
      /\ p \subseteq 0..(ValueWidth - 1)
  BY <1>1, Placement, WidthAssumption DEF Bits
<1>3. h = CellBits - o /\ h \in Nat
  BY <1>1, <1>2, Placement
<1>4. CellBits * n \in Nat /\ CellBits * (n + 1) = CellBits * n + CellBits
  BY <1>2
<1>5. \A b \in Bits : CellBits * (n + 1) + b - Spot(id) = b + h
  BY <1>2, <1>3, <1>4 DEF Bits
<1>6. Part(id, n + 1) = {b \in Bits : b + h \in p}
  BY <1>1, <1>5 DEF Part
<1>7. ShiftRight(p, h) = {b \in Bits : b + h \in p}
  <2>1. ASSUME NEW b \in ShiftRight(p, h) PROVE b \in Bits /\ b + h \in p
    <3>1. PICK a \in p : b = a - h /\ a >= h
      BY <2>1 DEF ShiftRight
    <3> QED BY <1>2, <1>3, <3>1 DEF Bits
  <2>2. ASSUME NEW b \in Bits, b + h \in p PROVE b \in ShiftRight(p, h)
    <3>1. b = (b + h) - h /\ b + h >= h
      BY <1>2, <1>3 DEF Bits
    <3> QED BY <2>2, <3>1 DEF ShiftRight
  <2> QED BY <2>1, <2>2
<1> QED BY <1>1, <1>6, <1>7

(* get() reads the bits of the entry, wherever the cells have them.        *)
LEMMA GetReads ==
  ASSUME NEW id \in Ids, index \in [Cells -> SUBSET Bits], NEW p
  PROVE  p \in Get(id) <=>
           /\ p \in 0..(ValueWidth - 1)
           /\ \E c \in Cells : \E b \in index[c] : CellBits * c + b = Spot(id) + p
<1>1. PICK n, o : n = Access(id).cell /\ o = Access(id).offset
  OBVIOUS
<1>2. /\ n \in Nat /\ o \in Nat /\ o < CellBits /\ Spot(id) = CellBits * n + o
      /\ Spot(id) \in Nat /\ CellBits \in Nat /\ ValueWidth \in Nat /\ ValueWidth <= CellBits
      /\ Overflow(id) = o + ValueWidth - CellBits
  BY <1>1, Placement, WidthAssumption DEF Bits
<1>3. CellBits * n \in Nat /\ CellBits * (n + 1) = CellBits * n + CellBits
  BY <1>2
<1>4. n \in Cells /\ (Overflow(id) > 0 => n + 1 \in Cells)
  BY <1>1, InCells DEF LastCell
<1>5. PICK low, high :
        /\ low = ShiftRight(index[n], o)
        /\ high = IF Overflow(id) > 0 THEN ShiftLeft(index[n + 1], CellBits - o) ELSE {}
  OBVIOUS
<1>6. ValueWidth - Overflow(id) = CellBits - o
  BY <1>2
<1>7. Get(id) = (low \union high) \intersect 0..(ValueWidth - 1)
  BY <1>1, <1>5, <1>6 DEF Get
<1>8. ASSUME p \in low, p \in 0..(ValueWidth - 1)
      PROVE  \E c \in Cells : \E b \in index[c] : CellBits * c + b = Spot(id) + p
  <2>1. PICK b \in index[n] : p = b - o /\ b >= o
    BY <1>5, <1>8 DEF ShiftRight
  <2>2. b \in Nat
    BY <1>4, <2>1 DEF Bits
  <2>3. CellBits * n + b = Spot(id) + p
    BY <1>2, <1>3, <2>1, <2>2
  <2> QED BY <1>4, <2>3
<1>9. ASSUME p \in high, p \in 0..(ValueWidth - 1)
      PROVE  \E c \in Cells : \E b \in index[c] : CellBits * c + b = Spot(id) + p
  <2>1. Overflow(id) > 0 /\ p \in ShiftLeft(index[n + 1], CellBits - o)
    BY <1>5, <1>9
  <2>2. PICK b \in index[n + 1] : p = b + (CellBits - o)
    BY <2>1 DEF ShiftLeft
  <2>3. b \in Nat
    BY <1>4, <2>1, <2>2 DEF Bits
  <2>4. CellBits * (n + 1) + b = Spot(id) + p
    BY <1>2, <1>3, <2>2, <2>3
  <2> QED BY <1>4, <2>1, <2>4
<1>10. ASSUME p \in 0..(ValueWidth - 1), NEW c \in Cells, NEW b \in index[c],
              CellBits * c + b = Spot(id) + p
       PROVE  p \in low \union high
  <2>1. c \in Nat /\ b \in Bits /\ b \in Nat /\ p \in Nat
    BY <1>2, <1>10, InCells DEF Bits
  <2>2. b \in Room(id, c)
    <3>1. CellBits * c \in Nat
      BY <1>2, <2>1
    <3>2. CellBits * c + b - Spot(id) = p
      BY <1>2, <1>10, <2>1, <3>1
    <3> QED BY <1>10, <2>1, <3>2 DEF Room
  <2>3. n <= c /\ c <= LastCell(id)
    BY <1>1, <2>1, <2>2, RoomCells
  <2>4. CASE c = n
    <3>1. b >= o /\ p = b - o
      BY <1>2, <1>3, <1>10, <2>1, <2>4
    <3> QED BY <1>5, <1>10, <2>4, <3>1 DEF ShiftRight
  <2>5. CASE c = n + 1 /\ Overflow(id) > 0
    <3>1. p = b + (CellBits - o)
      BY <1>2, <1>3, <1>10, <2>1, <2>5
    <3>2. p \in Bits
      BY <1>2, <1>10 DEF Bits
    <3> QED BY <1>5, <1>10, <2>5, <3>1, <3>2 DEF ShiftLeft
  <2> QED BY <1>1, <1>2, <2>1, <2>3, <2>4, <2>5 DEF LastCell
<1> QED BY <1>7, <1>8, <1>9, <1>10

(* If the cells have an entry's bits in its room, and no others, then      *)
(* get() returns the entry.                                                *)
LEMMA GetKept ==
  ASSUME NEW id \in Ids, index \in [Cells -> SUBSET Bits],
         \A c \in Cells : index[c] \intersect Room(id, c) = Part(id, c)
  PROVE  Get(id) = Pile[id]
<1>1. PICK n, o : n = Access(id).cell /\ o = Access(id).offset
  OBVIOUS
<1>2. /\ n \in Nat /\ o \in Nat /\ o < CellBits /\ Spot(id) = CellBits * n + o
      /\ Spot(id) \in Nat /\ CellBits \in Nat /\ ValueWidth \in Nat /\ ValueWidth <= CellBits
      /\ Overflow(id) = o + ValueWidth - CellBits
      /\ Pile[id] \subseteq 0..(ValueWidth - 1)
  BY <1>1, Placement, WidthAssumption DEF Bits
<1>3. CellBits * n \in Nat /\ CellBits * (n + 1) = CellBits * n + CellBits
  BY <1>2
<1>4. ASSUME NEW p \in Get(id) PROVE p \in Pile[id]
  <2>1. PICK c \in Cells : \E b \in index[c] : CellBits * c + b = Spot(id) + p
    BY GetReads
  <2>2. PICK b \in index[c] : CellBits * c + b = Spot(id) + p
    BY <2>1
  <2>3. p \in 0..(ValueWidth - 1) /\ c \in Nat /\ b \in Bits
    BY GetReads, InCells
  <2>4. CellBits * c + b - Spot(id) = p
    <3>1. CellBits * c \in Nat /\ b \in Nat /\ p \in Nat
      BY <1>2, <2>3 DEF Bits
    <3> QED BY <1>2, <2>2, <3>1
  <2>5. b \in Part(id, c)
    BY <2>3, <2>4 DEF Room
  <2> QED BY <2>4, <2>5 DEF Part
<1>5. ASSUME NEW p \in Pile[id] PROVE p \in Get(id)
  <2>1. p \in 0..(ValueWidth - 1) /\ p \in Nat
    BY <1>2
  <2>2. SUFFICES \E c \in Cells : \E b \in Part(id, c) : CellBits * c + b = Spot(id) + p
    BY <2>1, GetReads
  <2>3. CASE o + p < CellBits
    <3>1. o + p \in Bits /\ CellBits * n + (o + p) - Spot(id) = p
          /\ CellBits * n + (o + p) = Spot(id) + p
      BY <1>2, <1>3, <2>1, <2>3 DEF Bits
    <3>2. o + p \in Part(id, n)
      BY <1>5, <3>1 DEF Part
    <3> QED BY <1>1, <3>1, <3>2, InCells
  <2>4. CASE o + p >= CellBits
    <3>1. PICK b : b = o + p - CellBits
      OBVIOUS
    <3>2. b \in Bits /\ CellBits * (n + 1) + b = Spot(id) + p
          /\ CellBits * (n + 1) + b - Spot(id) = p
      BY <1>2, <1>3, <2>1, <2>4, <3>1 DEF Bits
    <3>3. b \in Part(id, n + 1)
      BY <1>5, <3>2 DEF Part
    <3>4. n + 1 \in Cells
      <4>1. Overflow(id) > 0
        BY <1>2, <2>1, <2>4
      <4> QED BY <1>1, <4>1, InCells DEF LastCell
    <3> QED BY <3>2, <3>3, <3>4
  <2> QED BY <1>2, <2>1, <2>3, <2>4
<1> QED BY <1>4, <1>5

LEMMA GetMissing ==
  ASSUME NEW id \in Ids, index \in [Cells -> SUBSET Bits],
         \A c \in Cells : index[c] \intersect Room(id, c) = {}
  PROVE  Get(id) = {}
<1> SUFFICES ASSUME NEW p \in Get(id) PROVE FALSE
  OBVIOUS
<1>1. p \in 0..(ValueWidth - 1) /\ \E c \in Cells : \E b \in index[c] : CellBits * c + b = Spot(id) + p
  BY GetReads
<1>2. PICK c \in Cells : \E b \in index[c] : CellBits * c + b = Spot(id) + p
  BY <1>1
<1>3. PICK b \in index[c] : CellBits * c + b = Spot(id) + p
  BY <1>2
<1>4. c \in Nat /\ b \in Bits
  BY InCells
<1>5. CellBits * c \in Nat /\ b \in Nat /\ p \in Nat /\ Spot(id) \in Nat
  BY <1>1, <1>4, WidthAssumption, Placement DEF Bits
<1>6. CellBits * c + b - Spot(id) = p
  BY <1>3, <1>5
<1> QED BY <1>1, <1>4, <1>6 DEF Room

-----------------------------------------------------------------------------
(* The invariant *)

IndexTypeOK ==
  /\ IsWorkload(load) /\ ended \subseteq Ids
  /\ index \in [Cells -> SUBSET Bits]
  /\ cell \in [Writers -> Cells \union {NoCell}]
  /\ data \in [Writers -> SUBSET Bits]
  /\ writeState \in [Writers -> {NOT_STARTED, AT_START, AT_START + 1}]
  /\ rest \in [Writers -> Seq(Ids)]
  /\ at \in [Writers -> {"idle", "put", "carry"}]

(* The IDs of a batch that have been put, with all their bits.             *)
Placed(w) == PutIds(w) \ Elems(rest[w])
Begun == ended \union UNION {PutIds(w) : w \in Writers}

(* An ID is less than all those of a batch, or greater than all.           *)
Beside(id, b) == (\A i \in DOMAIN b : id < b[i]) \/ (\A i \in DOMAIN b : b[i] < id)

EndedBeside == \A id \in ended, w \in Writers : \A i \in DOMAIN load[w] : Beside(id, load[w][i])

(* Between batches a worker has nothing pending.  In a batch the cells to  *)
(* write are none before the current one, and put() never goes back.       *)
WriterOK(w) ==
  /\ at[w] = "idle" => rest[w] = << >> /\ cell[w] = NoCell /\ data[w] = {}
  /\ at[w] # "idle" => load[w] # << >> /\ Elems(rest[w]) \subseteq BatchIds(w) /\ Ascends(rest[w])
  /\ at[w] = "put" => \A id \in Elems(rest[w]) : cell[w] <= Access(id).cell
  /\ at[w] = "carry" =>
       /\ rest[w] # << >> /\ Overflow(NextId(w)) > 0 /\ cell[w] = Access(NextId(w)).cell
       /\ Part(NextId(w), cell[w]) \subseteq data[w]

(* The batch begins with its first cell, and once that has been flushed    *)
(* the current one is not the first.                                       *)
StateOK(w) ==
  /\ writeState[w] = NOT_STARTED <=> cell[w] = NoCell
  /\ cell[w] # NoCell => \E id \in PutIds(w) : Access(id).cell <= cell[w]
  /\ writeState[w] > AT_START => \E id \in PutIds(w) : Access(id).cell < cell[w]

(* A bit that is set in the index or in a pending cell is that of an entry *)
(* that was put.                                                           *)
NoStrayBits ==
  /\ \A c \in Cells : \A b \in index[c] : \E id \in Begun : b \in Part(id, c)
  /\ \A w \in Writers : \A b \in data[w] : \E id \in PutIds(w) : b \in Part(id, cell[w])

(* The bits of an entry are in the index, or pending in the current cell.  *)
PlacedKept(w) ==
  \A id \in Placed(w) :
    /\ LastCell(id) <= cell[w]
    /\ \A c \in Cells : Part(id, c) \subseteq (IF c = cell[w] THEN data[w] ELSE index[c])

BitsKept ==
  /\ \A id \in ended, c \in Cells : Part(id, c) \subseteq index[c]
  /\ \A w \in Writers : PlacedKept(w)

IndexInv ==
  /\ IndexTypeOK /\ EndedBeside /\ NoStrayBits /\ BitsKept
  /\ \A w \in Writers : WriterOK(w) /\ StateOK(w)

-----------------------------------------------------------------------------
(* Batches *)

LEMMA AscendsTail ==
  ASSUME NEW s \in Seq(Ids), s # << >>, Ascends(s)
  PROVE  /\ Head(s) \in Ids /\ Tail(s) \in Seq(Ids) /\ Ascends(Tail(s))
         /\ Elems(s) = Elems(Tail(s)) \union {Head(s)}
         /\ \A id \in Elems(Tail(s)) : Head(s) < id /\ id \in Ids
<1>1. /\ Len(s) \in Nat /\ Len(s) > 0 /\ DOMAIN s = 1..Len(s) /\ Head(s) = s[1] /\ s[1] \in Ids
      /\ Tail(s) \in Seq(Ids) /\ DOMAIN Tail(s) = 1..(Len(s) - 1)
      /\ \A i \in 1..(Len(s) - 1) : Tail(s)[i] = s[i + 1]
  OBVIOUS
<1>2. Distinct(s)
  <2> SUFFICES ASSUME NEW i \in DOMAIN s, NEW j \in DOMAIN s, s[i] = s[j], i < j \/ j < i
               PROVE  FALSE
    BY <1>1 DEF Distinct
  <2>1. s[i] < s[j] \/ s[j] < s[i]
    BY DEF Ascends
  <2>2. s[i] \in Int
    BY WidthAssumption DEF Ids
  <2> QED BY <2>1, <2>2
<1>3. Elems(s) = Elems(Tail(s)) \union {Head(s)}
  BY <1>2, HeadTail
<1>4. Ascends(Tail(s))
  <2> SUFFICES ASSUME NEW i \in DOMAIN Tail(s), NEW j \in DOMAIN Tail(s), i < j
               PROVE  Tail(s)[i] < Tail(s)[j]
    BY DEF Ascends
  <2>1. i + 1 \in DOMAIN s /\ j + 1 \in DOMAIN s /\ i + 1 < j + 1
    BY <1>1
  <2> QED BY <1>1, <2>1 DEF Ascends
<1>5. ASSUME NEW id \in Elems(Tail(s)) PROVE Head(s) < id /\ id \in Ids
  <2>1. PICK i \in DOMAIN Tail(s) : id = Tail(s)[i]
    BY DEF Elems
  <2>2. i + 1 \in DOMAIN s /\ 1 \in DOMAIN s /\ 1 < i + 1 /\ id = s[i + 1]
    BY <1>1, <2>1
  <2> QED BY <1>1, <2>2 DEF Ascends
<1> QED BY <1>1, <1>3, <1>4, <1>5

(* What a worker has left is a workload too.                               *)
LEMMA WorkloadTail ==
  ASSUME IsWorkload(load), NEW w \in Writers, load[w] # << >>,
         load' = [load EXCEPT ![w] = Tail(@)]
  PROVE  /\ IsWorkload(load')
         /\ \A v \in Writers : \A i \in DOMAIN load'[v] :
              \E k \in DOMAIN load[v] : load'[v][i] = load[v][k] /\ (v = w => k # 1)
<1>1. load \in [Writers -> Seq(Seq(Ids))]
  BY DEF IsWorkload
<1>2. load' \in [Writers -> Seq(Seq(Ids))] /\ load'[w] = Tail(load[w])
      /\ \A v \in Writers : v # w => load'[v] = load[v]
  BY <1>1
<1>3. /\ DOMAIN load[w] = 1..Len(load[w]) /\ Len(load[w]) \in Nat
      /\ DOMAIN load'[w] = 1..(Len(load[w]) - 1)
      /\ \A i \in 1..(Len(load[w]) - 1) : load'[w][i] = load[w][i + 1]
  BY <1>1, <1>2
<1>4. PICK shift : shift = [v \in Writers |-> IF v = w THEN 1 ELSE 0]
  OBVIOUS
<1>5. ASSUME NEW v \in Writers, NEW i \in DOMAIN load'[v]
      PROVE  i + shift[v] \in DOMAIN load[v] /\ load'[v][i] = load[v][i + shift[v]] /\ i \in Int
  <2>1. CASE v = w
    BY <1>3, <1>4, <1>5, <2>1
  <2>2. CASE v # w
    <3>1. load'[v] = load[v] /\ i \in DOMAIN load[v] /\ shift[v] = 0 /\ i \in Nat
      BY <1>1, <1>2, <1>4, <1>5, <2>2
    <3>2. i + shift[v] = i
      BY <3>1
    <3>3. load'[v][i] = load[v][i + shift[v]] /\ i + shift[v] \in DOMAIN load[v]
      BY <3>1, <3>2, Zenon
    <3> QED BY <3>1, <3>3
  <2> QED BY <2>1, <2>2
<1>6. \A v \in Writers : shift[v] \in {0, 1} /\ (v = w => shift[v] = 1)
  BY <1>4
<1>7. ASSUME NEW v \in Writers, NEW i \in DOMAIN load'[v] PROVE Ascends(load'[v][i])
  BY <1>5, <1>7 DEF IsWorkload
<1>8. ASSUME NEW v \in Writers, NEW u \in Writers,
             NEW i \in DOMAIN load'[v], NEW j \in DOMAIN load'[u], <<v, i>> # <<u, j>>
      PROVE  Precedes(load'[v][i], load'[u][j]) \/ Precedes(load'[u][j], load'[v][i])
  <2>1. PICK m, n : m = i + shift[v] /\ n = j + shift[u]
    OBVIOUS
  <2>2. m \in DOMAIN load[v] /\ n \in DOMAIN load[u] /\ load'[v][i] = load[v][m] /\ load'[u][j] = load[u][n]
    BY <1>5, <2>1
  <2>3. <<v, m>> # <<u, n>>
    <3>1. CASE v # u
      BY <3>1
    <3>2. CASE v = u
      <4>1. i # j /\ i \in Int /\ j \in Int /\ shift[v] \in Int
        BY <1>5, <1>6, <1>8, <3>2
      <4> QED BY <2>1, <3>2, <4>1
    <3> QED BY <3>1, <3>2
  <2> QED BY <2>2, <2>3 DEF IsWorkload
<1>9. ASSUME NEW v \in Writers, NEW i \in DOMAIN load'[v]
      PROVE  \E k \in DOMAIN load[v] : load'[v][i] = load[v][k] /\ (v = w => k # 1)
  <2>1. v = w => i + shift[v] # 1
    <3> SUFFICES ASSUME v = w PROVE i + shift[v] # 1
      OBVIOUS
    <3>1. i \in 1..(Len(load[w]) - 1) /\ shift[v] = 1
      BY <1>3, <1>6
    <3> QED BY <1>3, <3>1
  <2> QED BY <1>5, <2>1
<1> QED BY <1>2, <1>7, <1>8, <1>9 DEF IsWorkload

LEMMA EmptyPart ==
  ASSUME NEW id \in Ids, NEW c \in Nat, c < Access(id).cell \/ LastCell(id) < c
  PROVE  Part(id, c) = {}
<1> SUFFICES ASSUME NEW b \in Part(id, c) PROVE FALSE
  OBVIOUS
<1>1. Access(id).cell <= c /\ c <= LastCell(id)
  BY PartInRoom, RoomCells
<1>2. Access(id).cell \in Nat /\ LastCell(id) \in Nat
  BY InCells
<1> QED BY <1>1, <1>2

(* The IDs of a batch under way.                                           *)
LEMMA BatchFacts ==
  ASSUME IndexInv, NEW w \in Writers, at[w] # "idle"
  PROVE  /\ load[w] # << >> /\ 1 \in DOMAIN load[w] /\ load[w][1] = Head(load[w])
         /\ Head(load[w]) \in Seq(Ids) /\ Ascends(Head(load[w]))
         /\ PutIds(w) = BatchIds(w) /\ BatchIds(w) = Elems(load[w][1]) /\ BatchIds(w) \subseteq Ids
<1>1. load \in [Writers -> Seq(Seq(Ids))] /\ load[w] # << >>
  BY DEF IndexInv, IndexTypeOK, IsWorkload, WriterOK
<1>2. 1 \in DOMAIN load[w] /\ load[w][1] = Head(load[w]) /\ Head(load[w]) \in Seq(Ids)
  BY <1>1
<1>3. Ascends(Head(load[w]))
  BY <1>2 DEF IndexInv, IndexTypeOK, IsWorkload
<1>4. BatchIds(w) = Elems(load[w][1])
  BY <1>2 DEF BatchIds, Elems
<1>5. BatchIds(w) \subseteq Ids
  BY <1>2 DEF BatchIds
<1> QED BY <1>1, <1>2, <1>3, <1>4, <1>5 DEF PutIds

LEMMA PutIdsTyped == ASSUME IndexInv, NEW w \in Writers PROVE PutIds(w) \subseteq Ids
BY BatchFacts DEF PutIds

(* The IDs that others have put, or are putting, are not among those of a  *)
(* batch, but before or behind all of them.                                *)
LEMMA OthersBeside ==
  ASSUME IndexInv, NEW w \in Writers, at[w] # "idle",
         NEW id \in ended \union UNION {PutIds(v) : v \in Writers \ {w}}
  PROVE  /\ id \in Ids
         /\ (\A k \in BatchIds(w) : id < k) \/ (\A k \in BatchIds(w) : k < id)
<1>1. /\ 1 \in DOMAIN load[w] /\ BatchIds(w) = Elems(load[w][1])
  BY BatchFacts
<1>2. CASE id \in ended
  <2>1. Beside(id, load[w][1])
    BY <1>1, <1>2 DEF IndexInv, EndedBeside
  <2> QED BY <1>1, <1>2, <2>1 DEF Beside, Elems, IndexInv, IndexTypeOK
<1>3. CASE \E v \in Writers \ {w} : id \in PutIds(v)
  <2>1. PICK v \in Writers \ {w} : id \in PutIds(v)
    BY <1>3
  <2>2. at[v] # "idle"
    BY <2>1 DEF PutIds
  <2>3. 1 \in DOMAIN load[v] /\ BatchIds(v) = Elems(load[v][1]) /\ PutIds(v) = BatchIds(v) /\ id \in Ids
    BY <2>1, <2>2, BatchFacts
  <2>4. Precedes(load[v][1], load[w][1]) \/ Precedes(load[w][1], load[v][1])
    <3>1. <<v, 1>> # <<w, 1>>
      BY <2>1
    <3> QED BY <1>1, <2>1, <2>3, <3>1 DEF IndexInv, IndexTypeOK, IsWorkload
  <2> QED BY <1>1, <2>1, <2>3, <2>4 DEF Precedes, Elems
<1> QED BY <1>2, <1>3

-----------------------------------------------------------------------------
(* Writes to memory *)

(* The worker has merged its pending bits, or written over a cell, and     *)
(* the bits of all the others are still there.                             *)
Keeps(w) ==
  /\ index' \in [Cells -> SUBSET Bits]
  /\ \A c \in Cells : index'[c] \subseteq index[c] \union (IF c = cell[w] THEN data[w] ELSE {})
  /\ \A c \in Cells : c # cell[w] => index'[c] = index[c]
  /\ \A id \in ended \union UNION {PutIds(v) : v \in Writers \ {w}}, c \in Cells :
       Part(id, c) \subseteq index[c] => Part(id, c) \subseteq index'[c]

Writes(w) == cell[w] # NoCell => data[w] \subseteq index'[cell[w]]

LEMMA Merging ==
  ASSUME IndexInv, NEW w \in Writers, FlushAtomic(w)
  PROVE  Keeps(w) /\ Writes(w)
<1>1. index \in [Cells -> SUBSET Bits] /\ data[w] \subseteq Bits /\ cell[w] \in Cells \union {NoCell}
  BY DEF IndexInv, IndexTypeOK
<1>2. index' \in [Cells -> SUBSET Bits]
  BY <1>1 DEF FlushAtomic
<1>3. \A c \in Cells : index'[c] = IF c = cell[w] THEN index[c] \union data[w] ELSE index[c]
  BY <1>1 DEF FlushAtomic
<1> QED BY <1>1, <1>2, <1>3 DEF Keeps, Writes

(* A cell that a worker stores without merging is between the cells of its *)
(* batch, and belongs to no entry of another.                              *)
LEMMA Interior ==
  ASSUME IndexInv, NEW w \in Writers, at[w] # "idle", writeState[w] > AT_START,
         NEW n \in BatchIds(w), cell[w] < LastCell(n), cell[w] \in Cells,
         NEW id \in ended \union UNION {PutIds(v) : v \in Writers \ {w}}
  PROVE  Part(id, cell[w]) = {}
<1>1. id \in Ids /\ BatchIds(w) \subseteq Ids /\ PutIds(w) = BatchIds(w)
  BY OthersBeside, BatchFacts
<1>2. PICK f \in BatchIds(w) : Access(f).cell < cell[w]
  BY <1>1 DEF IndexInv, StateOK
<1>3. (id < f \/ n < id) /\ f \in Ids /\ n \in Ids
  BY <1>1, <1>2, OthersBeside
<1>4. PICK c : c = cell[w]
  OBVIOUS
<1>5. c \in Nat
  BY <1>1, <1>4, InCells
<1>6. Access(id).cell \in Nat /\ LastCell(id) \in Nat /\ Access(f).cell \in Nat /\ LastCell(n) \in Nat
  BY <1>1, <1>3, InCells
<1>7. CASE id < f
  <2>1. LastCell(id) <= Access(f).cell
    BY <1>1, <1>3, <1>7, CellOrder
  <2>2. LastCell(id) < c
    BY <1>2, <1>4, <1>5, <1>6, <2>1
  <2> QED BY <1>1, <1>4, <1>5, <2>2, EmptyPart
<1>8. CASE n < id
  <2>1. LastCell(n) <= Access(id).cell
    BY <1>1, <1>3, <1>8, CellOrder
  <2>2. c < Access(id).cell
    BY <1>4, <1>5, <1>6, <2>1
  <2> QED BY <1>1, <1>4, <1>5, <2>2, EmptyPart
<1> QED BY <1>3, <1>7, <1>8

(* flush(), when the worker goes on to a later cell.                       *)
LEMMA Flushing ==
  ASSUME IndexInv, NEW w \in Writers, at[w] # "idle",
         NEW n \in BatchIds(w), cell[w] < LastCell(n), FlushCell(w)
  PROVE  /\ Keeps(w) /\ Writes(w)
         /\ writeState' \in [Writers -> {NOT_STARTED, AT_START, AT_START + 1}]
         /\ \A v \in Writers \ {w} : writeState'[v] = writeState[v]
         /\ writeState'[w] # NOT_STARTED
         /\ writeState'[w] > AT_START => cell[w] # NoCell
<1>1. /\ index \in [Cells -> SUBSET Bits] /\ data[w] \subseteq Bits
      /\ cell[w] \in Cells \union {NoCell}
      /\ writeState \in [Writers -> {NOT_STARTED, AT_START, AT_START + 1}]
  BY DEF IndexInv, IndexTypeOK
<1>2. writeState[w] = NOT_STARTED <=> cell[w] = NoCell
  BY DEF IndexInv, StateOK
<1>3. CASE /\ writeState[w] > AT_START
           /\ index' = [index EXCEPT ![cell[w]] = data[w]]
           /\ UNCHANGED writeState
  <2>1. writeState[w] # NOT_STARTED /\ cell[w] \in Cells
    BY <1>1, <1>2, <1>3 DEF NOT_STARTED, AT_START
  <2>2. index' \in [Cells -> SUBSET Bits]
    BY <1>1, <1>3
  <2>3. \A c \in Cells : index'[c] = IF c = cell[w] THEN data[w] ELSE index[c]
    BY <1>1, <1>3
  <2>4. \A id \in ended \union UNION {PutIds(v) : v \in Writers \ {w}} : Part(id, cell[w]) = {}
    BY <1>3, <2>1, Interior
  <2>5. \A id \in ended \union UNION {PutIds(v) : v \in Writers \ {w}}, c \in Cells :
          Part(id, c) \subseteq index[c] => Part(id, c) \subseteq index'[c]
    BY <2>3, <2>4
  <2>6. Keeps(w) /\ Writes(w)
    BY <2>1, <2>2, <2>3, <2>5 DEF Keeps, Writes
  <2> QED BY <1>1, <1>2, <1>3, <2>1, <2>6
<1>4. CASE /\ writeState[w] = AT_START
           /\ FlushAtomic(w)
           /\ writeState' = [writeState EXCEPT ![w] = @ + 1]
  <2>1. writeState[w] # NOT_STARTED
    BY <1>4 DEF NOT_STARTED, AT_START
  <2>2. writeState'[w] = AT_START + 1 /\ \A v \in Writers \ {w} : writeState'[v] = writeState[v]
    BY <1>1, <1>4
  <2>3. writeState' \in [Writers -> {NOT_STARTED, AT_START, AT_START + 1}]
    BY <1>1, <1>4
  <2> QED BY <1>2, <1>4, <2>1, <2>2, <2>3, Merging DEF NOT_STARTED, AT_START
<1>5. CASE /\ writeState[w] = NOT_STARTED
           /\ UNCHANGED index
           /\ writeState' = [writeState EXCEPT ![w] = @ + 1]
  <2>1. writeState'[w] = AT_START /\ \A v \in Writers \ {w} : writeState'[v] = writeState[v]
    BY <1>1, <1>5 DEF NOT_STARTED, AT_START
  <2>2. writeState' \in [Writers -> {NOT_STARTED, AT_START, AT_START + 1}]
    <3>1. writeState[w] + 1 = AT_START
      BY <1>5 DEF NOT_STARTED, AT_START
    <3> QED BY <1>1, <1>5, <3>1
  <2>3. Keeps(w) /\ Writes(w)
    BY <1>1, <1>2, <1>5 DEF Keeps, Writes
  <2>4. ~(writeState'[w] > AT_START) /\ writeState'[w] # NOT_STARTED
    BY <2>1 DEF NOT_STARTED, AT_START
  <2> QED BY <2>1, <2>2, <2>3, <2>4
<1> QED BY <1>3, <1>4, <1>5 DEF FlushCell

(* A step of one worker leaves the others as they are.                     *)
Alone(w) ==
  \A v \in Writers \ {w} :
    /\ cell'[v] = cell[v] /\ data'[v] = data[v] /\ rest'[v] = rest[v]
    /\ at'[v] = at[v] /\ load'[v] = load[v] /\ writeState'[v] = writeState[v]

LEMMA OthersKept ==
  ASSUME IndexInv, NEW w \in Writers, Keeps(w), Alone(w)
  PROVE  /\ \A id \in ended, c \in Cells : Part(id, c) \subseteq index'[c]
         /\ \A v \in Writers \ {w} :
              /\ PlacedKept(v)' /\ WriterOK(v)' /\ StateOK(v)' /\ PutIds(v)' = PutIds(v)
              /\ \A b \in data'[v] : \E id \in PutIds(v)' : b \in Part(id, cell'[v])
<1>1. \A id \in ended, c \in Cells : Part(id, c) \subseteq index'[c]
  BY DEF IndexInv, BitsKept, Keeps
<1>2. ASSUME NEW v \in Writers \ {w}
      PROVE  /\ PlacedKept(v)' /\ WriterOK(v)' /\ StateOK(v)' /\ PutIds(v)' = PutIds(v)
             /\ \A b \in data'[v] : \E id \in PutIds(v)' : b \in Part(id, cell'[v])
  <2>1. /\ cell'[v] = cell[v] /\ data'[v] = data[v] /\ rest'[v] = rest[v]
        /\ at'[v] = at[v] /\ load'[v] = load[v] /\ writeState'[v] = writeState[v]
    BY <1>2 DEF Alone
  <2>2. BatchIds(v)' = BatchIds(v) /\ PutIds(v)' = PutIds(v) /\ NextId(v)' = NextId(v)
    BY <2>1 DEF BatchIds, PutIds, NextId
  <2>3. Placed(v)' = Placed(v)
    BY <2>1, <2>2 DEF Placed
  <2>4. WriterOK(v) /\ StateOK(v) /\ PlacedKept(v)
    BY DEF IndexInv, BitsKept
  <2>5. WriterOK(v)'
    BY <2>1, <2>2, <2>4 DEF WriterOK
  <2>6. StateOK(v)'
    BY <2>1, <2>2, <2>4 DEF StateOK
  <2>7. PlacedKept(v)'
    <3> SUFFICES ASSUME NEW id \in Placed(v)
                 PROVE  /\ LastCell(id) <= cell[v]
                        /\ \A c \in Cells :
                             Part(id, c) \subseteq (IF c = cell[v] THEN data[v] ELSE index'[c])
      BY <2>1, <2>3 DEF PlacedKept
    <3>1. id \in UNION {PutIds(u) : u \in Writers \ {w}}
      BY <1>2 DEF Placed
    <3>2. \A c \in Cells : Part(id, c) \subseteq index[c] => Part(id, c) \subseteq index'[c]
      BY <3>1 DEF Keeps
    <3>3. /\ LastCell(id) <= cell[v]
          /\ \A c \in Cells : Part(id, c) \subseteq (IF c = cell[v] THEN data[v] ELSE index[c])
      BY <2>4 DEF PlacedKept
    <3> QED BY <3>2, <3>3
  <2>8. \A b \in data'[v] : \E id \in PutIds(v)' : b \in Part(id, cell'[v])
    BY <2>1, <2>2 DEF IndexInv, NoStrayBits
  <2> QED BY <2>2, <2>5, <2>6, <2>7, <2>8
<1> QED BY <1>1, <1>2

-----------------------------------------------------------------------------
(* The steps *)

LEMMA InitIndexInv == IndexInit => IndexInv
<1> SUFFICES ASSUME IndexInit PROVE IndexInv
  OBVIOUS
<1> USE DEF IndexInit
<1>1. IndexTypeOK
  <2>1. IsWorkload(load)
    BY BatchAssumption
  <2> QED BY <2>1 DEF IndexTypeOK
<1>2. \A w \in Writers : PutIds(w) = {} /\ Placed(w) = {}
  BY DEF PutIds, Placed
<1>3. EndedBeside /\ NoStrayBits
  BY DEF EndedBeside, NoStrayBits
<1>4. BitsKept
  BY <1>2 DEF BitsKept, PlacedKept
<1>5. \A w \in Writers : WriterOK(w) /\ StateOK(w)
  BY DEF WriterOK, StateOK, NOT_STARTED, AT_START, NoCell
<1> QED BY <1>1, <1>3, <1>4, <1>5 DEF IndexInv

(* What remains to be shown of a step within a batch.                      *)
LEMMA Continues ==
  ASSUME IndexInv, NEW w \in Writers, Keeps(w), Alone(w), UNCHANGED <<load, ended>>,
         cell' \in [Writers -> Cells \union {NoCell}], data' \in [Writers -> SUBSET Bits],
         writeState' \in [Writers -> {NOT_STARTED, AT_START, AT_START + 1}],
         rest' \in [Writers -> Seq(Ids)], at' \in [Writers -> {"idle", "put", "carry"}],
         PutIds(w) \subseteq PutIds(w)',
         WriterOK(w)', StateOK(w)', PlacedKept(w)',
         \A b \in data'[w] : \E id \in PutIds(w)' : b \in Part(id, cell'[w])
  PROVE  IndexInv'
<1>1. IndexTypeOK'
  BY DEF IndexInv, IndexTypeOK, Keeps
<1>2. EndedBeside'
  BY DEF IndexInv, EndedBeside
<1>3. \A v \in Writers : PutIds(v) \subseteq PutIds(v)'
  BY OthersKept
<1>4. Begun \subseteq Begun'
  BY <1>3 DEF Begun
<1>5. NoStrayBits'
  <2>1. ASSUME NEW c \in Cells, NEW b \in index'[c]
        PROVE  \E id \in Begun' : b \in Part(id, c)
    <3>1. CASE b \in index[c]
      BY <1>4, <3>1 DEF IndexInv, NoStrayBits
    <3>2. CASE c = cell[w] /\ b \in data[w]
      <4>1. PICK id \in PutIds(w) : b \in Part(id, c)
        BY <3>2 DEF IndexInv, NoStrayBits
      <4>2. id \in Begun'
        BY <1>4, <4>1 DEF Begun
      <4> QED BY <4>1, <4>2
    <3> QED BY <2>1, <3>1, <3>2 DEF Keeps
  <2>2. ASSUME NEW v \in Writers
        PROVE  \A b \in data'[v] : \E id \in PutIds(v)' : b \in Part(id, cell'[v])
    BY OthersKept
  <2> QED BY <2>1, <2>2 DEF NoStrayBits
<1>6. BitsKept'
  <2>1. \A id \in ended', c \in Cells : Part(id, c) \subseteq index'[c]
    BY OthersKept
  <2>2. \A v \in Writers : PlacedKept(v)'
    BY OthersKept
  <2> QED BY <2>1, <2>2 DEF BitsKept
<1>7. \A v \in Writers : WriterOK(v)' /\ StateOK(v)'
  BY OthersKept
<1> QED BY <1>1, <1>2, <1>5, <1>6, <1>7 DEF IndexInv

LEMMA UnchangedKeeps ==
  ASSUME IndexInv, NEW w \in Writers, UNCHANGED index
  PROVE  Keeps(w)
BY DEF Keeps, IndexInv, IndexTypeOK

LEMMA StartKeeps == ASSUME IndexInv, NEW w \in Writers, StartBatch(w) PROVE IndexInv'
<1> USE DEF StartBatch
<1>1. IndexTypeOK /\ WriterOK(w) /\ StateOK(w)
  BY DEF IndexInv
<1>2. load \in [Writers -> Seq(Seq(Ids))] /\ load[w] # << >>
  BY <1>1 DEF IndexTypeOK, IsWorkload
<1>3. PICK b : b = Head(load[w])
  OBVIOUS
<1>4. b \in Seq(Ids) /\ 1 \in DOMAIN load[w] /\ b = load[w][1]
  BY <1>2, <1>3
<1>5. Ascends(b)
  BY <1>1, <1>4 DEF IndexTypeOK, IsWorkload
<1>6. rest' \in [Writers -> Seq(Ids)] /\ rest'[w] = b
  BY <1>1, <1>3, <1>4 DEF IndexTypeOK
<1>7. at' \in [Writers -> {"idle", "put", "carry"}] /\ at'[w] = "put"
  BY <1>1 DEF IndexTypeOK
<1>8. BatchIds(w)' = Elems(b) /\ PutIds(w)' = Elems(b) /\ PutIds(w) = {}
  BY <1>3, <1>7 DEF BatchIds, PutIds, Elems
<1>9. Placed(w)' = {}
  BY <1>6, <1>8 DEF Placed
<1>10. Keeps(w)
  BY UnchangedKeeps
<1>11. Alone(w)
  BY <1>1 DEF IndexTypeOK, Alone
<1>12. cell[w] = NoCell /\ data[w] = {} /\ writeState[w] = NOT_STARTED
  BY <1>1 DEF WriterOK, StateOK
<1>13. \A id \in Elems(b) : id \in Ids
  BY <1>4 DEF Elems
<1>14. WriterOK(w)'
  <2>1. \A id \in Elems(b) : cell'[w] <= Access(id).cell
    BY <1>12, <1>13, InCells DEF NoCell
  <2> QED BY <1>2, <1>5, <1>6, <1>7, <1>8, <2>1 DEF WriterOK
<1>15. StateOK(w)'
  BY <1>12 DEF StateOK, NOT_STARTED, AT_START
<1>16. PlacedKept(w)'
  BY <1>9 DEF PlacedKept
<1>17. \A x \in data'[w] : \E id \in PutIds(w)' : x \in Part(id, cell'[w])
  BY <1>12
<1>18. /\ cell' \in [Writers -> Cells \union {NoCell}] /\ data' \in [Writers -> SUBSET Bits]
       /\ writeState' \in [Writers -> {NOT_STARTED, AT_START, AT_START + 1}]
  BY <1>1 DEF IndexTypeOK
<1> QED BY <1>6, <1>7, <1>8, <1>10, <1>11, <1>14, <1>15, <1>16, <1>17, <1>18, Continues

(* The current cell of put(), after it has flushed an earlier one or not.  *)
EntersCell(w, n, bits) ==
  /\ \/ /\ n = cell[w]
        /\ data' = [data EXCEPT ![w] = @ \union bits]
        /\ UNCHANGED <<index, writeState>>
     \/ /\ n # cell[w]
        /\ FlushCell(w)
        /\ data' = [data EXCEPT ![w] = bits]
  /\ cell' = [cell EXCEPT ![w] = n]

LEMMA EnteredCell ==
  ASSUME IndexInv, NEW w \in Writers, at[w] = "put", rest[w] # << >>,
         NEW n, n = Access(NextId(w)).cell,
         NEW bits, bits = Part(NextId(w), n),
         EntersCell(w, n, bits)
  PROVE  /\ Keeps(w) /\ n \in Cells
         /\ cell' \in [Writers -> Cells \union {NoCell}] /\ cell'[w] = n
         /\ data' \in [Writers -> SUBSET Bits]
         /\ writeState' \in [Writers -> {NOT_STARTED, AT_START, AT_START + 1}]
         /\ \A v \in Writers \ {w} : writeState'[v] = writeState[v]
         /\ writeState'[w] # NOT_STARTED
         /\ writeState'[w] > AT_START => \E id \in PutIds(w) : Access(id).cell < n
         /\ bits \subseteq data'[w]
         /\ \A b \in data'[w] : \E id \in PutIds(w) : b \in Part(id, n)
         /\ \A id \in Placed(w) :
              /\ LastCell(id) <= n
              /\ \A c \in Cells : Part(id, c) \subseteq (IF c = n THEN data'[w] ELSE index'[c])
<1> USE DEF EntersCell
<1>1. IndexTypeOK /\ WriterOK(w) /\ StateOK(w) /\ PlacedKept(w)
  BY DEF IndexInv, BitsKept
<1>2. PICK k : k = NextId(w)
  OBVIOUS
<1>3. rest[w] \in Seq(Ids) /\ Ascends(rest[w])
  BY <1>1 DEF IndexTypeOK, WriterOK
<1>4. k \in Ids /\ k \in Elems(rest[w]) /\ k \in BatchIds(w)
  <2>1. k \in Ids /\ k \in Elems(rest[w])
    BY <1>2, <1>3, AscendsTail DEF NextId
  <2> QED BY <1>1, <2>1 DEF WriterOK
<1>5. PutIds(w) = BatchIds(w) /\ BatchIds(w) \subseteq Ids
  BY BatchFacts
<1>6. n \in Cells /\ n \in Nat /\ n = Access(k).cell /\ bits \subseteq Bits
  BY <1>2, <1>4, InCells DEF Part
<1>7. cell[w] <= n
  BY <1>1, <1>4, <1>6 DEF WriterOK
<1>8. cell[w] \in Cells \union {NoCell} /\ data[w] \subseteq Bits
  BY <1>1 DEF IndexTypeOK
<1>9. cell[w] \in Int
  BY <1>4, <1>8, InCells DEF NoCell
<1>10. cell' \in [Writers -> Cells \union {NoCell}] /\ cell'[w] = n
  BY <1>1, <1>6 DEF IndexTypeOK
<1>11. CASE /\ n = cell[w]
            /\ data' = [data EXCEPT ![w] = @ \union bits]
            /\ UNCHANGED <<index, writeState>>
  <2>1. data' \in [Writers -> SUBSET Bits] /\ data'[w] = data[w] \union bits
    BY <1>1, <1>6, <1>8, <1>11 DEF IndexTypeOK
  <2>2. writeState[w] # NOT_STARTED
    <3>1. n # NoCell
      BY <1>6 DEF NoCell
    <3> QED BY <1>1, <1>11, <3>1 DEF StateOK
  <2>3. \A b \in data'[w] : \E id \in PutIds(w) : b \in Part(id, n)
    <3>1. ASSUME NEW b \in bits PROVE \E id \in PutIds(w) : b \in Part(id, n)
      BY <1>2, <1>4, <1>5, <3>1
    <3>2. ASSUME NEW b \in data[w] PROVE \E id \in PutIds(w) : b \in Part(id, n)
      BY <1>11 DEF IndexInv, NoStrayBits
    <3> QED BY <2>1, <3>1, <3>2
  <2>4. \A id \in Placed(w) :
          /\ LastCell(id) <= n
          /\ \A c \in Cells : Part(id, c) \subseteq (IF c = n THEN data'[w] ELSE index'[c])
    BY <1>1, <1>11, <2>1 DEF PlacedKept
  <2>5. writeState' \in [Writers -> {NOT_STARTED, AT_START, AT_START + 1}]
    BY <1>1, <1>11 DEF IndexTypeOK
  <2>6. writeState'[w] > AT_START => \E id \in PutIds(w) : Access(id).cell < n
    BY <1>1, <1>11 DEF StateOK
  <2>7. Keeps(w)
    BY <1>11, UnchangedKeeps
  <2> QED BY <1>6, <1>10, <1>11, <2>1, <2>2, <2>3, <2>4, <2>5, <2>6, <2>7
<1>12. CASE /\ n # cell[w]
            /\ FlushCell(w)
            /\ data' = [data EXCEPT ![w] = bits]
  <2>1. data' \in [Writers -> SUBSET Bits] /\ data'[w] = bits
    BY <1>1, <1>6, <1>12 DEF IndexTypeOK
  <2>2. cell[w] < n
    BY <1>6, <1>7, <1>9, <1>12
  <2>3. cell[w] < LastCell(k)
    BY <1>6, <1>9, <2>2 DEF LastCell
  <2>4. /\ Keeps(w) /\ Writes(w)
        /\ writeState' \in [Writers -> {NOT_STARTED, AT_START, AT_START + 1}]
        /\ \A v \in Writers \ {w} : writeState'[v] = writeState[v]
        /\ writeState'[w] # NOT_STARTED
        /\ writeState'[w] > AT_START => cell[w] # NoCell
    BY <1>4, <1>12, <2>3, Flushing
  <2>5. writeState'[w] > AT_START => \E id \in PutIds(w) : Access(id).cell < n
    <3> SUFFICES ASSUME writeState'[w] > AT_START PROVE \E id \in PutIds(w) : Access(id).cell < n
      OBVIOUS
    <3>1. PICK id \in PutIds(w) : Access(id).cell <= cell[w]
      BY <1>1, <2>4 DEF StateOK
    <3>2. Access(id).cell \in Nat
      BY <1>5, InCells
    <3> QED BY <1>6, <1>9, <2>2, <3>1, <3>2
  <2>6. \A b \in data'[w] : \E id \in PutIds(w) : b \in Part(id, n)
    BY <1>2, <1>4, <1>5, <2>1
  <2>7. ASSUME NEW id \in Placed(w)
        PROVE  /\ LastCell(id) <= n
               /\ \A c \in Cells : Part(id, c) \subseteq (IF c = n THEN data'[w] ELSE index'[c])
    <3>1. id \in Ids
      BY <1>5 DEF Placed
    <3>2. LastCell(id) <= cell[w] /\ LastCell(id) \in Nat
      BY <1>1, <3>1, InCells DEF PlacedKept
    <3>3. LastCell(id) < n
      BY <1>6, <1>9, <2>2, <3>2
    <3>4. Part(id, n) = {}
      BY <1>6, <3>1, <3>3, EmptyPart
    <3>5. ASSUME NEW c \in Cells PROVE Part(id, c) \subseteq (IF c = n THEN data'[w] ELSE index'[c])
      <4>1. CASE c = n
        BY <3>4, <4>1
      <4>2. CASE c = cell[w]
        <5>1. c # NoCell
          BY <3>1, InCells DEF NoCell
        <5>2. Part(id, c) \subseteq data[w] /\ data[w] \subseteq index'[c]
          BY <1>1, <2>4, <4>2, <5>1 DEF PlacedKept, Writes
        <5> QED BY <1>12, <4>2, <5>2
      <4>3. CASE c # n /\ c # cell[w]
        <5>1. Part(id, c) \subseteq index[c] /\ index'[c] = index[c]
          BY <1>1, <2>4, <4>3 DEF PlacedKept, Keeps
        <5> QED BY <4>3, <5>1
      <4> QED BY <4>1, <4>2, <4>3
    <3>6. LastCell(id) <= n
      BY <1>6, <3>2, <3>3
    <3> QED BY <3>5, <3>6
  <2> QED BY <1>6, <1>10, <2>1, <2>4, <2>5, <2>6, <2>7
<1> QED BY <1>11, <1>12

(* The entry at the head of the rest has been put with all its bits.       *)
LEMMA OneMorePlaced ==
  ASSUME IndexInv, NEW w \in Writers, at[w] # "idle", rest[w] # << >>,
         rest' = [rest EXCEPT ![w] = Tail(@)], at'[w] # "idle", load' = load,
         NEW k, k = NextId(w)
  PROVE  /\ rest' \in [Writers -> Seq(Ids)] /\ rest'[w] = Tail(rest[w]) /\ Ascends(rest'[w])
         /\ PutIds(w)' = PutIds(w) /\ BatchIds(w)' = BatchIds(w) /\ PutIds(w) = BatchIds(w)
         /\ k \in Ids /\ k \in PutIds(w)
         /\ Elems(rest'[w]) \subseteq BatchIds(w)
         /\ \A id \in Elems(rest'[w]) : id \in Ids /\ LastCell(k) <= Access(id).cell
         /\ Placed(w)' \subseteq Placed(w) \union {k} /\ Placed(w) \subseteq Ids
<1>1. rest \in [Writers -> Seq(Ids)] /\ Ascends(rest[w]) /\ Elems(rest[w]) \subseteq BatchIds(w)
  BY DEF IndexInv, IndexTypeOK, WriterOK
<1>2. PICK s : s = rest[w]
  OBVIOUS
<1>3. s \in Seq(Ids) /\ s # << >> /\ Ascends(s) /\ k = Head(s)
  BY <1>1, <1>2 DEF NextId
<1>4. /\ k \in Ids /\ Tail(s) \in Seq(Ids) /\ Ascends(Tail(s))
      /\ Elems(s) = Elems(Tail(s)) \union {k}
      /\ \A id \in Elems(Tail(s)) : k < id /\ id \in Ids
  BY <1>3, AscendsTail
<1>5. rest' \in [Writers -> Seq(Ids)] /\ rest'[w] = Tail(s)
  BY <1>1, <1>2, <1>4
<1>6. PutIds(w)' = PutIds(w) /\ BatchIds(w)' = BatchIds(w) /\ PutIds(w) = BatchIds(w)
      /\ PutIds(w) \subseteq Ids
  BY BatchFacts DEF PutIds, BatchIds
<1>7. \A id \in Elems(Tail(s)) : LastCell(k) <= Access(id).cell
  BY <1>4, CellOrder
<1>8. Placed(w)' = PutIds(w) \ Elems(Tail(s)) /\ Placed(w) = PutIds(w) \ Elems(s)
  BY <1>2, <1>5, <1>6 DEF Placed
<1> QED BY <1>1, <1>2, <1>4, <1>5, <1>6, <1>7, <1>8

LEMMA PutKeeps == ASSUME IndexInv, NEW w \in Writers, PutEntry(w) PROVE IndexInv'
<1> USE DEF PutEntry
<1>1. IndexTypeOK /\ WriterOK(w) /\ at[w] = "put" /\ rest[w] # << >>
  BY DEF IndexInv
<1>2. PICK k, n : k = NextId(w) /\ n = Access(k).cell
  OBVIOUS
<1>3. k \in Ids /\ Ascends(rest[w]) /\ Elems(rest[w]) \subseteq BatchIds(w)
  <2>1. rest[w] \in Seq(Ids) /\ Ascends(rest[w]) /\ Elems(rest[w]) \subseteq BatchIds(w)
    BY <1>1 DEF IndexTypeOK, WriterOK
  <2> QED BY <1>1, <1>2, <2>1, AscendsTail DEF NextId
<1>4. PICK bits : bits = Part(k, n)
  OBVIOUS
<1>5. ShiftLeft(Pile[k], Access(k).offset) = bits
  BY <1>2, <1>3, <1>4, FirstPart
<1>6. /\ \/ /\ n = cell[w]
            /\ data' = [data EXCEPT ![w] = @ \union bits]
            /\ UNCHANGED <<index, writeState>>
         \/ /\ n # cell[w]
            /\ FlushCell(w)
            /\ data' = [data EXCEPT ![w] = bits]
      /\ cell' = [cell EXCEPT ![w] = n]
      /\ \/ Overflow(k) > 0 /\ at' = [at EXCEPT ![w] = "carry"] /\ UNCHANGED rest
         \/ Overflow(k) <= 0 /\ rest' = [rest EXCEPT ![w] = Tail(@)] /\ UNCHANGED at
      /\ UNCHANGED <<load, ended>>
  BY <1>2, <1>5
<1> HIDE DEF PutEntry
<1>7. /\ Keeps(w) /\ n \in Cells
      /\ cell' \in [Writers -> Cells \union {NoCell}] /\ cell'[w] = n
      /\ data' \in [Writers -> SUBSET Bits]
      /\ writeState' \in [Writers -> {NOT_STARTED, AT_START, AT_START + 1}]
      /\ \A v \in Writers \ {w} : writeState'[v] = writeState[v]
      /\ writeState'[w] # NOT_STARTED
      /\ writeState'[w] > AT_START => \E id \in PutIds(w) : Access(id).cell < n
      /\ bits \subseteq data'[w]
      /\ \A b \in data'[w] : \E id \in PutIds(w) : b \in Part(id, n)
      /\ \A id \in Placed(w) :
           /\ LastCell(id) <= n
           /\ \A c \in Cells : Part(id, c) \subseteq (IF c = n THEN data'[w] ELSE index'[c])
  <2>1. n = Access(NextId(w)).cell /\ bits = Part(NextId(w), n)
    BY <1>2, <1>4
  <2>2. EntersCell(w, n, bits)
    BY <1>6 DEF EntersCell
  <2> QED BY <1>1, <2>1, <2>2, EnteredCell
<1>8. at' \in [Writers -> {"idle", "put", "carry"}] /\ at'[w] \in {"put", "carry"}
  BY <1>1, <1>6 DEF IndexTypeOK
<1>9. Alone(w)
  BY <1>1, <1>6, <1>7 DEF Alone, IndexTypeOK
<1>10. PutIds(w)' = PutIds(w) /\ BatchIds(w)' = BatchIds(w) /\ PutIds(w) = BatchIds(w)
  BY <1>1, <1>6, <1>8, BatchFacts DEF PutIds, BatchIds
<1>11. k \in PutIds(w)
  <2>1. rest[w] \in Seq(Ids)
    BY <1>1 DEF IndexTypeOK
  <2>2. k \in Elems(rest[w])
    BY <1>1, <1>2, <1>3, <2>1, AscendsTail DEF NextId
  <2> QED BY <1>3, <1>10, <2>2
<1>12. n \in Nat /\ n # NoCell
  BY <1>7, CellsAreNumbers DEF NoCell
<1>13. StateOK(w)'
  <2>1. \E id \in PutIds(w)' : Access(id).cell <= cell'[w]
    BY <1>2, <1>7, <1>10, <1>11, <1>12
  <2> QED BY <1>7, <1>10, <1>12, <2>1 DEF StateOK
<1>14. \A b \in data'[w] : \E id \in PutIds(w)' : b \in Part(id, cell'[w])
  BY <1>7, <1>10
<1>15. load[w] # << >>
  BY <1>1 DEF WriterOK
<1>16. CASE Overflow(k) > 0 /\ at' = [at EXCEPT ![w] = "carry"] /\ UNCHANGED rest
  <2>1. at'[w] = "carry" /\ rest'[w] = rest[w] /\ rest' \in [Writers -> Seq(Ids)]
    BY <1>1, <1>16 DEF IndexTypeOK
  <2>2. Placed(w)' = Placed(w) /\ NextId(w)' = k
    BY <1>2, <1>10, <1>16 DEF Placed, NextId
  <2>3. WriterOK(w)'
    BY <1>1, <1>2, <1>3, <1>4, <1>6, <1>7, <1>10, <1>15, <1>16, <2>1, <2>2 DEF WriterOK
  <2>4. PlacedKept(w)'
    BY <1>7, <2>2 DEF PlacedKept
  <2> QED BY <1>6, <1>7, <1>8, <1>9, <1>10, <1>13, <1>14, <2>1, <2>3, <2>4, Continues
<1>17. CASE Overflow(k) <= 0 /\ rest' = [rest EXCEPT ![w] = Tail(@)] /\ UNCHANGED at
  <2>1. at'[w] = "put"
    BY <1>1, <1>17
  <2>2. /\ rest' \in [Writers -> Seq(Ids)] /\ Ascends(rest'[w])
        /\ Elems(rest'[w]) \subseteq BatchIds(w)
        /\ \A id \in Elems(rest'[w]) : id \in Ids /\ LastCell(k) <= Access(id).cell
        /\ Placed(w)' \subseteq Placed(w) \union {k} /\ Placed(w) \subseteq Ids
    BY <1>1, <1>2, <1>6, <1>17, <2>1, OneMorePlaced
  <2>3. LastCell(k) = n
    <3>1. ~(Overflow(k) > 0)
      <4>1. Overflow(k) \in Int
        BY <1>3, Placement, WidthAssumption
      <4> QED BY <1>17, <4>1
    <3> QED BY <1>2, <3>1 DEF LastCell
  <2>4. WriterOK(w)'
    BY <1>6, <1>7, <1>10, <1>15, <2>1, <2>2, <2>3 DEF WriterOK
  <2>5. \A c \in Cells : Part(k, c) \subseteq (IF c = n THEN data'[w] ELSE index'[c])
    <3> SUFFICES ASSUME NEW c \in Cells, c # n PROVE Part(k, c) = {}
      BY <1>4, <1>7
    <3>1. c \in Nat /\ (c < n \/ n < c)
      BY <1>12, CellsAreNumbers
    <3> QED BY <1>2, <1>3, <2>3, <3>1, EmptyPart
  <2>6. PlacedKept(w)'
    BY <1>7, <1>12, <2>2, <2>3, <2>5 DEF PlacedKept
  <2>7. at' \in [Writers -> {"idle", "put", "carry"}]
    BY <1>8
  <2> QED BY <1>6, <1>7, <1>9, <1>10, <1>13, <1>14, <2>2, <2>4, <2>6, <2>7, Continues
<1> QED BY <1>6, <1>16, <1>17

LEMMA CarryKeeps == ASSUME IndexInv, NEW w \in Writers, Carry(w) PROVE IndexInv'
<1> USE DEF Carry
<1>1. IndexTypeOK /\ WriterOK(w) /\ at[w] = "carry" /\ PlacedKept(w)
  BY DEF IndexInv, BitsKept
<1>2. PICK k, n : k = NextId(w) /\ n = cell[w]
  OBVIOUS
<1>3. /\ rest[w] # << >> /\ Overflow(k) > 0 /\ n = Access(k).cell /\ Part(k, n) \subseteq data[w]
      /\ load[w] # << >>
  BY <1>1, <1>2 DEF WriterOK
<1>4. at' = [at EXCEPT ![w] = "put"] /\ at'[w] = "put" /\ at' \in [Writers -> {"idle", "put", "carry"}]
  BY <1>1 DEF IndexTypeOK
<1>5. /\ rest' \in [Writers -> Seq(Ids)] /\ Ascends(rest'[w])
      /\ PutIds(w)' = PutIds(w) /\ BatchIds(w)' = BatchIds(w) /\ PutIds(w) = BatchIds(w)
      /\ k \in Ids /\ k \in PutIds(w)
      /\ Elems(rest'[w]) \subseteq BatchIds(w)
      /\ \A id \in Elems(rest'[w]) : id \in Ids /\ LastCell(k) <= Access(id).cell
      /\ Placed(w)' \subseteq Placed(w) \union {k} /\ Placed(w) \subseteq Ids
  BY <1>1, <1>2, <1>3, <1>4, OneMorePlaced
<1>6. n \in Cells /\ n \in Nat /\ n + 1 \in Cells /\ LastCell(k) = n + 1
  BY <1>3, <1>5, InCells DEF LastCell
<1>7. cell' \in [Writers -> Cells \union {NoCell}] /\ cell'[w] = n + 1
  BY <1>1, <1>2, <1>6 DEF IndexTypeOK
<1>8. ShiftRight(Pile[k], ValueWidth - Overflow(k)) = Part(k, n + 1)
  BY <1>3, <1>5, SecondPart
<1>9. data' \in [Writers -> SUBSET Bits] /\ data'[w] = Part(k, n + 1)
  <2>1. Part(k, n + 1) \subseteq Bits
    BY DEF Part
  <2> QED BY <1>1, <1>2, <1>8, <2>1 DEF IndexTypeOK
<1>10. /\ Keeps(w) /\ Writes(w)
       /\ writeState' \in [Writers -> {NOT_STARTED, AT_START, AT_START + 1}]
       /\ \A v \in Writers \ {w} : writeState'[v] = writeState[v]
       /\ writeState'[w] # NOT_STARTED
  <2>1. cell[w] < LastCell(k)
    BY <1>2, <1>6
  <2> QED BY <1>1, <1>5, <2>1, Flushing
<1>11. Alone(w)
  BY <1>1, <1>10 DEF Alone, IndexTypeOK
<1>12. StateOK(w)'
  <2>1. Access(k).cell < cell'[w] /\ Access(k).cell <= cell'[w] /\ cell'[w] # NoCell
    BY <1>3, <1>6, <1>7 DEF NoCell
  <2> QED BY <1>5, <1>10, <2>1 DEF StateOK
<1>13. WriterOK(w)'
  <2>1. load'[w] # << >>
    BY <1>3
  <2> QED BY <1>4, <1>5, <1>6, <1>7, <2>1 DEF WriterOK
<1>14. \A b \in data'[w] : \E id \in PutIds(w)' : b \in Part(id, cell'[w])
  BY <1>5, <1>7, <1>9
<1>15. ASSUME NEW id \in Placed(w)
       PROVE  /\ LastCell(id) <= n + 1
              /\ \A c \in Cells : Part(id, c) \subseteq (IF c = n + 1 THEN data'[w] ELSE index'[c])
  <2>1. id \in Ids
    BY <1>5
  <2>2. LastCell(id) <= n /\ LastCell(id) \in Nat
    BY <1>1, <1>2, <2>1, InCells DEF PlacedKept
  <2>3. Part(id, n + 1) = {}
    BY <1>6, <2>1, <2>2, EmptyPart
  <2>4. ASSUME NEW c \in Cells, c # n + 1 PROVE Part(id, c) \subseteq index'[c]
    <3>1. CASE c = n
      <4>1. n # NoCell
        BY <1>6 DEF NoCell
      <4> QED BY <1>1, <1>2, <1>10, <3>1, <4>1 DEF PlacedKept, Writes
    <3>2. CASE c # n
      BY <1>1, <1>2, <1>10, <3>2 DEF PlacedKept, Keeps
    <3> QED BY <3>1, <3>2
  <2>5. LastCell(id) <= n + 1
    BY <1>6, <2>2
  <2> QED BY <2>3, <2>4, <2>5
<1>16. \A c \in Cells : Part(k, c) \subseteq (IF c = n + 1 THEN data'[w] ELSE index'[c])
  <2> SUFFICES ASSUME NEW c \in Cells, c # n + 1 PROVE Part(k, c) \subseteq index'[c]
    BY <1>9
  <2>1. CASE c = n
    <3>1. n # NoCell
      BY <1>6 DEF NoCell
    <3> QED BY <1>2, <1>3, <1>10, <2>1, <3>1 DEF Writes
  <2>2. CASE c # n
    <3>1. c \in Nat /\ (c < n \/ n + 1 < c)
      BY <1>6, <2>2, CellsAreNumbers
    <3>2. Part(k, c) = {}
      BY <1>3, <1>5, <1>6, <3>1, EmptyPart
    <3> QED BY <3>2
  <2> QED BY <2>1, <2>2
<1>17. PlacedKept(w)'
  <2>1. LastCell(k) <= n + 1
    BY <1>6
  <2> QED BY <1>5, <1>7, <1>15, <1>16, <2>1 DEF PlacedKept
<1> QED BY <1>4, <1>5, <1>7, <1>9, <1>10, <1>11, <1>12, <1>13, <1>14, <1>17, Continues

LEMMA EndKeeps == ASSUME IndexInv, NEW w \in Writers, EndIndexBatch(w) PROVE IndexInv'
<1> USE DEF EndIndexBatch
<1>1. IndexTypeOK /\ WriterOK(w) /\ at[w] = "put" /\ rest[w] = << >> /\ PlacedKept(w)
  BY DEF IndexInv, BitsKept
<1>2. /\ load[w] # << >> /\ 1 \in DOMAIN load[w]
      /\ PutIds(w) = BatchIds(w) /\ BatchIds(w) = Elems(load[w][1]) /\ BatchIds(w) \subseteq Ids
  BY <1>1, BatchFacts
<1>3. Placed(w) = BatchIds(w)
  <2>1. Elems(rest[w]) = {}
    BY <1>1 DEF Elems
  <2> QED BY <1>2, <2>1 DEF Placed
<1>4. /\ IsWorkload(load')
      /\ \A v \in Writers : \A i \in DOMAIN load'[v] :
           \E k \in DOMAIN load[v] : load'[v][i] = load[v][k] /\ (v = w => k # 1)
  <2>1. IsWorkload(load) /\ load' = [load EXCEPT ![w] = Tail(@)]
    BY <1>1 DEF IndexTypeOK
  <2> QED BY <1>2, <2>1, WorkloadTail
<1>5. /\ at' \in [Writers -> {"idle", "put", "carry"}] /\ at'[w] = "idle"
      /\ cell' \in [Writers -> Cells \union {NoCell}] /\ cell'[w] = NoCell
      /\ data' \in [Writers -> SUBSET Bits] /\ data'[w] = {}
      /\ writeState' \in [Writers -> {NOT_STARTED, AT_START, AT_START + 1}]
      /\ writeState'[w] = NOT_STARTED
      /\ rest' \in [Writers -> Seq(Ids)] /\ rest'[w] = << >>
      /\ ended' = ended \union BatchIds(w)
  BY <1>1 DEF IndexTypeOK
<1>6. Alone(w)
  BY <1>1 DEF Alone, IndexTypeOK, IsWorkload
<1>7. Keeps(w)
  BY Merging, UnchangedKeeps
<1>8. \A id \in BatchIds(w), c \in Cells : Part(id, c) \subseteq index'[c]
  <2> SUFFICES ASSUME NEW id \in BatchIds(w), NEW c \in Cells PROVE Part(id, c) \subseteq index'[c]
    OBVIOUS
  <2>1. Part(id, c) \subseteq (IF c = cell[w] THEN data[w] ELSE index[c])
    BY <1>1, <1>3 DEF PlacedKept
  <2>2. CASE c = cell[w]
    <3>1. cell[w] # NoCell
      BY <2>2, CellsAreNumbers DEF NoCell
    <3>2. Writes(w)
      BY <3>1, Merging
    <3> QED BY <2>1, <2>2, <3>1, <3>2 DEF Writes
  <2>3. CASE c # cell[w]
    BY <1>7, <2>1, <2>3 DEF Keeps
  <2> QED BY <2>2, <2>3
<1>9. PutIds(w)' = {} /\ Placed(w)' = {}
  BY <1>5 DEF PutIds, Placed
<1>10. \A v \in Writers \ {w} : PutIds(v)' = PutIds(v)
  BY <1>6, <1>7, OthersKept
<1>11. IndexTypeOK'
  BY <1>1, <1>2, <1>4, <1>5, <1>7 DEF IndexTypeOK, Keeps
<1>12. EndedBeside'
  <2> SUFFICES ASSUME NEW id \in ended', NEW v \in Writers, NEW i \in DOMAIN load'[v]
               PROVE  Beside(id, load'[v][i])
    BY DEF EndedBeside
  <2>1. PICK k \in DOMAIN load[v] : load'[v][i] = load[v][k] /\ (v = w => k # 1)
    BY <1>4
  <2>2. CASE id \in ended
    BY <2>1, <2>2 DEF IndexInv, EndedBeside
  <2>3. CASE id \in BatchIds(w)
    <3>1. <<w, 1>> # <<v, k>>
      BY <2>1
    <3>2. Precedes(load[w][1], load[v][k]) \/ Precedes(load[v][k], load[w][1])
      BY <1>1, <1>2, <3>1 DEF IndexTypeOK, IsWorkload
    <3>3. Beside(id, load[v][k])
      BY <1>2, <2>3, <3>2 DEF Precedes, Beside, Elems
    <3> QED BY <2>1, <3>3
  <2> QED BY <1>5, <2>2, <2>3
<1>13. Begun \subseteq Begun'
  <2> SUFFICES ASSUME NEW id \in Begun PROVE id \in Begun'
    OBVIOUS
  <2>1. CASE id \in ended
    BY <1>5, <2>1 DEF Begun
  <2>2. CASE id \in PutIds(w)
    BY <1>2, <1>5, <2>2 DEF Begun
  <2>3. CASE \E v \in Writers \ {w} : id \in PutIds(v)
    BY <1>10, <2>3 DEF Begun
  <2> QED BY <2>1, <2>2, <2>3 DEF Begun
<1>14. NoStrayBits'
  <2>1. ASSUME NEW c \in Cells, NEW b \in index'[c]
        PROVE  \E id \in Begun' : b \in Part(id, c)
    <3>1. CASE b \in index[c]
      BY <1>13, <3>1 DEF IndexInv, NoStrayBits
    <3>2. CASE c = cell[w] /\ b \in data[w]
      <4>1. PICK id \in PutIds(w) : b \in Part(id, c)
        BY <3>2 DEF IndexInv, NoStrayBits
      <4>2. id \in Begun'
        BY <1>13, <4>1 DEF Begun
      <4> QED BY <4>1, <4>2
    <3> QED BY <1>7, <2>1, <3>1, <3>2 DEF Keeps
  <2>2. ASSUME NEW v \in Writers
        PROVE  \A b \in data'[v] : \E id \in PutIds(v)' : b \in Part(id, cell'[v])
    BY <1>5, <1>6, <1>7, OthersKept
  <2> QED BY <2>1, <2>2 DEF NoStrayBits
<1>15. BitsKept'
  <2>1. \A id \in ended', c \in Cells : Part(id, c) \subseteq index'[c]
    BY <1>5, <1>6, <1>7, <1>8, OthersKept
  <2>2. \A v \in Writers : PlacedKept(v)'
    <3>1. PlacedKept(w)'
      BY <1>9 DEF PlacedKept
    <3> QED BY <1>6, <1>7, <3>1, OthersKept
  <2> QED BY <2>1, <2>2 DEF BitsKept
<1>16. \A v \in Writers : WriterOK(v)' /\ StateOK(v)'
  <2>1. WriterOK(w)'
    BY <1>5 DEF WriterOK
  <2>2. StateOK(w)'
    BY <1>5, <1>9 DEF StateOK, NOT_STARTED, AT_START
  <2> QED BY <1>6, <1>7, <2>1, <2>2, OthersKept
<1> QED BY <1>11, <1>12, <1>14, <1>15, <1>16 DEF IndexInv

-----------------------------------------------------------------------------
(* The theorems *)

(* The invariant of the index.                                             *)
THEOREM IndexInvHolds == IndexSpec => []IndexInv
<1>1. IndexInv /\ [IndexNext]_cellVars => IndexInv'
  <2> SUFFICES ASSUME IndexInv, [IndexNext]_cellVars PROVE IndexInv'
    OBVIOUS
  <2>1. CASE UNCHANGED cellVars
    <3>1. \A v \in Writers : PutIds(v)' = PutIds(v) /\ BatchIds(v)' = BatchIds(v) /\ NextId(v)' = NextId(v)
      BY <2>1 DEF PutIds, BatchIds, NextId, cellVars
    <3>2. \A v \in Writers : Placed(v)' = Placed(v)
      BY <2>1, <3>1 DEF Placed, cellVars
    <3>3. Begun' = Begun
      BY <2>1, <3>1 DEF Begun, cellVars
    <3>4. IndexTypeOK' /\ EndedBeside'
      BY <2>1 DEF IndexInv, IndexTypeOK, EndedBeside, cellVars
    <3>5. NoStrayBits'
      BY <2>1, <3>1, <3>3 DEF IndexInv, NoStrayBits, cellVars
    <3>6. BitsKept'
      BY <2>1, <3>2 DEF IndexInv, BitsKept, PlacedKept, cellVars
    <3>7. \A v \in Writers : WriterOK(v)' /\ StateOK(v)'
      BY <2>1, <3>1 DEF IndexInv, WriterOK, StateOK, cellVars
    <3> QED BY <3>4, <3>5, <3>6, <3>7 DEF IndexInv
  <2>2. ASSUME NEW w \in Writers, StartBatch(w) PROVE IndexInv'
    BY <2>2, StartKeeps
  <2>3. ASSUME NEW w \in Writers, PutEntry(w) PROVE IndexInv'
    BY <2>3, PutKeeps
  <2>4. ASSUME NEW w \in Writers, Carry(w) PROVE IndexInv'
    BY <2>4, CarryKeeps
  <2>5. ASSUME NEW w \in Writers, EndIndexBatch(w) PROVE IndexInv'
    BY <2>5, EndKeeps
  <2> QED BY <2>1, <2>2, <2>3, <2>4, <2>5 DEF IndexNext, AllEnded
<1> QED BY <1>1, InitIndexInv, PTL DEF IndexSpec

(* No entry of a batch that has ended is lost, whoever writes its          *)
(* neighbours and however they share and straddle cells: plain stores of   *)
(* the cells between and merges of the first and last are enough.          *)
THEOREM EntriesAlwaysKept == IndexSpec => []EntriesKept
<1>1. IndexInv => EntriesKept
  <2> SUFFICES ASSUME IndexInv, NEW id \in ended PROVE Get(id) = Pile[id]
    BY DEF EntriesKept
  <2>1. id \in Ids /\ index \in [Cells -> SUBSET Bits]
    BY DEF IndexInv, IndexTypeOK
  <2>2. ASSUME NEW c \in Cells PROVE index[c] \intersect Room(id, c) = Part(id, c)
    <3>1. Part(id, c) \subseteq index[c] \intersect Room(id, c)
      BY <2>1, PartInRoom DEF IndexInv, BitsKept
    <3>2. ASSUME NEW b \in index[c], b \in Room(id, c) PROVE b \in Part(id, c)
      <4>1. PICK k \in Begun : b \in Part(k, c)
        BY DEF IndexInv, NoStrayBits
      <4>2. k \in Ids /\ c \in Nat
        BY <2>1, PutIdsTyped, CellsAreNumbers DEF Begun, IndexInv, IndexTypeOK
      <4>3. b \in Room(k, c)
        BY <4>1, <4>2, PartInRoom
      <4>4. k = id
        BY <2>1, <3>2, <4>2, <4>3, RoomsApart
      <4> QED BY <4>1, <4>4
    <3> QED BY <3>1, <3>2
  <2> QED BY <2>1, <2>2, GetKept
<1> QED BY <1>1, IndexInvHolds, PTL

(* No value spills over: an ID that nobody has put reads as missing.       *)
THEOREM NeverStrayEntries == IndexSpec => []NoStrayEntries
<1>1. IndexInv => NoStrayEntries
  <2> SUFFICES ASSUME IndexInv, NEW id \in Ids, id \notin Begun PROVE Get(id) = {}
    BY DEF NoStrayEntries, Begun
  <2>1. index \in [Cells -> SUBSET Bits]
    BY DEF IndexInv, IndexTypeOK
  <2>2. ASSUME NEW c \in Cells, NEW b \in index[c], b \in Room(id, c) PROVE FALSE
    <3>1. PICK k \in Begun : b \in Part(k, c)
      BY DEF IndexInv, NoStrayBits
    <3>2. k \in Ids /\ c \in Nat
      BY PutIdsTyped, CellsAreNumbers DEF Begun, IndexInv, IndexTypeOK
    <3>3. b \in Room(k, c)
      BY <3>1, <3>2, PartInRoom
    <3>4. k = id
      BY <2>2, <3>2, <3>3, RoomsApart
    <3> QED BY <3>4
  <2> QED BY <2>1, <2>2, GetMissing
<1> QED BY <1>1, IndexInvHolds, PTL

(* The assertion of put(): cells are written in ascending order.           *)
NeverBack ==
  \A w \in Writers : at[w] = "put" /\ rest[w] # << >> => cell[w] <= Access(NextId(w)).cell

THEOREM NeverGoesBack == IndexSpec => []NeverBack
<1>1. IndexInv => NeverBack
  <2> SUFFICES ASSUME IndexInv, NEW w \in Writers, at[w] = "put", rest[w] # << >>
               PROVE  cell[w] <= Access(NextId(w)).cell
    BY DEF NeverBack
  <2>1. rest[w] \in Seq(Ids) /\ Ascends(rest[w])
    BY DEF IndexInv, IndexTypeOK, WriterOK
  <2>2. NextId(w) \in Elems(rest[w])
    BY <2>1, AscendsTail DEF NextId
  <2> QED BY <2>2 DEF IndexInv, WriterOK
<1> QED BY <1>1, IndexInvHolds, PTL

=============================================================================
