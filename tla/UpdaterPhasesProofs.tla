------------------------- MODULE UpdaterPhasesProofs -------------------------
(***************************************************************************)
(* No phase begins before all of the one before is done, for every number  *)
(* of tiles, workers and for queues of every length, and the chunks lie in *)
(* the archive where its catalog says.                                     *)
(***************************************************************************)
EXTENDS UpdaterPhases, DataTheorems

TypeOK ==
  /\ pc \in {"post", "between", "done"} /\ phase \in Phases
  /\ toPost \in Seq(Nat) /\ work \in Seq(Nat) /\ outq \in Seq(Nat)
  /\ remaining \in Nat /\ semaphore \in {0, 1}
  /\ step \in [Threads -> Phases \union {"idle", "count", "release"}]
  /\ task \in [Threads -> Nat \union {NoTask}]
  /\ analyzed \subseteq Tiles /\ changed \subseteq Tiles
  /\ catalog \in Seq(Tiles) /\ chunkAt \in [Tiles -> Nat] /\ end \in Nat

InHand == {task[t] : t \in {u \in Threads : Busy(u)}}
HeldAt(threads, s) == {task[t] : t \in {u \in threads : step[u] = s}}

(* A task is in one place at a time: yet to be posted, in one of the       *)
(* queues, or with one thread.                                             *)
OnePlace ==
  /\ Distinct(toPost) /\ Distinct(work) /\ Distinct(outq)
  /\ \A t, u \in Threads : Busy(t) /\ Busy(u) /\ task[t] = task[u] => t = u
  /\ \A t \in Threads : Busy(t) => task[t] \in Nat
  /\ Elems(toPost) \intersect Elems(work) = {}
  /\ Elems(toPost) \intersect Elems(outq) = {}
  /\ Elems(work) \intersect Elems(outq) = {}
  /\ InHand \intersect (Elems(toPost) \union Elems(work) \union Elems(outq)) = {}

(* The tasks that nobody has counted yet, and those of them that have not  *)
(* had their effect in each of the phases.                                 *)
Uncounted == Elems(toPost) \union Elems(work) \union Elems(outq) \union InHand
Unsearched == Elems(toPost) \union Elems(work) \union HeldAt(Workers, "SEARCH")
Unwritten == Elems(toPost) \union Elems(work) \union Elems(outq) \union HeldAt(Threads, "PREPARE_UPDATE")
Unread == Elems(toPost) \union Elems(work) \union HeldAt(Workers, "APPLY_UPDATE")

Counted == IsFiniteSet(Uncounted) /\ remaining = Cardinality(Uncounted)

(* The semaphore is released once in a phase, when all tasks are counted.  *)
ReleasedOnce ==
  /\ \A t, u \in Threads : step[t] = "release" /\ step[u] = "release" => t = u
  /\ \A t \in Threads : step[t] = "release" => pc = "post" /\ remaining = 0 /\ semaphore = 0
  /\ semaphore = 1 => pc = "post" /\ remaining = 0
  /\ pc # "post" => remaining = 0

InPhase == \A t \in Threads : step[t] \in Phases => step[t] = phase

Progress ==
  /\ phase = "SEARCH" => Tiles = analyzed \union Unsearched /\ catalog = << >>
  /\ phase = "PREPARE_UPDATE" =>
       changed = Elems(catalog) \union Unwritten /\ Elems(catalog) \intersect Unwritten = {}
  /\ phase # "APPLY_UPDATE" => read = {}
  /\ phase = "APPLY_UPDATE" =>
       /\ Elems(catalog) = changed
       /\ changed = {r[1] : r \in read} \union {catalog[i] : i \in Unread}
  /\ Distinct(catalog)

(* Where the chunk after the first i - 1 of the catalog begins.            *)
PlaceOf(i) == IF i = 1 THEN HeaderSize + EntrySize * Cardinality(changed) + ChecksumSize
                       ELSE chunkAt[catalog[i - 1]] + ChunkSize[catalog[i - 1]]
Layout ==
  /\ \A i \in 1..Len(catalog) : chunkAt[catalog[i]] = PlaceOf(i)
  /\ phase = "PREPARE_UPDATE" => end = PlaceOf(Len(catalog) + 1)

IInv == TypeOK /\ OnePlace /\ Counted /\ ReleasedOnce /\ InPhase /\ Progress /\ Layout

-----------------------------------------------------------------------------
(* Threads and the tasks in their hands *)

(* A thread that takes a task has it in its hands, for the phase that is.  *)
LEMMA Takes ==
  ASSUME TypeOK, NEW t \in Threads, NEW k \in Nat, step[t] = "idle", Goto(t, phase),
         task' = [task EXCEPT ![t] = k]
  PROVE  /\ InHand' = InHand \union {k}
         /\ \A T, s : T \subseteq Threads /\ s = phase /\ t \in T => HeldAt(T, s)' = HeldAt(T, s) \union {k}
         /\ \A T, s : T \subseteq Threads /\ t \notin T => HeldAt(T, s)' = HeldAt(T, s)
         /\ \A u \in Threads : Busy(u)' <=> u = t \/ Busy(u)
         /\ \A u \in Threads : task'[u] = IF u = t THEN k ELSE task[u]
<1> USE DEF Goto
<1>1. \A u \in Threads : step'[u] = IF u = t THEN phase ELSE step[u]
  BY DEF TypeOK
<1>2. \A u \in Threads : task'[u] = IF u = t THEN k ELSE task[u]
  BY DEF TypeOK
<1>3. phase \in Phases /\ "idle" \notin Phases /\ "idle" # "count" /\ phase # "idle"
  BY DEF TypeOK, Phases
<1>4. \A u \in Threads : Busy(u)' <=> u = t \/ Busy(u)
  BY <1>1, <1>3 DEF Busy
<1>5. InHand' = InHand \union {k}
  BY <1>1, <1>2, <1>3, <1>4 DEF InHand, Busy
<1>6. ASSUME NEW T, NEW s, T \subseteq Threads, s = phase, t \in T
      PROVE  HeldAt(T, s)' = HeldAt(T, s) \union {k}
  BY <1>1, <1>2, <1>3, <1>6 DEF HeldAt
<1>7. ASSUME NEW T, NEW s, T \subseteq Threads, t \notin T PROVE HeldAt(T, s)' = HeldAt(T, s)
  BY <1>1, <1>2, <1>7 DEF HeldAt
<1> QED BY <1>2, <1>4, <1>5, <1>6, <1>7

(* A thread that is done with its task does not have it any more.          *)
LEMMA Drops ==
  ASSUME TypeOK, OnePlace, NEW t \in Threads, Busy(t), UNCHANGED task,
         NEW s \in {"idle", "release"}, Goto(t, s)
  PROVE  /\ InHand' = InHand \ {task[t]} /\ task[t] \in InHand /\ task[t] \in Nat
         /\ \A u \in Threads : Busy(u)' <=> u # t /\ Busy(u)
<1> USE DEF Goto
<1>1. \A u \in Threads : step'[u] = IF u = t THEN s ELSE step[u]
  BY DEF TypeOK
<1>2. s \notin Phases \union {"count"}
  BY DEF Phases
<1>3. \A u \in Threads : Busy(u)' <=> u # t /\ Busy(u)
  BY <1>1, <1>2 DEF Busy
<1>4. InHand' = InHand \ {task[t]}
  BY <1>3 DEF InHand, OnePlace
<1> QED BY <1>3, <1>4 DEF InHand, OnePlace

(* A thread that goes on to count its task keeps it.                       *)
LEMMA GoesToCount ==
  ASSUME TypeOK, NEW t \in Threads, step[t] \in Phases, UNCHANGED task, Goto(t, "count")
  PROVE  /\ InHand' = InHand
         /\ \A u \in Threads : Busy(u)' <=> Busy(u)
         /\ \A T, s : s # "count" /\ T \subseteq Threads /\ (t \notin T \/ step[t] # s)
                       => HeldAt(T, s)' = HeldAt(T, s)
<1> USE DEF Goto
<1>1. \A u \in Threads : step'[u] = IF u = t THEN "count" ELSE step[u]
  BY DEF TypeOK
<1>2. \A u \in Threads : Busy(u)' <=> Busy(u)
  BY <1>1 DEF Busy
<1>3. InHand' = InHand
  BY <1>2 DEF InHand
<1>4. ASSUME NEW T, NEW s, s # "count", T \subseteq Threads, t \notin T \/ step[t] # s
      PROVE  HeldAt(T, s)' = HeldAt(T, s)
  BY <1>1, <1>4 DEF HeldAt
<1> QED BY <1>2, <1>3, <1>4

(* Where nothing is counted and nothing is written, the layout, the        *)
(* counter and the semaphore stay true.                                    *)
LEMMA LayoutStays == ASSUME Layout, UNCHANGED <<phase, changed, archiveVars>> PROVE Layout'
BY DEF Layout, PlaceOf, archiveVars

LEMMA CountStays ==
  ASSUME Counted, ReleasedOnce, UNCHANGED <<pc, counterVars>>, Uncounted' = Uncounted,
         \A t \in Threads : step'[t] = "release" => step[t] = "release"
  PROVE  Counted' /\ ReleasedOnce'
<1>1. Counted'
  BY DEF Counted, counterVars
<1>2. ReleasedOnce'
  BY DEF ReleasedOnce, counterVars
<1> QED BY <1>1, <1>2

-----------------------------------------------------------------------------
(* The steps *)

(* A task moves from those to post to the queue of the workers.            *)
LEMMA PostWorkKeeps == ASSUME IInv, PostWork PROVE IInv'
<1> USE DEF IInv, PostWork
<1>1. /\ toPost \in Seq(Nat) /\ toPost # << >> /\ Distinct(toPost)
      /\ work \in Seq(Nat) /\ Distinct(work)
  BY DEF TypeOK, OnePlace
<1>2. /\ Head(toPost) \in Nat /\ Tail(toPost) \in Seq(Nat) /\ Distinct(Tail(toPost))
      /\ Elems(toPost) = Elems(Tail(toPost)) \union {Head(toPost)}
      /\ Head(toPost) \notin Elems(Tail(toPost))
  BY <1>1, HeadTail
<1>3. Head(toPost) \notin Elems(work)
  BY <1>2 DEF OnePlace
<1>4. /\ Append(work, Head(toPost)) \in Seq(Nat) /\ Distinct(Append(work, Head(toPost)))
      /\ Elems(Append(work, Head(toPost))) = Elems(work) \union {Head(toPost)}
  BY <1>1, <1>2, <1>3, Appended
<1>5. UNCHANGED <<step, task>>
  BY DEF threadVars
<1>6. /\ Elems(toPost)' = Elems(Tail(toPost)) /\ Elems(work)' = Elems(Append(work, Head(toPost)))
      /\ Elems(outq)' = Elems(outq) /\ Elems(catalog)' = Elems(catalog)
      /\ Distinct(toPost)' /\ Distinct(work)' /\ Distinct(outq)' /\ Distinct(catalog)'
  BY <1>2, <1>4 DEF Elems, Distinct, OnePlace, Progress, archiveVars
<1>7. /\ InHand' = InHand /\ \A t \in Threads : Busy(t)' <=> Busy(t)
      /\ \A T, x : HeldAt(T, x)' = HeldAt(T, x)
  BY <1>5 DEF InHand, Busy, HeldAt
<1>8. TypeOK'
  BY <1>2, <1>4, <1>5 DEF TypeOK, counterVars, archiveVars
<1>9. OnePlace'
  BY <1>2, <1>3, <1>4, <1>5, <1>6, <1>7 DEF OnePlace
<1>10. Counted' /\ ReleasedOnce'
  <2>1. Uncounted' = Uncounted
    BY <1>2, <1>4, <1>6, <1>7 DEF Uncounted
  <2> QED BY <2>1, <1>5, CountStays
<1>11. InPhase'
  BY <1>5 DEF InPhase
<1>12. Progress'
  <2>1. UNCHANGED <<phase, analyzed, changed, catalog, read>>
    BY DEF archiveVars
  <2>2. Unsearched' = Unsearched /\ Unwritten' = Unwritten /\ Unread' = Unread
    BY <1>2, <1>4, <1>6, <1>7 DEF Unsearched, Unwritten, Unread
  <2> QED BY <1>6, <2>1, <2>2 DEF Progress
<1>13. Layout'
  BY LayoutStays
<1> QED BY <1>8, <1>9, <1>10, <1>11, <1>12, <1>13

(* A task moves from a queue to a worker, for the phase that is.           *)
LEMMA TakeWorkKeeps == ASSUME IInv, NEW w \in Workers, TakeWork(w) PROVE IInv'
<1> USE DEF IInv, TakeWork, mainVars, counterVars, archiveVars
<1>1. /\ Head(work) \in Nat /\ Tail(work) \in Seq(Nat) /\ Distinct(Tail(work))
      /\ Elems(work) = Elems(Tail(work)) \union {Head(work)}
      /\ Head(work) \notin Elems(Tail(work))
  BY HeadTail DEF TypeOK, OnePlace
<1>2. w \in Threads /\ Workers \subseteq Threads
  BY DEF Threads
<1>3. /\ InHand' = InHand \union {Head(work)}
      /\ \A T, x : T \subseteq Threads /\ x = phase /\ w \in T
                      => HeldAt(T, x)' = HeldAt(T, x) \union {Head(work)}
      /\ \A u \in Threads : Busy(u)' <=> u = w \/ Busy(u)
      /\ \A u \in Threads : task'[u] = IF u = w THEN Head(work) ELSE task[u]
  BY <1>1, <1>2, Takes
<1>4. \A u \in Threads : step'[u] = IF u = w THEN phase ELSE step[u]
  BY DEF TypeOK, Goto
<1>5. /\ Elems(toPost)' = Elems(toPost) /\ Elems(work)' = Elems(Tail(work))
      /\ Elems(outq)' = Elems(outq) /\ Elems(catalog)' = Elems(catalog)
      /\ Distinct(toPost)' /\ Distinct(work)' /\ Distinct(outq)' /\ Distinct(catalog)'
  BY <1>1 DEF Elems, Distinct, OnePlace, Progress
<1>6. TypeOK'
  BY <1>1 DEF TypeOK, Goto
<1>7. OnePlace'
  <2>1. \A t \in Threads : Busy(t) => task[t] # Head(work)
    BY <1>1 DEF OnePlace, InHand
  <2>2. \A t, u \in Threads : Busy(t)' /\ Busy(u)' /\ task'[t] = task'[u] => t = u
    BY <1>3, <2>1 DEF OnePlace
  <2>3. \A t \in Threads : Busy(t)' => task'[t] \in Nat
    BY <1>1, <1>3 DEF OnePlace
  <2> QED BY <1>1, <1>3, <1>5, <2>2, <2>3 DEF OnePlace
<1>8. Counted' /\ ReleasedOnce'
  <2>1. Uncounted' = Uncounted
    BY <1>1, <1>3, <1>5 DEF Uncounted
  <2>2. phase # "release"
    BY DEF TypeOK, Phases
  <2> QED BY <2>1, <2>2, <1>4, CountStays
<1>9. InPhase'
  BY <1>4 DEF InPhase
<1>10. Progress'
  <2>1. phase = "SEARCH" => Unsearched' = Unsearched
    BY <1>1, <1>2, <1>3, <1>5 DEF Unsearched
  <2>2. phase = "PREPARE_UPDATE" => Unwritten' = Unwritten
    BY <1>1, <1>2, <1>3, <1>5 DEF Unwritten
  <2>3. phase = "APPLY_UPDATE" => Unread' = Unread
    BY <1>1, <1>2, <1>3, <1>5 DEF Unread
  <2> QED BY <1>5, <2>1, <2>2, <2>3 DEF Progress
<1>11. Layout'
  BY LayoutStays
<1> QED BY <1>6, <1>7, <1>8, <1>9, <1>10, <1>11

(* The output thread takes only what the workers are done with.            *)
LEMMA TakeOutputKeeps == ASSUME IInv, TakeOutput PROVE IInv'
<1> USE DEF IInv, TakeOutput, mainVars, counterVars, archiveVars
<1>1. /\ Head(outq) \in Nat /\ Tail(outq) \in Seq(Nat) /\ Distinct(Tail(outq))
      /\ Elems(outq) = Elems(Tail(outq)) \union {Head(outq)}
      /\ Head(outq) \notin Elems(Tail(outq))
  BY HeadTail DEF TypeOK, OnePlace
<1>2. Output \in Threads /\ Workers \subseteq Threads /\ Output \notin Workers
  BY ThreadsAssumption DEF Threads
<1>3. /\ InHand' = InHand \union {Head(outq)}
      /\ \A T, x : T \subseteq Threads /\ x = phase /\ Output \in T
                      => HeldAt(T, x)' = HeldAt(T, x) \union {Head(outq)}
      /\ \A T, x : T \subseteq Threads /\ Output \notin T => HeldAt(T, x)' = HeldAt(T, x)
      /\ \A u \in Threads : Busy(u)' <=> u = Output \/ Busy(u)
      /\ \A u \in Threads : task'[u] = IF u = Output THEN Head(outq) ELSE task[u]
  BY <1>1, <1>2, Takes
<1>4. \A u \in Threads : step'[u] = IF u = Output THEN phase ELSE step[u]
  BY DEF TypeOK, Goto
<1>5. /\ Elems(toPost)' = Elems(toPost) /\ Elems(outq)' = Elems(Tail(outq))
      /\ Elems(work)' = Elems(work) /\ Elems(catalog)' = Elems(catalog)
      /\ Distinct(toPost)' /\ Distinct(work)' /\ Distinct(outq)' /\ Distinct(catalog)'
  BY <1>1 DEF Elems, Distinct, OnePlace, Progress
<1>6. TypeOK'
  BY <1>1 DEF TypeOK, Goto
<1>7. OnePlace'
  <2>1. \A t \in Threads : Busy(t) => task[t] # Head(outq)
    BY <1>1 DEF OnePlace, InHand
  <2>2. \A t, u \in Threads : Busy(t)' /\ Busy(u)' /\ task'[t] = task'[u] => t = u
    BY <1>3, <2>1 DEF OnePlace
  <2>3. \A t \in Threads : Busy(t)' => task'[t] \in Nat
    BY <1>1, <1>3 DEF OnePlace
  <2> QED BY <1>1, <1>3, <1>5, <2>2, <2>3 DEF OnePlace
<1>8. Counted' /\ ReleasedOnce'
  <2>1. Uncounted' = Uncounted
    BY <1>1, <1>3, <1>5 DEF Uncounted
  <2>2. phase # "release"
    BY DEF TypeOK, Phases
  <2> QED BY <2>1, <2>2, <1>4, CountStays
<1>9. InPhase'
  BY <1>4 DEF InPhase
<1>10. Progress'
  <2>1. Unsearched' = Unsearched
    BY <1>2, <1>3, <1>5 DEF Unsearched
  <2>2. phase = "PREPARE_UPDATE" => Unwritten' = Unwritten
    BY <1>1, <1>2, <1>3, <1>5 DEF Unwritten
  <2>3. Unread' = Unread
    BY <1>2, <1>3, <1>5 DEF Unread
  <2> QED BY <1>5, <2>1, <2>2, <2>3 DEF Progress
<1>11. Layout'
  BY LayoutStays
<1> QED BY <1>6, <1>7, <1>8, <1>9, <1>10, <1>11

(* A tile is searched before its task is counted.                          *)
LEMMA AnalyzeKeeps == ASSUME IInv, NEW w \in Workers, Analyze(w) PROVE IInv'
<1> USE DEF IInv, Analyze, mainVars, counterVars, archiveVars
<1>1. w \in Threads /\ Workers \subseteq Threads /\ step[w] \in Phases /\ phase = "SEARCH"
  BY DEF Threads, Phases, InPhase
<1>2. /\ InHand' = InHand /\ \A u \in Threads : Busy(u)' <=> Busy(u)
  BY <1>1, GoesToCount
<1>3. \A u \in Threads : step'[u] = IF u = w THEN "count" ELSE step[u]
  BY DEF TypeOK, Goto
<1>4. /\ Elems(toPost)' = Elems(toPost) /\ Elems(outq)' = Elems(outq)
      /\ Elems(work)' = Elems(work) /\ Elems(catalog)' = Elems(catalog)
      /\ Distinct(toPost)' /\ Distinct(work)' /\ Distinct(outq)' /\ Distinct(catalog)'
  BY DEF Elems, Distinct, OnePlace, Progress
<1>5. task[w] \in HeldAt(Workers, "SEARCH")
  BY DEF HeldAt
<1>6. Tiles = analyzed' \union Unsearched'
  <2>1. HeldAt(Workers, "SEARCH") \subseteq HeldAt(Workers, "SEARCH")' \union {task[w]}
    BY <1>1, <1>3 DEF HeldAt
  <2>2. HeldAt(Workers, "SEARCH")' \subseteq HeldAt(Workers, "SEARCH")
    BY <1>1, <1>3 DEF HeldAt
  <2> QED BY <1>1, <1>4, <1>5, <2>1, <2>2 DEF Progress, Unsearched
<1>7. TypeOK'
  BY <1>6 DEF TypeOK, Goto
<1>8. OnePlace'
  BY <1>2, <1>4 DEF OnePlace
<1>9. Counted' /\ ReleasedOnce'
  <2>1. Uncounted' = Uncounted
    BY <1>2, <1>4 DEF Uncounted
  <2> QED BY <2>1, <1>3, CountStays
<1>10. InPhase'
  BY <1>3 DEF InPhase, Phases
<1>11. Progress'
  BY <1>1, <1>4, <1>6 DEF Progress
<1>12. Layout'
  BY LayoutStays
<1> QED BY <1>7, <1>8, <1>9, <1>10, <1>11, <1>12

(* A task moves from a worker to the queue of the output thread.           *)
LEMMA PostOutputKeeps ==
  ASSUME IInv, NEW w \in Workers, step[w] \in {"PREPARE_UPDATE", "APPLY_UPDATE"}, PostOutput(w)
  PROVE  /\ TypeOK' /\ OnePlace' /\ Counted' /\ ReleasedOnce' /\ InPhase' /\ Layout'
         /\ Elems(toPost)' = Elems(toPost) /\ Elems(work)' = Elems(work)
         /\ Elems(outq)' = Elems(outq) \union {task[w]}
         /\ \A T, x : T \subseteq Threads /\ x # "idle"
                         => HeldAt(T, x)' = HeldAt(T, x) \ (IF w \in T /\ step[w] = x THEN {task[w]} ELSE {})
<1> USE DEF IInv, PostOutput, mainVars, counterVars, archiveVars
<1>1. w \in Threads /\ Busy(w) /\ task[w] \in Nat /\ task[w] \in InHand
  BY DEF Threads, Busy, Phases, OnePlace, InHand
<1>2. InHand' = InHand \ {task[w]} /\ \A u \in Threads : Busy(u)' <=> u # w /\ Busy(u)
  BY <1>1, Drops
<1>3. \A u \in Threads : step'[u] = IF u = w THEN "idle" ELSE step[u]
  BY DEF TypeOK, Goto
<1>4. /\ Append(outq, task[w]) \in Seq(Nat) /\ Distinct(Append(outq, task[w]))
      /\ Elems(Append(outq, task[w])) = Elems(outq) \union {task[w]}
  BY <1>1, Appended DEF TypeOK, OnePlace
<1>5. /\ Elems(toPost)' = Elems(toPost) /\ Elems(work)' = Elems(work)
      /\ Elems(outq)' = Elems(outq) \union {task[w]}
      /\ Distinct(toPost)' /\ Distinct(work)' /\ Distinct(outq)'
  <2>1. Elems(outq)' = Elems(Append(outq, task[w])) /\ Distinct(outq)'
    BY <1>4 DEF Elems, Distinct
  <2> QED BY <1>4, <2>1 DEF Elems, Distinct, OnePlace
<1>6. TypeOK'
  BY <1>4 DEF TypeOK, Goto
<1>7. OnePlace'
  BY <1>1, <1>2, <1>5 DEF OnePlace
<1>8. Counted' /\ ReleasedOnce'
  <2>1. Uncounted' = Uncounted
    BY <1>1, <1>2, <1>5 DEF Uncounted
  <2> QED BY <2>1, <1>3, CountStays
<1>9. InPhase'
  BY <1>3 DEF InPhase, Phases
<1>10. Layout'
  BY LayoutStays
<1>11. ASSUME NEW T, NEW x, T \subseteq Threads, x # "idle"
       PROVE  HeldAt(T, x)' = HeldAt(T, x) \ (IF w \in T /\ step[w] = x THEN {task[w]} ELSE {})
  <2>1. CASE w \in T /\ step[w] = x
    <3>1. \A u \in T : step[u] = x => Busy(u)
      BY <2>1, <1>11 DEF Busy, Phases
    <3>2. \A u \in T : step[u] = x /\ task[u] = task[w] => u = w
      BY <3>1, <1>1, <1>11 DEF OnePlace
    <3> QED BY <3>2, <2>1, <1>3, <1>11 DEF HeldAt
  <2>2. CASE ~(w \in T /\ step[w] = x)
    BY <2>2, <1>3, <1>11 DEF HeldAt
  <2> QED BY <2>1, <2>2
<1> QED BY <1>5, <1>6, <1>7, <1>8, <1>9, <1>10, <1>11

(* The changes of a tile are still to be written when they are posted.     *)
LEMMA PrepareTileKeeps == ASSUME IInv, NEW w \in Workers, PrepareTile(w) PROVE IInv'
<1> USE DEF IInv, PrepareTile
<1>1. w \in Threads /\ phase = "PREPARE_UPDATE"
  BY DEF Threads, Phases, InPhase
<1>2. UNCHANGED <<phase, changed, catalog, read>>
  BY DEF PostOutput, mainVars, archiveVars
<1>3. Unwritten' = Unwritten
  <2>1. task[w] \in HeldAt(Threads, "PREPARE_UPDATE")
    BY <1>1 DEF HeldAt
  <2>2. HeldAt(Threads, "PREPARE_UPDATE")' = HeldAt(Threads, "PREPARE_UPDATE") \ {task[w]}
    BY <1>1, PostOutputKeeps
  <2> QED BY <2>1, <2>2, PostOutputKeeps DEF Unwritten
<1>4. Progress'
  BY <1>1, <1>2, <1>3 DEF Progress, Elems, Distinct
<1> QED BY <1>4, PostOutputKeeps

(* A chunk is read before its task can be counted.                         *)
LEMMA ApplyTileKeeps == ASSUME IInv, NEW w \in Workers, ApplyTile(w) PROVE IInv'
<1> USE DEF IInv, ApplyTile
<1>1. w \in Threads /\ phase = "APPLY_UPDATE" /\ Workers \subseteq Threads
  BY DEF Threads, Phases, InPhase
<1>2. UNCHANGED <<phase, changed, catalog>>
  BY DEF PostOutput, mainVars, archiveVars
<1>3. Unread = Unread' \union {task[w]}
  <2>1. task[w] \in HeldAt(Workers, "APPLY_UPDATE")
    BY DEF HeldAt
  <2>2. HeldAt(Workers, "APPLY_UPDATE")' = HeldAt(Workers, "APPLY_UPDATE") \ {task[w]}
    BY <1>1, PostOutputKeeps
  <2>3. task[w] \notin Elems(toPost) \union Elems(work)
    BY <1>1 DEF OnePlace, InHand, Busy, Phases
  <2> QED BY <2>1, <2>2, <2>3, PostOutputKeeps DEF Unread
<1>4. {r[1] : r \in read'} = {r[1] : r \in read} \union {catalog[task[w]]}
  <2> DEFINE e == <<catalog[task[w]], offsets[task[w]]>>
  <2>1. e[1] = catalog[task[w]] /\ read' = read \union {e}
    OBVIOUS
  <2> HIDE DEF e
  <2>2. {r[1] : r \in read'} = {r[1] : r \in read} \union {e[1]}
    BY <2>1, Zenon
  <2> QED BY <2>1, <2>2
<1>5. {catalog[i] : i \in Unread} = {catalog[i] : i \in Unread'} \union {catalog[task[w]]}
  BY <1>3
<1>6. changed = {r[1] : r \in read'} \union {catalog[i] : i \in Unread'}
  BY <1>1, <1>4, <1>5 DEF Progress
<1>7. Elems(catalog)' = Elems(catalog) /\ Distinct(catalog)'
  BY <1>2 DEF Elems, Distinct, Progress
<1>8. Progress'
  BY <1>1, <1>2, <1>6, <1>7 DEF Progress
<1> QED BY <1>8, PostOutputKeeps

(* A chunk is written behind the last one, and with it its entry.          *)
LEMMA WriteChunkKeeps ==
  ASSUME Layout, Distinct(catalog), catalog \in Seq(Tiles), NEW tile \in Tiles, tile \notin Elems(catalog),
         chunkAt \in [Tiles -> Nat], end \in Nat,
         phase = "PREPARE_UPDATE", UNCHANGED <<phase, changed>>, WriteChunk(tile)
  PROVE  /\ Layout' /\ catalog' \in Seq(Tiles) /\ Distinct(catalog')
         /\ Elems(catalog') = Elems(catalog) \union {tile}
         /\ chunkAt' \in [Tiles -> Nat] /\ end' \in Nat
<1> USE DEF WriteChunk
<1>1. /\ catalog' \in Seq(Tiles) /\ Distinct(catalog')
      /\ Elems(catalog') = Elems(catalog) \union {tile}
  BY Appended
<1>2. chunkAt' \in [Tiles -> Nat] /\ end' \in Nat
  <2>1. ChunkSize[tile] \in Nat
    BY SizesAssumption
  <2> QED BY <2>1
<1>3. /\ Len(catalog') = Len(catalog) + 1 /\ Len(catalog) \in Nat
      /\ catalog'[Len(catalog) + 1] = tile
      /\ \A i \in 1..Len(catalog) : catalog'[i] = catalog[i] /\ catalog[i] \in Tiles /\ catalog[i] # tile
  BY DEF Elems
<1>4. /\ chunkAt'[tile] = end
      /\ \A i \in 1..Len(catalog) : chunkAt'[catalog[i]] = chunkAt[catalog[i]]
  BY <1>3
<1>5. \A i \in 1..Len(catalog) + 1 : PlaceOf(i)' = PlaceOf(i)
  <2> SUFFICES ASSUME NEW i \in 1..Len(catalog) + 1 PROVE PlaceOf(i)' = PlaceOf(i)
    OBVIOUS
  <2>1. i = 1 \/ i - 1 \in 1..Len(catalog)
    BY <1>3
  <2> QED BY <2>1, <1>3, <1>4 DEF PlaceOf
<1>6. \A i \in 1..Len(catalog') : chunkAt'[catalog'[i]] = PlaceOf(i)'
  <2> SUFFICES ASSUME NEW i \in 1..Len(catalog) + 1 PROVE chunkAt'[catalog'[i]] = PlaceOf(i)
    BY <1>3, <1>5
  <2>1. i \in 1..Len(catalog) \/ i = Len(catalog) + 1
    BY <1>3
  <2> QED BY <2>1, <1>3, <1>4 DEF Layout
<1>7. end' = PlaceOf(Len(catalog) + 1)'
  <2>1. Len(catalog') + 1 # 1 /\ Len(catalog') + 1 - 1 = Len(catalog) + 1
    BY <1>3
  <2>2. PlaceOf(Len(catalog) + 1)' = chunkAt'[tile] + ChunkSize[tile]
    BY <1>3, <2>1 DEF PlaceOf
  <2> QED BY <1>4, <2>2
<1>8. Layout'
  BY <1>6, <1>7 DEF Layout
<1> QED BY <1>1, <1>2, <1>8

(* A task that the output thread processes is still to be counted.         *)
LEMMA ProcessOutputKeeps == ASSUME IInv, ProcessOutput PROVE IInv'
<1> USE DEF IInv, ProcessOutput, mainVars, counterVars
<1>1. Output \in Threads /\ Workers \subseteq Threads /\ Output \notin Workers /\ step[Output] = phase
  BY ThreadsAssumption DEF Threads, InPhase
<1>2. /\ InHand' = InHand /\ \A u \in Threads : Busy(u)' <=> Busy(u)
      /\ \A x : x # "count" => HeldAt(Workers, x)' = HeldAt(Workers, x)
  BY <1>1, GoesToCount
<1>3. \A u \in Threads : step'[u] = IF u = Output THEN "count" ELSE step[u]
  BY DEF TypeOK, Goto
<1>4. /\ Elems(toPost)' = Elems(toPost) /\ Elems(outq)' = Elems(outq) /\ Elems(work)' = Elems(work)
      /\ Distinct(toPost)' /\ Distinct(work)' /\ Distinct(outq)'
  BY DEF Elems, Distinct, OnePlace
<1>5. OnePlace'
  BY <1>2, <1>4 DEF OnePlace
<1>6. Counted' /\ ReleasedOnce'
  <2>1. Uncounted' = Uncounted
    BY <1>2, <1>4 DEF Uncounted
  <2> QED BY <2>1, <1>3, CountStays
<1>7. InPhase'
  BY <1>3 DEF InPhase, Phases
<1>8. CASE step[Output] = "PREPARE_UPDATE"
  <2> DEFINE tile == task[Output]
  <2>1. tile \in HeldAt(Threads, "PREPARE_UPDATE")
    BY <1>1, <1>8 DEF HeldAt
  <2>2. tile \in Tiles /\ tile \notin Elems(catalog)
    BY <1>1, <1>8, <2>1 DEF Progress, Unwritten, TypeOK
  <2>3. /\ Layout' /\ catalog' \in Seq(Tiles) /\ Distinct(catalog')
        /\ Elems(catalog') = Elems(catalog) \union {tile}
        /\ chunkAt' \in [Tiles -> Nat] /\ end' \in Nat
    BY <1>1, <1>8, <2>2, WriteChunkKeeps DEF TypeOK, Progress
  <2>4. Unwritten' = Unwritten \ {tile}
    <3>1. \A u \in Threads : step[u] = "PREPARE_UPDATE" /\ task[u] = tile => u = Output
      BY <1>1, <1>8 DEF OnePlace, Busy, Phases
    <3>2. HeldAt(Threads, "PREPARE_UPDATE")' = HeldAt(Threads, "PREPARE_UPDATE") \ {tile}
      BY <1>1, <1>3, <1>8, <3>1 DEF HeldAt
    <3>3. tile \notin Elems(toPost) \union Elems(work) \union Elems(outq)
      BY <1>1, <1>8 DEF OnePlace, InHand, Busy, Phases
    <3> QED BY <1>4, <2>1, <3>2, <3>3 DEF Unwritten
  <2>5. TypeOK'
    BY <2>3 DEF TypeOK, Goto
  <2>6. tile \in Unwritten /\ Elems(catalog)' = Elems(catalog') /\ Distinct(catalog)'
    BY <2>1, <2>3 DEF Unwritten, Elems, Distinct
  <2>7. Progress'
    BY <1>1, <1>8, <2>3, <2>4, <2>6 DEF Progress
  <2> QED BY <1>5, <1>6, <1>7, <2>3, <2>5, <2>7
<1>9. CASE step[Output] # "PREPARE_UPDATE"
  <2>1. UNCHANGED <<catalog, chunkAt, end>>
    BY <1>9 DEF archiveVars
  <2>2. TypeOK'
    BY <2>1 DEF TypeOK, Goto
  <2>3. Layout'
    BY <2>1, LayoutStays DEF archiveVars
  <2>4. Unsearched' = Unsearched /\ Unread' = Unread
    BY <1>2, <1>4 DEF Unsearched, Unread
  <2>5. Elems(catalog)' = Elems(catalog) /\ Distinct(catalog)'
    BY <2>1 DEF Elems, Distinct, Progress
  <2>6. Progress'
    BY <1>1, <1>9, <2>1, <2>4, <2>5 DEF Progress
  <2> QED BY <1>5, <1>6, <1>7, <2>2, <2>3, <2>6
<1> QED BY <1>8, <1>9

(* Only who counts the last task goes on to release the semaphore.         *)
LEMMA CountDownKeeps == ASSUME IInv, NEW t \in Threads, CountDown(t) PROVE IInv'
<1> USE DEF IInv, CountDown, mainVars, archiveVars
<1>1. PICK s \in {"idle", "release"} : Goto(t, s) /\ (s = "release" <=> remaining' = 0)
  BY DEF Goto
<1>2. Busy(t)
  BY DEF Busy
<1>3. /\ InHand' = InHand \ {task[t]} /\ task[t] \in InHand
      /\ \A u \in Threads : Busy(u)' <=> u # t /\ Busy(u)
  BY <1>1, <1>2, Drops
<1>4. \A u \in Threads : step'[u] = IF u = t THEN s ELSE step[u]
  BY <1>1 DEF TypeOK, Goto
<1>5. /\ Elems(toPost)' = Elems(toPost) /\ Elems(outq)' = Elems(outq)
      /\ Elems(work)' = Elems(work) /\ Elems(catalog)' = Elems(catalog)
      /\ Distinct(toPost)' /\ Distinct(work)' /\ Distinct(outq)' /\ Distinct(catalog)'
  BY DEF Elems, Distinct, OnePlace, Progress
<1>6. Uncounted' = Uncounted \ {task[t]} /\ task[t] \in Uncounted
  BY <1>3, <1>5 DEF Uncounted, OnePlace
<1>7. IsFiniteSet(Uncounted') /\ remaining' = Cardinality(Uncounted') /\ remaining # 0
  <2>1. IsFiniteSet(Uncounted) /\ remaining = Cardinality(Uncounted)
    BY DEF Counted
  <2>2. /\ IsFiniteSet(Uncounted \ {task[t]})
        /\ Cardinality(Uncounted \ {task[t]}) = Cardinality(Uncounted) - 1
    BY <1>6, <2>1, FS_RemoveElement
  <2>3. Cardinality(Uncounted) # 0
    BY <1>6, <2>1, FS_EmptySet
  <2> QED BY <1>6, <2>1, <2>2, <2>3
<1>8. Counted'
  BY <1>7 DEF Counted
<1>9. remaining' \in Nat
  BY <1>7 DEF TypeOK
<1>10. TypeOK'
  BY <1>1, <1>9 DEF TypeOK, Goto
<1>11. OnePlace'
  BY <1>3, <1>5 DEF OnePlace
<1>12. pc = "post" /\ semaphore = 0 /\ \A u \in Threads : step[u] # "release"
  BY <1>7 DEF ReleasedOnce, TypeOK
<1>13. ReleasedOnce'
  BY <1>1, <1>4, <1>12 DEF ReleasedOnce
<1>14. InPhase'
  BY <1>4 DEF InPhase, Phases
<1>15. Progress'
  <2>1. \A T, x : T \subseteq Threads /\ x \in Phases => HeldAt(T, x)' = HeldAt(T, x)
    BY <1>4 DEF HeldAt, Phases
  <2>2. Workers \subseteq Threads
    BY DEF Threads
  <2>3. Unsearched' = Unsearched /\ Unwritten' = Unwritten /\ Unread' = Unread
    BY <1>5, <2>1, <2>2 DEF Unsearched, Unwritten, Unread, Phases
  <2> QED BY <1>5, <2>3 DEF Progress
<1>16. Layout'
  BY LayoutStays
<1> QED BY <1>8, <1>10, <1>11, <1>13, <1>14, <1>15, <1>16

(* Places depend only on the queues and on what the busy threads hold.     *)
LEMMA PlacesStay ==
  ASSUME OnePlace, UNCHANGED <<toPost, work, outq, task>>,
         \A t \in Threads : \A x \in Phases \union {"count"} : step'[t] = x <=> step[t] = x
  PROVE  /\ OnePlace' /\ Uncounted' = Uncounted
         /\ Unsearched' = Unsearched /\ Unwritten' = Unwritten /\ Unread' = Unread
<1>1. \A t \in Threads : Busy(t)' <=> Busy(t)
  BY DEF Busy
<1>2. InHand' = InHand
  BY <1>1 DEF InHand
<1>3. /\ Elems(toPost)' = Elems(toPost) /\ Elems(outq)' = Elems(outq) /\ Elems(work)' = Elems(work)
      /\ Distinct(toPost)' /\ Distinct(work)' /\ Distinct(outq)'
  BY DEF Elems, Distinct, OnePlace
<1>4. \A T, x : T \subseteq Threads /\ x \in Phases => HeldAt(T, x)' = HeldAt(T, x)
  BY DEF HeldAt
<1>5. OnePlace'
  BY <1>1, <1>2, <1>3 DEF OnePlace
<1>6. Uncounted' = Uncounted
  BY <1>2, <1>3 DEF Uncounted
<1>7. Unsearched' = Unsearched /\ Unwritten' = Unwritten /\ Unread' = Unread
  BY <1>3, <1>4 DEF Unsearched, Unwritten, Unread, Phases, Threads
<1> QED BY <1>5, <1>6, <1>7

(* The semaphore is free when it is released.                              *)
LEMMA ReleaseKeeps == ASSUME IInv, NEW t \in Threads, Release(t) PROVE IInv'
<1> USE DEF IInv, Release, mainVars, archiveVars
<1>1. \A u \in Threads : step'[u] = IF u = t THEN "idle" ELSE step[u]
  BY DEF TypeOK, Goto
<1>2. \A u \in Threads : \A x \in Phases \union {"count"} : step'[u] = x <=> step[u] = x
  BY <1>1 DEF Phases
<1>3. /\ OnePlace' /\ Uncounted' = Uncounted
      /\ Unsearched' = Unsearched /\ Unwritten' = Unwritten /\ Unread' = Unread
  BY <1>2, PlacesStay
<1>4. pc = "post" /\ remaining = 0 /\ semaphore = 0
  BY DEF ReleasedOnce
<1>5. TypeOK'
  BY <1>4 DEF TypeOK, Goto
<1>6. Counted' /\ ReleasedOnce'
  BY <1>1, <1>3, <1>4 DEF Counted, ReleasedOnce
<1>7. InPhase'
  BY <1>1 DEF InPhase, Phases
<1>8. Progress'
  BY <1>3 DEF Progress, Elems, Distinct
<1>9. Layout'
  BY LayoutStays
<1> QED BY <1>3, <1>5, <1>6, <1>7, <1>8, <1>9

(* The main thread goes on when all tasks are counted.                     *)
LEMMA AwaitKeeps == ASSUME IInv, AwaitPhaseCompletion PROVE IInv'
<1> USE DEF IInv, AwaitPhaseCompletion, threadVars, archiveVars
<1>1. /\ OnePlace' /\ Uncounted' = Uncounted
      /\ Unsearched' = Unsearched /\ Unwritten' = Unwritten /\ Unread' = Unread
  BY PlacesStay
<1>2. TypeOK'
  BY DEF TypeOK
<1>3. Counted' /\ ReleasedOnce'
  BY <1>1 DEF Counted, ReleasedOnce
<1>4. InPhase' /\ Progress'
  BY <1>1 DEF InPhase, Progress, Elems, Distinct
<1>5. Layout'
  BY LayoutStays
<1> QED BY <1>1, <1>2, <1>3, <1>4, <1>5

(* Between two phases there is nothing left to do in the one that ended.   *)
LEMMA NothingLeft ==
  ASSUME IInv, pc # "post"
  PROVE  /\ Uncounted = {} /\ Unsearched = {} /\ Unwritten = {} /\ Unread = {}
         /\ \A t \in Threads : ~Busy(t)
<1> USE DEF IInv
<1>1. Uncounted = {}
  BY FS_EmptySet DEF ReleasedOnce, Counted
<1>2. \A t \in Threads : ~Busy(t)
  BY <1>1 DEF Uncounted, InHand
<1>3. \A T, x : T \subseteq Threads /\ x \in Phases => HeldAt(T, x) = {}
  BY <1>2 DEF HeldAt, Busy
<1>4. Unsearched = {} /\ Unwritten = {} /\ Unread = {}
  BY <1>1, <1>3 DEF Uncounted, Unsearched, Unwritten, Unread, Phases, Threads
<1> QED BY <1>1, <1>2, <1>4

(* A phase starts with all its tasks yet to be posted and to be counted.   *)
LEMMA StartPhaseKeeps ==
  ASSUME NEW tasks \in Seq(Nat), Distinct(tasks),
         toPost' = tasks, remaining' = Len(tasks),
         Elems(work)' = {} /\ Elems(outq)' = {} /\ Distinct(work)' /\ Distinct(outq)',
         \A t \in Threads : step'[t] \in {"idle", "release"}
  PROVE  /\ OnePlace' /\ Counted'
         /\ Unsearched' = Elems(tasks) /\ Unwritten' = Elems(tasks) /\ Unread' = Elems(tasks)
<1>1. Elems(toPost)' = Elems(tasks) /\ Distinct(toPost)'
  BY DEF Elems, Distinct
<1>2. \A t \in Threads : ~Busy(t)'
  BY DEF Busy, Phases
<1>3. InHand' = {}
  BY <1>2 DEF InHand
<1>4. \A T, x : T \subseteq Threads /\ x \in Phases => HeldAt(T, x)' = {}
  BY DEF HeldAt, Phases
<1>5. OnePlace'
  BY <1>1, <1>2, <1>3 DEF OnePlace
<1>6. Uncounted' = Elems(tasks)
  BY <1>1, <1>3 DEF Uncounted
<1>7. Counted'
  BY <1>6, DistinctLength DEF Counted
<1>8. Unsearched' = Elems(tasks) /\ Unwritten' = Elems(tasks) /\ Unread' = Elems(tasks)
  BY <1>1, <1>4 DEF Unsearched, Unwritten, Unread, Phases, Threads
<1> QED BY <1>5, <1>7, <1>8

(* The order in which a set of tiles is walked has each of them once.      *)
LEMMA Walked ==
  ASSUME NEW S \in SUBSET Tiles
  PROVE  Order[S] \in Seq(Nat) /\ Distinct(Order[S]) /\ Elems(Order[S]) = S
<1>1. Order[S] \in Seq(S) /\ ToSet(Order[S]) = S /\ IsInjective(Order[S]) /\ S \subseteq Nat
  BY OrderAssumption, TilesAssumption
<1>2. Order[S] \in Seq(Nat)
  BY <1>1, SeqMonotonic
<1> QED BY <1>1, <1>2 DEF Distinct, Elems, ToSet, IsInjective

(* All tiles are to be searched at first.                                  *)
LEMMA InitIInv == Init => IInv
<1> SUFFICES ASSUME Init PROVE IInv
  OBVIOUS
<1> USE DEF Init
<1>1. toPost \in Seq(Nat) /\ Distinct(toPost) /\ Elems(toPost) = Tiles
  BY Walked
<1>2. TypeOK
  BY <1>1 DEF TypeOK, Phases
<1>3. Elems(work) = {} /\ Elems(outq) = {} /\ Distinct(work) /\ Distinct(outq) /\ Distinct(catalog)
  BY DEF Elems, Distinct
<1>4. \A t \in Threads : ~Busy(t)
  BY DEF Busy, Phases
<1>5. InHand = {}
  BY <1>4 DEF InHand
<1>6. OnePlace
  BY <1>1, <1>3, <1>4, <1>5 DEF OnePlace
<1>7. Uncounted = Elems(toPost)
  BY <1>3, <1>5 DEF Uncounted
<1>8. Counted
  BY <1>1, <1>7, DistinctLength DEF Counted
<1>9. HeldAt(Workers, "SEARCH") = {}
  BY DEF HeldAt, Threads
<1>10. ReleasedOnce /\ InPhase
  BY DEF ReleasedOnce, InPhase, Phases
<1>11. Unsearched = Tiles
  BY <1>1, <1>3, <1>9 DEF Unsearched
<1>12. Progress
  BY <1>3, <1>11 DEF Progress
<1>13. Layout
  BY DEF Layout
<1> QED BY <1>2, <1>6, <1>8, <1>10, <1>12, <1>13 DEF IInv

(* The phase that writes starts with an empty catalog and with room for as *)
(* many entries as there are tasks.                                        *)
LEMMA PrepareUpdateKeeps == ASSUME IInv, PrepareUpdate PROVE IInv'
<1> USE DEF PrepareUpdate, StartPhase, threadVars
<1>0. TypeOK /\ OnePlace /\ ReleasedOnce /\ Progress /\ Layout
  BY DEF IInv
<1>1. changed' \in SUBSET Tiles /\ IsFiniteSet(changed')
  BY <1>0, TilesAssumption, FS_Subset DEF TypeOK
<1>2. PICK S \in SUBSET Tiles : S = changed'
  BY <1>1
<1>3. PICK tasks \in Seq(Nat) : tasks = Order[S] /\ Distinct(tasks) /\ Elems(tasks) = changed'
  BY <1>2, Walked
<1>4. Uncounted = {} /\ \A t \in Threads : ~Busy(t)
  BY NothingLeft
<1>5. \A t \in Threads : step'[t] \in {"idle", "release"}
  BY <1>0, <1>4 DEF TypeOK, Busy
<1>6. Elems(work)' = {} /\ Elems(outq)' = {} /\ Distinct(work)' /\ Distinct(outq)'
  <2>1. Elems(work) = {} /\ Elems(outq) = {} /\ Distinct(work) /\ Distinct(outq)
    BY <1>0, <1>4 DEF Uncounted, OnePlace
  <2> QED BY <2>1 DEF Elems, Distinct
<1>7. OnePlace' /\ Counted' /\ Unwritten' = Elems(tasks)
  BY <1>2, <1>3, <1>5, <1>6, StartPhaseKeeps
<1>8. TypeOK'
  <2>1. Cardinality(changed') \in Nat
    BY <1>1, FS_CardinalityType
  <2>2. end' \in Nat
    BY <2>1 DEF HeaderSize, EntrySize, ChecksumSize
  <2>3. toPost' \in Seq(Nat) /\ remaining' \in Nat
    BY <1>2, <1>3
  <2> QED BY <1>0, <1>1, <2>2, <2>3 DEF TypeOK, Phases
<1>9. ReleasedOnce'
  BY <1>0, <1>5 DEF ReleasedOnce, TypeOK
<1>10. InPhase'
  BY <1>5 DEF InPhase, Phases
<1>11. catalog = << >> /\ catalog' = << >> /\ Elems(catalog)' = {} /\ Distinct(catalog)'
  BY <1>0 DEF Progress, Elems, Distinct
<1>12. Progress'
  BY <1>0, <1>3, <1>7, <1>11 DEF Progress
<1>13. Layout'
  BY <1>11 DEF Layout, PlaceOf
<1> QED BY <1>7, <1>8, <1>9, <1>10, <1>12, <1>13 DEF IInv

(* The phase that reads starts with all entries to be read.                *)
LEMMA ApplyUpdateKeeps == ASSUME IInv, ApplyUpdate PROVE IInv'
<1> USE DEF ApplyUpdate, StartPhase, threadVars
<1>0. TypeOK /\ OnePlace /\ ReleasedOnce /\ Progress /\ Layout
  BY DEF IInv
<1>1. catalog \in Seq(Tiles) /\ Len(catalog) \in Nat /\ DOMAIN catalog = 1..Len(catalog)
  BY <1>0 DEF TypeOK
<1>2. PICK n \in Nat : n = Len(catalog)
  BY <1>1
<1>3. PICK tasks \in Seq(Nat) : tasks = [i \in 1..n |-> i] /\ Distinct(tasks) /\ Elems(tasks) = 1..n
  <2> DEFINE numbers == [i \in 1..n |-> i]
  <2>1. numbers \in [1..n -> Nat]
    OBVIOUS
  <2>2. numbers \in Seq(Nat)
    BY <2>1, SeqDef
  <2> QED BY <2>2 DEF Distinct, Elems
<1>4. Uncounted = {} /\ Unwritten = {} /\ \A t \in Threads : ~Busy(t)
  BY NothingLeft
<1>5. \A t \in Threads : step'[t] \in {"idle", "release"}
  BY <1>0, <1>4 DEF TypeOK, Busy
<1>6. Elems(work)' = {} /\ Elems(outq)' = {} /\ Distinct(work)' /\ Distinct(outq)'
  <2>1. Elems(work) = {} /\ Elems(outq) = {} /\ Distinct(work) /\ Distinct(outq)
    BY <1>0, <1>4 DEF Uncounted, OnePlace
  <2> QED BY <2>1 DEF Elems, Distinct
<1>7. OnePlace' /\ Counted' /\ Unread' = Elems(tasks)
  BY <1>2, <1>3, <1>5, <1>6, StartPhaseKeeps
<1>8. TypeOK'
  BY <1>0, <1>1, <1>2, <1>3 DEF TypeOK, Phases, archiveVars
<1>9. ReleasedOnce'
  BY <1>0, <1>5 DEF ReleasedOnce, TypeOK
<1>10. InPhase'
  BY <1>5 DEF InPhase, Phases
<1>11. Progress'
  <2>1. Elems(catalog)' = Elems(catalog) /\ Distinct(catalog)' /\ UNCHANGED <<catalog, changed, read>>
    BY <1>0 DEF Progress, Elems, Distinct, archiveVars
  <2>2. changed = Elems(catalog) /\ read = {}
    BY <1>0, <1>4 DEF Progress
  <2>3. Elems(catalog) = {catalog[i] : i \in Elems(tasks)}
    BY <1>1, <1>2, <1>3 DEF Elems
  <2> QED BY <1>7, <2>1, <2>2, <2>3 DEF Progress
<1>12. Layout'
  BY <1>0 DEF Layout, PlaceOf, archiveVars
<1> QED BY <1>7, <1>8, <1>9, <1>10, <1>11, <1>12 DEF IInv

(* The engine ends with nothing left to do.                                *)
LEMMA EndKeeps == ASSUME IInv, End PROVE IInv'
<1> USE DEF IInv, End, threadVars, archiveVars, counterVars
<1>1. /\ OnePlace' /\ Uncounted' = Uncounted
      /\ Unsearched' = Unsearched /\ Unwritten' = Unwritten /\ Unread' = Unread
  BY PlacesStay
<1>2. TypeOK'
  BY DEF TypeOK
<1>3. Counted' /\ ReleasedOnce'
  BY <1>1 DEF Counted, ReleasedOnce
<1>4. InPhase' /\ Progress'
  BY <1>1 DEF InPhase, Progress, Elems, Distinct
<1>5. Layout'
  BY LayoutStays
<1> QED BY <1>1, <1>2, <1>3, <1>4, <1>5

(* A step that changes nothing.                                            *)
LEMMA StutterKeeps == ASSUME IInv, UNCHANGED vars PROVE IInv'
<1> USE DEF IInv, vars, mainVars, threadVars, archiveVars, counterVars
<1>1. /\ OnePlace' /\ Uncounted' = Uncounted
      /\ Unsearched' = Unsearched /\ Unwritten' = Unwritten /\ Unread' = Unread
  BY PlacesStay
<1>2. TypeOK'
  BY DEF TypeOK
<1>3. Counted' /\ ReleasedOnce'
  BY <1>1 DEF Counted, ReleasedOnce
<1>4. InPhase' /\ Progress'
  BY <1>1 DEF InPhase, Progress, Elems, Distinct
<1>5. Layout'
  BY LayoutStays
<1> QED BY <1>1, <1>2, <1>3, <1>4, <1>5

-----------------------------------------------------------------------------
(* Every step of every thread keeps the invariant.                         *)
LEMMA NextKeeps == ASSUME IInv, [Next]_vars PROVE IInv'
<1>1. CASE Main
  BY <1>1, PostWorkKeeps, AwaitKeeps, PrepareUpdateKeeps, ApplyUpdateKeeps, EndKeeps DEF Main
<1>2. CASE OutputThread
  BY <1>2, TakeOutputKeeps, ProcessOutputKeeps, CountDownKeeps, ReleaseKeeps DEF OutputThread, Threads
<1>3. ASSUME NEW w \in Workers, Worker(w) PROVE IInv'
  BY <1>3, TakeWorkKeeps, AnalyzeKeeps, PrepareTileKeeps, ApplyTileKeeps, CountDownKeeps, ReleaseKeeps
     DEF Worker, Threads
<1>4. CASE UNCHANGED vars
  BY <1>4, StutterKeeps
<1> QED BY <1>1, <1>2, <1>3, <1>4 DEF Next

(* A task is in one place at a time until it is counted, the counter is    *)
(* the number of those that are not, and what is not done yet of a phase   *)
(* is among them.                                                          *)
THEOREM IInvHolds == Spec => []IInv
<1>1. Init => IInv
  BY InitIInv
<1>2. IInv /\ [Next]_vars => IInv'
  BY NextKeeps
<1> QED BY <1>1, <1>2, PTL DEF Spec

(* When the main thread goes on after awaitPhaseCompletion(), every task   *)
(* of the phase has had its effect, in every thread.                       *)
THEOREM PhaseAlwaysComplete == Spec => []PhaseComplete
<1>1. IInv => PhaseComplete
  <2> SUFFICES ASSUME IInv, pc = "between" PROVE PhaseComplete
    BY DEF PhaseComplete
  <2>1. /\ Unsearched = {} /\ Unwritten = {} /\ Unread = {}
        /\ \A t \in Threads : ~Busy(t)
    BY NothingLeft
  <2>2. Progress
    BY DEF IInv
  <2>3. phase = "SEARCH" => analyzed = Tiles
    BY <2>1, <2>2 DEF Progress
  <2>4. phase = "PREPARE_UPDATE" => ToSet(catalog) = changed /\ IsInjective(catalog)
    BY <2>1, <2>2 DEF Progress, Elems, Distinct, ToSet, IsInjective
  <2>5. phase = "APPLY_UPDATE" => {r[1] : r \in read} = changed
    BY <2>1, <2>2 DEF Progress
  <2> QED BY <2>1, <2>3, <2>4, <2>5 DEF PhaseComplete
<1> QED BY <1>1, IInvHolds, PTL

(* In the order of the catalog the chunks lie one behind the other.        *)
THEOREM ChunksAlwaysInOrder == Spec => []ChunksInOrder
<1>1. IInv => ChunksInOrder
  BY DEF IInv, Layout, PlaceOf, ChunksInOrder
<1> QED BY <1>1, IInvHolds, PTL
=============================================================================
