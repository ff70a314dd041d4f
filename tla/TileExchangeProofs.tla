------------------------- MODULE TileExchangeProofs -------------------------
(***************************************************************************)
(* A bundle that bears the name the user gave is whole, with any number of *)
(* crashes and while a load reads it; and what a load puts into the        *)
(* library is what was saved, each tile once, and all of it when it        *)
(* commits: for every number of tiles, threads and connections.            *)
(*                                                                         *)
(* The invariant of saving comes first, then what the offsets of a bundle  *)
(* and the plan of a download are, by induction over the catalog, and then *)
(* the invariant of a load.                                                *)
(***************************************************************************)
EXTENDS TileExchange, DataTheorems

InWork == {reading[w] : w \in SaveThreads} \ {Idle}

Files == [exists : BOOLEAN, catalog : Seq(Tips), chunks : Seq(Tips \union {"metadata"})]

TypeOK ==
  /\ saveStage \in {"idle", "saving", "closing", "renaming", "saved"}
  /\ posted \in Seq(Tips) /\ outputs \in Seq(Tips) /\ entries \in Seq(Tips)
  /\ reading \in [SaveThreads -> Tips \union {Idle}]
  /\ partFile \in Files /\ tmpFile \in Files /\ gobFile \in Files

(* A tile is in one place at a time: in a queue, with one worker, or among *)
(* the entries.                                                            *)
OnePlace ==
  /\ Distinct(posted) /\ Distinct(outputs) /\ Distinct(entries)
  /\ \A v, w \in SaveThreads : reading[v] = reading[w] /\ reading[v] # Idle => v = w
  /\ Elems(posted) \intersect Elems(outputs) = {}
  /\ Elems(posted) \intersect Elems(entries) = {}
  /\ Elems(outputs) \intersect Elems(entries) = {}
  /\ InWork \intersect (Elems(posted) \union Elems(outputs) \union Elems(entries)) = {}

(* While the tiles are saved, none is lost; at other times, none is on its *)
(* way.                                                                    *)
AllPlaced ==
  IF saveStage = "saving"
  THEN Elems(TileOrder) = Elems(posted) \union InWork \union Elems(outputs) \union Elems(entries)
  ELSE EngineIdle

(* The chunks that are written follow the entries.                         *)
InStep ==
  saveStage = "saving" =>
    /\ partFile.exists
    /\ \/ partFile.chunks = << >> /\ entries = << >>
       \/ partFile.chunks = <<"metadata">> \o entries

Whole(file) ==
  /\ file.exists /\ Distinct(file.catalog)
  /\ file.chunks = <<"metadata">> \o file.catalog
  /\ Len(file.catalog) = Len(TileOrder)
  /\ Elems(file.catalog) = Elems(TileOrder)

FilesWhole ==
  /\ saveStage = "closing" => Whole(partFile)
  /\ saveStage = "renaming" => Whole(tmpFile)
  /\ saveStage = "saved" \/ gobFile.exists => Whole(gobFile)

IInv == TypeOK /\ OnePlace /\ AllPlaced /\ InStep /\ FilesWhole

-----------------------------------------------------------------------------
(* The invariant *)

(* Nothing is on its way before the first save.                            *)
LEMMA InitIInv == Init => IInv
<1> SUFFICES ASSUME Init PROVE IInv
  OBVIOUS
<1> USE DEF Init, SaverInit, NoFile
<1>1. TypeOK
  BY DEF TypeOK, Files
<1>2. OnePlace
  BY DEF OnePlace, Distinct, Elems, InWork
<1>3. AllPlaced /\ InStep /\ FilesWhole
  BY DEF AllPlaced, EngineIdle, InStep, FilesWhole
<1> QED BY <1>1, <1>2, <1>3 DEF IInv

(* A save begins with all tiles in the queue, whatever files are left over.*)
LEMMA OpenKeeps == ASSUME IInv, Open PROVE IInv'
<1> USE DEF IInv, Open, EmptyFile
<1>0. EngineIdle
  BY DEF AllPlaced
<1>1. TypeOK'
  BY TilesAssumption DEF TypeOK, Files
<1>2. OnePlace'
  <2>1. Distinct(posted')
    BY TilesAssumption DEF Distinct
  <2>2. InWork' = {} /\ Elems(outputs') = {} /\ Elems(entries') = {}
    BY <1>0 DEF InWork, EngineIdle, Elems
  <2>3. Distinct(outputs') /\ Distinct(entries')
    BY DEF Distinct
  <2>4. \A v, w \in SaveThreads : reading'[v] = reading'[w] /\ reading'[v] # Idle => v = w
    BY DEF OnePlace
  <2> QED BY <2>1, <2>2, <2>3, <2>4 DEF OnePlace, InWork, Elems, Distinct
<1>3. AllPlaced'
  <2>1. InWork' = {} /\ Elems(outputs') = {} /\ Elems(entries') = {}
    BY <1>0 DEF InWork, EngineIdle, Elems
  <2> QED BY <2>1 DEF AllPlaced, Elems, InWork
<1>4. InStep' /\ FilesWhole'
  BY DEF InStep, FilesWhole, Whole
<1> QED BY <1>1, <1>2, <1>3, <1>4

(* The places of the tiles depend on the queues, workers and entries only. *)
LEMMA PlacesStay ==
  ASSUME OnePlace, UNCHANGED <<posted, reading, outputs, entries>> PROVE OnePlace'
<1>1. /\ Elems(posted)' = Elems(posted) /\ Elems(outputs)' = Elems(outputs)
      /\ Elems(entries)' = Elems(entries) /\ InWork' = InWork
  BY DEF Elems, InWork
<1>2. Distinct(posted)' /\ Distinct(outputs)' /\ Distinct(entries)'
  BY DEF OnePlace, Distinct
<1>3. \A v, w \in SaveThreads : reading'[v] = reading'[w] /\ reading'[v] # Idle => v = w
  BY DEF OnePlace
<1> QED BY <1>1, <1>2, <1>3 DEF OnePlace

(* The metadata comes before any chunk of a tile.                          *)
LEMMA WriteMetadataKeeps == ASSUME IInv, WriteMetadata PROVE IInv'
<1> USE DEF IInv, WriteMetadata
<1>1. TypeOK'
  <2>1. partFile \in Files /\ partFile.chunks \in Seq(Tips \union {"metadata"})
    BY DEF TypeOK, Files
  <2>2. Append(partFile.chunks, "metadata") \in Seq(Tips \union {"metadata"})
    BY <2>1
  <2>3. partFile' \in Files
    BY <2>1, <2>2 DEF Files
  <2> QED BY <2>3 DEF TypeOK
<1>2. OnePlace' /\ AllPlaced'
  <2>1. UNCHANGED <<saveStage, posted, reading, outputs, entries>>
    OBVIOUS
  <2>2. OnePlace'
    BY <2>1, PlacesStay
  <2>3. AllPlaced'
    BY <2>1 DEF AllPlaced, EngineIdle, InWork, Elems
  <2> QED BY <2>2, <2>3
<1>3. partFile.chunks = << >> /\ entries = << >>
  <2>1. ASSUME partFile.chunks = <<"metadata">> \o entries PROVE FALSE
    <3>1. entries \in Seq(Tips) /\ Len(entries) \in Nat
      BY DEF TypeOK
    <3>2. Len(partFile.chunks) = 1 + Len(entries)
      BY <2>1, <3>1
    <3> QED BY <3>1, <3>2
  <2> QED BY <2>1 DEF InStep
<1>4. InStep'
  <2>1. partFile'.chunks = Append(partFile.chunks, "metadata")
    BY DEF TypeOK, Files
  <2>2. partFile'.chunks = Append(<< >>, "metadata") /\ entries' = << >>
    BY <1>3, <2>1
  <2>3. Append(<< >>, "metadata") = <<"metadata">> \o << >>
    BY Z3
  <2>4. partFile'.chunks = <<"metadata">> \o entries'
    BY <2>2, <2>3, Zenon
  <2> QED BY <2>4 DEF InStep
<1>5. FilesWhole'
  BY DEF FilesWhole, Whole
<1> QED BY <1>1, <1>2, <1>4, <1>5

(* A tile moves from the queue to a worker.                                *)
LEMMA TakeTileKeeps == ASSUME IInv, NEW w \in SaveThreads, TakeTile(w) PROVE IInv'
<1> USE DEF IInv, TakeTile
<1>1. saveStage = "saving" /\ posted \in Seq(Tips) /\ posted # << >> /\ Distinct(posted)
  BY DEF AllPlaced, EngineIdle, TypeOK, OnePlace
<1>2. /\ Head(posted) \in Tips /\ Tail(posted) \in Seq(Tips) /\ Distinct(Tail(posted))
      /\ Elems(posted) = Elems(Tail(posted)) \union {Head(posted)}
      /\ Head(posted) \notin Elems(Tail(posted))
  BY <1>1, HeadTail
<1>3. TypeOK'
  BY <1>2 DEF TypeOK
<1>4. InWork' = InWork \union {Head(posted)} /\ Head(posted) # Idle
  BY <1>2, IdleAssumption DEF InWork, TypeOK
<1>5. \A v, u \in SaveThreads : reading'[v] = reading'[u] /\ reading'[v] # Idle => v = u
  <2>1. \A v \in SaveThreads : reading[v] # Head(posted)
    BY <1>2, <1>4 DEF OnePlace, InWork
  <2> QED BY <2>1 DEF OnePlace, TypeOK
<1>6. OnePlace'
  <2>1. Elems(posted)' = Elems(Tail(posted)) /\ Distinct(posted)' /\ Elems(outputs)' = Elems(outputs)
        /\ Elems(entries)' = Elems(entries) /\ Distinct(outputs)' /\ Distinct(entries)'
    BY <1>2 DEF OnePlace, Elems, Distinct
  <2> QED BY <1>2, <1>4, <1>5, <2>1 DEF OnePlace
<1>7. AllPlaced'
  <2>1. Elems(posted)' = Elems(Tail(posted)) /\ Elems(outputs)' = Elems(outputs)
        /\ Elems(entries)' = Elems(entries) /\ Elems(TileOrder)' = Elems(TileOrder)
    BY DEF Elems
  <2> QED BY <1>1, <1>2, <1>4, <2>1 DEF AllPlaced
<1>8. InStep' /\ FilesWhole'
  BY DEF InStep, FilesWhole, Whole
<1> QED BY <1>3, <1>6, <1>7, <1>8

(* A tile moves from a worker to the output thread.                        *)
LEMMA PostTileKeeps == ASSUME IInv, NEW w \in SaveThreads, PostTile(w) PROVE IInv'
<1> USE DEF IInv, PostTile
<1>1. saveStage = "saving" /\ reading[w] \in Tips /\ reading[w] \in InWork
  BY DEF AllPlaced, EngineIdle, TypeOK, InWork
<1>2. outputs \in Seq(Tips) /\ Distinct(outputs) /\ reading[w] \notin Elems(outputs)
  BY <1>1 DEF TypeOK, OnePlace
<1>3. /\ outputs' \in Seq(Tips) /\ Distinct(outputs')
      /\ Elems(outputs') = Elems(outputs) \union {reading[w]}
  BY <1>1, <1>2, Appended
<1>4. TypeOK'
  BY <1>3 DEF TypeOK
<1>5. InWork' = InWork \ {reading[w]}
  BY DEF InWork, TypeOK, OnePlace
<1>6. /\ Elems(posted)' = Elems(posted) /\ Elems(entries)' = Elems(entries)
      /\ Elems(outputs)' = Elems(outputs') /\ Elems(TileOrder)' = Elems(TileOrder)
  BY DEF Elems
<1>7. OnePlace'
  <2>1. \A v, u \in SaveThreads : reading'[v] = reading'[u] /\ reading'[v] # Idle => v = u
    BY DEF OnePlace, TypeOK
  <2>2. Distinct(posted)' /\ Distinct(outputs)' /\ Distinct(entries)'
    BY <1>3 DEF OnePlace, Distinct
  <2> QED BY <1>1, <1>3, <1>5, <1>6, <2>1, <2>2 DEF OnePlace
<1>8. AllPlaced'
  BY <1>1, <1>3, <1>5, <1>6 DEF AllPlaced
<1>9. InStep' /\ FilesWhole'
  BY DEF InStep, FilesWhole, Whole
<1> QED BY <1>4, <1>7, <1>8, <1>9

(* A tile moves into the file; its entry and its chunk stay in step.       *)
LEMMA WriteTileKeeps == ASSUME IInv, WriteTile PROVE IInv'
<1> USE DEF IInv, WriteTile, AddEntry
<1>1. outputs \in Seq(Tips) /\ outputs # << >> /\ Distinct(outputs)
  BY DEF TypeOK, OnePlace
<1>2. /\ Head(outputs) \in Tips /\ Tail(outputs) \in Seq(Tips) /\ Distinct(Tail(outputs))
      /\ Elems(outputs) = Elems(Tail(outputs)) \union {Head(outputs)}
      /\ Head(outputs) \notin Elems(Tail(outputs))
  BY <1>1, HeadTail
<1>3. entries \in Seq(Tips) /\ Distinct(entries) /\ Head(outputs) \notin Elems(entries)
  BY <1>2 DEF TypeOK, OnePlace
<1>4. /\ entries' \in Seq(Tips) /\ Distinct(entries')
      /\ Elems(entries') = Elems(entries) \union {Head(outputs)}
  BY <1>2, <1>3, Appended
<1>5. TypeOK'
  <2>1. partFile \in Files /\ partFile.chunks \in Seq(Tips \union {"metadata"})
    BY DEF TypeOK, Files
  <2>2. Append(partFile.chunks, Head(outputs)) \in Seq(Tips \union {"metadata"})
    BY <1>2, <2>1
  <2>3. partFile' \in Files
    BY <2>1, <2>2 DEF Files
  <2> QED BY <1>2, <1>4, <2>3 DEF TypeOK
<1>6. /\ Elems(posted)' = Elems(posted) /\ Elems(outputs)' = Elems(Tail(outputs)) /\ InWork' = InWork
      /\ Elems(entries)' = Elems(entries') /\ Elems(TileOrder)' = Elems(TileOrder)
  BY DEF Elems, InWork
<1>7. OnePlace'
  <2>1. \A v, w \in SaveThreads : reading'[v] = reading'[w] /\ reading'[v] # Idle => v = w
    BY DEF OnePlace
  <2>2. Distinct(posted)' /\ Distinct(outputs)' /\ Distinct(entries)'
    BY <1>2, <1>4 DEF OnePlace, Distinct
  <2> QED BY <1>2, <1>4, <1>6, <2>1, <2>2 DEF OnePlace
<1>8. AllPlaced'
  BY <1>2, <1>4, <1>6 DEF AllPlaced
<1>9. InStep'
  <2>1. partFile.chunks = <<"metadata">> \o entries
    BY <1>3 DEF InStep
  <2>2. partFile'.chunks = Append(<<"metadata">> \o entries, Head(outputs))
    BY <2>1 DEF TypeOK, Files
  <2>3. Append(<<"metadata">> \o entries, Head(outputs)) = <<"metadata">> \o Append(entries, Head(outputs))
    BY <1>2, <1>3
  <2>4. partFile'.chunks = <<"metadata">> \o entries'
    BY <2>2, <2>3, Zenon
  <2> QED BY <2>4 DEF InStep
<1>10. FilesWhole'
  BY DEF FilesWhole, Whole
<1> QED BY <1>5, <1>7, <1>8, <1>9, <1>10

(* When nothing is on its way any more, all tiles are among the entries.   *)
LEMMA WriteCatalogKeeps == ASSUME IInv, WriteCatalog PROVE IInv'
<1> USE DEF IInv, WriteCatalog
<1>1. OnePlace'
  BY PlacesStay
<1>2. AllPlaced'
  BY DEF AllPlaced, EngineIdle
<1>3. partFile \in Files /\ entries \in Seq(Tips)
  BY DEF TypeOK
<1>4. /\ partFile' \in Files /\ partFile'.catalog = entries /\ partFile'.chunks = partFile.chunks
      /\ partFile'.exists = partFile.exists
  BY <1>3 DEF Files
<1>5. TypeOK'
  BY <1>4 DEF TypeOK
<1>6. partFile.exists /\ partFile.chunks = <<"metadata">> \o entries
  BY <1>3 DEF InStep
<1>7. Elems(entries) = Elems(TileOrder)
  BY DEF AllPlaced, EngineIdle, InWork, Elems
<1>8. Len(entries) = Len(TileOrder)
  BY <1>3, <1>7, SameLength, TilesAssumption DEF OnePlace, Distinct
<1>9. Whole(partFile')
  BY <1>4, <1>6, <1>7, <1>8 DEF Whole, OnePlace
<1>10. InStep' /\ FilesWhole'
  BY <1>9 DEF InStep, FilesWhole, Whole, Elems
<1> QED BY <1>1, <1>2, <1>5, <1>10

(* What gets the temporary name is what close() has finished.              *)
LEMMA RenamePartKeeps == ASSUME IInv, RenamePart PROVE IInv'
<1> USE DEF IInv, RenamePart, NoFile
<1>1. OnePlace' /\ AllPlaced'
  BY PlacesStay DEF AllPlaced, EngineIdle
<1>2. TypeOK'
  BY DEF TypeOK, Files
<1>3. InStep' /\ FilesWhole'
  BY DEF InStep, FilesWhole, Whole, Elems
<1> QED BY <1>1, <1>2, <1>3

(* What gets the name the user gave is what had the temporary name.        *)
LEMMA PublishKeeps == ASSUME IInv, Publish PROVE IInv'
<1> USE DEF IInv, Publish, NoFile
<1>1. OnePlace' /\ AllPlaced'
  BY PlacesStay DEF AllPlaced, EngineIdle
<1>2. TypeOK'
  BY DEF TypeOK, Files
<1>3. InStep' /\ FilesWhole'
  BY DEF InStep, FilesWhole, Whole, Elems
<1> QED BY <1>1, <1>2, <1>3

(* A crash leaves the files as they are.                                   *)
LEMMA CrashKeeps == ASSUME IInv, Crash PROVE IInv'
<1> USE DEF IInv, Crash
<1>1. TypeOK'
  BY DEF TypeOK
<1>2. OnePlace'
  <2>1. Elems(posted)' = {} /\ Elems(outputs)' = {} /\ Elems(entries)' = {} /\ InWork' = {}
    BY DEF Elems, InWork
  <2>2. Distinct(posted)' /\ Distinct(outputs)' /\ Distinct(entries)'
    BY DEF Distinct
  <2> QED BY <2>1, <2>2 DEF OnePlace
<1>3. AllPlaced'
  BY DEF AllPlaced, EngineIdle
<1>4. InStep' /\ FilesWhole'
  BY DEF InStep, FilesWhole, Whole, Elems
<1> QED BY <1>1, <1>2, <1>3, <1>4

-----------------------------------------------------------------------------
(* A load leaves what concerns saving alone.                               *)
LEMMA NextKeeps == ASSUME IInv, [Next]_exchangeVars PROVE IInv'
<1>1. CASE UNCHANGED saverVars
  <2> USE <1>1 DEF IInv, saverVars
  <2>1. OnePlace'
    BY PlacesStay
  <2>2. TypeOK' /\ AllPlaced' /\ InStep'
    BY DEF TypeOK, AllPlaced, InStep, EngineIdle, InWork, Elems
  <2>3. FilesWhole'
    BY DEF FilesWhole, Whole, Elems
  <2> QED BY <2>1, <2>2, <2>3
<1>2. CASE SaverNext
  BY <1>2, OpenKeeps, WriteMetadataKeeps, WriteTileKeeps, WriteCatalogKeeps, RenamePartKeeps,
     PublishKeeps, CrashKeeps, TakeTileKeeps, PostTileKeeps DEF SaverNext, SaverStep
<1>3. SaverNext \/ UNCHANGED saverVars
  BY DEF Next, Save, Load, Stay, exchangeVars
<1> QED BY <1>1, <1>2, <1>3

(* What is on its way while tiles are saved is all there is to save, and   *)
(* the files hold what the stage says.                                     *)
THEOREM IInvHolds == Spec => []IInv
<1>1. Init => IInv
  BY InitIInv
<1>2. IInv /\ [Next]_exchangeVars => IInv'
  BY NextKeeps
<1> QED BY <1>1, <1>2, PTL DEF Spec

(* A bundle that bears the name the user gave is whole, however often the  *)
(* process crashed, for all tiles, threads and loads.                      *)
THEOREM PublishedAlwaysWhole == Spec => []PublishedWhole
<1>1. IInv => PublishedWhole
  BY DEF IInv, FilesWhole, Whole, PublishedWhole, Elems
<1> QED BY <1>1, IInvHolds, PTL

-----------------------------------------------------------------------------
(* Offsets in a bundle *)

(* The recursive function that adds up the sizes is one.                   *)
LEMMA ChunkEndSums ==
  ASSUME NEW s \in Seq(DOMAIN Size)
  PROVE  /\ ChunkEnd(s) \in [0..Len(s) -> Nat]
         /\ ChunkEnd(s)[0] = CatalogSize + MetadataSize
         /\ \A k \in 1..Len(s) : Size[s[k]] \in Nat \ {0} /\ ChunkEnd(s)[k] = ChunkEnd(s)[k - 1] + Size[s[k]]
<1> DEFINE n == Len(s)
           begin == CatalogSize + MetadataSize
           step == [p \in Nat \X (1..n) |-> p[1] + Size[s[p[2]]]]
<1>1. n \in Nat /\ begin \in Nat /\ \A k \in 1..n : Size[s[k]] \in Nat \ {0}
  BY SizesAssumption
<1>2. step \in [Nat \X (1..n) -> Nat]
  BY <1>1
<1>3. ASSUME NEW x \in Nat, NEW k \in 1..n PROVE step[<<x, k>>] = x + Size[s[k]]
  <2>1. <<x, k>> \in Nat \X (1..n)
    OBVIOUS
  <2> QED BY <2>1
<1>4. PICK g \in [0..n -> Nat] : g[0] = begin /\ \A k \in 1..n : g[k] = step[<<g[k - 1], k>>]
  <2> DEFINE S == Nat
  <2>1. n \in Nat /\ begin \in S /\ step \in [S \X (1..n) -> S]
    BY <1>1, <1>2
  <2> HIDE DEF step, begin, n, S
  <2>2. Iterations(n, S, begin, step) # {}
    BY <2>1, IterationExists
  <2> QED BY <2>2 DEF S, Iterations
<1>5. g = [k \in 0..n |-> IF k = 0 THEN begin ELSE g[k - 1] + Size[s[k]]]
  <2> HIDE DEF step
  <2>1. \A k \in 0..n : g[k] = IF k = 0 THEN begin ELSE g[k - 1] + Size[s[k]]
    <3> SUFFICES ASSUME NEW k \in 0..n PROVE g[k] = IF k = 0 THEN begin ELSE g[k - 1] + Size[s[k]]
      OBVIOUS
    <3>1. CASE k = 0
      BY <1>4, <3>1
    <3>2. CASE k # 0
      <4>1. k \in 1..n /\ k - 1 \in 0..n
        BY <1>1, <3>2
      <4>2. g[k - 1] \in Nat /\ g[k] = step[<<g[k - 1], k>>]
        BY <1>4, <4>1
      <4>3. step[<<g[k - 1], k>>] = g[k - 1] + Size[s[k]]
        BY <1>3, <4>1, <4>2
      <4> QED BY <3>2, <4>2, <4>3
    <3> QED BY <3>1, <3>2
  <2> QED BY <2>1
<1>6. ChunkEnd(s) = [k \in 0..n |-> IF k = 0 THEN begin ELSE ChunkEnd(s)[k - 1] + Size[s[k]]]
  BY <1>5 DEF ChunkEnd
<1>7. ChunkEnd(s)[0] = begin /\ \A k \in 1..n : ChunkEnd(s)[k] = ChunkEnd(s)[k - 1] + Size[s[k]]
  BY <1>1, <1>6
<1>8. \A k \in 0..n : ChunkEnd(s)[k] \in Nat
  <2> DEFINE P == {k \in 0..n : ChunkEnd(s)[k] \in Nat}
  <2>1. 0 \in P
    BY <1>1, <1>7
  <2>2. ASSUME NEW k \in 1..n, k - 1 \in P PROVE k \in P
    BY <1>1, <1>7, <2>2
  <2>3. 0..n \subseteq P
    <3> HIDE DEF P, n
    <3> QED BY <1>1, <2>1, <2>2, IntervalInduction
  <2> QED BY <2>3
<1> QED BY <1>1, <1>6, <1>7, <1>8

(* No chunk is empty: later ones end later.                                *)
LEMMA ChunkEndIncreases ==
  ASSUME NEW s \in Seq(DOMAIN Size), NEW j \in 0..Len(s), NEW k \in 0..Len(s), j < k
  PROVE  ChunkEnd(s)[j] < ChunkEnd(s)[k]
<1> DEFINE n == Len(s)
           P == {i \in 0..n : j < i => ChunkEnd(s)[j] < ChunkEnd(s)[i]}
<1>0. n \in Nat
  OBVIOUS
<1>1. 0 \in P
  OBVIOUS
<1>2. ASSUME NEW i \in 1..n, i - 1 \in P PROVE i \in P
  <2>1. /\ ChunkEnd(s)[i - 1] \in Nat /\ ChunkEnd(s)[j] \in Nat /\ Size[s[i]] \in Nat \ {0}
        /\ ChunkEnd(s)[i] = ChunkEnd(s)[i - 1] + Size[s[i]]
    <3>1. i \in 1..Len(s) /\ i - 1 \in 0..Len(s) /\ Len(s) \in Nat
      BY <1>0
    <3>2. ChunkEnd(s) \in [0..Len(s) -> Nat]
      BY ChunkEndSums
    <3>3. ChunkEnd(s)[i - 1] \in Nat /\ ChunkEnd(s)[j] \in Nat
      BY <3>1, <3>2
    <3> QED BY <3>1, <3>3, ChunkEndSums
  <2>2. CASE j < i - 1
    BY <1>2, <2>1, <2>2
  <2>3. CASE j = i - 1
    BY <2>1, <2>3
  <2> QED BY <2>2, <2>3
<1>3. 0..n \subseteq P
  <2> HIDE DEF P, n
  <2> QED BY <1>0, <1>1, <1>2, IntervalInduction
<1> QED BY <1>3

(* A bundle that was published and is being read.                          *)
BundleOK ==
  /\ Entries \in Seq(Tips) /\ Distinct(Entries)
  /\ stage # "start" => bundle.chunks = <<"metadata">> \o Entries

(* Offsets are those of the catalog, and grow.                             *)
LEMMA Offsets ==
  ASSUME Entries \in Seq(Tips)
  PROVE  /\ Count \in Nat
         /\ \A n \in 1..Count : Entries[n] \in Tips /\ Size[Entries[n]] \in Nat \ {0}
         /\ OffsetOf(1) = CatalogSize + MetadataSize
         /\ \A n \in 1..(Count + 1) : OffsetOf(n) \in Nat
         /\ \A n \in 1..Count : OffsetOf(n + 1) = OffsetOf(n) + Size[Entries[n]]
         /\ \A m, n \in 1..(Count + 1) : m < n => OffsetOf(m) < OffsetOf(n)
<1>1. Entries \in Seq(DOMAIN Size) /\ Count \in Nat /\ \A n \in 1..Count : Entries[n] \in Tips
  <2>1. \A n \in 1..Len(Entries) : Entries[n] \in DOMAIN Size
    BY SizedAssumption
  <2> QED BY <2>1 DEF Count
<1> DEFINE s == Entries
<1> HIDE DEF s
<1>2. s \in Seq(DOMAIN Size) /\ Count = Len(s) /\ \A n : OffsetOf(n) = ChunkEnd(s)[n - 1]
  BY <1>1 DEF s, Count, OffsetOf
<1>3. /\ ChunkEnd(s) \in [0..Len(s) -> Nat]
      /\ ChunkEnd(s)[0] = CatalogSize + MetadataSize
      /\ \A k \in 1..Len(s) : Size[s[k]] \in Nat \ {0} /\ ChunkEnd(s)[k] = ChunkEnd(s)[k - 1] + Size[s[k]]
  BY <1>2, ChunkEndSums
<1>4. \A n \in 1..Count : Size[Entries[n]] \in Nat \ {0}
  BY <1>2, <1>3 DEF s
<1>5. OffsetOf(1) = CatalogSize + MetadataSize
  BY <1>2, <1>3
<1>6. \A n \in 1..(Count + 1) : OffsetOf(n) \in Nat
  BY <1>1, <1>2, <1>3
<1>7. ASSUME NEW n \in 1..Count PROVE OffsetOf(n + 1) = OffsetOf(n) + Size[Entries[n]]
  <2>1. OffsetOf(n + 1) = ChunkEnd(s)[(n + 1) - 1] /\ OffsetOf(n) = ChunkEnd(s)[n - 1] /\ (n + 1) - 1 = n
    BY <1>1, <1>2
  <2>2. ChunkEnd(s)[n] = ChunkEnd(s)[n - 1] + Size[s[n]]
    BY <1>2, <1>3
  <2> QED BY <2>1, <2>2 DEF s
<1>8. ASSUME NEW m \in 1..(Count + 1), NEW n \in 1..(Count + 1), m < n PROVE OffsetOf(m) < OffsetOf(n)
  <2>1. m - 1 \in 0..Len(s) /\ n - 1 \in 0..Len(s) /\ m - 1 < n - 1
    BY <1>1, <1>2, <1>8
  <2>2. ChunkEnd(s)[m - 1] < ChunkEnd(s)[n - 1]
    BY <1>2, <2>1, ChunkEndIncreases
  <2> QED BY <1>2, <2>2
<1> QED BY <1>1, <1>4, <1>5, <1>6, <1>7, <1>8

(* Read at the offset of a tile, the bytes are those saved for it.         *)
LEMMA HeldIsEntry ==
  ASSUME BundleOK, stage # "start", NEW n \in 1..Count
  PROVE  Held(OffsetOf(n), Size[Entries[n]]) = Entries[n]
<1> DEFINE s == Entries
           chunks == Tail(bundle.chunks)
           hit == {k \in DOMAIN chunks : ChunkEnd(chunks)[k - 1] = OffsetOf(n) /\ Size[chunks[k]] = Size[Entries[n]]}
<1>1. s \in Seq(Tips) /\ bundle.chunks = <<"metadata">> \o s
  BY DEF BundleOK
<1>2. chunks = s
  <2> HIDE DEF s
  <2>1. Tail(<<"metadata">> \o s) = s
    BY <1>1
  <2> QED BY <1>1, <2>1
<1>3. n \in hit
  <2>1. n \in DOMAIN s
    BY <1>1 DEF Count
  <2> QED BY <1>2, <2>1 DEF OffsetOf
<1>4. \A k \in hit : k = n
  <2> SUFFICES ASSUME NEW k \in hit PROVE k = n
    OBVIOUS
  <2>1. k \in 1..Count /\ OffsetOf(k) = OffsetOf(n)
    <3>1. k \in DOMAIN s /\ ChunkEnd(s)[k - 1] = OffsetOf(n)
      BY <1>2
    <3>2. DOMAIN s = 1..Count
      BY <1>1 DEF Count
    <3>3. OffsetOf(k) = ChunkEnd(s)[k - 1]
      BY Zenon DEF OffsetOf
    <3> QED BY <3>1, <3>2, <3>3
  <2>2. /\ OffsetOf(k) \in Nat
        /\ k < n => OffsetOf(k) < OffsetOf(n)
        /\ n < k => OffsetOf(n) < OffsetOf(k)
    <3>1. k \in 1..(Count + 1) /\ n \in 1..(Count + 1) /\ Entries \in Seq(Tips)
      BY <1>1, <2>1, Offsets, SMTT(20)
    <3> QED BY <3>1, Offsets
  <2>0. Count \in Nat
    BY <1>1, Offsets
  <2>3. k \in Int /\ n \in Int /\ ~(k < n) /\ ~(n < k)
    <3>1. k \in Int /\ n \in Int
      BY <2>0, <2>1
    <3>2. \A x \in Nat : ~(x < x)
      OBVIOUS
    <3> QED BY <2>1, <2>2, <3>1, <3>2, SMT
  <2> QED BY <2>3
<1>5. (CHOOSE k \in hit : TRUE) = n
  <2> HIDE DEF hit
  <2> QED BY <1>3, <1>4
<1>6. Held(OffsetOf(n), Size[Entries[n]]) = IF hit = {} THEN NoTile ELSE chunks[CHOOSE k \in hit : TRUE]
  BY Zenon DEF Held
<1> QED
  <2> HIDE DEF hit
  <2>1. hit # {}
    BY <1>3
  <2> QED BY <1>2, <1>5, <1>6, <2>1

-----------------------------------------------------------------------------
(* The ranges of a download *)

RangeRecords == [ofs : Nat, size : Nat, first : Nat, count : Int]
Cuts == [skipped : Nat, ofs : Nat, from : Nat, len : Nat, start : Nat, end : Nat,
         main : [first : Nat, end : Nat], ranges : Seq(RangeRecords)]

(* The entries that a range is for, and that a plan reaches.               *)
Window(r) == r.first..(r.first + r.count - 1)
Reaches(plan, n) == (1 <= n /\ n < plan.main.end) \/ \E i \in DOMAIN plan.ranges : n \in Window(plan.ranges[i])

(* A range is made of the bytes of its entries.                            *)
RangeOK(r) ==
  /\ 1 <= r.first /\ 0 <= r.count /\ r.first + r.count <= Count + 1
  /\ r.ofs = OffsetOf(r.first) /\ r.ofs + r.size = OffsetOf(r.first + r.count)

(* The ranges follow the main one and each other, up to this entry.        *)
InOrder(plan, e) ==
  /\ plan.main.first = 1 /\ 1 <= plan.main.end /\ plan.main.end <= e
  /\ \A i \in DOMAIN plan.ranges :
       LET r == plan.ranges[i] IN RangeOK(r) /\ plan.main.end <= r.first /\ r.first + r.count <= e
  /\ \A i, j \in DOMAIN plan.ranges :
       i < j => plan.ranges[i].first + plan.ranges[i].count <= plan.ranges[j].first

(* What determineRanges() knows when it has seen k entries.                *)
CutOK(a, k) ==
  /\ 1 <= a.start /\ a.start <= a.end /\ a.end <= k + 1
  /\ a.ofs = OffsetOf(k + 1) /\ a.from = OffsetOf(a.start)
  /\ a.start = 1 => a.main.end = 1 /\ a.ranges = << >>
  /\ a.start # 1 => a.from + a.len = OffsetOf(a.end) /\ OffsetOf(a.end) + a.skipped = a.ofs
  /\ InOrder(a, a.start)
  /\ \A n \in 1..k : Entries[n] \in Missing => Reaches(a, n) \/ (a.start <= n /\ n < a.end)

(* To close a range loses no entry, and leaves the rest as it is.          *)
LEMMA CloseRangeKeeps ==
  ASSUME Entries \in Seq(Tips), NEW k \in 0..Count, NEW a \in Cuts, CutOK(a, k)
  PROVE  LET b == CloseRange(a) IN
         /\ b \in Cuts /\ b.ofs = a.ofs
         /\ InOrder(b, a.end)
         /\ \A n \in 1..k : Entries[n] \in Missing => Reaches(b, n)
<1> DEFINE b == CloseRange(a)
           r == [ofs |-> a.from, size |-> a.len, first |-> a.start, count |-> a.end - a.start]
<1>0. /\ a.start \in Nat /\ a.end \in Nat /\ a.from \in Nat /\ a.len \in Nat /\ k \in Nat /\ Count \in Nat
      /\ a.main \in [first : Nat, end : Nat] /\ a.ranges \in Seq(RangeRecords)
  BY Offsets DEF Cuts
<1>1. CASE a.start = 1
  <2>1. b = [a EXCEPT !.main = [first |-> a.start, end |-> a.end]]
    BY <1>1 DEF CloseRange
  <2>2. b \in Cuts /\ b.ofs = a.ofs /\ b.main = [first |-> 1, end |-> a.end] /\ b.ranges = << >>
    <3> DEFINE m == [first |-> a.start, end |-> a.end]
    <3>1. m \in [first : Nat, end : Nat] /\ m = [first |-> 1, end |-> a.end]
      BY <1>0, <1>1
    <3>2. b = [a EXCEPT !.main = m]
      BY <2>1
    <3> HIDE DEF b, m
    <3>3. b \in Cuts /\ b.ofs = a.ofs /\ b.main = m /\ b.ranges = a.ranges
      BY <3>1, <3>2 DEF Cuts
    <3> QED BY <1>1, <3>1, <3>3 DEF CutOK
  <2> HIDE DEF b
  <2>3. InOrder(b, a.end)
    BY <1>0, <1>1, <2>2 DEF InOrder, CutOK
  <2>4. ASSUME NEW n \in 1..k, Entries[n] \in Missing PROVE Reaches(b, n)
    <3>1. Reaches(a, n) \/ (a.start <= n /\ n < a.end)
      BY <2>4 DEF CutOK
    <3>2. ~Reaches(a, n)
      BY <1>1 DEF CutOK, Reaches
    <3> QED BY <1>0, <2>2, <3>1, <3>2 DEF Reaches
  <2> QED BY <2>2, <2>3, <2>4 DEF b
<1>2. CASE a.start # 1
  <2>1. b = [a EXCEPT !.ranges = Append(a.ranges, r)]
    BY <1>2 DEF CloseRange
  <2>2. r \in RangeRecords
    BY <1>0 DEF RangeRecords
  <2>3. b \in Cuts /\ b.ofs = a.ofs /\ b.main = a.main /\ b.ranges = Append(a.ranges, r)
    <3> HIDE DEF r
    <3>1. Append(a.ranges, r) \in Seq(RangeRecords)
      BY <1>0, <2>2
    <3> QED BY <2>1, <3>1 DEF Cuts
  <2>4. RangeOK(r)
    BY <1>0, <1>2 DEF RangeOK, CutOK
  <2>5. r.first = a.start /\ r.first + r.count = a.end /\ Window(r) = a.start..(a.end - 1)
    BY <1>0 DEF Window
  <2> HIDE DEF b, r
  <2>6. /\ DOMAIN a.ranges = 1..Len(a.ranges) /\ Len(a.ranges) \in Nat
        /\ DOMAIN b.ranges = 1..(Len(a.ranges) + 1) /\ b.ranges[Len(a.ranges) + 1] = r
        /\ \A i \in 1..Len(a.ranges) : b.ranges[i] = a.ranges[i] /\ a.ranges[i] \in RangeRecords
    BY <1>0, <2>2, <2>3
  <2>7. InOrder(b, a.end)
    <3>1. a.main.first = 1 /\ 1 <= a.main.end /\ a.main.end <= a.start /\ a.start <= a.end
      BY DEF CutOK, InOrder
    <3>2. b.main.first = 1 /\ 1 <= b.main.end /\ b.main.end <= a.end
      BY <1>0, <2>3, <3>1
    <3>3. ASSUME NEW i \in DOMAIN b.ranges
          PROVE  RangeOK(b.ranges[i]) /\ b.main.end <= b.ranges[i].first /\ b.ranges[i].first + b.ranges[i].count <= a.end
      <4>1. CASE i = Len(a.ranges) + 1
        BY <1>0, <2>3, <2>4, <2>5, <2>6, <3>1, <4>1
      <4>2. CASE i \in 1..Len(a.ranges)
        <5>1. /\ RangeOK(a.ranges[i]) /\ a.main.end <= a.ranges[i].first
              /\ a.ranges[i].first + a.ranges[i].count <= a.start
          BY <2>6, <4>2 DEF CutOK, InOrder
        <5>2. PICK q \in RangeRecords : q = a.ranges[i] /\ q = b.ranges[i]
          BY <2>6, <4>2
        <5>3. q.first \in Nat /\ q.count \in Int
          BY DEF RangeRecords
        <5>4. a.main.end <= q.first /\ q.first + q.count <= a.start /\ RangeOK(q)
          BY <5>1, <5>2
        <5>5. q.first + q.count <= a.end
          BY <1>0, <3>1, <5>3, <5>4
        <5>6. b.main.end <= q.first
          BY <2>3, <5>4
        <5> QED BY <5>2, <5>4, <5>5, <5>6
      <4> QED BY <2>6, <4>1, <4>2
    <3>4. ASSUME NEW i \in DOMAIN b.ranges, NEW j \in DOMAIN b.ranges, i < j
          PROVE  b.ranges[i].first + b.ranges[i].count <= b.ranges[j].first
      <4>1. i \in 1..Len(a.ranges)
        BY <2>6, <3>4
      <4>2. CASE j = Len(a.ranges) + 1
        BY <2>5, <2>6, <4>1, <4>2 DEF CutOK, InOrder
      <4>3. CASE j \in 1..Len(a.ranges)
        BY <2>6, <3>4, <4>1, <4>3 DEF CutOK, InOrder
      <4> QED BY <2>6, <4>2, <4>3
    <3> QED BY <3>2, <3>3, <3>4 DEF InOrder
  <2>8. ASSUME NEW n \in 1..k, Entries[n] \in Missing PROVE Reaches(b, n)
    <3>1. Reaches(a, n) \/ (a.start <= n /\ n < a.end)
      BY <2>8 DEF CutOK
    <3>2. CASE a.start <= n /\ n < a.end
      <4>1. n \in Window(r)
        BY <1>0, <2>5, <3>2
      <4> QED BY <2>6, <4>1 DEF Reaches
    <3>3. CASE 1 <= n /\ n < a.main.end
      BY <2>3, <3>3 DEF Reaches
    <3>4. CASE \E i \in DOMAIN a.ranges : n \in Window(a.ranges[i])
      BY <2>6, <3>4 DEF Reaches
    <3> QED BY <3>1, <3>2, <3>3, <3>4 DEF Reaches
  <2> QED BY <2>3, <2>7, <2>8 DEF b
<1> QED BY <1>1, <1>2

(* Another entry keeps what is known of the ones before it.                *)
LEMMA AddToRangeKeeps ==
  ASSUME Entries \in Seq(Tips), NEW k \in 1..Count, NEW a \in Cuts
  PROVE  /\ AddToRange(a, k) \in Cuts
         /\ CutOK(a, k - 1) => CutOK(AddToRange(a, k), k)
<1> DEFINE size == Size[Entries[k]]
           b == AddToRange(a, k)
           c == CloseRange(a)
<1>0. /\ a.start \in Nat /\ a.end \in Nat /\ a.from \in Nat /\ a.len \in Nat /\ a.skipped \in Nat /\ a.ofs \in Nat
      /\ a.main \in [first : Nat, end : Nat] /\ a.ranges \in Seq(RangeRecords)
      /\ k \in Nat /\ Count \in Nat /\ size \in Nat \ {0} /\ MaxSkippedBytes \in Nat
  BY Offsets, SizesAssumption DEF Cuts
<1>1. /\ OffsetOf(k) \in Nat /\ OffsetOf(k + 1) = OffsetOf(k) + size
      /\ k - 1 \in 0..Count /\ (k - 1) + 1 = k
  BY <1>0, Offsets
<1>2. c \in Cuts
  <2>1. [first |-> a.start, end |-> a.end] \in [first : Nat, end : Nat]
    BY <1>0
  <2>2. Append(a.ranges, [ofs |-> a.from, size |-> a.len, first |-> a.start, count |-> a.end - a.start])
          \in Seq(RangeRecords)
    BY <1>0 DEF RangeRecords
  <2> QED BY <2>1, <2>2 DEF CloseRange, Cuts
<1> HIDE DEF size, c
<1>3. CASE Entries[k] \notin Missing
  <2>1. b = [a EXCEPT !.skipped = a.skipped + size, !.ofs = a.ofs + size]
    BY <1>3 DEF AddToRange, size
  <2>2. /\ b \in Cuts /\ b.skipped = a.skipped + size /\ b.ofs = a.ofs + size
        /\ b.from = a.from /\ b.len = a.len /\ b.start = a.start /\ b.end = a.end
        /\ b.main = a.main /\ b.ranges = a.ranges
    <3> DEFINE skipped == a.skipped + size
               ofs == a.ofs + size
    <3>0. skipped \in Nat /\ ofs \in Nat
      BY <1>0
    <3>1. b = [a EXCEPT !.skipped = skipped, !.ofs = ofs]
      BY <2>1, Zenon
    <3> HIDE DEF b, skipped, ofs
    <3>2. /\ b \in Cuts /\ b.skipped = skipped /\ b.ofs = ofs
          /\ b.from = a.from /\ b.len = a.len /\ b.start = a.start /\ b.end = a.end
          /\ b.main = a.main /\ b.ranges = a.ranges
      BY <3>0, <3>1 DEF Cuts
    <3> QED BY <3>2 DEF skipped, ofs
  <2> HIDE DEF b
  <2>3. ASSUME CutOK(a, k - 1) PROVE CutOK(b, k)
    <3>1. InOrder(b, b.start)
      BY <2>2, <2>3 DEF CutOK, InOrder
    <3>2. ASSUME NEW n \in 1..k, Entries[n] \in Missing PROVE Reaches(b, n) \/ (b.start <= n /\ n < b.end)
      <4>1. n \in 1..(k - 1)
        BY <1>0, <1>3, <3>2
      <4> QED BY <2>2, <2>3, <3>2, <4>1 DEF CutOK, Reaches
    <3>3. b.ofs = OffsetOf(k + 1)
      BY <1>1, <2>2, <2>3 DEF CutOK
    <3>4. OffsetOf(a.end) \in Nat
      BY <1>0, <2>3, Offsets DEF CutOK
    <3>5. b.start # 1 => b.from + b.len = OffsetOf(b.end) /\ OffsetOf(b.end) + b.skipped = b.ofs
      BY <1>0, <2>2, <2>3, <3>4 DEF CutOK
    <3> QED BY <1>0, <2>2, <2>3, <3>1, <3>2, <3>3, <3>5 DEF CutOK
  <2> QED BY <2>2, <2>3 DEF b
<1>4. CASE Entries[k] \in Missing /\ a.skipped > MaxSkippedBytes
  <2>1. b = [c EXCEPT !.from = a.ofs, !.len = size, !.start = k,
                      !.end = k + 1, !.skipped = 0, !.ofs = a.ofs + size]
    BY <1>4 DEF AddToRange, size, c
  <2>2. /\ b \in Cuts /\ b.skipped = 0 /\ b.ofs = a.ofs + size
        /\ b.from = a.ofs /\ b.len = size /\ b.start = k /\ b.end = k + 1
        /\ b.main = c.main /\ b.ranges = c.ranges
    <3> DEFINE end == k + 1
               ofs == a.ofs + size
    <3>0. end \in Nat /\ ofs \in Nat /\ 0 \in Nat /\ k \in Nat /\ size \in Nat /\ a.ofs \in Nat
      BY <1>0
    <3>1. b = [c EXCEPT !.from = a.ofs, !.len = size, !.start = k, !.end = end, !.skipped = 0, !.ofs = ofs]
      BY <2>1, Zenon
    <3> HIDE DEF b, end, ofs
    <3>2. /\ b \in Cuts /\ b.skipped = 0 /\ b.ofs = ofs
          /\ b.from = a.ofs /\ b.len = size /\ b.start = k /\ b.end = end
          /\ b.main = c.main /\ b.ranges = c.ranges
      BY <1>2, <3>0, <3>1 DEF Cuts
    <3> QED BY <3>2 DEF end, ofs
  <2> HIDE DEF b
  <2>3. ASSUME CutOK(a, k - 1) PROVE CutOK(b, k)
    <3>1. InOrder(c, a.end) /\ \A n \in 1..(k - 1) : Entries[n] \in Missing => Reaches(c, n)
      BY <1>1, <2>3, CloseRangeKeeps DEF c
    <3>2. a.end <= k /\ a.start <= a.end /\ a.ofs = OffsetOf(k)
      BY <1>1, <2>3 DEF CutOK
    <3>3. InOrder(b, b.start)
      <4>1. b.main.first = 1 /\ 1 <= b.main.end /\ b.main.end <= k
        <5>1. c.main.end \in Nat
          BY <1>2 DEF Cuts
        <5> QED BY <1>0, <2>2, <3>1, <3>2, <5>1 DEF InOrder
      <4>2. ASSUME NEW i \in DOMAIN b.ranges
            PROVE  RangeOK(b.ranges[i]) /\ b.main.end <= b.ranges[i].first /\ b.ranges[i].first + b.ranges[i].count <= k
        <5>1. /\ RangeOK(c.ranges[i]) /\ c.main.end <= c.ranges[i].first
              /\ c.ranges[i].first + c.ranges[i].count <= a.end
          BY <2>2, <3>1 DEF InOrder
        <5>2. c.ranges[i] \in RangeRecords
          <6>1. c.ranges \in Seq(RangeRecords) /\ i \in DOMAIN c.ranges
            BY <1>2, <2>2 DEF Cuts
          <6> QED BY <6>1
        <5> QED BY <1>0, <2>2, <3>2, <5>1, <5>2 DEF RangeRecords
      <4>3. \A i, j \in DOMAIN b.ranges : i < j => b.ranges[i].first + b.ranges[i].count <= b.ranges[j].first
        BY <2>2, <3>1 DEF InOrder
      <4> QED BY <2>2, <4>1, <4>2, <4>3 DEF InOrder
    <3>4. ASSUME NEW n \in 1..k, Entries[n] \in Missing PROVE Reaches(b, n) \/ (b.start <= n /\ n < b.end)
      <4>1. CASE n = k
        BY <1>0, <2>2, <4>1
      <4>2. CASE n \in 1..(k - 1)
        BY <2>2, <3>1, <3>4, <4>2 DEF Reaches
      <4> QED BY <1>0, <4>1, <4>2
    <3>5. b.start = 1 => b.main.end = 1 /\ b.ranges = << >>
      <4> SUFFICES ASSUME k = 1 PROVE c.main.end = 1 /\ c.ranges = << >>
        BY <2>2
      <4>1. a.start = 1 /\ a.end = 1
        BY <1>0, <2>3, <3>2 DEF CutOK
      <4>2. c = [a EXCEPT !.main = [first |-> 1, end |-> 1]]
        BY <4>1 DEF c, CloseRange
      <4> QED BY <2>3, <4>1, <4>2 DEF CutOK, Cuts
    <3>6. b.ofs = OffsetOf(k + 1) /\ b.from = OffsetOf(b.start) /\ b.from + b.len = OffsetOf(b.end)
          /\ OffsetOf(b.end) + b.skipped = b.ofs
      BY <1>0, <1>1, <2>2, <3>2
    <3> QED BY <1>0, <2>2, <3>3, <3>4, <3>5, <3>6 DEF CutOK
  <2> QED BY <2>2, <2>3 DEF b
<1>5. CASE Entries[k] \in Missing /\ ~(a.skipped > MaxSkippedBytes)
  <2>1. b = [a EXCEPT !.len = a.len + a.skipped + size, !.end = k + 1, !.skipped = 0, !.ofs = a.ofs + size]
    BY <1>5 DEF AddToRange, Bridged, size
  <2>2. /\ b \in Cuts /\ b.skipped = 0 /\ b.ofs = a.ofs + size
        /\ b.from = a.from /\ b.len = a.len + a.skipped + size /\ b.start = a.start /\ b.end = k + 1
        /\ b.main = a.main /\ b.ranges = a.ranges
    <3> DEFINE end == k + 1
               ofs == a.ofs + size
               len == a.len + a.skipped + size
    <3>0. end \in Nat /\ ofs \in Nat /\ len \in Nat /\ 0 \in Nat
      <4>1. k \in Nat /\ a.ofs \in Nat /\ a.len \in Nat /\ a.skipped \in Nat /\ size \in Nat
        BY <1>0
      <4> HIDE DEF size
      <4>2. len \in Nat
        BY <4>1
      <4> QED BY <4>1, <4>2
    <3>1. b = [a EXCEPT !.len = len, !.end = end, !.skipped = 0, !.ofs = ofs]
      BY <2>1, Zenon
    <3> HIDE DEF b, end, ofs, len
    <3>2. /\ b \in Cuts /\ b.skipped = 0 /\ b.ofs = ofs
          /\ b.from = a.from /\ b.len = len /\ b.start = a.start /\ b.end = end
          /\ b.main = a.main /\ b.ranges = a.ranges
      BY <3>0, <3>1 DEF Cuts
    <3> QED BY <3>2 DEF end, ofs, len
  <2> HIDE DEF b
  <2>3. ASSUME CutOK(a, k - 1) PROVE CutOK(b, k)
    <3>1. InOrder(b, b.start)
      BY <2>2, <2>3 DEF CutOK, InOrder
    <3>2. ASSUME NEW n \in 1..k, Entries[n] \in Missing PROVE Reaches(b, n) \/ (b.start <= n /\ n < b.end)
      <4>1. CASE n = k
        BY <1>0, <2>2, <2>3, <4>1 DEF CutOK
      <4>2. CASE n \in 1..(k - 1)
        <5>1. Reaches(a, n) \/ (a.start <= n /\ n < a.end)
          BY <2>3, <3>2, <4>2 DEF CutOK
        <5>2. a.end <= k
          BY <1>0, <2>3 DEF CutOK
        <5> QED BY <1>0, <2>2, <5>1, <5>2 DEF Reaches
      <4> QED BY <1>0, <4>1, <4>2
    <3>3. b.ofs = OffsetOf(k + 1)
      BY <1>1, <2>2, <2>3 DEF CutOK
    <3>4. OffsetOf(a.end) \in Nat
      BY <1>0, <2>3, Offsets DEF CutOK
    <3>5. ASSUME b.start # 1 PROVE b.from + b.len = OffsetOf(b.end) /\ OffsetOf(b.end) + b.skipped = b.ofs
      <4>1. a.from + a.len = OffsetOf(a.end) /\ OffsetOf(a.end) + a.skipped = a.ofs
        BY <2>2, <2>3, <3>5 DEF CutOK
      <4>2. b.from + b.len = a.ofs + size
        <5>1. a.from + (a.len + a.skipped + size) = ((a.from + a.len) + a.skipped) + size
          BY <1>0
        <5>2. (a.from + a.len) + a.skipped = a.ofs
          BY <4>1
        <5> QED BY <2>2, <5>1, <5>2
      <4>3. OffsetOf(b.end) = a.ofs + size
        BY <2>2, <3>3
      <4> QED BY <1>0, <2>2, <4>2, <4>3
    <3> QED BY <1>0, <2>2, <2>3, <3>1, <3>2, <3>3, <3>5 DEF CutOK
  <2> QED BY <2>2, <2>3 DEF b
<1> QED BY <1>3, <1>4, <1>5

(* The plan of a download reaches each wanted tile; its ranges are apart   *)
(* and made of the bytes of their tiles (TileLoader::determineRanges).     *)
LEMMA PlanOK ==
  ASSUME Entries \in Seq(Tips)
  PROVE  /\ determineRanges \in Cuts
         /\ InOrder(determineRanges, Count + 1)
         /\ \A n \in Wanted : Reaches(determineRanges, n)
<1> DEFINE step == [p \in Cuts \X (1..Count) |-> AddToRange(p[1], p[2])]
           begin == BeginRanges
           total == Count
           after == CHOOSE f : f = [n \in 0..Count |-> IF n = 0 THEN BeginRanges ELSE AddToRange(f[n - 1], n)]
<1>1. total \in Nat /\ OffsetOf(1) = CatalogSize + MetadataSize /\ OffsetOf(1) \in Nat
  BY Offsets
<1>2. begin \in Cuts /\ CutOK(begin, 0)
  <2>1. begin \in Cuts
    BY <1>1, SizesAssumption DEF BeginRanges, Cuts
  <2>2. /\ begin.ofs = OffsetOf(1) /\ begin.from = OffsetOf(1) /\ begin.start = 1 /\ begin.end = 1
        /\ begin.main = [first |-> 1, end |-> 1] /\ begin.ranges = << >>
    BY <1>1 DEF BeginRanges
  <2> HIDE DEF begin
  <2> QED BY <2>1, <2>2 DEF CutOK, InOrder
<1>3. step \in [Cuts \X (1..total) -> Cuts]
  <2>1. ASSUME NEW p \in Cuts \X (1..Count) PROVE AddToRange(p[1], p[2]) \in Cuts
    <3>1. p[1] \in Cuts /\ p[2] \in 1..Count
      OBVIOUS
    <3> QED BY <3>1, AddToRangeKeeps
  <2> QED BY <2>1
<1>4. ASSUME NEW x \in Cuts, NEW n \in 1..Count PROVE step[<<x, n>>] = AddToRange(x, n)
  <2>1. <<x, n>> \in Cuts \X (1..Count) /\ <<x, n>>[1] = x /\ <<x, n>>[2] = n
    OBVIOUS
  <2> QED BY <2>1
<1>5. PICK g \in [0..total -> Cuts] : g[0] = begin /\ \A n \in 1..total : g[n] = step[<<g[n - 1], n>>]
  <2> HIDE DEF step, begin, total
  <2>1. Iterations(total, Cuts, begin, step) # {}
    BY <1>1, <1>2, <1>3, IterationExists
  <2> QED BY <2>1 DEF Iterations
<1>6. \A n \in 1..Count : g[n] = AddToRange(g[n - 1], n)
  <2> SUFFICES ASSUME NEW n \in 1..Count PROVE g[n] = AddToRange(g[n - 1], n)
    OBVIOUS
  <2>1. n - 1 \in 0..Count /\ g[n - 1] \in Cuts
    BY <1>1
  <2> QED BY <1>4, <1>5, <2>1
<1>7. g = [n \in 0..Count |-> IF n = 0 THEN BeginRanges ELSE AddToRange(g[n - 1], n)]
  <2>1. \A n \in 0..Count : g[n] = IF n = 0 THEN BeginRanges ELSE AddToRange(g[n - 1], n)
    BY <1>1, <1>5, <1>6
  <2> QED BY <2>1
<1>8. after = [n \in 0..Count |-> IF n = 0 THEN BeginRanges ELSE AddToRange(after[n - 1], n)]
  BY <1>7
<1> HIDE DEF after, step
<1>9. 0..Count \subseteq {n \in 0..Count : after[n] \in Cuts /\ CutOK(after[n], n)}
  <2> DEFINE P == {n \in 0..Count : after[n] \in Cuts /\ CutOK(after[n], n)}
  <2>1. 0 \in P
    BY <1>1, <1>2, <1>8
  <2>2. ASSUME NEW n \in 1..total, n - 1 \in P PROVE n \in P
    <3>1. after[n] = AddToRange(after[n - 1], n)
      BY <1>1, <1>8
    <3> QED BY <2>2, <3>1, AddToRangeKeeps
  <2> HIDE DEF P, total
  <2>3. 0..total \subseteq P
    BY <1>1, <2>1, <2>2, IntervalInduction
  <2> QED BY <2>3 DEF P, total
<1>10. after[Count] \in Cuts /\ CutOK(after[Count], Count) /\ Count \in 0..Count
  BY <1>1, <1>9
<1>11. determineRanges = CloseRange(after[Count])
  BY DEF determineRanges, after
<1>12. /\ determineRanges \in Cuts /\ InOrder(determineRanges, after[Count].end)
       /\ \A n \in Wanted : Reaches(determineRanges, n)
  BY <1>10, <1>11, CloseRangeKeeps DEF Wanted
<1>13. InOrder(determineRanges, Count + 1)
  <2> DEFINE plan == determineRanges
             e == after[Count].end
  <2> HIDE DEF plan
  <2>1. e \in Nat /\ e <= Count + 1 /\ plan.main.end \in Nat /\ plan.ranges \in Seq(RangeRecords)
    BY <1>1, <1>10, <1>12 DEF Cuts, CutOK, plan
  <2> HIDE DEF e
  <2>2. InOrder(plan, e)
    BY <1>12 DEF plan, e
  <2>3. ASSUME NEW i \in DOMAIN plan.ranges PROVE plan.ranges[i].first + plan.ranges[i].count <= Count + 1
    BY <2>2 DEF InOrder, RangeOK
  <2>4. plan.main.end <= Count + 1
    BY <1>1, <2>1, <2>2 DEF InOrder
  <2>5. InOrder(plan, Count + 1)
    BY <2>2, <2>3, <2>4 DEF InOrder
  <2> QED BY <2>5 DEF plan
<1> QED BY <1>12, <1>13

-----------------------------------------------------------------------------
(* The invariant of a load *)

(* What a worker is given for a tile: the chunk saved for it.              *)
Job(t) == [tip |-> t, data |-> t, wayNodes |-> storeWayNodes]
Jobs == {Job(t) : t \in Missing}
InLoad == {loading[w] : w \in LoadThreads} \ {NoTile}
Got == Elems(tasks) \union InLoad \union Elems(results) \union Elems(puts)

(* The entries that a client still expects in its response, and that are   *)
(* left in a range nobody has taken.                                       *)
Expects(c) ==
  IF clients[c].state \in {"file", "skip", "tile"} THEN clients[c].current..(clients[c].end - 1) ELSE {}
Left(i) == IF nextRange <= i THEN Window(ranges[i]) ELSE {}

ClientRecords ==
  [state : {"unused", "file", "skip", "tile", "range", "done"},
   current : Nat, end : Nat, ofs : Nat, limit : Nat]

LoadTypeOK ==
  /\ request \in Requests
  /\ stage \in {"start", "metadata", "tiles", "reading", "ended", "committed", "returned", "aborted"}
  /\ wayNodeIds \in BOOLEAN /\ storeWayNodes \in BOOLEAN
  /\ nextRange \in Nat \ {0} /\ ranges \in Seq(RangeRecords)
  /\ clients \in [Clients -> ClientRecords]
  /\ tasks \in Seq(Jobs) /\ results \in Seq(Jobs) /\ puts \in Seq(Jobs)
  /\ loading \in [LoadThreads -> Jobs \union {NoTile}]

(* A tile is in one queue or with one worker, or has been put.             *)
OneHolder ==
  /\ Distinct(tasks) /\ Distinct(results) /\ Distinct(puts)
  /\ \A v, w \in LoadThreads : loading[v] = loading[w] /\ loading[v] # NoTile => v = w
  /\ InLoad \intersect (Elems(tasks) \union Elems(results) \union Elems(puts)) = {}
  /\ Elems(tasks) \intersect (Elems(results) \union Elems(puts)) = {}
  /\ Elems(results) \intersect Elems(puts) = {}

(* Nothing is under way unless tiles are being read, and from then on the  *)
(* library has waynode IDs if the tiles have.                              *)
StageOK ==
  /\ stage # "reading" =>
       /\ tasks = << >> /\ InLoad = {} /\ results = << >>
       /\ \A c \in Clients : Expects(c) = {} /\ clients[c].state \in {"unused", "done", "file"}
  /\ stage \in {"start", "metadata", "tiles"} =>
       /\ puts = << >> /\ ranges = << >> /\ nextRange = 1
       /\ clients = [c \in Clients |-> Unused]
  /\ stage = "metadata" => request.created
  /\ stage \in {"tiles", "reading"} => wayNodeIds = storeWayNodes
  /\ stage = "reading" => tiles = Missing

(* The place of a client in its response is that of the tile it expects,   *)
(* and the response reaches to the last one.                               *)
ClientOK(c) ==
  LET k == clients[c] IN
  /\ k.state \in {"file", "skip", "tile"} => 1 <= k.current /\ k.current <= k.end /\ k.end <= Count + 1
  /\ k.state = "skip" => k.current = 1 /\ k.ofs = CatalogSize
  /\ k.state = "tile" => k.ofs = OffsetOf(k.current)
  /\ k.state \in {"skip", "tile"} => OffsetOf(k.end) <= k.limit
  /\ k.state = "done" => nextRange > Len(ranges)
  /\ k.state \in {"skip", "tile", "range", "done"} => request.remote
  /\ k.state # "unused" => Wanted # {}

ClientsOK ==
  /\ \A c \in Clients : ClientOK(c)
  /\ request.remote /\ stage = "reading" => Wanted = {} \/ clients[Main].state # "unused"
  /\ ~request.remote => ranges = << >> /\ \A c \in Clients \ {Main} : clients[c].state = "unused"

RangesOK ==
  /\ \A i \in DOMAIN ranges : RangeOK(ranges[i])
  /\ \A i, j \in DOMAIN ranges : i < j => ranges[i].first + ranges[i].count <= ranges[j].first

(* A tile is expected once, and not if somebody holds it.                  *)
Apart ==
  /\ \A c, d \in Clients : c # d => Expects(c) \intersect Expects(d) = {}
  /\ \A c \in Clients, i \in DOMAIN ranges : Expects(c) \intersect Left(i) = {}
  /\ \A c \in Clients : \A n \in Expects(c) : Job(Entries[n]) \notin Got
  /\ \A i \in DOMAIN ranges : \A n \in Left(i) : Job(Entries[n]) \notin Got

(* No tile that is wanted is overlooked, and none is lost.                 *)
Covered ==
  /\ stage = "reading" =>
       \A n \in Wanted : \/ Job(Entries[n]) \in Got
                         \/ \E c \in Clients : n \in Expects(c)
                         \/ \E i \in DOMAIN ranges : n \in Left(i)
  /\ stage \in {"ended", "committed"} => \A n \in Wanted : Job(Entries[n]) \in Elems(puts)

LoadInv ==
  /\ BundleOK /\ LoadTypeOK /\ OneHolder /\ StageOK /\ ClientsOK /\ RangesOK /\ Apart /\ Covered

(* What a worker is given is a tile of the library, and never "no tile".   *)
LEMMA JobsAreTiles ==
  ASSUME request \in Requests, storeWayNodes \in BOOLEAN
  PROVE  NoTile \notin Jobs /\ \A t, u : Job(t) = Job(u) => t = u
<1>1. Missing \subseteq DOMAIN Size
  BY RequestsAssumption DEF Missing, IsRequest
<1>2. Jobs \subseteq [tip : DOMAIN Size, data : DOMAIN Size, wayNodes : BOOLEAN]
  BY <1>1 DEF Jobs, Job
<1>3. ASSUME NEW t, NEW u, Job(t) = Job(u) PROVE t = u
  <2>1. Job(t).tip = t /\ Job(u).tip = u
    BY DEF Job
  <2> QED BY <1>3, <2>1
<1> QED BY <1>2, <1>3, SizesAssumption

(* What depends on the request, the bundle and the library's flag only.    *)
LEMMA SameBundle ==
  ASSUME UNCHANGED <<request, bundle, storeWayNodes>>
  PROVE  /\ Entries' = Entries /\ Count' = Count /\ Missing' = Missing /\ Wanted' = Wanted /\ Jobs' = Jobs
         /\ \A n : OffsetOf(n)' = OffsetOf(n)
         /\ \A t : Job(t)' = Job(t)
<1>1. Entries' = Entries
  BY DEF Entries
<1>2. Count' = Count /\ Missing' = Missing
  BY <1>1 DEF Count, Missing
<1>3. \A t : Job(t)' = Job(t)
  BY DEF Job
<1>4. Wanted' = Wanted /\ Jobs' = Jobs
  BY <1>1, <1>2, <1>3 DEF Wanted, Jobs
<1>5. \A n : OffsetOf(n)' = OffsetOf(n)
  BY <1>1 DEF OffsetOf
<1> QED BY <1>1, <1>2, <1>3, <1>4, <1>5

(* What the clients expect depends on their places and the shared counter. *)
LEMMA SameClients ==
  ASSUME UNCHANGED <<clients, ranges, nextRange>>
  PROVE  /\ \A c : Expects(c)' = Expects(c)
         /\ \A i : Left(i)' = Left(i)
<1>1. \A c : Expects(c)' = Expects(c)
  BY DEF Expects
<1>2. \A i : Left(i)' = Left(i)
  BY DEF Left, Window
<1> QED BY <1>1, <1>2

(* Ranges, as long as they are not planned, stay right.                    *)
LEMMA RangesStay ==
  ASSUME RangesOK, UNCHANGED <<request, bundle, storeWayNodes, ranges>>
  PROVE  RangesOK'
<1>1. \A i \in DOMAIN ranges : RangeOK(ranges[i])'
  BY SameBundle DEF RangesOK, RangeOK
<1> QED BY <1>1 DEF RangesOK

(* A bundle stays as it is once it is opened.                              *)
LEMMA BundleStays ==
  ASSUME BundleOK, stage # "start", UNCHANGED bundle
  PROVE  BundleOK'
<1>1. Entries' = Entries /\ Distinct(Entries)' = Distinct(Entries)
  BY DEF Entries, Distinct
<1> QED BY <1>1 DEF BundleOK

(* The worker threads and the output thread pass tiles on.                 *)
LEMMA HoldersMove ==
  ASSUME LoadInv, stage = "reading",
         UNCHANGED <<request, bundle, stage, wayNodeIds, storeWayNodes, tiles, clients, ranges, nextRange>>,
         Got' = Got, LoadTypeOK', OneHolder'
  PROVE  LoadInv'
<1> USE DEF LoadInv
<1>1. /\ Entries' = Entries /\ Count' = Count /\ Missing' = Missing /\ Wanted' = Wanted
      /\ \A n : OffsetOf(n)' = OffsetOf(n)
      /\ \A t : Job(t)' = Job(t)
  BY SameBundle
<1>2. /\ \A c : Expects(c)' = Expects(c)
      /\ \A i : Left(i)' = Left(i)
  BY SameClients
<1>3. BundleOK' /\ RangesOK'
  BY BundleStays, RangesStay
<1>4. StageOK'
  BY <1>1 DEF StageOK
<1>5. ClientsOK'
  <2>1. \A c \in Clients : ClientOK(c)'
    BY <1>1 DEF ClientsOK, ClientOK
  <2> QED BY <1>1, <2>1 DEF ClientsOK
<1>6. Apart'
  BY <1>1, <1>2 DEF Apart
<1>7. Covered'
  BY <1>1, <1>2 DEF Covered
<1> QED BY <1>3, <1>4, <1>5, <1>6, <1>7

(* A tile moves from the queue to a worker.                                *)
LEMMA TakeTaskKeeps == ASSUME LoadInv, NEW w \in LoadThreads, TakeTask(w) PROVE LoadInv'
<1> USE DEF LoadInv, TakeTask
<1>1. stage = "reading" /\ tasks \in Seq(Jobs) /\ tasks # << >> /\ Distinct(tasks)
  BY DEF StageOK, LoadTypeOK, OneHolder
<1>2. /\ Head(tasks) \in Jobs /\ Tail(tasks) \in Seq(Jobs) /\ Distinct(Tail(tasks))
      /\ Elems(tasks) = Elems(Tail(tasks)) \union {Head(tasks)}
      /\ Head(tasks) \notin Elems(Tail(tasks))
  BY <1>1, HeadTail
<1>3. NoTile \notin Jobs
  BY JobsAreTiles DEF LoadTypeOK
<1>4. LoadTypeOK'
  <2>1. Jobs' = Jobs
    BY SameBundle
  <2> QED BY <1>2, <2>1 DEF LoadTypeOK
<1>5. InLoad' = InLoad \union {Head(tasks)}
  BY <1>2, <1>3 DEF InLoad, LoadTypeOK
<1>6. /\ Elems(tasks)' = Elems(Tail(tasks)) /\ Elems(results)' = Elems(results) /\ Elems(puts)' = Elems(puts)
      /\ Distinct(tasks)' /\ Distinct(results)' /\ Distinct(puts)'
  BY <1>2 DEF OneHolder, Elems, Distinct
<1>7. \A v, u \in LoadThreads : loading'[v] = loading'[u] /\ loading'[v] # NoTile => v = u
  <2>1. \A v \in LoadThreads : loading[v] # Head(tasks)
    BY <1>2, <1>3 DEF OneHolder, InLoad
  <2> QED BY <2>1 DEF OneHolder, LoadTypeOK
<1>8. OneHolder'
  BY <1>2, <1>5, <1>6, <1>7 DEF OneHolder
<1>9. Got' = Got
  BY <1>2, <1>5, <1>6 DEF Got
<1> QED BY <1>1, <1>4, <1>8, <1>9, HoldersMove

(* A tile moves from a worker to the output thread.                        *)
LEMMA BuildTileKeeps == ASSUME LoadInv, NEW w \in LoadThreads, BuildTile(w) PROVE LoadInv'
<1> USE DEF LoadInv, BuildTile
<1>1. stage = "reading" /\ loading[w] \in Jobs /\ loading[w] \in InLoad
  BY DEF StageOK, LoadTypeOK, InLoad
<1>2. results \in Seq(Jobs) /\ Distinct(results) /\ loading[w] \notin Elems(results)
  BY <1>1 DEF LoadTypeOK, OneHolder
<1>3. /\ results' \in Seq(Jobs) /\ Distinct(results')
      /\ Elems(results') = Elems(results) \union {loading[w]}
  BY <1>1, <1>2, Appended
<1>4. LoadTypeOK'
  <2>1. Jobs' = Jobs
    BY SameBundle
  <2> QED BY <1>3, <2>1 DEF LoadTypeOK
<1>5. InLoad' = InLoad \ {loading[w]}
  BY DEF InLoad, LoadTypeOK, OneHolder
<1>6. /\ Elems(tasks)' = Elems(tasks) /\ Elems(results)' = Elems(results') /\ Elems(puts)' = Elems(puts)
      /\ Distinct(tasks)' /\ Distinct(results)' /\ Distinct(puts)'
  BY <1>3 DEF OneHolder, Elems, Distinct
<1>7. \A v, u \in LoadThreads : loading'[v] = loading'[u] /\ loading'[v] # NoTile => v = u
  BY DEF OneHolder, LoadTypeOK
<1>8. OneHolder'
  BY <1>1, <1>3, <1>5, <1>6, <1>7 DEF OneHolder
<1>9. Got' = Got
  BY <1>1, <1>3, <1>5, <1>6 DEF Got
<1> QED BY <1>1, <1>4, <1>8, <1>9, HoldersMove

(* A tile is put into the library.                                         *)
LEMMA PutTileKeeps == ASSUME LoadInv, PutTile PROVE LoadInv'
<1> USE DEF LoadInv, PutTile
<1>1. stage = "reading" /\ results \in Seq(Jobs) /\ results # << >> /\ Distinct(results)
  BY DEF StageOK, LoadTypeOK, OneHolder
<1>2. /\ Head(results) \in Jobs /\ Tail(results) \in Seq(Jobs) /\ Distinct(Tail(results))
      /\ Elems(results) = Elems(Tail(results)) \union {Head(results)}
      /\ Head(results) \notin Elems(Tail(results))
  BY <1>1, HeadTail
<1>3. puts \in Seq(Jobs) /\ Distinct(puts) /\ Head(results) \notin Elems(puts)
  BY <1>2 DEF LoadTypeOK, OneHolder
<1>4. /\ puts' \in Seq(Jobs) /\ Distinct(puts')
      /\ Elems(puts') = Elems(puts) \union {Head(results)}
  BY <1>2, <1>3, Appended
<1>5. LoadTypeOK'
  <2>1. Jobs' = Jobs
    BY SameBundle
  <2> QED BY <1>2, <1>4, <2>1 DEF LoadTypeOK
<1>6. InLoad' = InLoad
  BY DEF InLoad
<1>7. /\ Elems(tasks)' = Elems(tasks) /\ Elems(results)' = Elems(Tail(results)) /\ Elems(puts)' = Elems(puts')
      /\ Distinct(tasks)' /\ Distinct(results)' /\ Distinct(puts)'
  BY <1>2, <1>4 DEF OneHolder, Elems, Distinct
<1>8. \A v, u \in LoadThreads : loading'[v] = loading'[u] /\ loading'[v] # NoTile => v = u
  BY DEF OneHolder
<1>9. OneHolder'
  BY <1>2, <1>4, <1>6, <1>7, <1>8 DEF OneHolder
<1>10. Got' = Got
  BY <1>2, <1>4, <1>6, <1>7 DEF Got
<1> QED BY <1>1, <1>5, <1>9, <1>10, HoldersMove

(* A client changes its state, not what it expects.                        *)
LEMMA ClientMoves ==
  ASSUME LoadInv, stage = "reading", NEW c \in Clients, NEW k \in ClientRecords,
         clients' = [clients EXCEPT ![c] = k],
         UNCHANGED <<request, bundle, stage, wayNodeIds, storeWayNodes, tiles, ranges, nextRange,
                     tasks, loading, results, puts>>,
         Expects(c)' = Expects(c), ClientOK(c)', k.state # "unused", request.remote
  PROVE  LoadInv'
<1> USE DEF LoadInv
<1>1. /\ Entries' = Entries /\ Count' = Count /\ Missing' = Missing /\ Wanted' = Wanted /\ Jobs' = Jobs
      /\ \A n : OffsetOf(n)' = OffsetOf(n)
      /\ \A t : Job(t)' = Job(t)
  BY SameBundle
<1>2. clients \in [Clients -> ClientRecords] /\ \A d \in Clients : d # c => clients'[d] = clients[d]
  BY DEF LoadTypeOK
<1>3. \A d \in Clients : Expects(d)' = Expects(d)
  <2> SUFFICES ASSUME NEW d \in Clients, d # c PROVE Expects(d)' = Expects(d)
    OBVIOUS
  <2> QED BY <1>2 DEF Expects
<1>4. \A i : Left(i)' = Left(i)
  BY DEF Left, Window
<1>5. Got' = Got /\ InLoad' = InLoad /\ Elems(puts)' = Elems(puts)
  BY DEF Got, InLoad, Elems
<1>6. BundleOK' /\ RangesOK'
  BY BundleStays, RangesStay
<1>7. LoadTypeOK'
  BY <1>1, <1>2 DEF LoadTypeOK
<1>8. OneHolder'
  BY <1>5 DEF OneHolder, Elems, Distinct
<1>9. StageOK'
  BY <1>1 DEF StageOK
<1>10. ClientsOK'
  <2>1. ASSUME NEW d \in Clients, d # c PROVE ClientOK(d)'
    <3>1. clients'[d] = clients[d] /\ ClientOK(d)
      BY <1>2, <2>1 DEF ClientsOK
    <3> QED BY <1>1, <3>1 DEF ClientOK
  <2>2. clients'[c] = k
    BY <1>2
  <2>3. Wanted = {} \/ clients'[Main].state # "unused"
    <3>1. Main \in Clients
      BY SizesAssumption DEF Main, Clients
    <3> QED BY <1>2, <2>2, <3>1 DEF ClientsOK
  <2> QED BY <1>1, <2>1, <2>3 DEF ClientsOK
<1>11. Apart'
  BY <1>1, <1>3, <1>4, <1>5 DEF Apart
<1>12. Covered'
  BY <1>1, <1>3, <1>4, <1>5 DEF Covered
<1> QED BY <1>6, <1>7, <1>8, <1>9, <1>10, <1>11, <1>12

(* Clients are at work while tiles are read; one that has a request is the *)
(* client of a download.                                                   *)
LEMMA AtWork ==
  ASSUME LoadInv, NEW c \in Clients, clients[c].state \in {"skip", "tile", "range"} \/ Expects(c) # {}
  PROVE  stage = "reading" /\ ClientOK(c) /\ (clients[c].state \in {"skip", "tile", "range"} => request.remote)
<1>0. ClientOK(c)
  BY DEF LoadInv, ClientsOK
<1>1. stage = "reading"
  <2>1. CASE Expects(c) # {}
    BY <2>1 DEF LoadInv, StageOK
  <2>2. CASE clients[c].state \in {"skip", "tile", "range"}
    BY <2>2 DEF LoadInv, StageOK
  <2> QED BY <2>1, <2>2
<1> QED BY <1>0, <1>1 DEF ClientOK

(* The metadata of the first response is skipped.                          *)
LEMMA SkipMetadataKeeps == ASSUME LoadInv, SkipMetadata PROVE LoadInv'
<1> USE DEF SkipMetadata
<1> DEFINE k == clients[Main]
           m == [clients[Main] EXCEPT !.state = "tile", !.ofs = @ + MetadataSize]
<1>1. Main \in Clients /\ stage = "reading" /\ request.remote
  <2>1. Main \in Clients
    BY SizesAssumption DEF Main, Clients
  <2> QED BY <2>1, AtWork
<1>2. k \in ClientRecords /\ clients \in [Clients -> ClientRecords] /\ MetadataSize \in Nat
  BY <1>1, SizesAssumption DEF LoadInv, LoadTypeOK
<1>3. k.ofs + MetadataSize \in Nat
  BY <1>2 DEF ClientRecords
<1>4. /\ m \in ClientRecords /\ m.state = "tile" /\ m.ofs = k.ofs + MetadataSize
      /\ m.current = k.current /\ m.end = k.end /\ m.limit = k.limit
  <2> DEFINE o == k.ofs + MetadataSize
  <2>1. o \in Nat /\ m = [k EXCEPT !.state = "tile", !.ofs = o]
    BY <1>3
  <2> HIDE DEF o, m, k
  <2>2. /\ m \in ClientRecords /\ m.state = "tile" /\ m.ofs = o
        /\ m.current = k.current /\ m.end = k.end /\ m.limit = k.limit
    BY <1>2, <2>1 DEF ClientRecords
  <2> QED BY <2>2 DEF o
<1>5. clients' = [clients EXCEPT ![Main] = m]
  BY <1>1, <1>2
<1> HIDE DEF m
<1>6. clients'[Main] = m
  BY <1>1, <1>2, <1>5
<1>7. Expects(Main)' = Expects(Main)
  BY <1>4, <1>6 DEF Expects
<1>8. ClientOK(Main)'
  <2>1. ClientOK(Main) /\ Entries \in Seq(Tips)
    BY <1>1 DEF LoadInv, ClientsOK, BundleOK
  <2>2. Count' = Count /\ Wanted' = Wanted /\ \A n : OffsetOf(n)' = OffsetOf(n)
    BY SameBundle
  <2>3. m.current = 1 /\ m.ofs = OffsetOf(m.current)
    <3>1. OffsetOf(1) = CatalogSize + MetadataSize
      BY <2>1, Offsets
    <3> QED BY <1>4, <2>1, <3>1 DEF ClientOK
  <2> QED BY <1>4, <1>6, <2>1, <2>2, <2>3 DEF ClientOK
<1> QED BY <1>1, <1>4, <1>5, <1>7, <1>8, ClientMoves

(* A response ends only when all of its tiles have arrived: it reaches     *)
(* to the end of the last one.                                             *)
LEMMA EndResponseKeeps == ASSUME LoadInv, NEW c \in Clients, EndResponse(c) PROVE LoadInv'
<1> USE DEF EndResponse
<1> DEFINE k == clients[c]
           m == [clients[c] EXCEPT !.state = "range"]
<1>1. stage = "reading" /\ request.remote /\ k \in ClientRecords /\ clients \in [Clients -> ClientRecords] /\ Entries \in Seq(Tips)
  BY AtWork DEF LoadInv, LoadTypeOK, BundleOK
<1>2. m \in ClientRecords /\ m.state = "range"
  BY <1>1 DEF ClientRecords
<1>3. clients' = [clients EXCEPT ![c] = m] /\ clients'[c] = m
  BY <1>1
<1>4. Expects(c)' = {}
  BY <1>2, <1>3 DEF Expects
<1>5. ~(k.current < k.end)
  <2> SUFFICES ASSUME k.current < k.end PROVE FALSE
    OBVIOUS
  <2>1. ClientOK(c)
    BY DEF LoadInv, ClientsOK
  <2>2. k.current \in 1..Count /\ k.current + 1 \in 1..(Count + 1) /\ k.end \in 1..(Count + 1) /\ Count \in Nat
    BY <1>1, <2>1, Offsets DEF ClientOK, ClientRecords
  <2>3. /\ OffsetOf(k.current + 1) = k.ofs + Size[Entries[k.current]]
        /\ OffsetOf(k.end) \in Nat /\ OffsetOf(k.current + 1) \in Nat
        /\ k.current + 1 < k.end => OffsetOf(k.current + 1) < OffsetOf(k.end)
    BY <1>1, <2>1, <2>2, Offsets DEF ClientOK
  <2>4. OffsetOf(k.current + 1) <= OffsetOf(k.end)
    BY <2>2, <2>3
  <2>5. OffsetOf(k.end) <= k.limit /\ k.limit \in Nat
    BY <1>1, <2>1 DEF ClientOK, ClientRecords
  <2>6. OffsetOf(k.current + 1) > k.limit
    BY <2>3
  <2> QED BY <2>3, <2>4, <2>5, <2>6
<1>6. Expects(c) = {}
  BY <1>1, <1>5 DEF Expects, ClientRecords
<1>7. ClientOK(c)'
  <2>1. Wanted' = Wanted /\ Wanted # {}
    BY SameBundle DEF LoadInv, ClientsOK, ClientOK
  <2> QED BY <1>1, <1>2, <1>3, <2>1 DEF ClientOK
<1> HIDE DEF m
<1> QED BY <1>1, <1>2, <1>3, <1>4, <1>6, <1>7, ClientMoves

(* A tile arrives at a client: it is posted if it is wanted, and the       *)
(* client expects it no longer.                                            *)
LEMMA TileArrives ==
  ASSUME LoadInv, stage = "reading", NEW c \in Clients, NEW k \in ClientRecords, NEW n \in Expects(c),
         n = clients[c].current,
         clients' = [clients EXCEPT ![c] = k],
         k.state = clients[c].state, k.current = n + 1, k.end = clients[c].end,
         tasks' = IF Entries[n] \in Missing THEN Append(tasks, Job(Entries[n])) ELSE tasks,
         UNCHANGED <<request, bundle, stage, wayNodeIds, storeWayNodes, tiles, ranges, nextRange,
                     loading, results, puts>>,
         ClientOK(c)'
  PROVE  LoadInv'
<1> USE DEF LoadInv
<1>1. /\ Entries' = Entries /\ Count' = Count /\ Missing' = Missing /\ Wanted' = Wanted /\ Jobs' = Jobs
      /\ \A x : OffsetOf(x)' = OffsetOf(x)
      /\ \A t : Job(t)' = Job(t)
  BY SameBundle
<1>2. /\ clients \in [Clients -> ClientRecords] /\ \A d \in Clients : d # c => clients'[d] = clients[d]
      /\ clients'[c] = k
  BY DEF LoadTypeOK
<1>3. /\ Count \in Nat /\ n \in 1..Count
      /\ Expects(c) = Expects(c)' \union {n} /\ n \notin Expects(c)'
  <2>1. Count \in Nat
    BY Offsets DEF BundleOK
  <2>2. /\ clients[c].current \in Nat /\ clients[c].end \in Nat /\ clients[c].state \in {"file", "skip", "tile"}
        /\ Expects(c) = n..(clients[c].end - 1)
    BY <1>2 DEF Expects, ClientRecords
  <2>3. Expects(c)' = (n + 1)..(clients[c].end - 1)
    BY <1>2, <2>2 DEF Expects
  <2>4. n < clients[c].end /\ 1 <= n /\ clients[c].end <= Count + 1
    BY <2>2 DEF ClientsOK, ClientOK
  <2> QED BY <2>1, <2>2, <2>3, <2>4
<1>4. \A d \in Clients : d # c => Expects(d)' = Expects(d)
  BY <1>2 DEF Expects
<1>5. \A i : Left(i)' = Left(i)
  BY DEF Left, Window
<1>6. /\ Elems(results)' = Elems(results) /\ Elems(puts)' = Elems(puts) /\ InLoad' = InLoad
      /\ Distinct(results)' = Distinct(results) /\ Distinct(puts)' = Distinct(puts)
  BY DEF Elems, InLoad, Distinct
<1>7. Job(Entries[n]) \notin Got
  BY DEF Apart
<1>8. /\ tasks' \in Seq(Jobs) /\ Distinct(tasks)'
      /\ Elems(tasks)' = Elems(tasks) \union (IF Entries[n] \in Missing THEN {Job(Entries[n])} ELSE {})
  <2>1. CASE Entries[n] \in Missing
    <3>1. tasks \in Seq(Jobs) /\ Distinct(tasks) /\ Job(Entries[n]) \in Jobs /\ Job(Entries[n]) \notin Elems(tasks)
      BY <1>7, <2>1 DEF LoadTypeOK, OneHolder, Jobs, Got
    <3>2. /\ tasks' \in Seq(Jobs) /\ Distinct(tasks')
          /\ Elems(tasks') = Elems(tasks) \union {Job(Entries[n])}
      BY <2>1, <3>1, Appended
    <3>3. Distinct(tasks)' = Distinct(tasks') /\ Elems(tasks)' = Elems(tasks')
      BY DEF Distinct, Elems
    <3> QED BY <2>1, <3>2, <3>3
  <2>2. CASE Entries[n] \notin Missing
    <3>1. tasks' = tasks
      BY <2>2
    <3> QED BY <2>2, <3>1 DEF LoadTypeOK, OneHolder, Distinct, Elems
  <2> QED BY <2>1, <2>2
<1>9. Got' = Got \union (IF Entries[n] \in Missing THEN {Job(Entries[n])} ELSE {})
  BY <1>6, <1>8 DEF Got
<1>10. BundleOK' /\ RangesOK'
  BY BundleStays, RangesStay
<1>11. LoadTypeOK'
  BY <1>1, <1>2, <1>8 DEF LoadTypeOK
<1>12. OneHolder'
  <2>1. \A v, w \in LoadThreads : loading'[v] = loading'[w] /\ loading'[v] # NoTile => v = w
    BY DEF OneHolder
  <2>2. /\ InLoad \intersect (Elems(tasks) \union Elems(results) \union Elems(puts)) = {}
        /\ Elems(tasks) \intersect (Elems(results) \union Elems(puts)) = {}
        /\ Elems(results) \intersect Elems(puts) = {}
    BY DEF OneHolder
  <2>3. /\ InLoad' \intersect (Elems(tasks)' \union Elems(results)' \union Elems(puts)') = {}
        /\ Elems(tasks)' \intersect (Elems(results)' \union Elems(puts)') = {}
        /\ Elems(results)' \intersect Elems(puts)' = {}
    BY <1>6, <1>7, <1>8, <2>2 DEF Got
  <2> QED BY <1>6, <1>8, <2>1, <2>3 DEF OneHolder
<1>13. StageOK'
  BY <1>1 DEF StageOK
<1>14. ClientsOK'
  <2>1. ASSUME NEW d \in Clients, d # c PROVE ClientOK(d)'
    <3>1. clients'[d] = clients[d] /\ ClientOK(d)
      BY <1>2, <2>1 DEF ClientsOK
    <3> QED BY <1>1, <3>1 DEF ClientOK
  <2>2. \A d \in Clients : clients'[d].state = clients[d].state
    BY <1>2
  <2>3. Main \in Clients
    BY SizesAssumption DEF Main, Clients
  <2>4. request'.remote /\ stage' = "reading" => Wanted' = {} \/ clients'[Main].state # "unused"
    BY <1>1, <2>2, <2>3 DEF ClientsOK
  <2>5. ~request'.remote => ranges' = << >> /\ \A d \in Clients \ {Main} : clients'[d].state = "unused"
    BY <2>2 DEF ClientsOK
  <2> QED BY <2>1, <2>4, <2>5 DEF ClientsOK
<1>15. \A x \in 1..Count : Job(Entries[x]) = Job(Entries[n]) => x = n
  <2>1. \A x \in 1..Count : Entries[x] = Entries[n] => x = n
    BY <1>3 DEF BundleOK, Distinct, Count
  <2>2. \A t, u : Job(t) = Job(u) => t = u
    BY JobsAreTiles DEF LoadTypeOK
  <2> QED BY <2>1, <2>2
<1>16. \A d \in Clients : \A x \in Expects(d) : x \in 1..Count
  <2> SUFFICES ASSUME NEW d \in Clients, NEW x \in Expects(d) PROVE x \in 1..Count
    OBVIOUS
  <2>1. clients[d] \in ClientRecords
    BY <1>2
  <2> QED BY <1>3, <2>1 DEF Expects, ClientsOK, ClientOK, ClientRecords
<1>17. \A i \in DOMAIN ranges : \A x \in Left(i) : x \in 1..Count
  <2> SUFFICES ASSUME NEW i \in DOMAIN ranges, NEW x \in Left(i) PROVE x \in 1..Count
    OBVIOUS
  <2>1. ranges[i] \in RangeRecords /\ RangeOK(ranges[i])
    BY DEF LoadTypeOK, RangesOK
  <2> QED BY <1>3, <2>1 DEF Left, Window, RangeOK, RangeRecords
<1>18. Apart'
  <2>1. \A d \in Clients : Expects(d)' \subseteq Expects(d) /\ n \notin Expects(d)'
    BY <1>3, <1>4 DEF Apart
  <2>2. \A i \in DOMAIN ranges : n \notin Left(i)
    BY DEF Apart
  <2>3. \A d, e \in Clients : d # e => Expects(d)' \intersect Expects(e)' = {}
    BY <2>1 DEF Apart
  <2>4. \A d \in Clients, i \in DOMAIN ranges : Expects(d)' \intersect Left(i) = {}
    BY <2>1 DEF Apart
  <2>5. ASSUME NEW d \in Clients, NEW x \in Expects(d)' PROVE Job(Entries[x]) \notin Got'
    <3>1. x \in Expects(d) /\ x # n /\ x \in 1..Count
      BY <1>16, <2>1, <2>5
    <3>2. Job(Entries[x]) \notin Got
      BY <3>1 DEF Apart
    <3> QED BY <1>9, <1>15, <3>1, <3>2
  <2>6. ASSUME NEW i \in DOMAIN ranges, NEW x \in Left(i) PROVE Job(Entries[x]) \notin Got'
    <3>1. x # n /\ x \in 1..Count
      BY <1>17, <2>2
    <3>2. Job(Entries[x]) \notin Got
      BY DEF Apart
    <3> QED BY <1>9, <1>15, <3>1, <3>2
  <2> QED BY <1>1, <1>5, <2>3, <2>4, <2>5, <2>6 DEF Apart
<1>19. Covered'
  <2> SUFFICES ASSUME NEW x \in Wanted
               PROVE  \/ Job(Entries[x]) \in Got'
                      \/ \E d \in Clients : x \in Expects(d)'
                      \/ \E i \in DOMAIN ranges : x \in Left(i)
    BY <1>1, <1>5 DEF Covered
  <2>1. \/ Job(Entries[x]) \in Got
        \/ \E d \in Clients : x \in Expects(d)
        \/ \E i \in DOMAIN ranges : x \in Left(i)
    BY DEF Covered
  <2>2. CASE x = n
    BY <1>9, <2>2 DEF Wanted
  <2>3. CASE x # n
    <3>1. ASSUME NEW d \in Clients, x \in Expects(d) PROVE x \in Expects(d)'
      BY <1>3, <1>4, <2>3, <3>1
    <3> QED BY <1>9, <2>1, <3>1
  <2> QED BY <2>2, <2>3
<1> QED BY <1>10, <1>11, <1>12, <1>13, <1>14, <1>18, <1>19

(* A tile that is read from a file, at the offset that load() adds up.     *)
LEMMA ReadTileKeeps == ASSUME LoadInv, ReadTile PROVE LoadInv'
<1> USE DEF ReadTile
<1> DEFINE n == clients[Main].current
           k == [clients[Main] EXCEPT !.current = n + 1]
<1>0. Main \in Clients
  BY SizesAssumption DEF Main, Clients
<1>1. clients[Main] \in ClientRecords /\ clients \in [Clients -> ClientRecords] /\ n \in Nat
  BY <1>0 DEF LoadInv, LoadTypeOK, ClientRecords
<1>2. n \in Expects(Main)
  BY <1>1 DEF Expects, ClientRecords
<1>3. stage = "reading" /\ ClientOK(Main)
  BY <1>0, <1>2, AtWork
<1>4. /\ k \in ClientRecords /\ k.state = clients[Main].state /\ k.current = n + 1 /\ k.end = clients[Main].end
      /\ k.state = "file"
  <2> DEFINE m == n + 1
  <2>1. m \in Nat /\ k = [clients[Main] EXCEPT !.current = m]
    BY <1>1
  <2> HIDE DEF m, k
  <2>2. k \in ClientRecords /\ k.state = clients[Main].state /\ k.current = m /\ k.end = clients[Main].end
    BY <1>1, <2>1 DEF ClientRecords
  <2> QED BY <2>2 DEF m
<1>5. clients' = [clients EXCEPT ![Main] = k] /\ clients'[Main] = k
  BY <1>0, <1>1
<1>6. n \in 1..Count /\ Entries \in Seq(Tips)
  <2>1. 1 <= n /\ n < clients[Main].end /\ clients[Main].end <= Count + 1 /\ clients[Main].end \in Nat
    BY <1>1, <1>3 DEF ClientOK, ClientRecords
  <2>2. Count \in Nat /\ Entries \in Seq(Tips)
    BY Offsets DEF LoadInv, BundleOK
  <2> QED BY <1>1, <2>1, <2>2
<1>7. tasks' = IF Entries[n] \in Missing THEN Append(tasks, Job(Entries[n])) ELSE tasks
  <2>1. Held(OffsetOf(n), Size[Entries[n]]) = Entries[n]
    BY <1>3, <1>6, HeldIsEntry DEF LoadInv
  <2>2. Task(n, OffsetOf(n)) = Job(Entries[n])
    BY <1>3, <2>1 DEF Task, Job, LoadInv, StageOK
  <2>3. tiles = Missing
    BY <1>3 DEF LoadInv, StageOK
  <2> QED BY <2>2, <2>3
<1>8. ClientOK(Main)'
  <2>1. Count' = Count /\ Wanted' = Wanted /\ Wanted # {}
    BY <1>3, <1>4, SameBundle DEF ClientOK
  <2>2. 1 <= n /\ n < clients[Main].end /\ clients[Main].end <= Count + 1 /\ clients[Main].end \in Nat
    BY <1>1, <1>3 DEF ClientOK, ClientRecords
  <2> HIDE DEF k
  <2> QED BY <1>1, <1>4, <1>5, <2>1, <2>2 DEF ClientOK
<1> HIDE DEF k
<1> QED BY <1>0, <1>2, <1>3, <1>4, <1>5, <1>7, <1>8, TileArrives

(* A tile that arrives in a response, at the place the client is at.       *)
LEMMA ReceiveTileKeeps == ASSUME LoadInv, NEW c \in Clients, ReceiveTile(c) PROVE LoadInv'
<1> USE DEF ReceiveTile
<1> DEFINE n == clients[c].current
           size == Size[Entries[n]]
           k == [clients[c] EXCEPT !.current = n + 1, !.ofs = @ + size]
<1>1. clients[c] \in ClientRecords /\ clients \in [Clients -> ClientRecords] /\ n \in Nat
  BY DEF LoadInv, LoadTypeOK, ClientRecords
<1>2. n \in Expects(c)
  BY <1>1 DEF Expects, ClientRecords
<1>3. stage = "reading" /\ ClientOK(c)
  BY <1>2, AtWork
<1>4. n \in 1..Count /\ Entries \in Seq(Tips)
  <2>1. 1 <= n /\ n < clients[c].end /\ clients[c].end <= Count + 1 /\ clients[c].end \in Nat
    BY <1>1, <1>3 DEF ClientOK, ClientRecords
  <2>2. Count \in Nat /\ Entries \in Seq(Tips)
    BY Offsets DEF LoadInv, BundleOK
  <2> QED BY <1>1, <2>1, <2>2
<1>5. /\ clients[c].ofs = OffsetOf(n) /\ OffsetOf(n) \in Nat /\ size \in Nat
      /\ OffsetOf(n + 1) = OffsetOf(n) + size
  <2>1. n \in 1..(Count + 1)
    BY <1>4, Offsets
  <2> QED BY <1>3, <1>4, <2>1, Offsets DEF ClientOK
<1>6. /\ k \in ClientRecords /\ k.state = clients[c].state /\ k.current = n + 1 /\ k.end = clients[c].end
      /\ k.state = "tile" /\ k.limit = clients[c].limit /\ k.ofs = OffsetOf(n + 1)
  <2> DEFINE m == n + 1
             o == clients[c].ofs + size
  <2>1. m \in Nat /\ o \in Nat
    BY <1>1, <1>5
  <2>2. k = [clients[c] EXCEPT !.current = m, !.ofs = o]
    BY Zenon
  <2> HIDE DEF m, o, k
  <2>3. /\ k \in ClientRecords /\ k.state = clients[c].state /\ k.current = m /\ k.end = clients[c].end
        /\ k.limit = clients[c].limit /\ k.ofs = o
    BY <1>1, <2>1, <2>2 DEF ClientRecords
  <2>4. o = OffsetOf(n + 1)
    BY <1>5 DEF o
  <2> QED BY <2>3, <2>4 DEF m
<1>7. clients' = [clients EXCEPT ![c] = k] /\ clients'[c] = k
  BY <1>1
<1>8. tasks' = IF Entries[n] \in Missing THEN Append(tasks, Job(Entries[n])) ELSE tasks
  <2>1. Held(OffsetOf(n), Size[Entries[n]]) = Entries[n]
    BY <1>3, <1>4, HeldIsEntry DEF LoadInv
  <2>2. Task(n, clients[c].ofs) = Job(Entries[n])
    BY <1>3, <1>5, <2>1 DEF Task, Job, LoadInv, StageOK
  <2>3. tiles = Missing
    BY <1>3 DEF LoadInv, StageOK
  <2> QED BY <2>2, <2>3
<1> HIDE DEF k
<1>9. PICK m \in ClientRecords : m = k
  BY <1>6
<1>10. ClientOK(c)'
  <2>1. Count' = Count /\ Wanted' = Wanted /\ \A x : OffsetOf(x)' = OffsetOf(x)
    BY SameBundle
  <2>2. 1 <= n /\ n < clients[c].end /\ clients[c].end <= Count + 1 /\ clients[c].end \in Nat
    BY <1>1, <1>3 DEF ClientOK, ClientRecords
  <2>3. request'.remote /\ OffsetOf(clients[c].end) <= clients[c].limit /\ Wanted # {}
    BY <1>3 DEF ClientOK
  <2>4. 1 <= m.current /\ m.current <= m.end /\ m.end <= Count' + 1
    BY <1>1, <1>6, <1>9, <2>1, <2>2
  <2>5. m.ofs = OffsetOf(m.current)' /\ OffsetOf(m.end)' <= m.limit /\ m.state = "tile"
    BY <1>6, <1>9, <2>1, <2>3
  <2>6. clients'[c] = m
    BY <1>7, <1>9
  <2> QED BY <2>1, <2>3, <2>4, <2>5, <2>6 DEF ClientOK
<1> QED BY <1>2, <1>3, <1>6, <1>7, <1>8, <1>10, TileArrives

(* The windows of two ranges are apart.                                    *)
LEMMA RangesApart ==
  ASSUME RangesOK, ranges \in Seq(RangeRecords), NEW i \in DOMAIN ranges, NEW j \in DOMAIN ranges, i # j
  PROVE  Window(ranges[i]) \intersect Window(ranges[j]) = {}
<1>1. ranges[i] \in RangeRecords /\ ranges[j] \in RangeRecords /\ i \in Nat /\ j \in Nat
  OBVIOUS
<1>2. ASSUME NEW r \in RangeRecords, NEW q \in RangeRecords, r.first + r.count <= q.first
      PROVE  Window(r) \intersect Window(q) = {}
  <2>1. r.first \in Nat /\ r.count \in Int /\ q.first \in Nat /\ q.count \in Int
    BY DEF RangeRecords
  <2>2. ASSUME NEW x \in Window(r), x \in Window(q) PROVE FALSE
    <3>1. x \in Int /\ x <= r.first + r.count - 1 /\ q.first <= x
      BY <2>1, <2>2 DEF Window
    <3> QED BY <1>2, <2>1, <3>1
  <2> QED BY <2>2
<1>3. CASE i < j
  BY <1>1, <1>2, <1>3 DEF RangesOK
<1>4. CASE j < i
  <2>1. Window(ranges[j]) \intersect Window(ranges[i]) = {}
    BY <1>1, <1>2, <1>4 DEF RangesOK
  <2> QED BY <2>1
<1> QED BY <1>1, <1>3, <1>4

(* The next range passes from the shared counter to a client, or there is  *)
(* none and the client is done.                                            *)
LEMMA TakeRangeKeeps == ASSUME LoadInv, NEW c \in Clients, TakeRange(c) PROVE LoadInv'
<1> USE DEF LoadInv, TakeRange, FetchAdd
<1> DEFINE next == nextRange
<1>0. /\ stage = "reading" /\ request.remote /\ clients \in [Clients -> ClientRecords]
      /\ next \in Nat \ {0} /\ ranges \in Seq(RangeRecords) /\ Len(ranges) \in Nat
      /\ DOMAIN ranges = 1..Len(ranges)
      /\ Wanted # {}
  BY AtWork DEF LoadTypeOK, ClientOK
<1>1. /\ Entries' = Entries /\ Count' = Count /\ Missing' = Missing /\ Wanted' = Wanted /\ Jobs' = Jobs
      /\ \A x : OffsetOf(x)' = OffsetOf(x)
      /\ \A t : Job(t)' = Job(t)
  BY SameBundle
<1>2. PICK k : clients' = [clients EXCEPT ![c] = k]
               /\ IF next > Len(ranges) THEN k = [clients[c] EXCEPT !.state = "done"]
                  ELSE k = [state |-> "tile", current |-> ranges[next].first,
                            end |-> ranges[next].first + ranges[next].count,
                            ofs |-> ranges[next].ofs, limit |-> ranges[next].ofs + ranges[next].size]
  <2>1. CASE next > Len(ranges)
    BY <2>1
  <2>2. CASE ~(next > Len(ranges))
    BY <2>2
  <2> QED BY <2>1, <2>2
<1>3. \A d \in Clients : d # c => clients'[d] = clients[d]
  BY <1>0, <1>2
<1>4. clients'[c] = k
  BY <1>0, <1>2
<1>5. Expects(c) = {} /\ \A d \in Clients : d # c => Expects(d)' = Expects(d)
  BY <1>3 DEF Expects
<1>6. \A i \in DOMAIN ranges : Left(i)' = IF i = next THEN {} ELSE Left(i)
  <2> SUFFICES ASSUME NEW i \in DOMAIN ranges PROVE Left(i)' = IF i = next THEN {} ELSE Left(i)
    OBVIOUS
  <2>1. Window(ranges[i])' = Window(ranges[i])
    BY DEF Window
  <2>2. Left(i)' = IF next + 1 <= i THEN Window(ranges[i]) ELSE {}
    BY <2>1 DEF Left
  <2> QED BY <1>0, <2>2 DEF Left
<1>7. /\ k \in ClientRecords /\ k.state # "unused" /\ ClientOK(c)'
      /\ Expects(c)' = IF next \in DOMAIN ranges THEN Left(next) ELSE {}
  <2>1. CASE next > Len(ranges)
    <3>1. k \in ClientRecords /\ k.state = "done"
      BY <1>0, <1>2, <2>1 DEF ClientRecords
    <3>2. Expects(c)' = {} /\ next \notin DOMAIN ranges
      BY <1>0, <1>4, <2>1, <3>1 DEF Expects
    <3>3. ClientOK(c)'
      BY <1>0, <1>1, <1>4, <2>1, <3>1 DEF ClientOK
    <3> QED BY <3>1, <3>2, <3>3
  <2>2. CASE ~(next > Len(ranges))
    <3> DEFINE r == ranges[next]
    <3>1. next \in DOMAIN ranges /\ r \in RangeRecords /\ RangeOK(r)
      BY <1>0, <2>2 DEF RangesOK
    <3>2. /\ r.first \in Nat /\ r.count \in Nat /\ r.ofs \in Nat /\ r.size \in Nat
          /\ r.first + r.count \in Nat /\ r.ofs + r.size \in Nat
      BY <3>1 DEF RangeRecords, RangeOK
    <3>3. /\ k.state = "tile" /\ k.current = r.first /\ k.end = r.first + r.count
          /\ k.ofs = r.ofs /\ k.limit = r.ofs + r.size
      BY <1>2, <2>2
    <3>4. k \in ClientRecords
      BY <1>2, <2>2, <3>2 DEF ClientRecords
    <3>5. Expects(c)' = Window(r)
      <4>1. Expects(c)' = k.current..(k.end - 1)
        BY <1>4, <3>3 DEF Expects
      <4>2. Window(r) = r.first..(r.first + r.count - 1)
        BY DEF Window
      <4>3. k.current = r.first /\ k.end = r.first + r.count
        BY <3>3
      <4>4. k.current..(k.end - 1) = r.first..(r.first + r.count - 1)
        <5> HIDE DEF r
        <5> QED BY <3>2, <4>3
      <4> QED BY <4>1, <4>2, <4>4, Zenon
    <3>6. Left(next) = Window(r)
      BY <1>0 DEF Left
    <3>7. k.ofs = OffsetOf(k.current)' /\ OffsetOf(k.end)' = k.limit
      BY <1>1, <3>1, <3>3 DEF RangeOK
    <3>8. 1 <= k.current /\ k.current <= k.end /\ k.end <= Count' + 1
      BY <1>1, <3>1, <3>2, <3>3 DEF RangeOK
    <3>9. ClientOK(c)'
      <4>1. OffsetOf(k.end)' <= k.limit
        BY <3>2, <3>3, <3>7
      <4> QED BY <1>0, <1>1, <1>4, <3>3, <3>7, <3>8, <4>1 DEF ClientOK
    <3> QED BY <3>1, <3>3, <3>4, <3>5, <3>6, <3>9
  <2> QED BY <2>1, <2>2
<1>8. Got' = Got /\ InLoad' = InLoad /\ Elems(puts)' = Elems(puts)
  BY DEF Got, InLoad, Elems
<1>9. BundleOK' /\ RangesOK'
  BY <1>0, BundleStays, RangesStay
<1>10. LoadTypeOK'
  <2>1. nextRange' \in Nat \ {0}
    BY <1>0
  <2>2. clients' \in [Clients -> ClientRecords]
    BY <1>0, <1>2, <1>7
  <2> QED BY <1>1, <2>1, <2>2 DEF LoadTypeOK
<1>11. OneHolder'
  BY <1>8 DEF OneHolder, Elems, Distinct
<1>12. StageOK'
  BY <1>0, <1>1 DEF StageOK
<1>13. ClientsOK'
  <2>1. ASSUME NEW d \in Clients, d # c PROVE ClientOK(d)'
    <3>1. clients'[d] = clients[d] /\ ClientOK(d) /\ nextRange' = next + 1
      BY <1>3, <2>1 DEF ClientsOK
    <3>2. clients[d].state = "done" => nextRange' > Len(ranges)
      BY <1>0, <3>1 DEF ClientOK
    <3> QED BY <1>1, <3>1, <3>2 DEF ClientOK
  <2>2. Main \in Clients
    BY SizesAssumption DEF Main, Clients
  <2>3. Wanted = {} \/ clients'[Main].state # "unused"
    BY <1>0, <1>3, <1>4, <1>7, <2>2 DEF ClientsOK
  <2> QED BY <1>0, <1>1, <1>7, <2>1, <2>3 DEF ClientsOK
<1>14. Apart'
  <2>1. ASSUME NEW i \in DOMAIN ranges, NEW j \in DOMAIN ranges, i # j PROVE Left(i) \intersect Left(j) = {}
    BY <1>0, <2>1, RangesApart DEF Left
  <2>2. \A d \in Clients : Expects(d)' = Expects(d) \/ (next \in DOMAIN ranges /\ d = c /\ Expects(d)' = Left(next))
    BY <1>5, <1>7
  <2>3. ASSUME NEW d \in Clients, NEW e \in Clients, d # e PROVE Expects(d)' \intersect Expects(e)' = {}
    BY <2>2, <2>3 DEF Apart
  <2>4. ASSUME NEW d \in Clients, NEW i \in DOMAIN ranges PROVE Expects(d)' \intersect Left(i)' = {}
    BY <1>6, <2>1, <2>2 DEF Apart
  <2>5. ASSUME NEW d \in Clients, NEW x \in Expects(d)' PROVE Job(Entries[x]) \notin Got
    BY <2>2 DEF Apart
  <2>6. ASSUME NEW i \in DOMAIN ranges, NEW x \in Left(i)' PROVE Job(Entries[x]) \notin Got
    BY <1>6 DEF Apart
  <2> QED BY <1>1, <1>8, <2>3, <2>4, <2>5, <2>6 DEF Apart
<1>15. Covered'
  <2> SUFFICES ASSUME NEW x \in Wanted
               PROVE  \/ Job(Entries[x]) \in Got
                      \/ \E d \in Clients : x \in Expects(d)'
                      \/ \E i \in DOMAIN ranges : x \in Left(i)'
    BY <1>0, <1>1, <1>8 DEF Covered
  <2>1. \/ Job(Entries[x]) \in Got
        \/ \E d \in Clients : x \in Expects(d)
        \/ \E i \in DOMAIN ranges : x \in Left(i)
    BY <1>0 DEF Covered
  <2>2. ASSUME NEW d \in Clients, x \in Expects(d) PROVE x \in Expects(d)'
    BY <1>5, <2>2
  <2>3. ASSUME NEW i \in DOMAIN ranges, x \in Left(i) PROVE x \in Left(i)' \/ x \in Expects(c)'
    BY <1>6, <1>7, <2>3
  <2> QED BY <2>1, <2>2, <2>3
<1> QED BY <1>9, <1>10, <1>11, <1>12, <1>13, <1>14, <1>15

(* A load that has not begun to read, or has nothing to read.              *)
LEMMA NothingHeld ==
  ASSUME request' \in Requests, wayNodeIds' \in BOOLEAN, storeWayNodes' \in BOOLEAN, BundleOK',
         stage' \in {"metadata", "tiles", "aborted", "returned", "reading"},
         stage' = "metadata" => request'.created,
         stage' \in {"tiles", "reading"} => wayNodeIds' = storeWayNodes',
         stage' = "reading" => Wanted' = {} /\ tiles' = Missing',
         clients' = [c \in Clients |-> Unused],
         ranges' = << >>, nextRange' = 1, tasks' = << >>, results' = << >>, puts' = << >>,
         loading' = [w \in LoadThreads |-> NoTile]
  PROVE  LoadInv'
<1>0. Unused \in ClientRecords /\ Unused.state = "unused"
  BY DEF Unused, ClientRecords
<1>1. LoadTypeOK'
  BY <1>0 DEF LoadTypeOK
<1>2. Elems(tasks)' = {} /\ Elems(results)' = {} /\ Elems(puts)' = {} /\ InLoad' = {} /\ Got' = {}
  BY DEF Elems, InLoad, Got
<1>3. Distinct(tasks)' /\ Distinct(results)' /\ Distinct(puts)'
  BY DEF Distinct
<1>4. OneHolder'
  BY <1>2, <1>3 DEF OneHolder
<1>5. \A c \in Clients : clients'[c].state = "unused" /\ Expects(c)' = {}
  BY <1>0 DEF Expects
<1>6. StageOK'
  BY <1>2, <1>5 DEF StageOK
<1>7. ClientsOK'
  BY <1>5 DEF ClientsOK, ClientOK
<1>8. RangesOK'
  BY DEF RangesOK
<1>9. Apart'
  BY <1>2, <1>5 DEF Apart
<1>10. Covered'
  BY DEF Covered
<1> QED BY <1>1, <1>4, <1>6, <1>7, <1>8, <1>9, <1>10 DEF LoadInv

(* Before tiles are read, nothing is on its way.                           *)
LEMMA NotBegun ==
  ASSUME LoadInv, stage \in {"start", "metadata", "tiles"}
  PROVE  /\ tasks = << >> /\ results = << >> /\ puts = << >> /\ loading = [w \in LoadThreads |-> NoTile]
         /\ ranges = << >> /\ nextRange = 1
         /\ clients = [c \in Clients |-> Unused]
<1>1. \A w \in LoadThreads : loading[w] = NoTile
  BY DEF LoadInv, StageOK, InLoad
<1> QED BY <1>1 DEF LoadInv, StageOK, LoadTypeOK

(* A bundle is opened only when it has been published.                     *)
LEMMA OpenBundleKeeps == ASSUME LoadInv, IInv, OpenBundle, UNCHANGED saverVars PROVE LoadInv'
<1> USE DEF OpenBundle, OpenStore
<1>1. Whole(gobFile) /\ gobFile.catalog \in Seq(Tips)
  BY DEF IInv, FilesWhole, TypeOK, Files
<1>2. Entries' = gobFile.catalog /\ Distinct(Entries)'
  <2>1. Entries' = gobFile.catalog
    BY DEF Entries
  <2> QED BY <1>1, <2>1 DEF Whole, Distinct
<1>3. BundleOK'
  <2>1. bundle'.chunks = <<"metadata">> \o gobFile.catalog
    BY <1>1 DEF Whole
  <2> QED BY <1>1, <1>2, <2>1 DEF BundleOK
<1>4. request \in Requests /\ wayNodeIds \in BOOLEAN /\ storeWayNodes \in BOOLEAN /\ IsRequest(request)
  BY RequestsAssumption DEF LoadInv, LoadTypeOK
<1>5. CASE BundleFits /\ StoreFits
  <2>1. CASE request.created
    <3>1. stage' = "metadata" /\ wayNodeIds' = wayNodeIds
      BY <1>5, <2>1 DEF WithWayNodes
    <3> QED BY <1>3, <1>4, <2>1, <3>1, NotBegun, NothingHeld
  <2>2. CASE ~request.created
    <3>1. stage' = "tiles" /\ wayNodeIds' = storeWayNodes
      BY <1>5, <2>2 DEF WithWayNodes
    <3> QED BY <1>3, <1>4, <2>2, <3>1, NotBegun, NothingHeld
  <2> QED BY <2>1, <2>2
<1>6. CASE ~(BundleFits /\ StoreFits)
  BY <1>3, <1>4, <1>6, NotBegun, NothingHeld
<1> QED BY <1>5, <1>6

(* A new library takes over whether there are waynode IDs.                 *)
LEMMA InitStoreKeeps == ASSUME LoadInv, InitStore PROVE LoadInv'
<1>1. BundleOK'
  BY BundleStays DEF LoadInv, InitStore
<1>2. request \in Requests /\ wayNodeIds \in BOOLEAN
  BY DEF LoadInv, LoadTypeOK
<1> QED BY <1>1, <1>2, NotBegun, NothingHeld DEF InitStore

(* Nothing is wanted.                                                      *)
LEMMA NothingToLoadKeeps == ASSUME LoadInv, NothingToLoad PROVE LoadInv'
<1> USE DEF NothingToLoad
<1>1. BundleOK'
  BY BundleStays DEF LoadInv
<1>2. request \in Requests /\ wayNodeIds \in BOOLEAN /\ storeWayNodes \in BOOLEAN /\ wayNodeIds = storeWayNodes
  BY DEF LoadInv, LoadTypeOK, StageOK
<1>3. Wanted' = {} /\ tiles' = Missing'
  BY SameBundle
<1> QED BY <1>1, <1>2, <1>3, NotBegun, NothingHeld

(* Reading begins with nothing held; what is wanted is expected by some    *)
(* client or left in a range.                                              *)
LEMMA BeginReading ==
  ASSUME LoadInv, stage = "tiles", stage' = "reading", tiles' = Missing, nextRange' = 1,
         UNCHANGED <<request, bundle, wayNodeIds, storeWayNodes, tasks, loading, results, puts>>,
         ranges' \in Seq(RangeRecords), clients' \in [Clients -> ClientRecords],
         ClientsOK', RangesOK',
         \A c, d \in Clients : c # d => Expects(c)' \intersect Expects(d)' = {},
         \A c \in Clients : \A i \in DOMAIN ranges' : Expects(c)' \intersect Left(i)' = {},
         \A n \in Wanted : \/ \E c \in Clients : n \in Expects(c)'
                           \/ \E i \in DOMAIN ranges' : n \in Left(i)'
  PROVE  LoadInv'
<1>1. /\ Entries' = Entries /\ Count' = Count /\ Missing' = Missing /\ Wanted' = Wanted /\ Jobs' = Jobs
      /\ \A t : Job(t)' = Job(t)
  BY SameBundle
<1>2. BundleOK'
  BY BundleStays DEF LoadInv
<1>3. /\ tasks = << >> /\ results = << >> /\ puts = << >> /\ loading = [w \in LoadThreads |-> NoTile]
  BY NotBegun
<1>4. LoadTypeOK'
  BY <1>1 DEF LoadInv, LoadTypeOK
<1>5. Elems(tasks)' = {} /\ Elems(results)' = {} /\ Elems(puts)' = {} /\ InLoad' = {} /\ Got' = {}
  BY <1>3 DEF Elems, InLoad, Got
<1>6. Distinct(tasks)' /\ Distinct(results)' /\ Distinct(puts)'
  BY <1>3 DEF Distinct
<1>7. OneHolder'
  BY <1>3, <1>5, <1>6 DEF OneHolder
<1>8. StageOK'
  BY <1>1 DEF LoadInv, StageOK
<1>9. Apart'
  BY <1>5 DEF Apart
<1>10. Covered'
  BY <1>1 DEF Covered
<1> QED BY <1>2, <1>4, <1>7, <1>8, <1>9, <1>10 DEF LoadInv

(* The whole file is read by one thread.                                   *)
LEMMA BeginLoadKeeps == ASSUME LoadInv, BeginLoad PROVE LoadInv'
<1> USE DEF BeginLoad
<1>1. ranges = << >> /\ nextRange = 1 /\ clients = [c \in Clients |-> Unused]
  BY NotBegun
<1>2. Main \in Clients /\ Entries \in Seq(Tips) /\ Count \in Nat
  BY SizesAssumption, Offsets DEF Main, Clients, LoadInv, BundleOK
<1>3. PICK e : e = Count + 1
  OBVIOUS
<1>4. PICK k : k = [Unused EXCEPT !.state = "file", !.end = e]
  OBVIOUS
<1>5. k \in ClientRecords /\ k.state = "file" /\ k.current = 1 /\ k.end = e /\ e \in Nat
  <2>1. e \in Nat
    BY <1>2, <1>3
  <2>2. k = [state |-> "file", current |-> 1, end |-> e, ofs |-> 0, limit |-> 0]
    BY <1>4 DEF Unused
  <2> QED BY <2>1, <2>2 DEF ClientRecords
<1>6. clients' = [c \in Clients |-> IF c = Main THEN k ELSE Unused]
  BY <1>1, <1>3, <1>4
<1>7. Unused \in ClientRecords /\ Unused.state = "unused"
  BY DEF Unused, ClientRecords
<1>8. clients' \in [Clients -> ClientRecords]
  BY <1>5, <1>6, <1>7
<1>9. clients'[Main] = k /\ \A c \in Clients \ {Main} : clients'[c].state = "unused" /\ Expects(c)' = {}
  BY <1>2, <1>6, <1>7 DEF Expects
<1>10. Expects(Main)' = 1..(e - 1)
  BY <1>5, <1>9 DEF Expects
<1>11. ClientsOK'
  <2>1. Count' = Count /\ Wanted' = Wanted
    BY SameBundle
  <2>2. ClientOK(Main)'
    <3>1. 1 <= k.current /\ k.current <= k.end /\ k.end <= Count' + 1
      BY <1>2, <1>3, <1>5, <2>1
    <3> QED BY <1>5, <1>9, <2>1, <3>1 DEF ClientOK
  <2>3. \A c \in Clients \ {Main} : ClientOK(c)'
    BY <1>9 DEF ClientOK
  <2> QED BY <1>1, <1>9, <2>2, <2>3 DEF ClientsOK
<1>12. RangesOK'
  BY <1>1 DEF RangesOK
<1>13. \A n \in Wanted : n \in Expects(Main)'
  BY <1>2, <1>3, <1>10 DEF Wanted
<1> QED BY <1>1, <1>2, <1>8, <1>9, <1>11, <1>12, <1>13, BeginReading

(* The plan of a download: the first response serves the tiles at the      *)
(* start of the bundle, the ranges all the others.                         *)
LEMMA BeginDownloadKeeps == ASSUME LoadInv, BeginDownload PROVE LoadInv'
<1> USE DEF BeginDownload
<1>1. PICK plan : plan = determineRanges
  OBVIOUS
<1>2. Entries \in Seq(Tips) /\ Main \in Clients /\ nextRange = 1
  BY SizesAssumption, NotBegun DEF Main, Clients, LoadInv, BundleOK
<1>3. plan \in Cuts /\ InOrder(plan, Count + 1) /\ \A n \in Wanted : Reaches(plan, n)
  BY <1>1, <1>2, PlanOK
<1>4. /\ plan.main \in [first : Nat, end : Nat] /\ plan.ranges \in Seq(RangeRecords)
      /\ Count \in Nat /\ ranges' = plan.ranges
      /\ plan.main.first = 1 /\ 1 <= plan.main.end /\ plan.main.end <= Count + 1
  BY <1>1, <1>2, <1>3, Offsets DEF Cuts, InOrder
<1>5. PICK m : m = plan.main.end
  OBVIOUS
<1>6. m \in 1..(Count + 1) /\ m \in Nat /\ OffsetOf(m) \in Nat /\ OffsetOf(Count + 1) \in Nat
      /\ OffsetOf(m) <= OffsetOf(Count + 1) /\ OffsetOf(1) = CatalogSize + MetadataSize
  <2>1. m \in 1..(Count + 1) /\ m \in Nat /\ Count + 1 \in 1..(Count + 1)
    BY <1>4, <1>5
  <2>2. OffsetOf(m) \in Nat /\ OffsetOf(Count + 1) \in Nat /\ OffsetOf(1) = CatalogSize + MetadataSize
    BY <1>2, <2>1, Offsets
  <2>3. m < Count + 1 => OffsetOf(m) < OffsetOf(Count + 1)
    BY <1>2, <2>1, Offsets
  <2>4. m < Count + 1 \/ m = Count + 1
    BY <1>4, <2>1
  <2> QED BY <2>1, <2>2, <2>3, <2>4
<1>7. PICK k : k = IF 1 < m
                   THEN [state |-> IF request.created THEN "tile" ELSE "skip", current |-> 1, end |-> m,
                         ofs |-> IF request.created THEN CatalogSize + MetadataSize ELSE CatalogSize,
                         limit |-> OffsetOf(Count + 1)]
                   ELSE [Unused EXCEPT !.state = "range"]
  OBVIOUS
<1>8. PICK q : q = [Unused EXCEPT !.state = "range"]
  OBVIOUS
<1>9. clients' = [c \in Clients |-> IF c = Main THEN k ELSE IF c \in Started(plan) THEN q ELSE Unused]
  BY <1>1, <1>4, <1>5, <1>7, <1>8
<1>10. /\ Unused \in ClientRecords /\ Unused.state = "unused"
       /\ q \in ClientRecords /\ q.state = "range"
  BY <1>8 DEF Unused, ClientRecords
<1>11. CatalogSize + MetadataSize \in Nat /\ CatalogSize \in Nat
  BY SizesAssumption
<1>12. k \in ClientRecords /\ k.state \in {"tile", "skip", "range"}
  <2>1. CASE 1 < m
    BY <1>6, <1>7, <1>11, <2>1 DEF ClientRecords
  <2>2. CASE ~(1 < m)
    BY <1>7, <1>8, <1>10, <2>2
  <2> QED BY <2>1, <2>2
<1>13. clients' \in [Clients -> ClientRecords] /\ clients'[Main] = k
  BY <1>2, <1>9, <1>10, <1>12
<1>14. ASSUME NEW c \in Clients, c # Main
       PROVE  clients'[c].state \in {"unused", "range"} /\ Expects(c)' = {} /\ ClientOK(c)'
  <2>1. clients'[c] = q \/ clients'[c] = Unused
    BY <1>9, <1>14
  <2>2. clients'[c].state \in {"unused", "range"}
    BY <1>10, <2>1
  <2>3. Wanted' # {}
    BY SameBundle
  <2> QED BY <2>2, <2>3 DEF Expects, ClientOK
<1>15. Expects(Main)' = 1..(m - 1)
  <2>1. CASE 1 < m
    <3>1. k.state \in {"tile", "skip"} /\ k.current = 1 /\ k.end = m
      BY <1>7, <2>1
    <3> QED BY <1>13, <3>1 DEF Expects
  <2>2. CASE ~(1 < m)
    <3>1. k.state = "range" /\ 1..(m - 1) = {}
      BY <1>6, <1>7, <1>8, <1>10, <2>2
    <3> QED BY <1>13, <3>1 DEF Expects
  <2> QED BY <2>1, <2>2
<1>16. ClientOK(Main)'
  <2>1. Count' = Count /\ Wanted' # {} /\ \A n : OffsetOf(n)' = OffsetOf(n)
    BY SameBundle
  <2>2. CASE 1 < m
    <3>1. /\ k.current = 1 /\ k.end = m /\ k.limit = OffsetOf(Count + 1) /\ k.state \in {"tile", "skip"}
          /\ k.state = "tile" => k.ofs = CatalogSize + MetadataSize
          /\ k.state = "skip" => k.ofs = CatalogSize
      BY <1>7, <2>2
    <3>2. 1 <= k.current /\ k.current <= k.end /\ k.end <= Count' + 1
      BY <1>4, <1>6, <2>1, <3>1
    <3>3. k.state = "tile" => k.ofs = OffsetOf(k.current)'
      BY <1>6, <2>1, <3>1
    <3>4. OffsetOf(k.end)' <= k.limit
      BY <1>6, <2>1, <3>1
    <3> QED BY <1>13, <2>1, <3>1, <3>2, <3>3, <3>4 DEF ClientOK
  <2>3. CASE ~(1 < m)
    <3>1. k.state = "range"
      BY <1>7, <1>8, <1>10, <2>3
    <3> QED BY <1>13, <2>1, <3>1 DEF ClientOK
  <2> QED BY <2>2, <2>3
<1>17. ClientsOK'
  <2>1. k.state # "unused"
    BY <1>12
  <2> QED BY <1>13, <1>14, <1>16, <2>1 DEF ClientsOK
<1>18. /\ \A i \in DOMAIN plan.ranges : RangeOK(plan.ranges[i]) /\ m <= plan.ranges[i].first
       /\ \A i, j \in DOMAIN plan.ranges :
            i < j => plan.ranges[i].first + plan.ranges[i].count <= plan.ranges[j].first
  BY <1>3, <1>5 DEF InOrder
<1>19. RangesOK'
  <2>1. \A r : RangeOK(r)' = RangeOK(r)
    BY SameBundle DEF RangeOK
  <2> QED BY <1>4, <1>18, <2>1 DEF RangesOK
<1>20. \A i \in DOMAIN plan.ranges : Left(i)' = Window(plan.ranges[i])
  <2> SUFFICES ASSUME NEW i \in DOMAIN plan.ranges PROVE Left(i)' = Window(plan.ranges[i])
    OBVIOUS
  <2>1. i \in Nat /\ 1 <= i /\ nextRange' = 1
    BY <1>2, <1>4
  <2> QED BY <1>4, <2>1 DEF Left, Window
<1>21. \A c, d \in Clients : c # d => Expects(c)' \intersect Expects(d)' = {}
  BY <1>14
<1>22. ASSUME NEW c \in Clients, NEW i \in DOMAIN ranges' PROVE Expects(c)' \intersect Left(i)' = {}
  <2>1. CASE c # Main
    BY <1>14, <2>1
  <2>2. CASE c = Main
    <3>1. i \in DOMAIN plan.ranges
      BY <1>4
    <3>2. PICK r \in RangeRecords : r = plan.ranges[i]
      BY <1>4, <3>1
    <3>3. m <= r.first /\ Left(i)' = Window(r) /\ r.first \in Nat /\ r.count \in Int
      BY <1>18, <1>20, <3>1, <3>2 DEF RangeRecords
    <3>4. ASSUME NEW x \in Window(r), x \in 1..(m - 1) PROVE FALSE
      <4>1. r.first <= x /\ x \in Int
        BY <3>3 DEF Window
      <4> QED BY <1>6, <3>3, <3>4, <4>1
    <3> QED BY <1>15, <2>2, <3>3, <3>4
  <2> QED BY <2>1, <2>2
<1>23. ASSUME NEW n \in Wanted
       PROVE  (\E c \in Clients : n \in Expects(c)') \/ (\E i \in DOMAIN ranges' : n \in Left(i)')
  <2>1. n \in Int /\ Reaches(plan, n)
    BY <1>3 DEF Wanted
  <2>2. CASE 1 <= n /\ n < m
    <3>1. n \in 1..(m - 1)
      BY <1>6, <2>1, <2>2
    <3> QED BY <1>2, <1>15, <3>1
  <2>3. CASE \E i \in DOMAIN plan.ranges : n \in Window(plan.ranges[i])
    BY <1>4, <1>20, <2>3
  <2> QED BY <1>5, <2>1, <2>2, <2>3 DEF Reaches
<1> QED BY <1>2, <1>4, <1>13, <1>17, <1>19, <1>21, <1>22, <1>23, BeginReading

(* The engine ends when nobody expects or holds a tile any more: all have  *)
(* been put.                                                               *)
LEMMA EndKeeps == ASSUME LoadInv, End PROVE LoadInv'
<1> USE DEF LoadInv, End
<1>1. /\ Entries' = Entries /\ Count' = Count /\ Missing' = Missing /\ Wanted' = Wanted /\ Jobs' = Jobs
      /\ \A n : OffsetOf(n)' = OffsetOf(n)
      /\ \A t : Job(t)' = Job(t)
  BY SameBundle
<1>2. /\ \A c : Expects(c)' = Expects(c)
      /\ \A i : Left(i)' = Left(i)
  BY SameClients
<1>3. InLoad = {} /\ Elems(tasks) = {} /\ Elems(results) = {} /\ Got = Elems(puts)
  BY DEF InLoad, Elems, Got
<1>4. Got' = Got /\ InLoad' = InLoad /\ Elems(puts)' = Elems(puts)
  BY DEF Got, InLoad, Elems
<1>5. BundleOK' /\ RangesOK'
  BY BundleStays, RangesStay
<1>6. LoadTypeOK'
  BY <1>1 DEF LoadTypeOK
<1>7. OneHolder'
  BY <1>4 DEF OneHolder, Elems, Distinct
<1>8. clients \in [Clients -> ClientRecords] /\ Main \in Clients /\ nextRange \in Nat /\ Len(ranges) \in Nat
      /\ DOMAIN ranges = 1..Len(ranges) /\ request.remote \in BOOLEAN
  BY SizesAssumption, RequestsAssumption DEF LoadTypeOK, Main, Clients, IsRequest
<1>9. \A c \in Clients : ClientOK(c)
  BY DEF ClientsOK
<1>10. /\ \A c \in Clients : Expects(c) = {} /\ clients[c].state \in {"unused", "done", "file"}
       /\ Wanted = {} \/ \A i \in DOMAIN ranges : Left(i) = {}
  <2>1. CASE Wanted = {}
    <3>1. \A c \in Clients : clients[c].state = "unused"
      BY <1>9, <2>1 DEF ClientOK
    <3> QED BY <2>1, <3>1 DEF Expects
  <2>2. CASE Wanted # {} /\ request.remote
    <3>1. \A c \in Clients : clients[c].state \in {"done", "unused"}
      BY <2>2 DEF AllReceived
    <3>2. clients[Main].state = "done"
      BY <1>8, <2>2, <3>1 DEF ClientsOK
    <3>3. nextRange > Len(ranges)
      BY <1>8, <1>9, <3>2 DEF ClientOK
    <3>4. \A i \in DOMAIN ranges : Left(i) = {}
      BY <1>8, <3>3 DEF Left
    <3> QED BY <3>1, <3>4 DEF Expects
  <2>3. CASE Wanted # {} /\ ~request.remote
    <3>1. clients[Main].state = "file" /\ clients[Main].current = clients[Main].end
      BY <2>3 DEF AllReceived
    <3>2. clients[Main] \in ClientRecords
      BY <1>8
    <3>3. Expects(Main) = {}
      BY <3>1, <3>2 DEF Expects, ClientRecords
    <3>4. ranges = << >> /\ \A c \in Clients \ {Main} : clients[c].state = "unused"
      BY <2>3 DEF ClientsOK
    <3> QED BY <3>1, <3>3, <3>4 DEF Expects
  <2> QED BY <1>8, <2>1, <2>2, <2>3
<1>11. StageOK'
  BY <1>2, <1>3, <1>4, <1>10 DEF StageOK
<1>12. ClientsOK'
  <2>1. \A c \in Clients : ClientOK(c)'
    BY <1>1, <1>9 DEF ClientOK
  <2> QED BY <1>1, <2>1 DEF ClientsOK
<1>13. Apart'
  BY <1>1, <1>2, <1>4 DEF Apart
<1>14. Covered'
  <2> SUFFICES ASSUME NEW n \in Wanted PROVE Job(Entries[n]) \in Elems(puts)
    BY <1>1, <1>4 DEF Covered
  <2>1. \/ Job(Entries[n]) \in Got
        \/ \E c \in Clients : n \in Expects(c)
        \/ \E i \in DOMAIN ranges : n \in Left(i)
    BY DEF Covered
  <2> QED BY <1>3, <1>10, <2>1
<1> QED BY <1>5, <1>6, <1>7, <1>11, <1>12, <1>13, <1>14

(* The transaction is committed after that, and nothing changes.           *)
LEMMA CommitKeeps == ASSUME LoadInv, Commit PROVE LoadInv'
<1> USE DEF LoadInv, Commit
<1>1. /\ Entries' = Entries /\ Count' = Count /\ Missing' = Missing /\ Wanted' = Wanted /\ Jobs' = Jobs
      /\ \A n : OffsetOf(n)' = OffsetOf(n)
      /\ \A t : Job(t)' = Job(t)
  BY SameBundle
<1>2. /\ \A c : Expects(c)' = Expects(c)
      /\ \A i : Left(i)' = Left(i)
  BY SameClients
<1>3. Got' = Got /\ InLoad' = InLoad /\ Elems(puts)' = Elems(puts)
  BY DEF Got, InLoad, Elems
<1>4. BundleOK' /\ RangesOK'
  BY BundleStays, RangesStay
<1>5. LoadTypeOK'
  BY <1>1 DEF LoadTypeOK
<1>6. OneHolder'
  BY <1>3 DEF OneHolder, Elems, Distinct
<1>7. StageOK'
  BY <1>2, <1>3 DEF StageOK
<1>8. ClientsOK'
  <2>1. \A c \in Clients : ClientOK(c)'
    BY <1>1 DEF ClientsOK, ClientOK
  <2> QED BY <1>1, <2>1 DEF ClientsOK
<1>9. Apart'
  BY <1>1, <1>2, <1>3 DEF Apart
<1>10. Covered'
  BY <1>1, <1>3 DEF Covered
<1> QED BY <1>4, <1>5, <1>6, <1>7, <1>8, <1>9, <1>10

(* When a load fails, what was under way is given up; the tiles that have  *)
(* been put are still those that were asked for.                           *)
LEMMA FailKeeps == ASSUME LoadInv, Fail PROVE LoadInv'
<1> USE DEF LoadInv, Fail
<1>1. /\ Entries' = Entries /\ Count' = Count /\ Missing' = Missing /\ Wanted' = Wanted /\ Jobs' = Jobs
      /\ \A n : OffsetOf(n)' = OffsetOf(n)
      /\ \A t : Job(t)' = Job(t)
  BY SameBundle
<1>2. Unused \in ClientRecords /\ Unused.state = "unused"
  BY DEF Unused, ClientRecords
<1>3. \A c \in Clients : clients'[c].state = "unused" /\ Expects(c)' = {}
  BY <1>2 DEF Expects
<1>4. \A i : Left(i)' = Left(i)
  BY DEF Left, Window
<1>5. /\ Elems(tasks)' = {} /\ Elems(results)' = {} /\ InLoad' = {} /\ Elems(puts)' = Elems(puts)
      /\ Got' = Elems(puts)
  BY DEF Elems, InLoad, Got
<1>6. BundleOK' /\ RangesOK'
  BY BundleStays, RangesStay
<1>7. LoadTypeOK'
  BY <1>1, <1>2 DEF LoadTypeOK
<1>8. OneHolder'
  <2>1. Distinct(tasks)' /\ Distinct(results)' /\ Distinct(puts)'
    BY DEF OneHolder, Distinct
  <2> QED BY <1>5, <2>1 DEF OneHolder
<1>9. StageOK'
  BY <1>3, <1>5 DEF StageOK
<1>10. ClientsOK'
  BY <1>3 DEF ClientsOK, ClientOK
<1>11. Apart'
  BY <1>1, <1>3, <1>4, <1>5 DEF Apart, Got
<1>12. Covered'
  BY DEF Covered
<1> QED BY <1>6, <1>7, <1>8, <1>9, <1>10, <1>11, <1>12

(* Saving leaves what concerns the load alone.                             *)
LEMMA LoadStays == ASSUME LoadInv, UNCHANGED loaderVars PROVE LoadInv'
<1> USE DEF LoadInv, loaderVars
<1>1. /\ Entries' = Entries /\ Count' = Count /\ Missing' = Missing /\ Wanted' = Wanted /\ Jobs' = Jobs
      /\ \A n : OffsetOf(n)' = OffsetOf(n)
      /\ \A t : Job(t)' = Job(t)
  BY SameBundle
<1>2. /\ \A c : Expects(c)' = Expects(c)
      /\ \A i : Left(i)' = Left(i)
  BY SameClients
<1>3. Got' = Got /\ InLoad' = InLoad /\ Elems(puts)' = Elems(puts)
  BY DEF Got, InLoad, Elems
<1>4. BundleOK' /\ RangesOK'
  BY <1>1, RangesStay DEF BundleOK, Distinct
<1>5. LoadTypeOK' /\ OneHolder'
  <2>1. LoadTypeOK'
    BY <1>1 DEF LoadTypeOK
  <2>2. OneHolder'
    BY <1>3 DEF OneHolder, Elems, Distinct
  <2> QED BY <2>1, <2>2
<1>6. StageOK'
  BY <1>1, <1>2, <1>3 DEF StageOK
<1>7. ClientsOK'
  <2>1. \A c \in Clients : ClientOK(c)'
    BY <1>1 DEF ClientsOK, ClientOK
  <2> QED BY <1>1, <2>1 DEF ClientsOK
<1>8. Apart'
  BY <1>1, <1>2, <1>3 DEF Apart
<1>9. Covered'
  BY <1>1, <1>2, <1>3 DEF Covered
<1> QED BY <1>4, <1>5, <1>6, <1>7, <1>8, <1>9

(* At first nothing is asked for.                                          *)
LEMMA InitLoadInv == Init => LoadInv
<1> SUFFICES ASSUME Init PROVE LoadInv
  OBVIOUS
<1> USE DEF Init, LoaderInit
<1>1. Unused \in ClientRecords /\ Unused.state = "unused"
  BY DEF Unused, ClientRecords
<1>2. IsRequest(request)
  BY RequestsAssumption
<1>3. BundleOK
  <2>1. Entries = << >>
    BY DEF Entries
  <2> QED BY <2>1 DEF BundleOK, Distinct
<1>4. LoadTypeOK
  BY <1>1, <1>2 DEF LoadTypeOK, IsRequest
<1>5. Elems(tasks) = {} /\ Elems(results) = {} /\ Elems(puts) = {} /\ InLoad = {} /\ Got = {}
  BY DEF Elems, InLoad, Got
<1>6. OneHolder
  <2>1. Distinct(tasks) /\ Distinct(results) /\ Distinct(puts)
    BY DEF Distinct
  <2> QED BY <1>5, <2>1 DEF OneHolder
<1>7. \A c \in Clients : clients[c].state = "unused" /\ Expects(c) = {}
  BY <1>1 DEF Expects
<1>8. StageOK
  BY <1>5, <1>7 DEF StageOK
<1>9. ClientsOK /\ RangesOK
  BY <1>7 DEF ClientsOK, ClientOK, RangesOK
<1>10. Apart /\ Covered
  BY <1>5, <1>7 DEF Apart, Covered
<1> QED BY <1>3, <1>4, <1>6, <1>8, <1>9, <1>10 DEF LoadInv

(* Every step of saving and loading keeps the invariant of the load.       *)
LEMMA NextKeepsLoad == ASSUME LoadInv, IInv, [Next]_exchangeVars PROVE LoadInv'
<1>1. CASE UNCHANGED loaderVars
  BY <1>1, LoadStays
<1>2. CASE OpenBundle /\ UNCHANGED saverVars
  BY <1>2, OpenBundleKeeps
<1>3. CASE LoaderStep
  <2>1. CASE InitStore \/ NothingToLoad \/ BeginLoad \/ BeginDownload
    BY <2>1, InitStoreKeeps, NothingToLoadKeeps, BeginLoadKeeps, BeginDownloadKeeps
  <2>2. CASE ReadTile \/ SkipMetadata \/ PutTile \/ End \/ Commit
    BY <2>2, ReadTileKeeps, SkipMetadataKeeps, PutTileKeeps, EndKeeps, CommitKeeps
  <2>3. CASE \E c \in Clients : ReceiveTile(c) \/ EndResponse(c) \/ TakeRange(c)
    BY <2>3, ReceiveTileKeeps, EndResponseKeeps, TakeRangeKeeps
  <2>4. CASE \E w \in LoadThreads : TakeTask(w) \/ BuildTile(w)
    BY <2>4, TakeTaskKeeps, BuildTileKeeps
  <2> QED BY <1>3, <2>1, <2>2, <2>3, <2>4 DEF LoaderStep
<1>4. CASE Fail
  BY <1>4, FailKeeps
<1>5. UNCHANGED loaderVars \/ (OpenBundle /\ UNCHANGED saverVars) \/ LoaderStep \/ Fail
  BY DEF Next, Save, Load, Stay, exchangeVars
<1> QED BY <1>1, <1>2, <1>3, <1>4, <1>5

(* Whatever is on its way during a load is a tile that was asked for, with *)
(* its own chunk, held once; what is not is still expected.                *)
THEOREM LoadInvHolds == Spec => []LoadInv
<1>1. Init => LoadInv
  BY InitLoadInv
<1>2. LoadInv /\ IInv /\ [Next]_exchangeVars => LoadInv'
  BY NextKeepsLoad
<1> QED BY <1>1, <1>2, IInvHolds, PTL DEF Spec

(* Each tile that is put into the library was asked for and missing, is    *)
(* put once, and holds the chunk saved for it: for any tiles, sizes,       *)
(* threads, connections and requests, whichever responses fail.            *)
THEOREM TilesAlwaysIntact == Spec => []TilesIntact
<1>1. ASSUME LoadInv PROVE TilesIntact
  <2>1. puts \in Seq(Jobs) /\ Distinct(puts)
    BY <1>1 DEF LoadInv, LoadTypeOK, OneHolder
  <2>2. \A i \in DOMAIN puts : puts[i] \in Jobs
    BY <2>1
  <2>3. ASSUME NEW j \in Jobs
        PROVE  j.tip \in Missing /\ j.data = j.tip /\ j.wayNodes = storeWayNodes /\ j = Job(j.tip)
    BY DEF Jobs, Job
  <2>4. ASSUME NEW i \in DOMAIN puts, NEW j \in DOMAIN puts, puts[i].tip = puts[j].tip PROVE i = j
    <3>1. puts[i] = puts[j]
      BY <2>2, <2>3, <2>4
    <3> QED BY <2>1, <3>1 DEF Distinct
  <2> QED BY <2>2, <2>3, <2>4 DEF TilesIntact, Missing
<1> QED BY <1>1, LoadInvHolds, PTL

(* A load that commits has put every tile that was asked for and missing:  *)
(* determineRanges() leaves no tile out, no client gives up a range before *)
(* its last tile, and end() comes after the last client is done.           *)
THEOREM CommitsComplete == Spec => []CommitComplete
<1>1. ASSUME LoadInv PROVE CommitComplete
  <2> SUFFICES ASSUME stage = "committed", NEW n \in DOMAIN Entries, Entries[n] \in request.bounds,
                      Entries[n] \notin request.present
               PROVE  \E i \in DOMAIN puts : puts[i].tip = Entries[n]
    BY DEF CommitComplete
  <2>1. n \in Wanted
    BY <1>1 DEF LoadInv, BundleOK, Wanted, Count, Missing
  <2>2. PICK i \in DOMAIN puts : puts[i] = Job(Entries[n])
    BY <1>1, <2>1 DEF LoadInv, Covered, Elems
  <2> QED BY <2>2 DEF Job
<1> QED BY <1>1, LoadInvHolds, PTL
=============================================================================
