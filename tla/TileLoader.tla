----------------------------- MODULE TileLoader -----------------------------
(***************************************************************************)
(* Loading the tiles of a bundle into a library, from a file or from a     *)
(* server: TileLoader and TileDownloadClient of src/gol/load.              *)
(*                                                                         *)
(* A download begins with one response for the whole bundle.  Its catalog  *)
(* tells which byte ranges hold the wanted tiles; those at the start come  *)
(* with the first response, for the others the main client and additional  *)
(* threads send range requests, each taking the next range from a shared   *)
(* counter.  A client only counts bytes: it takes what arrives at its      *)
(* position in the response for the tile at its position in the catalog.   *)
(***************************************************************************)
EXTENDS Naturals, Sequences, FiniteSets

CONSTANTS
  Size,             \* size of the chunk of each tile
  MetadataSize,     \* size of the metadata chunk
  CatalogSize,      \* bytes before the metadata chunk
  MaxSkippedBytes,  \* gaps up to this size are read and discarded
  MaxConnections,   \* connections of one download
  LoadThreads,      \* worker threads of the TileLoader
  NoTile,           \* a null tile, an idle thread
  Requests          \* the loads considered, see IsRequest

IsRequest(r) ==
  /\ r.remote \in BOOLEAN /\ r.bounds \subseteq DOMAIN Size /\ r.present \subseteq DOMAIN Size
  /\ {r.wayNodeIds, r.bundleWayNodes, r.storeWayNodes, r.created, r.sameGuid} \subseteq BOOLEAN

ASSUME SizesAssumption ==
  /\ \A t \in DOMAIN Size : Size[t] \in Nat \ {0}
  /\ {MetadataSize, CatalogSize, MaxSkippedBytes} \subseteq Nat
  /\ MaxConnections \in Nat \ {0} /\ NoTile \notin DOMAIN Size
  /\ NoTile \notin [tip : DOMAIN Size, data : DOMAIN Size, wayNodes : BOOLEAN]
ASSUME RequestsAssumption == \A r \in Requests : IsRequest(r)

VARIABLES
  request,         \* what is asked for, and what the library is like
  bundle,          \* the file: its catalog and its chunks, as saved
  stage,           \* start, metadata, tiles, reading, ended, committed, returned, aborted
  wayNodeIds,      \* wayNodeIds_
  storeWayNodes,   \* whether the library holds waynode IDs
  tiles,           \* tiles_: those that lie in the bounds and are not loaded
  clients,         \* per client its tiles and its place in a response
  ranges,          \* ranges_
  nextRange,       \* nextRange_
  tasks, loading, results,  \* queue, busy workers and output queue of the engine
  puts             \* the tiles put into the library, in order

loaderVars == <<request, bundle, stage, wayNodeIds, storeWayNodes, tiles, clients,
                ranges, nextRange, tasks, loading, results, puts>>

Main == 0   \* the client of the thread that calls download() (or load())
Clients == 0..(MaxConnections - 1)

Entries == bundle.catalog
Count == Len(Entries)

(* Where the chunks of these tiles end, one after another, from metadata. *)
ChunkEnd(chunks) ==
  LET end[k \in 0..Len(chunks)] == IF k = 0 THEN CatalogSize + MetadataSize
                                   ELSE end[k - 1] + Size[chunks[k]]
  IN end

(* Where the chunk of the n-th tile begins, by the catalog.                *)
OffsetOf(n) == ChunkEnd(Entries)[n - 1]

(* The tile whose chunk, as written, is made of these bytes.               *)
Held(ofs, size) ==
  LET chunks == Tail(bundle.chunks)
      hit == {k \in DOMAIN chunks : ChunkEnd(chunks)[k - 1] = ofs /\ Size[chunks[k]] = size}
  IN IF hit = {} THEN NoTile ELSE chunks[CHOOSE k \in hit : TRUE]

(* A client: the entries [current, end) it expects, the offset of the next *)
(* byte of its response, where that response ends, and what it does now.   *)
Unused == [state |-> "unused", current |-> 1, end |-> 1, ofs |-> 0, limit |-> 0]

LoaderInit ==
  /\ request \in Requests
  /\ bundle = [catalog |-> <<>>, chunks |-> <<>>]
  /\ stage = "start" /\ wayNodeIds = request.wayNodeIds /\ storeWayNodes = request.storeWayNodes
  /\ tiles = {} /\ clients = [c \in Clients |-> Unused] /\ ranges = <<>> /\ nextRange = 1
  /\ tasks = <<>> /\ results = <<>> /\ loading = [w \in LoadThreads |-> NoTile] /\ puts = <<>>

-----------------------------------------------------------------------------
(* Header and catalog are read and checked, then the library is opened.    *)
(* Each "throw" ends the load before anything is written.                  *)
BundleFits == wayNodeIds => request.bundleWayNodes

StoreFits ==
  \/ request.created
  \/ /\ request.sameGuid
     /\ IF wayNodeIds THEN storeWayNodes ELSE storeWayNodes => request.bundleWayNodes

WithWayNodes == IF request.created THEN wayNodeIds ELSE storeWayNodes

OpenStore(file) ==
  /\ stage = "start" /\ bundle' = file
  /\ IF BundleFits /\ StoreFits
       THEN /\ stage' = IF request.created THEN "metadata" ELSE "tiles"
            /\ wayNodeIds' = WithWayNodes
       ELSE stage' = "aborted" /\ UNCHANGED wayNodeIds
  /\ UNCHANGED <<request, storeWayNodes, tiles, clients, ranges, nextRange, tasks, loading, results, puts>>

(* A new library is set up from the metadata, with an empty tile index.    *)
InitStore ==
  /\ stage = "metadata" /\ stage' = "tiles" /\ storeWayNodes' = wayNodeIds
  /\ UNCHANGED <<request, bundle, wayNodeIds, tiles, clients, ranges, nextRange, tasks, loading, results, puts>>

(* determineTiles(): the tiles in the bounds whose index entry is 0.       *)
Missing == request.bounds \ request.present
Wanted == {n \in 1..Count : Entries[n] \in Missing}

(* One round of determineRanges().  A gap that is too large to be skipped  *)
(* closes the range; one that begins at the first tile is the main client's*)
CloseRange(a) ==
  IF a.start = 1 THEN [a EXCEPT !.main = [first |-> a.start, end |-> a.end]]
  ELSE [a EXCEPT !.ranges = Append(@, [ofs |-> a.from, size |-> a.len,
                                       first |-> a.start, count |-> a.end - a.start])]

NotBridged(a) == 0
Bridged(a) == a.skipped

AddToRange(a, n) ==
  LET size == Size[Entries[n]] IN
  IF Entries[n] \notin Missing THEN [a EXCEPT !.skipped = @ + size, !.ofs = @ + size]
  ELSE IF a.skipped > MaxSkippedBytes
    THEN [CloseRange(a) EXCEPT !.from = a.ofs, !.len = size, !.start = n,
                               !.end = n + 1, !.skipped = 0, !.ofs = a.ofs + size]
    ELSE [a EXCEPT !.len = @ + Bridged(a) + size, !.end = n + 1, !.skipped = 0, !.ofs = @ + size]

BeginRanges ==
  LET first == CatalogSize + MetadataSize
  IN [skipped |-> IF request.created THEN 0 ELSE MetadataSize, ofs |-> first,
      from |-> first, len |-> 0, start |-> 1, end |-> 1,
      main |-> [first |-> 1, end |-> 1], ranges |-> <<>>]

determineRanges ==
  LET after[n \in 0..Count] == IF n = 0 THEN BeginRanges ELSE AddToRange(after[n - 1], n)
  IN CloseRange(after[Count])

(* Without a tile to load, load() returns at once; download() goes on to   *)
(* end the engine and commits.                                             *)
NothingToLoad ==
  /\ stage = "tiles" /\ Wanted = {} /\ tiles' = Missing
  /\ stage' = IF request.remote THEN "reading" ELSE "returned"
  /\ UNCHANGED <<request, bundle, wayNodeIds, storeWayNodes, clients, ranges, nextRange, tasks, loading, results, puts>>

BeginLoad ==
  /\ stage = "tiles" /\ Wanted # {} /\ ~request.remote
  /\ stage' = "reading" /\ tiles' = Missing
  /\ clients' = [clients EXCEPT ![Main] = [@ EXCEPT !.state = "file", !.end = Count + 1]]
  /\ UNCHANGED <<request, bundle, wayNodeIds, storeWayNodes, ranges, nextRange, tasks, loading, results, puts>>

(* startDownloadThreads(): never more threads than there are ranges.       *)
Started(plan) == {c \in Clients : 1 <= c /\ c <= Len(plan.ranges)}

(* The threads are started; the main client reads on in the response       *)
(* to its first request if that covers a wanted tile. A fresh library has  *)
(* already taken the metadata out of it, otherwise that is skipped now.    *)
BeginDownload ==
  /\ stage = "tiles" /\ Wanted # {} /\ request.remote
  /\ stage' = "reading" /\ tiles' = Missing
  /\ LET plan == determineRanges
         begin == IF request.created THEN CatalogSize + MetadataSize ELSE CatalogSize
         main == IF plan.main.first < plan.main.end
                   THEN [state |-> IF request.created THEN "tile" ELSE "skip",
                         current |-> plan.main.first, end |-> plan.main.end, ofs |-> begin,
                         limit |-> OffsetOf(Count + 1)]
                   ELSE [Unused EXCEPT !.state = "range"]
     IN /\ ranges' = plan.ranges
        /\ clients' = [c \in Clients |-> IF c = Main THEN main
                                         ELSE IF c \in Started(plan) THEN [Unused EXCEPT !.state = "range"]
                                         ELSE Unused]
  /\ UNCHANGED <<request, bundle, wayNodeIds, storeWayNodes, nextRange, tasks, loading, results, puts>>

-----------------------------------------------------------------------------
Task(n, ofs) == [tip |-> Entries[n], data |-> Held(ofs, Size[Entries[n]]), wayNodes |-> wayNodeIds]

(* load(): seeks each wanted tile, at an offset that it adds up.           *)
ReadTile ==
  LET n == clients[Main].current IN
  /\ clients[Main].state = "file" /\ n < clients[Main].end
  /\ tasks' = IF Entries[n] \in tiles THEN Append(tasks, Task(n, OffsetOf(n))) ELSE tasks
  /\ clients' = [clients EXCEPT ![Main].current = n + 1]
  /\ UNCHANGED <<request, bundle, stage, wayNodeIds, storeWayNodes, tiles, ranges, nextRange, loading, results, puts>>

SkipMetadata ==
  /\ clients[Main].state = "skip"
  /\ clients' = [clients EXCEPT ![Main].state = "tile", ![Main].ofs = @ + MetadataSize]
  /\ UNCHANGED <<request, bundle, stage, wayNodeIds, storeWayNodes, tiles, ranges, nextRange, tasks, loading, results, puts>>

(* The next tile arrives: processTile() posts it, skipTile() drops it. The *)
(* callback gets it only if the response reaches that far.                 *)
ReceiveTile(c) ==
  LET k == clients[c]  n == k.current  size == Size[Entries[n]] IN
  /\ k.state = "tile" /\ n < k.end /\ k.ofs + size <= k.limit
  /\ tasks' = IF Entries[n] \in tiles THEN Append(tasks, Task(n, k.ofs)) ELSE tasks
  /\ clients' = [clients EXCEPT ![c].current = n + 1, ![c].ofs = @ + size]
  /\ UNCHANGED <<request, bundle, stage, wayNodeIds, storeWayNodes, tiles, ranges, nextRange, loading, results, puts>>

EndResponse(c) ==
  LET k == clients[c] IN
  /\ k.state = "tile"
  /\ k.current < k.end => k.ofs + Size[Entries[k.current]] > k.limit
  /\ clients' = [clients EXCEPT ![c].state = "range"]
  /\ UNCHANGED <<request, bundle, stage, wayNodeIds, storeWayNodes, tiles, ranges, nextRange, tasks, loading, results, puts>>

(* nextRange_.fetch_add(1), and a request for the bytes of that range.     *)
FetchBeforeAdd == IF \E c \in Clients : clients[c].state = "range" /\ c # Main THEN nextRange ELSE nextRange + 1
FetchAdd == nextRange + 1

TakeRange(c) ==
  /\ clients[c].state = "range" /\ nextRange' = FetchAdd
  /\ clients' = [clients EXCEPT ![c] =
       IF nextRange > Len(ranges) THEN [@ EXCEPT !.state = "done"]
       ELSE LET r == ranges[nextRange]
            IN [state |-> "tile", current |-> r.first, end |-> r.first + r.count,
                ofs |-> r.ofs, limit |-> r.ofs + r.size]]
  /\ UNCHANGED <<request, bundle, stage, wayNodeIds, storeWayNodes, tiles, ranges, tasks, loading, results, puts>>

-----------------------------------------------------------------------------
TakeTask(w) ==
  /\ loading[w] = NoTile /\ tasks # <<>>
  /\ loading' = [loading EXCEPT ![w] = Head(tasks)] /\ tasks' = Tail(tasks)
  /\ UNCHANGED <<request, bundle, stage, wayNodeIds, storeWayNodes, tiles, clients, ranges, nextRange, results, puts>>

BuildTile(w) ==
  /\ loading[w] # NoTile
  /\ results' = Append(results, loading[w]) /\ loading' = [loading EXCEPT ![w] = NoTile]
  /\ UNCHANGED <<request, bundle, stage, wayNodeIds, storeWayNodes, tiles, clients, ranges, nextRange, tasks, puts>>

PutTile ==
  /\ results # <<>>
  /\ puts' = Append(puts, Head(results)) /\ results' = Tail(results)
  /\ UNCHANGED <<request, bundle, stage, wayNodeIds, storeWayNodes, tiles, clients, ranges, nextRange, tasks, loading>>

(* The main thread has run out of tiles and joins the other ones.          *)
AwaitAll ==
  LET k == clients[Main] IN
  \/ Wanted = {}
  \/ IF request.remote THEN \A c \in Clients : clients[c].state = "done"
     ELSE k.state = "file" /\ k.current = k.end
AllReceived ==
  LET k == clients[Main] IN
  \/ Wanted = {}
  \/ IF request.remote THEN \A c \in Clients : clients[c].state \in {"done", "unused"}
     ELSE k.state = "file" /\ k.current = k.end

End ==
  /\ stage = "reading" /\ AllReceived
  /\ tasks = <<>> /\ results = <<>> /\ \A w \in LoadThreads : loading[w] = NoTile
  /\ stage' = "ended"
  /\ UNCHANGED <<request, bundle, wayNodeIds, storeWayNodes, tiles, clients, ranges, nextRange, tasks, loading, results, puts>>

Commit ==
  /\ stage = "ended" /\ stage' = "committed"
  /\ UNCHANGED <<request, bundle, wayNodeIds, storeWayNodes, tiles, clients, ranges, nextRange, tasks, loading, results, puts>>

(* A request or a read that fails, or a chunk that does not check out:     *)
(* abort() or an exception nobody catches while threads run. Either ends   *)
(* the process without a commit.                                           *)
Fail ==
  /\ stage \in {"metadata", "tiles", "reading"} /\ stage' = "aborted"
  /\ clients' = [c \in Clients |-> Unused] /\ tasks' = <<>> /\ results' = <<>>
  /\ loading' = [w \in LoadThreads |-> NoTile]
  /\ UNCHANGED <<request, bundle, wayNodeIds, storeWayNodes, tiles, ranges, nextRange, puts>>

LoaderStep ==
  \/ InitStore \/ NothingToLoad \/ BeginLoad \/ BeginDownload
  \/ ReadTile \/ SkipMetadata \/ PutTile \/ End \/ Commit
  \/ \E c \in Clients : ReceiveTile(c) \/ EndResponse(c) \/ TakeRange(c)
  \/ \E w \in LoadThreads : TakeTask(w) \/ BuildTile(w)

-----------------------------------------------------------------------------
(* Each tile that is put into the library is one that lies in the bounds   *)
(* and was not there, is put once, and holds the chunk saved for it, with  *)
(* waynode IDs exactly if the library has them: whichever client received  *)
(* it, at whatever place of a response (TileDownloadClient::nextTile).     *)
TilesIntact ==
  /\ \A i, j \in DOMAIN puts : puts[i].tip = puts[j].tip => i = j
  /\ \A i \in DOMAIN puts :
       /\ puts[i].tip \in request.bounds \ request.present /\ puts[i].data = puts[i].tip
       /\ puts[i].wayNodes = storeWayNodes

(* A committed load has put every tile of the bundle that was asked for    *)
(* and missing: no thread still receives and no range was passed over.     *)
CommitComplete ==
  stage = "committed" =>
    \A n \in DOMAIN Entries : Entries[n] \in request.bounds =>
      Entries[n] \in request.present \cup {puts[i].tip : i \in DOMAIN puts}
=============================================================================
