---------------------------- MODULE QueryPrinter ----------------------------
(***************************************************************************)
(* A query and its output (src/gol/query/QueryPrinter.cpp and the classes  *)
(* derived from it). The main thread posts a task for each tile; threads   *)
(* of an executor run the query on a tile and submit batches to a queue; a *)
(* thread prints them, and ends when it has as many complete ones as there *)
(* are tiles, a number that the main thread may not know yet. A PBF file   *)
(* is written by one thread more, from a queue of blocks.                  *)
(*                                                                         *)
(* The printing thread is started by the constructor of the base class:    *)
(* it may call a virtual function of an object that is under construction. *)
(*                                                                         *)
(* A case q is a record: format; lib and sizes (of the texts) of the       *)
(* features; tiles, those of the tile index that the query meets, as       *)
(* records of current (loaded and not stale) and pages, the results in the *)
(* order found; tileCount, of all tiles in the library; complete and       *)
(* accepted (see OsmQueryPrinter). The executor, the task queues and the   *)
(* library are external.                                                   *)
(***************************************************************************)
EXTENDS FeaturePrinterBuffer, OsmPbfEncoder, OsmQueryPrinter

CONSTANTS Queries, Workers,
          ExecutorSize,     \* tasks that the executor can hold
          QueueSize,        \* batches that the queue can hold
          OutputSize        \* blocks that the output queue can hold

ASSUME CapacityAssumption == {ExecutorSize, QueueSize, OutputSize} \subseteq Nat \ {0}

\* The results in a tile, in the order found
Found(k, i) == FlattenSeq(k.tiles[i].pages)

\* The query meets tiles of the library, and finds a feature that is in several
\* of them in one; a feature that is printed as text has some
IsQuery(k) ==
    /\ k.format \in {"geojson", "geojsonl", "csv", "list", "wkt", "brief", "count", "xml", "pbf"}
    /\ k.tiles \in Seq([current : BOOLEAN, pages : Seq(Seq(DOMAIN k.lib))])
    /\ k.tileCount \in Nat /\ Len(k.tiles) <= k.tileCount
    /\ k.format \in {"xml", "pbf"} => IsLibrary(k.lib)
    /\ \A i, j \in DOMAIN k.tiles : k.tiles[i].current /\ k.tiles[j].current =>
            \A a \in DOMAIN Found(k, i), b \in DOMAIN Found(k, j) :
                Found(k, i)[a] = Found(k, j)[b] => i = j /\ a = b
    /\ k.format \notin {"count", "xml", "pbf"} =>
            \A i \in DOMAIN k.tiles : k.tiles[i].current => \A a \in DOMAIN Found(k, i) :
                Found(k, i)[a] \in DOMAIN k.sizes /\ k.sizes[Found(k, i)[a]] \in Nat \ {0}

ASSUME QueriesAssumption == \A k \in Queries : IsQuery(k)

VARIABLES q,
          main, next,       \* the main thread, and the next tile of the index
          total,            \* totalTiles_
          tasks, worker,    \* the executor
          queue,
          printer,          \* what the printing thread is doing
          pr,               \* ... and has printed
          processed,        \* tilesProcessed_
          features,         \* collected for an OSM file
          early, overtaken, \* see PrintHeader, ProcessTask
          todo, encoder,    \* of a PBF file
          blocks, writer, file

mainVars == <<main, next, total>>
outVars == <<blocks, writer, file>>
printVars == <<printer, pr, processed, features, early, overtaken, todo, encoder>>
vars == <<q, mainVars, tasks, worker, queue, printVars, outVars>>

IsOsm == q.format \in {"pbf", "xml"}
IsText == q.format \notin {"pbf", "xml", "count", "brief"}
Idle == [tile |-> 0, todo |-> <<>>, buf |-> NewBuffer]

Init ==
    /\ q \in Queries
    /\ main = "base" /\ next = 1 /\ total = q.tileCount
    /\ tasks = <<>> /\ worker = [w \in Workers |-> Idle] /\ queue = <<>>
    /\ printer = "header" /\ pr = NoOutput /\ processed = 0 /\ features = {}
    /\ early = FALSE /\ overtaken = FALSE
    /\ todo = <<>> /\ encoder = NoBlock
    /\ blocks = <<>> /\ writer = "header" /\ file = <<>>

-----------------------------------------------------------------------------
(* The main thread *)

\* The constructor of the base class has returned; of the derived one
Construct ==
    /\ main \in {"base", "members"}
    /\ main' = IF main = "base" THEN "members" ELSE "walk"
    /\ UNCHANGED <<q, next, total, tasks, worker, queue, printVars, outVars>>

Current(i) == q.tiles[i].current
CurrentTiles == {i \in DOMAIN q.tiles : Current(i)}
Submitted == Cardinality({i \in CurrentTiles : i < next})

\* Tasks are posted as they are found, while the executor has room for them:
\* capacity, then, is what remained before the first
PostFirst ==
    /\ main = "walk" /\ next <= Len(q.tiles) /\ Submitted < ExecutorSize
    /\ tasks' = IF Current(next) THEN Append(tasks, next) ELSE tasks
    /\ next' = next + 1
    /\ UNCHANGED <<q, main, total, worker, queue, printVars, outVars>>

\* The number of tiles is known before the rest is posted
CountTiles ==
    /\ main = "walk" /\ (next > Len(q.tiles) \/ Submitted = ExecutorSize)
    /\ total' = Cardinality(CurrentTiles)
    /\ main' = "post"
    /\ UNCHANGED <<q, next, tasks, worker, queue, printVars, outVars>>

PostRest ==
    /\ main = "post" /\ next <= Len(q.tiles)
    /\ Current(next) => Len(tasks) < ExecutorSize
    /\ tasks' = IF Current(next) THEN Append(tasks, next) ELSE tasks
    /\ next' = next + 1
    /\ UNCHANGED <<q, main, total, worker, queue, printVars, outVars>>

Join ==
    /\ main = "post" /\ next > Len(q.tiles) /\ printer = "done"
    /\ main' = "returned"
    /\ UNCHANGED <<q, next, total, tasks, worker, queue, printVars, outVars>>

-----------------------------------------------------------------------------
(* Threads of the executor *)

Submit(batches) ==
    /\ Len(queue) + Len(batches) <= QueueSize
    /\ queue' = queue \o batches

\* The results in the order found, those that begin a page with its length
Entries(pages) ==
    FlattenSeq([p \in DOMAIN pages |->
        [i \in DOMAIN pages[p] |-> [f |-> pages[p][i], count |-> IF i = 1 THEN Len(pages[p]) ELSE 0]]])
Results(i) == Found(q, i)

TakeTile(w) ==
    /\ tasks # <<>> /\ worker[w] = Idle
    /\ LET i == Head(tasks)
       IN  IF Results(i) = <<>> THEN /\ Submit(<<Batch(<<>>, <<>>, 0, TRUE)>>)
                                     /\ UNCHANGED worker
           ELSE IF IsText THEN /\ worker' = [worker EXCEPT ![w].tile = i,
                                                           ![w].todo = Entries(q.tiles[i].pages)]
                               /\ UNCHANGED queue
           ELSE /\ Submit(<<Batch(<<>>, IF q.format = "count" THEN <<>> ELSE Results(i),
                               IF q.format = "count" THEN Len(Results(i)) ELSE 0, TRUE)>>)
                /\ UNCHANGED worker
    /\ tasks' = Tail(tasks)
    /\ UNCHANGED <<q, mainVars, printVars, outVars>>

PrintNext(w) ==
    /\ worker[w].todo # <<>>
    /\ LET x == Head(worker[w].todo)
           b == PrintFeature(AddCount(worker[w].buf, x.count), q.format, x.f, q.sizes[x.f])
       IN  /\ Submit(b.sent)
           /\ worker' = [worker EXCEPT ![w].todo = Tail(@), ![w].buf = [b EXCEPT !.sent = <<>>]]
    /\ UNCHANGED <<q, mainVars, tasks, printVars, outVars>>

FlushTile(w) ==
    /\ worker[w].tile # 0 /\ worker[w].todo = <<>>
    /\ Submit(<<Flush(worker[w].buf)>>)
    /\ worker' = [worker EXCEPT ![w] = Idle]
    /\ UNCHANGED <<q, mainVars, tasks, printVars, outVars>>

-----------------------------------------------------------------------------
(* The printing thread *)

\* As long as the base class is constructed, its printHeader() is called;
\* while members of the derived class are, that class's, but what it asks may
\* not be set yet
PrintHeader ==
    /\ printer = "header"
    /\ printer' = "queue"
    /\ early' = (main \in {"base", "members"})
    /\ CASE main = "base" -> UNCHANGED pr
         [] main = "members" /\ q.format \in {"geojson", "geojsonl"} ->
                \E out \in {<<>>, Header("geojson")} : pr' = [pr EXCEPT !.out = out]
         [] OTHER -> pr' = [pr EXCEPT !.out = Header(q.format)]
    /\ UNCHANGED <<q, mainVars, tasks, worker, queue, processed, features, overtaken, todo, encoder, outVars>>

\* Slip: waits for one tile more
WaitsForMore(complete) == complete > total
AllProcessed(complete) == complete >= total

ProcessTask ==
    /\ printer = "queue" /\ queue # <<>>
    /\ LET batch == Head(queue)
           complete == processed + IF batch.complete THEN 1 ELSE 0
           done == AllProcessed(complete)
       IN  /\ processed' = complete
           /\ printer' = IF done THEN "footer" ELSE "queue"
           /\ overtaken' = (overtaken \/ (main \in {"base", "members", "walk"}
                                          /\ complete = Cardinality(CurrentTiles)
                                          /\ complete < total))
           /\ IF IsOsm
              THEN /\ features' = AddResults(features, q, batch.results)
                   /\ pr' = [pr EXCEPT !.count = @ + Len(batch.results)]
              ELSE /\ pr' = PrintText(pr, q.format, q.sizes, batch)
                   /\ UNCHANGED features
    /\ queue' = Tail(queue)
    /\ UNCHANGED <<q, mainVars, tasks, worker, early, todo, encoder, outVars>>

PrintFooter ==
    /\ printer = "footer"
    /\ IF q.format = "pbf"
       THEN printer' = "encode" /\ todo' = Features(q.lib, features) /\ UNCHANGED pr
       ELSE /\ printer' = "done" /\ UNCHANGED todo
            /\ pr' = IF q.format = "xml" THEN [pr EXCEPT !.out = Features(q.lib, features)]
                     ELSE Footer(pr, q.format, q.sizes)
    /\ UNCHANGED <<q, mainVars, tasks, worker, queue, processed, features, early, overtaken, encoder, outVars>>

\* A new block is started for each type, and when one has no room for a
\* feature; the last one is posted
NeedsBlock == encoder.group # Head(todo).f[1] \/ ~Fits(encoder, Head(todo))

StartBlock ==
    /\ printer = "encode" /\ todo # <<>> /\ NeedsBlock
    /\ encoder.group # -1 => Len(blocks) < OutputSize
    /\ blocks' = IF encoder.group = -1 THEN blocks ELSE Append(blocks, encoder)
    /\ encoder' = Start(IF encoder.group = Head(todo).f[1] THEN Add(encoder, Head(todo)) ELSE encoder,
                        Head(todo).f[1])
    /\ UNCHANGED <<q, mainVars, tasks, worker, queue, printer, pr, processed, features, early, overtaken,
                   todo, writer, file>>

Encode ==
    /\ printer = "encode" /\ todo # <<>> /\ ~NeedsBlock
    /\ encoder' = Add(encoder, Head(todo))
    /\ todo' = Tail(todo)
    /\ UNCHANGED <<q, mainVars, tasks, worker, queue, printer, pr, processed, features, early, overtaken, outVars>>

EndFeatures ==
    /\ printer = "encode" /\ todo = <<>>
    /\ encoder.group # -1 => Len(blocks) < OutputSize
    /\ blocks' = IF encoder.group = -1 THEN blocks ELSE Append(blocks, encoder)
    /\ encoder' = NoBlock
    /\ printer' = "await"
    /\ UNCHANGED <<q, mainVars, tasks, worker, queue, pr, processed, features, early, overtaken, todo,
                   writer, file>>

\* awaitCompletion(), shutdown() and join()
AwaitOutput ==
    /\ printer = "await" /\ blocks = <<>> /\ writer = "queue"
    /\ printer' = "done" /\ writer' = "done"
    /\ UNCHANGED <<q, mainVars, tasks, worker, queue, pr, processed, features, early, overtaken, todo,
                   encoder, blocks, file>>

-----------------------------------------------------------------------------
(* The thread that writes a PBF file is the last member to be constructed *)

WriteHeader ==
    /\ q.format = "pbf" /\ writer = "header" /\ main # "base"
    /\ writer' = "queue" /\ file' = <<"OSMHeader">>
    /\ UNCHANGED <<q, mainVars, tasks, worker, queue, printVars, blocks>>

WriteBlock ==
    /\ writer = "queue" /\ blocks # <<>>
    /\ file' = Append(file, Head(blocks))
    /\ blocks' = Tail(blocks)
    /\ UNCHANGED <<q, mainVars, tasks, worker, queue, printVars, writer>>

MainStep == Construct \/ PostFirst \/ CountTiles \/ PostRest \/ Join
WorkerStep(w) == TakeTile(w) \/ PrintNext(w) \/ FlushTile(w)
PrinterStep ==
    PrintHeader \/ ProcessTask \/ PrintFooter \/ StartBlock \/ Encode \/ EndFeatures \/ AwaitOutput
WriterStep == WriteHeader \/ WriteBlock

Next == MainStep \/ (\E w \in Workers : WorkerStep(w)) \/ PrinterStep \/ WriterStep

\* Each is a thread, and the operating system runs all of them
Fairness ==
    /\ WF_vars(MainStep) /\ WF_vars(PrinterStep) /\ WF_vars(WriterStep)
    /\ \A w \in Workers : WF_vars(WorkerStep(w))

Spec == Init /\ [][Next]_vars /\ Fairness

-----------------------------------------------------------------------------
(* Properties *)

Returned == main = "returned"
AllResults == UNION {ToSet(Results(i)) : i \in CurrentTiles}

\* The text of features in an order
Separated(s) ==
    [i \in 1..(2 * Len(s) - 1) |-> IF i % 2 = 1 THEN Text(s[(i + 1) \div 2], q.sizes[s[(i + 1) \div 2]])
                                   ELSE Mark(",")]
Lines(s) == FlattenSeq([i \in DOMAIN s |-> Text(s[i], q.sizes[s[i]]) \o Mark("newline")])
Listed(s) == IF s = <<>> THEN <<>> ELSE FlattenSeq(Separated(s))
Document(s) ==
    CASE q.format = "geojson" -> Mark("{") \o Listed(s) \o Mark("}")
      [] q.format = "csv" -> Mark("columns") \o Lines(s)
      [] q.format \in {"geojsonl", "list"} -> Lines(s)
      [] q.format = "brief" -> FlattenSeq([i \in DOMAIN s |-> Text(s[i], q.sizes[s[i]])]) \o Mark("newline")
      [] q.format = "count" -> Mark(Len(s))
      [] q.format = "wkt" -> IF s = <<>> THEN Mark("empty")
                             ELSE IF Len(s) = 1 THEN Listed(s)
                             ELSE Mark("(") \o Listed(s) \o Mark(")")

\* However the threads that query the tiles take turns, and however the texts
\* are cut into chunks: the document that is printed has every result once and
\* whole, with what its format puts before, between and after them; and as many
\* are reported. The header is lost if it is asked for too early
OutputWhole ==
    Returned =>
        /\ pr.count = Cardinality(AllResults)
        /\ ~IsOsm /\ ~early => \E s \in SetToSeqs(AllResults) : pr.out = Document(s)

\* The ids of no block have run into its latitudes. The encoder checks them
\* against a later end (see IdsEnd), and ids that are wider than latitudes do
SectionsKept == \A i \in 2..Len(file) : ~Overrun(file[i])

\* The features that the query asks for, in order
Requested == Features(q.lib, Wanted(q, q.lib, AllResults))

\* An XML file has the results and what they need: all members of the relations
\* that the query asks to complete, and of the others those that it accepts, for
\* --complete-relations is an option of PBF and XML
XmlAsRequested == Returned /\ q.format = "xml" => pr.out = Requested

\* An OSM file has the results and all that they need, each feature once with
\* its own tags and members, in the order that its header promises, whatever
\* the order in which results came, and however the features are distributed
\* to blocks. A PBF file can only be read if its sections are kept; an XML file
\* is what was asked for if all relations are to be complete (see XmlAsRequested)
Written == FlattenSeq([i \in 1..(Len(file) - 1) |-> Read(file[i + 1])])
OsmFileWhole ==
    Returned =>
        /\ q.format = "pbf" /\ SectionsKept => Head(file) = "OSMHeader" /\ Written = Requested
        /\ q.format = "xml" /\ "all" \in q.complete => pr.out = Requested

\* A query returns, unless its last tile was processed before the main thread
\* knew how many there are, or there is none: nothing wakes the printing thread
\* then
QueryEnds == <>(Returned \/ overtaken \/ CurrentTiles = {})
=============================================================================
