--------------------------- MODULE MCQueryPrinter ---------------------------
(***************************************************************************)
(* Queries of each format on a small library: results on several pages and *)
(* tiles, texts longer than a chunk, tiles that are stale or without       *)
(* results, relations that contain each other, more features than fit a    *)
(* block of a PBF file, and nodes whose ids overrun their section.         *)
(***************************************************************************)
EXTENDS QueryPrinter

Node(id) == <<0, id>>
Way == <<1, 7>>
Cycle(id) == <<2, id>>

Named(v) == <<<<"name", v>>>>
Untyped(f) == [f |-> f, role |-> ""]
LibNode(at, tags) == [at |-> at, tags |-> tags]

\* Nodes whose places are as far apart as their numbers, ...
MCLibrary ==
    (Node(1) :> LibNode(20, Named("x"))) @@ (Node(2) :> LibNode(40, <<>>))
    @@ (Node(30) :> LibNode(60, Named("y"))) @@ (Node(31) :> LibNode(61, <<>>))
    @@ (Way :> [tags |-> Named("x"), members |-> <<Untyped(Node(2)), Untyped(Node(31))>>])
    @@ (Cycle(4) :> [tags |-> Named("x"), kind |-> "site",
                     members |-> <<[f |-> Cycle(5), role |-> "part"], Untyped(Way)>>])
    @@ (Cycle(5) :> [tags |-> Named("y"), kind |-> "route",
                     members |-> <<Untyped(Node(30)), [f |-> Cycle(4), role |-> "whole"]>>])

\* ... and such as are close to each other
DenseLibrary == [f \in {Node(20), Node(40), Node(60)} |-> LibNode(f[2] \div 20, <<>>)]

Tile(pages) == [current |-> TRUE, pages |-> pages]
Stale == [current |-> FALSE, pages |-> <<<<Node(2)>>>>]
Nothing == Tile(<<>>)

Query(format, tiles) ==
    [format |-> format, lib |-> MCLibrary, tiles |-> tiles, tileCount |-> 4,
     sizes |-> (Node(1) :> 1) @@ (Node(2) :> 2) @@ (Node(30) :> 2) @@ (Node(31) :> 6),
     complete |-> {}, accepted |-> {Node(30), Cycle(4), Cycle(5)}]

\* Results of points, and of nothing at all; the third is without a current tile
MCTiles ==
    {<<Tile(<<<<Node(1), Node(30)>>, <<Node(2)>>>>), Stale, Tile(<<<<Node(31)>>>>), Nothing>>,
     <<Nothing, Tile(<<<<Node(1)>>>>), Nothing>>, <<Stale>>, <<Nothing, Nothing>>}
MCRelationTiles ==
    {<<Tile(<<<<Node(1), Way>>>>), Tile(<<<<Cycle(4)>>>>), Nothing>>, <<Tile(<<<<Cycle(5)>>>>)>>, <<Stale>>}

MCQueries ==
    {Query(format, tiles) : format \in {"geojson", "geojsonl", "csv", "list", "wkt", "brief", "count"}, tiles \in MCTiles}
    \union {[Query(format, tiles) EXCEPT !.complete = c] :
                format \in {"xml", "pbf"}, tiles \in MCRelationTiles, c \in {{}, {"all"}, {"site"}}}
    \union {[Query("pbf", <<Tile(<<<<Node(20), Node(40), Node(60)>>>>)>>) EXCEPT !.lib = DenseLibrary]}
=============================================================================
