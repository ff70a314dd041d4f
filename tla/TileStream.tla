----------------------------- MODULE TileStream -----------------------------
(***************************************************************************)
(* How tiles change and travel: ChangeWriter, TesWriter, TesReader and     *)
(* TesChecker together. A tile is built from nothing by the changes that   *)
(* lead to an old state of the map, saved and loaded again, brought to a   *)
(* new state, and brought there once more, which happens when an update is *)
(* repeated ("Reapplying updates may cause this", TesReader.cpp). What     *)
(* TesReader has read, TesChecker then checks.                             *)
(*                                                                         *)
(* A world is the map as OpenStreetMap has it, a function from names to    *)
(*   node      xy, tags                                                    *)
(*   way       nodes, tags, area                                           *)
(*   relation  members (a sequence of [f, role]), tags, area               *)
(* The change model of two worlds holds what the analysis of an update     *)
(* finds, in the words of ChangeFlags.h; how it is found is the subject of *)
(* other modules.                                                          *)
(***************************************************************************)
EXTENDS TesReader, TesChecker, TesWriter, ChangeWriter

CONSTANTS
    Pairs,      \* the old and new worlds considered
    Tiles,      \* [lo, hi] of each tile, by TIP
    Tex,        \* the TEX of a feature in a tile, NotExported for none
    Locals      \* the tiles whose changes are followed

VARIABLES
    old, new,   \* the two worlds
    tip,        \* the tile
    stage,      \* 1 .. 4, as above; 0 before the first
    kept        \* what the tile must be again at the end of this stage

vars == <<readerVars, checkerVars, old, new, tip, stage, kept>>

-----------------------------------------------------------------------------
(* What a world means for a tile *)

Nothing == [f \in {} |-> <<>>]

Parents(w, f) ==
    {r \in DOMAIN w : r[1] = 2 /\ \E m \in ToSet(w[r].members) : m.f = f}

\* A node without tags that is in no relation is only a part of its ways
IsFeature(w, f) ==
    f \in DOMAIN w /\ (f[1] # 0 \/ w[f].tags # EmptyTags \/ Parents(w, f) # {})

BelongsToWay(w, n) == \E v \in DOMAIN w : v[1] = 1 /\ n \in ToSet(w[v].nodes)
SharesLocation(w, n) == \E o \in DOMAIN w \ {n} : o[1] = 0 /\ w[o].xy = w[n].xy

RECURSIVE Extent(_, _)
Extent(w, f) ==
    CASE f[1] = 0 -> {w[f].xy}
      [] f[1] = 1 -> {w[n].xy : n \in ToSet(w[f].nodes)}
      [] f[1] = 2 -> UNION {Extent(w, m.f) :
                            m \in {x \in ToSet(w[f].members) : x.f \in DOMAIN w}}
Bounds(w, f) == Box(Extent(w, f))

\* The smallest tile that holds the points, if one does or all do
Holding(points) ==
    LET Holds(t) == \A x \in points : Tiles[t].lo <= x /\ x <= Tiles[t].hi
    IN  CHOOSE t \in DOMAIN Tiles :
            /\ Holds(t)
            /\ \A u \in DOMAIN Tiles :
                Holds(u) => Tiles[t].hi - Tiles[t].lo <= Tiles[u].hi - Tiles[u].lo
\* A feature is in one tile, in two neighbours (<<first, second>>), or else in
\* a larger tile
Ends(box) == <<Holding({box.lo}), Holding({box.hi})>>
AreNeighbours(ends) == Tiles[ends[1]].hi + 1 = Tiles[ends[2]].lo
PairOf(points, ends) == IF AreNeighbours(ends) THEN ends ELSE <<Holding(points), NoTip>>
TilePair(w, f) ==
    IF IsFeature(w, f) THEN PairOf(Extent(w, f), Ends(Bounds(w, f))) ELSE <<NoTip, NoTip>>

NorthwestTip(w, f) == TilePair(w, f)[1]
SoutheastTip(w, f) == TilePair(w, f)[2]
TipsOf(w, f) == ToSet(TilePair(w, f)) \ {NoTip}

Ref(t, f) == [tip |-> t, tex |-> IF t = NoTip THEN NotExported ELSE Tex[<<f, t>>]]

NodesOf(w, v) == SelectSeq(w[v].nodes, LAMBDA n : IsFeature(w, n))
MembersOf(w, r) == SelectSeq(w[r].members, LAMBDA m : m.f \in DOMAIN w)

\* A feature as the world has it, with or without the ids of way nodes
Meant(w, ids, f) ==
    LET common == [tags |-> w[f].tags, parents |-> {{r} : r \in Parents(w, f)}]
    IN  CASE f[1] = 0 -> common @@
                [xy |-> w[f].xy, waynode |-> BelongsToWay(w, f),
                 shared |-> SharesLocation(w, f)]
          [] f[1] = 1 -> common @@
                [coords |-> Map(LAMBDA n : w[n].xy, w[f].nodes),
                 ids |-> IF ids THEN Map(LAMBDA n : n[2], w[f].nodes) ELSE <<>>,
                 nodes |-> Map(LAMBDA n : {n}, NodesOf(w, f)), area |-> w[f].area]
          [] f[1] = 2 -> common @@ [box |-> Bounds(w, f),
                 members |-> Map(LAMBDA m : [f |-> {m.f}, role |-> m.role], MembersOf(w, f))]

\* What the entries of the table stand for, with their roles: the features of
\* the TIP and TEX, which must be one
Resolve(kind, table) ==
    LET Is(x, t, tex) == x[2] = t /\ tex = IF Tex[x] = NotExported THEN DummyTex ELSE Tex[x]
        Named(t, tex) == {x[1] : x \in {y \in DOMAIN Tex : Is(y, t, tex)}}
        Step(a, e) ==
            LET t == IF e.diff THEN (IF a.tip = NoTip THEN START_TIP ELSE a.tip) + e.tip
                     ELSE a.tip
                role == IF e.role = SameRole THEN a.role ELSE e.role
            IN  IF e.far
                THEN [tip |-> t, tex |-> a.tex + e.tex, role |-> role,
                      out |-> Append(a.out, [f |-> Named(t, a.tex + e.tex), role |-> role])]
                ELSE [a EXCEPT !.role = role, !.out = Append(@, [f |-> {e.f}, role |-> role])]
    IN  FoldLeft(Step, [tip |-> NoTip, tex |-> kind.start, role |-> DefaultRole,
                        out |-> <<>>], table).out

\* A feature as the tile has it
Held(x, f) ==
    LET common == [tags |-> x.tags,
                   parents |-> {e.f : e \in ToSet(Resolve(Parent, x.rels))}]
    IN  CASE f[1] = 0 -> common @@ [xy |-> x.xy, waynode |-> x.waynode, shared |-> x.shared]
          [] f[1] = 1 -> common @@
                [coords |-> Sums(x.coords, x.box.lo), ids |-> Sums(x.ids, 0),
                 nodes |-> Map(LAMBDA e : e.f, Resolve(WayNode, x.nodes)), area |-> x.area]
          [] f[1] = 2 -> common @@ [box |-> x.box, members |-> Resolve(Member, x.members)]

-----------------------------------------------------------------------------
(* The change model of two worlds *)

Differs(v, w, f, field) == f \notin DOMAIN v \/ v[f][field] # w[f][field]
Moved(v, w, f) == TipsOf(v, f) # TipsOf(w, f)

\* updateTiles(), processNode(): the tiles a feature is new to
TileFlags(v, w, f) ==
    LET past == TipsOf(v, f)
    IN  {b \in {"NEW_TO_NORTHWEST"} : NorthwestTip(w, f) \notin past \union {NoTip}}
        \union {b \in {"NEW_TO_SOUTHEAST"} : SoutheastTip(w, f) \notin past \union {NoTip}}

\* processWay(): the node table is looked at if it will not be empty
NodeTableChanged(v, w, f) ==
    /\ NodesOf(w, f) # <<>>
    /\ \/ f \notin DOMAIN v
       \/ NodesOf(v, f) # NodesOf(w, f)
       \/ \E n \in ToSet(NodesOf(w, f)) : Moved(v, w, n)

\* The flags of a feature that will exist, as ChangeFlags.h defines them
FlagsOf(v, w, f) ==
    LET If(test, flag) == {x \in {flag} : test}
        moves == f \notin DOMAIN v \/ Extent(v, f) # Extent(w, f)
        rels == f \in DOMAIN v /\ (\/ Parents(v, f) # Parents(w, f)
                                   \/ \E r \in Parents(w, f) : Moved(v, w, r))
    IN  If(Differs(v, w, f, "tags"), "TAGS_CHANGED")
        \union If(rels \/ (f \notin DOMAIN v /\ Parents(w, f) # {}), "RELTABLE_CHANGED")
        \union TileFlags(v, w, f)
        \union
        (CASE f[1] = 0 ->
                If(moves, "GEOMETRY_CHANGED")
                \union If(BelongsToWay(w, f), "WILL_HAVE_WAYNODE_FLAG")
                \union If(SharesLocation(w, f), "NODE_WILL_SHARE_LOCATION")
                \union If(f \in DOMAIN v /\ BelongsToWay(v, f) # BelongsToWay(w, f),
                          "WAYNODE_STATUS_CHANGED")
                \union If(f \in DOMAIN v /\ SharesLocation(v, f) # SharesLocation(w, f),
                          "SHARED_LOCATION_STATUS_CHANGED")
           [] f[1] = 1 ->
                LET ids == Differs(v, w, f, "nodes")
                IN  If(ids \/ \E n \in ToSet(w[f].nodes) : Differs(v, w, n, "xy"),
                       "GEOMETRY_CHANGED")
                    \union If(ids, "WAYNODE_IDS_CHANGED")
                    \union If(w[f].area, "WILL_BE_AREA")
                    \union If(f \in DOMAIN v /\ v[f].area # w[f].area, "AREA_STATUS_CHANGED")
                    \union If(NodesOf(w, f) # <<>>, "WAY_WILL_HAVE_FEATURE_NODES")
                    \union If(NodeTableChanged(v, w, f), "MEMBERS_CHANGED")
           [] f[1] = 2 ->
                LET members == f \notin DOMAIN v \/ MembersOf(v, f) # MembersOf(w, f)
                    tiles == \/ Moved(v, w, f)
                             \/ \E m \in ToSet(MembersOf(w, f)) : Moved(v, w, m.f)
                IN  If(members \/ tiles, "MEMBERS_CHANGED")
                    \union If(members \/ tiles \/ Differs(v, w, f, "tags"), "GEOMETRY_CHANGED")
                    \union If(f \in DOMAIN v /\ Bounds(v, f) # Bounds(w, f), "BOUNDS_CHANGED")
                    \union If(w[f].area, "WILL_BE_AREA"))

Changes(v, w, t) ==
    LET Feature(f) ==
            LET flags == FlagsOf(v, w, f)
            IN  [changed |-> flags \ {"WILL_HAVE_WAYNODE_FLAG", "NODE_WILL_SHARE_LOCATION",
                                      "WILL_BE_AREA", "WAY_WILL_HAVE_FEATURE_NODES"} # {},
                 flags |-> flags,
                 ref |-> Ref(NorthwestTip(w, f), f), refSE |-> Ref(SoutheastTip(w, f), f),
                 tags |-> w[f].tags, parents |-> Parents(w, f),
                 xy |-> IF f[1] = 0 THEN w[f].xy ELSE 0,
                 members |-> IF f[1] = 0 THEN <<>> ELSE IF f[1] = 1 THEN w[f].nodes
                             ELSE Map(LAMBDA m : IF m.f \in DOMAIN w THEN m.f ELSE <<>>,
                                      w[f].members),
                 roles |-> IF f[1] = 2 THEN Map(LAMBDA m : m.role, w[f].members) ELSE <<>>,
                 box |-> Bounds(w, f)]
        Deleted == [changed |-> TRUE, flags |-> {"DELETED"},
                    ref |-> Ref(NoTip, <<>>), refSE |-> Ref(NoTip, <<>>)]
    IN  [tip |-> t, lo |-> Tiles[t].lo, bounds |-> Tiles,
         feats |-> [f \in DOMAIN w |-> Feature(f)] @@ [f \in DOMAIN v |-> Deleted],
         removed |-> {f \in DOMAIN v : t \in TipsOf(v, f) \ TipsOf(w, f)}]

-----------------------------------------------------------------------------
EmptyTile(t, ids) ==
    [feats |-> Nothing, lo |-> Tiles[t].lo, hi |-> Tiles[t].hi, ids |-> ids,
     exports |-> <<>>]

\* What may be in a tile that is saved, and is in no changes: exports, and
\* nodes that are exceptions (at a location they share)
Completed(t) ==
    [t EXCEPT !.exports = Ordered(DOMAIN t.feats),
              !.feats = [f \in DOMAIN t.feats |->
                            IF f[1] = 0 THEN [t.feats[f] EXCEPT !.exc = t.feats[f].shared]
                            ELSE t.feats[f]]]

Init ==
    /\ old \in {pair[1] : pair \in Pairs}
    /\ new = old
    /\ tip \in Locals
    /\ stage = 0
    /\ \E ids \in BOOLEAN : tile = EmptyTile(tip, ids)  \* settings of the store
    /\ kept = tile
    /\ section = "done"
    /\ part = "done"
    /\ data = <<>> /\ pos = 1 /\ prevXY = 0 /\ next = 0
    /\ features = <<>> /\ firstWay = 0 /\ firstRelation = 0
    /\ strings = <<>> /\ tagTables = <<>> /\ relTables = <<>>
    /\ input = <<>> /\ at = 1 /\ index = <<>> /\ current = 0 /\ xy = 0
    /\ stringCount = 0 /\ tagTableCount = 0 /\ relTableCount = 0
    /\ errors = FALSE

Start(from, stream) ==
    /\ section = "done"
    /\ part = "done"
    /\ stage' = stage + 1
    /\ StartReading(from, stream)
    /\ part' = "waiting"
    /\ UNCHANGED <<old, tip>>
    /\ UNCHANGED <<input, at, index, stringCount, tagTableCount, relTableCount, current, xy,
                   errors>>

Build ==
    /\ stage = 0
    /\ Start(tile, WriteChanges(Changes(Nothing, old, tip)))
    /\ UNCHANGED <<new, kept>>

SaveAndLoad ==
    /\ stage = 1
    /\ Start(EmptyTile(tip, tile.ids), WriteTile(Completed(tile)))
    /\ kept' = Completed(tile)
    /\ UNCHANGED new

Update ==
    /\ stage = 2
    /\ \E pair \in Pairs :
        /\ pair[1] = old
        /\ new' = pair[2]
        /\ Start(tile, WriteChanges(Changes(old, pair[2], tip)))
    /\ UNCHANGED kept

Reapply ==
    /\ stage = 3
    /\ Start(tile, data)
    /\ kept' = tile
    /\ UNCHANGED new

ReadOn == ReaderStep /\ UNCHANGED <<checkerVars, old, new, tip, stage, kept>>

Check ==
    /\ section = "done"
    /\ part = "waiting"
    /\ StartChecking(tile.lo, data)
    /\ UNCHANGED <<readerVars, old, new, tip, stage, kept>>

CheckOn == CheckerStep /\ UNCHANGED <<readerVars, old, new, tip, stage, kept>>

Stopped == stage = 4 /\ part = "done" /\ UNCHANGED vars

Next == Build \/ SaveAndLoad \/ Update \/ Reapply \/ ReadOn \/ Check \/ CheckOn \/ Stopped

Spec == Init /\ [][Next]_vars

-----------------------------------------------------------------------------
Read1(s) == section = "done" /\ stage = s

\* What the changes of an update say arrives: every feature that is in the
\* tile in the old (then the new) world is there, with the tags, parents,
\* geometry, nodes and members it has in that world, whatever part of it was
\* written, through shared tables, deltas and references into other tiles
Applied ==
    \A s \in {1, 3, 4} :
        Read1(s) =>
            LET w == IF s = 1 THEN old ELSE new
            IN  \A f \in {x \in DOMAIN w : tip \in TipsOf(w, x)} :
                    /\ f \in DOMAIN tile.feats
                    /\ Held(tile.feats[f], f) = Meant(w, tile.ids, f)

\* A tile that is saved and loaded is the same tile (TesWriter, TesReader),
\* its exports and node flags included
Saved == Read1(2) => tile = kept

\* Changes that are applied again change nothing more
Reapplied == Read1(4) => tile = kept

\* What the writers write is accepted: the reader never throws and uses up
\* the stream, and the checker, which follows it in its own way, sees the
\* same features, no error, and the end at the same place, but for the
\* exports, of which it reads the number only
Accepted ==
    /\ pos # Thrown
    /\ section = "done" => pos = Len(data) + 1
    /\ part = "done" =>
        /\ ~errors
        /\ index = features
        /\ at = pos - (IF stage = 2 THEN Len(tile.exports) ELSE 0)
=============================================================================
