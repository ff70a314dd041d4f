----------------------------- MODULE ChangeModel -----------------------------
(***************************************************************************)
(* What an update knows about features (src/change/model), between the     *)
(* change files and the changes of each tile.                              *)
(*                                                                         *)
(* A feature is named by <<type, id>> (0 node, 1 way, 2 relation). The     *)
(* library before the update, and the one that should result, are          *)
(* functions from names to records of tags and                             *)
(*   node xy     way nodes, area     relation members ([f, role])          *)
(* The world is a line of places; a tile is an interval of it, and two     *)
(* tiles are side by side at one zoom level: the one in the west is the    *)
(* northwest tile of a feature in both. The change model is a record cm:   *)
(*   f      the features it has, a function from names to records          *)
(*   nodes, ways, rels   the changed features yet to be processed          *)
(*   locs   futureNodeLocations_     tiles  changedTiles_                  *)
(* A stub, the changed feature that replaces it and the pointers to them   *)
(* are one record. Assertions are compiled out.                            *)
(***************************************************************************)
EXTENDS Integers, FiniteSets, SequencesExt

CONSTANTS West, East,   \* the two tiles
          Border        \* the last place in the west

ASSUME TilesAssumption == West # East /\ Border \in Nat

Tiles == {West, East}
NoTip == "none"
NoXY == 0
NoTags == "none"        \* the empty tag table
NotLoaded == "null"     \* no tag table

EmptyBox == [lo |-> 1, hi |-> 0]
Expand(box, x) ==
    IF box = EmptyBox THEN [lo |-> x, hi |-> x]
    ELSE [lo |-> IF x < box.lo THEN x ELSE box.lo, hi |-> IF x > box.hi THEN x ELSE box.hi]
Join(box, b) == IF b = EmptyBox THEN box ELSE Expand(Expand(box, b.lo), b.hi)
Contains2D(box, b) == box.lo <= b.lo /\ b.hi <= box.hi

TileAt(x) == IF x <= Border THEN West ELSE East
TilesIn(box) == {TileAt(box.lo), TileAt(box.hi)}

-----------------------------------------------------------------------------
(* A library *)

ParentsIn(l, f) ==
    {r \in DOMAIN l : r[1] = 2 /\ \E i \in DOMAIN l[r].members : l[r].members[i].f = f}
WaysOf(l, n) == {w \in DOMAIN l : w[1] = 1 /\ n \in ToSet(l[w].nodes)}

\* Nodes without tags that are in no relation are anonymous: vertexes of ways
IsFeature(l, f) ==
    f \in DOMAIN l /\ (f[1] = 0 => l[f].tags # NoTags \/ ParentsIn(l, f) # {})

FlatBox(l, f) ==
    IF f[1] = 0 THEN Expand(EmptyBox, l[f].xy)
    ELSE FoldLeft(LAMBDA b, n : Expand(b, l[n].xy), EmptyBox, l[f].nodes)
BoxOf(l, f) ==
    IF f[1] < 2 THEN FlatBox(l, f)
    ELSE FoldLeft(LAMBDA b, m : Join(b, FlatBox(l, m.f)), EmptyBox, l[f].members)

TilesOf(l, f) == TilesIn(BoxOf(l, f))
Northwest(l, f) == TileAt(BoxOf(l, f).lo)
Southeast(l, f) == IF TilesOf(l, f) = Tiles THEN East ELSE NoTip

\* In a tile of its parent that it is not in itself, a feature is foreign,
\* and has a number (TEX) there
IsForeign(l, f) ==
    \E p \in ParentsIn(l, f) \union WaysOf(l, f) : ~(TilesOf(l, p) \subseteq TilesOf(l, f))

-----------------------------------------------------------------------------
(* CRef *)

Ref(status, tip) == [status |-> status, tip |-> tip]
Unknown == Ref("unknown", NoTip)
Missing == Ref("missing", NoTip)
SingleTile == Ref("single_tile", NoTip)
AnonymousNode == Ref("anonymous_node", NoTip)
New(tip) == Ref("new", tip)
Unresolved(tip) == Ref("unresolved", tip)

CanGetFeature(ref) == ref.status \in {"maybe_exported", "not_exported", "exported"}
MayHaveTex(ref) == ref.status \in {"maybe_exported", "exported"}
IsVague(ref) == ref.status \notin {"not_exported", "exported", "missing", "new"}
IsUnknownOrMissing(ref) == ref \in {Unknown, Missing}

Offer(ref, better) == IF IsVague(ref) THEN better ELSE ref

\* A reference to a feature of the library, in one of its tiles
RefIn(l, f, tile) == Ref(IF IsForeign(l, f) THEN "exported" ELSE "not_exported", tile)
\* ... as it is known without the exports of the tile
RefInTable(l, f, tile) == Ref(IF IsForeign(l, f) THEN "exported" ELSE "maybe_exported", tile)

-----------------------------------------------------------------------------
(* ChangeModel *)

Stub ==
    [changed |-> FALSE, version |-> 0, flags |-> {}, ref |-> Unknown, refSE |-> Unknown,
     xy |-> NoXY, futureWaynode |-> FALSE, futureForeign |-> FALSE, tags |-> NotLoaded,
     box |-> EmptyBox, members |-> <<>>, changes |-> <<>>, rels |-> {}]

NoChanges == [nodes |-> {}, ways |-> {}, rels |-> {}, deleted |-> {}, gain |-> {}]
EmptyModel == [f |-> [x \in {} |-> Stub], nodes |-> <<>>, ways |-> <<>>, rels |-> <<>>,
               locs |-> [x \in {} |-> <<>>], tiles |-> [t \in Tiles |-> NoChanges]]

Is(x, flag) == flag \in x.flags
IsExplicit(x) == x.version # 0
IsDeleted(x) == Is(x, "DELETED")
AddFlags(cm, f, flags) == [cm EXCEPT !.f[f].flags = @ \union flags]
ClearFlags(cm, f, flags) == [cm EXCEPT !.f[f].flags = @ \ flags]

Peek(cm, f) == f \in DOMAIN cm.f
GetFeatureStub(cm, f) ==
    IF Peek(cm, f) THEN cm ELSE [cm EXCEPT !.f = (f :> Stub) @@ @]

\* getChangedNode(), getChangedFeature2D() by id: what was not changed is pushed
GetChanged(cm, f) ==
    LET known == GetFeatureStub(cm, f)
        marked == [known EXCEPT !.f[f].changed = TRUE]
    IN  IF known.f[f].changed THEN known
        ELSE CASE f[1] = 0 -> [marked EXCEPT !.nodes = <<f>> \o @]
               [] f[1] = 1 -> [marked EXCEPT !.ways = <<f>> \o @]
               [] f[1] = 2 -> [marked EXCEPT !.rels = <<f>> \o @]

\* The overloads that take a stub do not push it
ReplaceStub(cm, f) == [cm EXCEPT !.f[f].changed = TRUE]

HasActualChanges(x) ==
    x.flags \intersect {"TAGS_CHANGED", "GEOMETRY_CHANGED", "WAYNODE_IDS_CHANGED",
        "AREA_STATUS_CHANGED", "BOUNDS_CHANGED", "ADDED_TO_RELATION", "RELTABLE_CHANGED",
        "REMOVED_FROM_RELATION"} # {}

\* prepareNodes(): nodes that will be at one place
PrepareNode(cm, n) ==
    IF IsDeleted(cm.f[n]) THEN cm
    ELSE IF cm.f[n].xy \in DOMAIN cm.locs
         THEN AddFlags(AddFlags(cm, cm.locs[cm.f[n].xy], {"NODE_WILL_SHARE_LOCATION"}),
                       n, {"NODE_WILL_SHARE_LOCATION"})
         ELSE [cm EXCEPT !.locs = (cm.f[n].xy :> n) @@ @]
PrepareNodes(cm) == FoldLeft(PrepareNode, cm, cm.nodes)

PrepareWays(cm) ==
    LET future == UNION {ToSet(cm.f[w].members) : w \in ToSet(cm.ways)}
    IN  [cm EXCEPT !.f = [f \in DOMAIN cm.f |->
            [cm.f[f] EXCEPT !.futureWaynode = @ \/ f \in future]]]

\* readFeature(): what a table of the library says about a feature; the tile
\* is the one the table is in
TileOfEntry(l, f, tile) == IF tile \in TilesOf(l, f) THEN tile ELSE Northwest(l, f)
RefOfEntry(l, f, tile) ==
    IF tile \in TilesOf(l, f) THEN RefInTable(l, f, tile) ELSE Ref("exported", Northwest(l, f))
OfferEntry(cm, l, f, ref) ==
    IF f[1] = 0
    THEN IF cm.f[f].changed THEN cm
         ELSE [cm EXCEPT !.f[f].ref = Offer(@, ref), !.f[f].xy = l[f].xy]
    ELSE IF cm.f[f].changed /\ Is(cm.f[f], "PROCESSED") THEN cm
    ELSE IF ref.tip # Northwest(l, f) THEN [cm EXCEPT !.f[f].refSE = Offer(@, ref)]
    ELSE [cm EXCEPT !.f[f].ref = Offer(@, ref)]
ReadEntry(cm, l, f, tile) == OfferEntry(GetFeatureStub(cm, f), l, f, RefOfEntry(l, f, tile))
ReadEntries(cm, l, fs, tile) == FoldLeft(LAMBDA c, f : ReadEntry(c, l, f, tile), cm, fs)

\* loadWayNodes()
RefOfVertex(cm, l, n, tile) ==
    IF ~IsFeature(l, n) THEN AnonymousNode
    ELSE IF IsForeign(l, n) THEN Ref("exported", TileAt(l[n].xy))
    ELSE Offer(cm.f[n].ref, Ref("maybe_exported", tile))
Vertex(cm, l, n, tile) ==
    IF cm.f[n].changed THEN cm
    ELSE [cm EXCEPT !.f[n].xy = l[n].xy, !.f[n].ref = RefOfVertex(cm, l, n, tile)]
LoadWayNode(cm, l, n, tile) == Vertex(GetFeatureStub(cm, n), l, n, tile)
LoadWayNodes(cm, l, w, tile) ==
    LET loaded == FoldLeft(LAMBDA c, n : LoadWayNode(c, l, n, tile), cm, l[w].nodes)
    IN  [loaded EXCEPT !.f[w].members = l[w].nodes]

\* getRelationTable(): the parents in the library, which become known, changed
\* by what the analysis has found; the last change found is the first of the
\* list
LoadParents(cm, l, f, ref) ==
    IF CanGetFeature(ref)
    THEN ReadEntries(cm, l, SetToSeq(ParentsIn(l, f)), ref.tip) ELSE cm
ParentsAfter(past, changes) ==
    FoldLeft(LAMBDA rels, c : IF c.added THEN rels \union {c.rel} ELSE rels \ {c.rel}, past, changes)

\* Slip: a feature that has no number in its tile is taken to have no parents
GetTableOfExported(cm, l, f, ref, changes) ==
    [LoadParents(cm, l, f, ref) EXCEPT
        !.f[f].rels = ParentsAfter(IF MayHaveTex(ref) THEN ParentsIn(l, f) ELSE {}, changes),
        !.f[f].flags = @ \union {"RELTABLE_LOADED"}]

GetRelationTable(cm, l, f, ref, changes) ==
    [LoadParents(cm, l, f, ref) EXCEPT
        !.f[f].rels = ParentsAfter(IF CanGetFeature(ref) THEN ParentsIn(l, f) ELSE {}, changes),
        !.f[f].flags = @ \union {"RELTABLE_LOADED"}]
=============================================================================
