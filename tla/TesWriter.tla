----------------------------- MODULE TesWriter ------------------------------
(***************************************************************************)
(* The stream a whole tile is saved as (src/tile/tes/TesWriter.cpp): a     *)
(* sequence of numbers, in the sections                                    *)
(*   feature index, strings, shared tag tables, shared relation tables,    *)
(*   one record per feature, removed features (none), exports.             *)
(* Every feature is written as changed, with everything it has. An         *)
(* operator here is one method of the class; the stream it appends to, and *)
(* prevXY_, are passed along.                                              *)
(***************************************************************************)
EXTENDS TileData

Features(t) == Ordered(DOMAIN t.feats)

\* Every string of the tile, used or not
StringsOf(t) ==
    SetToSeq(UNION {StringsOfTags(t.feats[f].tags) : f \in DOMAIN t.feats}
             \union UNION {{e.role \div 2 :
                            e \in {x \in ToSet(t.feats[f].members) :
                                     x.role # SameRole /\ x.role % 2 = 0}}
                           : f \in {g \in DOMAIN t.feats : g[1] = 2}})

\* gatherSharedItems(): the tables with more than one user
SharedTags(t) == Shared([f \in DOMAIN t.feats |-> t.feats[f].tags])
SharedRels(t) == Shared([f \in DOMAIN t.feats |-> t.feats[f].rels])

WriteFeatureIndex(t) == IndexTokens(Features(t), DOMAIN t.feats)

WriteStrings(t) == <<Len(StringsOf(t))>> \o StringsOf(t)

WriteTagTable(t, tags) == TagTableTokens(tags, StringsOf(t))

WriteTagTables(t) ==
    <<Len(SharedTags(t))>>
    \o Concat(Map(LAMBDA tags : WriteTagTable(t, tags), SharedTags(t)))

\* The number of the first relation, from which local parents are counted
FirstRelation(t) == Cardinality({f \in DOMAIN t.feats : f[1] # 2})

WriteRelationTable(t, rels) ==
    <<SizeOfTable(Parent, rels)>>
    \o TableTokens(Parent, rels, Features(t), FirstRelation(t), <<>>)

WriteRelationTables(t) ==
    <<Len(SharedRels(t))>>
    \o Concat(Map(LAMBDA rels : WriteRelationTable(t, rels), SharedRels(t)))

WriteStub(t, f, flags) ==
    LET x == t.feats[f]
        sharedTags == x.tags \in ToSet(SharedTags(t))
    IN  <<flags + TAGS_CHANGED + GEOMETRY_CHANGED + Flag(sharedTags, SHARED_TAGS)
          + Flag(x.rels # <<>>, RELATIONS_CHANGED)>>
        \o (IF sharedTags THEN <<IndexIn(SharedTags(t), x.tags)>>
            ELSE WriteTagTable(t, x.tags))
        \o (IF x.rels = <<>> THEN <<>>
            ELSE IF x.rels \in ToSet(SharedRels(t))
            THEN <<2 * IndexIn(SharedRels(t), x.rels) + 1>>
            ELSE WriteRelationTable(t, x.rels))

WriteNode(t, f, prevXY) ==
    LET x == t.feats[f]
    IN  [out |-> WriteStub(t, f, Flag(x.waynode, NODE_BELONGS_TO_WAY)
                                 + Flag(x.shared, HAS_SHARED_LOCATION)
                                 + Flag(x.exc, IS_EXCEPTION_NODE))
                 \o <<Zigzag(x.xy - prevXY)>>,
         prevXY |-> x.xy]

\* The first coordinate, which the body keeps relative to the box, is
\* written relative to prevXY_; the others, and the ids, as they are
WriteWay(t, f, prevXY) ==
    LET x == t.feats[f]
        first == x.box.lo + x.coords[1]
    IN  [out |-> WriteStub(t, f, Flag(x.nodes # <<>>, MEMBERS_CHANGED)
                                 + Flag(x.area, IS_AREA)
                                 + Flag(t.ids, NODE_IDS_CHANGED))
                 \o <<Len(x.coords), Zigzag(first - prevXY)>>
                 \o Map(Zigzag, Tail(x.coords)) \o Map(Zigzag, x.ids)
                 \o (IF x.nodes = <<>> THEN <<>>
                     ELSE <<SizeOfTable(WayNode, x.nodes)>>
                          \o TableTokens(WayNode, x.nodes, Features(t), 0, <<>>)),
         prevXY |-> first]

\* Where it begins, not how far from prevXY_
WriteAbsoluteBounds(box, prevXY) == <<Zigzag(box.lo), box.hi - box.lo>>

WriteBounds(box, prevXY) == <<Zigzag(box.lo - prevXY), box.hi - box.lo>>

WriteRelation(t, f, prevXY) ==
    LET x == t.feats[f]
    IN  [out |-> WriteStub(t, f, Flag(x.area, IS_AREA) + MEMBERS_CHANGED + BBOX_CHANGED)
                 \o WriteBounds(x.box, prevXY)
                 \o <<SizeOfTable(Member, x.members)>>
                 \o TableTokens(Member, x.members, Features(t), 0, StringsOf(t)),
         prevXY |-> x.box.lo]

WriteFeature(t, f, prevXY) ==
    CASE f[1] = 0 -> WriteNode(t, f, prevXY)
      [] f[1] = 1 -> WriteWay(t, f, prevXY)
      [] f[1] = 2 -> WriteRelation(t, f, prevXY)

WriteFeatures(t) ==
    FoldLeft(LAMBDA a, f : LET w == WriteFeature(t, f, a.prevXY)
                           IN  [out |-> a.out \o w.out, prevXY |-> w.prevXY],
             [out |-> <<>>, prevXY |-> t.lo], Features(t)).out

WriteExportTable(t) ==
    IF t.exports = <<>> THEN <<0>>
    ELSE <<2 * Len(t.exports)>> \o Map(LAMBDA f : IndexIn(Features(t), f), t.exports)

\* TesWriter::write
WriteTile(t) ==
    WriteFeatureIndex(t) \o WriteStrings(t) \o WriteTagTables(t)
    \o WriteRelationTables(t) \o WriteFeatures(t) \o <<0>> \o WriteExportTable(t)
=============================================================================
