----------------------------- MODULE TesReader ------------------------------
(***************************************************************************)
(* Applies a stream of changes to a tile (src/tile/tes/TesReader.cpp).     *)
(*                                                                         *)
(* The variables are the fields of the class: the data and the position in *)
(* it (p_), the tables read so far, the number of the next feature to be   *)
(* changed, prevXY_. Each action reads one section, or the record of one   *)
(* feature. Past the end of the data the model reads zeros. A number that  *)
(* is out of range, or data the reader calls invalid, throws: the position *)
(* becomes Thrown, and the reader is done.                                 *)
(***************************************************************************)
EXTENDS TileData

VARIABLES
    data,       \* the stream
    tile,       \* tile_
    pos,        \* p_
    section,    \* the section read next, or "done"
    features,   \* features_[0]: [f |-> name, changed |-> BOOLEAN]
    firstWay, firstRelation,    \* features_[1], features_[2], as numbers
    strings, tagTables, relTables,
    next,       \* the number of the feature read next
    prevXY

readerVars == <<data, tile, pos, section, features, firstWay, firstRelation,
                strings, tagTables, relTables, next, prevXY>>

Thrown == 0
At(s) == section = s /\ pos # Thrown

Token(p) == IF p \in DOMAIN data THEN data[p] ELSE 0
AtEnd(p) == p \notin DOMAIN data

-----------------------------------------------------------------------------
(* Tables. An operator that reads at p returns [p, v]: where it stops, and *)
(* what it has read.                                                       *)

Read(p, v) == [p |-> p, v |-> v]

\* A number past the last throws. (The tests of getString() and getTagTable()
\* let the number of elements itself pass, which no writer emits.)
NoString == -1
GetString(n) == IF n < Len(strings) THEN strings[n + 1] ELSE NoString
GetFeature(n) == IF n < Len(features) THEN features[n + 1].f ELSE <<>>
GetNode(n) ==
    IF n < firstWay /\ features[n + 1].f[1] = 0 THEN features[n + 1].f ELSE <<>>
GetRelation(n) ==
    IF firstRelation + n < Len(features) /\ features[firstRelation + n + 1].f[1] = 2
    THEN features[firstRelation + n + 1].f ELSE <<>>

ReadTag(p, local, key) ==
    LET type == Token(p) % 4
        value == Token(p + 1)
    IN  [k |-> IF local THEN GetString(key) ELSE key, t |-> type,
         v |-> IF type = LOCAL_STRING THEN GetString(value) ELSE value]

\* Tags are read until their size is reached exactly
RECURSIVE ReadLocalTags(_, _)
ReadLocalTags(p, size) ==
    IF size = 0 \/ AtEnd(p) THEN Read(p, <<>>)
    ELSE LET tag == ReadTag(p, TRUE, Token(p) \div 4)
             rest == ReadLocalTags(p + 2, size - TagSize(TRUE, tag.t))
         IN  Read(rest.p, <<tag>> \o rest.v)

RECURSIVE ReadGlobalTags(_, _, _)
ReadGlobalTags(p, size, prevKey) ==
    LET tag == ReadTag(p, FALSE, Token(p) \div 4 + prevKey)
        left == size - TagSize(FALSE, tag.t)
        rest == ReadGlobalTags(p + 2, left, tag.k)
    IN  IF left = 0 \/ AtEnd(p) THEN Read(p + 2, <<tag>>)
        ELSE Read(rest.p, <<tag>> \o rest.v)

\* The fields of a tag table come after its size and, if it has local tags
\* (Bit 0), their size in words
ReadTagTable(p) ==
    LET hasLocals == Token(p) % 2 = 1
        size == 2 * (Token(p) \div 2)
        localSize == IF hasLocals THEN 2 * Token(p + 1) ELSE 0
        locals == ReadLocalTags(IF hasLocals THEN p + 2 ELSE p + 1, localSize)
        globals == ReadGlobalTags(locals.p, size - localSize, 0)
        tags == [loc |-> locals.v, glob |-> globals.v]
    IN  IF localSize > size - 4 \/ NoString \in StringsOfTags(tags)
        THEN Read(Thrown, EmptyTags)
        ELSE Read(globals.p, tags)

\* In a relation table foreign parents have no flag of their own: all that
\* follow the first are foreign
RECURSIVE ReadParents(_, _, _)
ReadParents(p, size, foreign) ==
    LET rel == Token(p)
        diff == rel % 2 = 1
        e == IF diff THEN Foreign(TRUE, Unzigzag(Token(p + 1)), Unzigzag(rel \div 2), SameRole)
             ELSE IF foreign THEN Foreign(FALSE, 0, Unzigzag(rel \div 2), SameRole)
             ELSE Local(GetRelation(rel \div 2), SameRole)
        after == IF diff THEN p + 2 ELSE p + 1
        left == size - EntrySize(Parent, e)
        rest == ReadParents(after, left, foreign \/ diff)
    IN  IF left = 0 \/ AtEnd(p) THEN Read(after, <<e>>)
        ELSE Read(rest.p, <<e>> \o rest.v)

ReadRelationTable(p) == ReadParents(p + 1, Token(p), FALSE)

RECURSIVE ReadWayNodes(_, _)
ReadWayNodes(p, size) ==
    LET node == Token(p)
        diff == node % 2 = 1 /\ Has(node, 2)
        e == IF node % 2 = 0 THEN Local(GetNode(node \div 2), SameRole)
             ELSE Foreign(diff, IF diff THEN Unzigzag(Token(p + 1)) ELSE 0,
                          Unzigzag(node \div 4), SameRole)
        rest == ReadWayNodes(IF diff THEN p + 2 ELSE p + 1,
                             size - EntrySize(WayNode, e))
    IN  IF size <= 0 \/ AtEnd(p) THEN Read(p, <<>>)
        ELSE Read(rest.p, <<e>> \o rest.v)

\* A role is a global code (Bit 0) or the number of a string
ReadRole(p) ==
    IF Token(p) % 2 = 1 THEN Token(p) ELSE 2 * GetString(Token(p) \div 2)

RECURSIVE ReadMembers(_, _)
ReadMembers(p, size) ==
    LET member == Token(p)
        far == member % 2 = 1
        diff == far /\ Has(member, 4)
        changes == Has(member, 2)
        roleAt == IF diff THEN p + 2 ELSE p + 1
        role == IF changes THEN ReadRole(roleAt) ELSE SameRole
        e == IF far
             THEN Foreign(diff, IF diff THEN Unzigzag(Token(p + 1)) ELSE 0,
                          Unzigzag(member \div 8), role)
             ELSE Local(GetFeature(member \div 4), role)
        rest == ReadMembers(IF changes THEN roleAt + 1 ELSE roleAt,
                            size - EntrySize(Member, e))
    IN  IF size <= 0 \/ AtEnd(p) THEN Read(p, <<>>)
        ELSE Read(rest.p, <<e>> \o rest.v)

\* A table that names a feature or a string that is not there throws
Dangling(table) == \E e \in ToSet(table) : (~e.far /\ e.f = <<>>) \/ e.role = 2 * NoString

ReadAll(n, p, Reader(_)) ==
    FoldLeft(LAMBDA a, i : IF a.p = Thrown THEN a
                           ELSE LET r == Reader(a.p) IN Read(r.p, Append(a.v, r.v)),
             Read(p, <<>>), [i \in 1 .. n |-> i])

-----------------------------------------------------------------------------
\* TileModel::createFeature: an empty feature, until its record is read
NewFeature(type) ==
    CASE type = 0 -> [tags |-> EmptyTags, rels |-> <<>>, xy |-> 0, waynode |-> FALSE,
                      shared |-> FALSE, exc |-> FALSE]
      [] type = 1 -> [tags |-> EmptyTags, rels |-> <<>>, box |-> [lo |-> 0, hi |-> 0],
                      coords |-> <<>>, ids |-> <<>>, nodes |-> <<>>,
                      area |-> FALSE, west |-> FALSE]
      [] type = 2 -> [tags |-> EmptyTags, rels |-> <<>>, box |-> [lo |-> 0, hi |-> 0],
                      members |-> <<>>, area |-> FALSE, west |-> FALSE]

\* The index from p on: [p, feats, starts], the numbers at which types begin
RECURSIVE ReadIndex(_, _, _, _)
ReadIndex(p, count, type, prevId) ==
    IF count = 0 \/ AtEnd(p) \/ type > 2 THEN [p |-> p, feats |-> <<>>]
    ELSE IF Token(p) = 0 THEN ReadIndex(p + 1, count, type + 1, 0)
    ELSE LET id == Token(p) \div 2 + prevId
             rest == ReadIndex(p + 1, count - 1, type, id)
         IN  [p |-> rest.p,
              feats |-> <<[f |-> <<type, id>>, changed |-> Token(p) % 2 = 1]>> \o rest.feats]

ReadFeatureIndex ==
    /\ At("index")
    /\ LET r == ReadIndex(pos + 1, Token(pos), 0, 0)
           named == {x.f : x \in ToSet(r.feats)}
       IN  /\ pos' = r.p
           /\ features' = r.feats
           /\ firstWay' = Len(SelectSeq(r.feats, LAMBDA x : x.f[1] < 1))
           /\ firstRelation' = Len(SelectSeq(r.feats, LAMBDA x : x.f[1] < 2))
           /\ tile' = [tile EXCEPT !.feats =
                          [f \in DOMAIN tile.feats \union named |->
                              IF f \in DOMAIN tile.feats THEN tile.feats[f]
                              ELSE NewFeature(f[1])]]
    /\ section' = "strings"
    /\ UNCHANGED <<data, strings, tagTables, relTables, next, prevXY>>

ReadStrings ==
    /\ At("strings")
    /\ strings' = [i \in 1 .. Token(pos) |-> Token(pos + i)]
    /\ pos' = pos + 1 + Token(pos)
    /\ section' = "tags"
    /\ UNCHANGED <<data, tile, features, firstWay, firstRelation, tagTables, relTables,
                   next, prevXY>>

ReadTagTables ==
    /\ At("tags")
    /\ LET r == ReadAll(Token(pos), pos + 1, ReadTagTable)
       IN  /\ pos' = r.p
           /\ tagTables' = r.v
    /\ section' = "relations"
    /\ UNCHANGED <<data, tile, features, firstWay, firstRelation, strings, relTables,
                   next, prevXY>>

ReadRelationTables ==
    /\ At("relations")
    /\ LET r == ReadAll(Token(pos), pos + 1, ReadRelationTable)
       IN  /\ pos' = IF \E t \in ToSet(r.v) : Dangling(t) THEN Thrown ELSE r.p
           /\ relTables' = r.v
    /\ section' = "features"
    /\ UNCHANGED <<data, tile, features, firstWay, firstRelation, strings, tagTables,
                   next, prevXY>>

-----------------------------------------------------------------------------
(* The record of a feature. readFeatureChange() reads the flags, the tags  *)
(* and the relation table: [p, flags, x], x the feature with these set.    *)

ReadStubTags(x, flags) ==
    IF ~Has(flags, TAGS_CHANGED) THEN Read(pos + 1, x.tags)
    ELSE IF ~Has(flags, SHARED_TAGS) THEN ReadTagTable(pos + 1)
    ELSE IF Token(pos + 1) < Len(tagTables) THEN Read(pos + 2, tagTables[Token(pos + 1) + 1])
    ELSE Read(Thrown, x.tags)

ReadStubRels(x, flags, p) ==
    LET ref == Token(p)
    IN  IF ~Has(flags, RELATIONS_CHANGED) THEN Read(p, x.rels)
        ELSE IF ref = 0 THEN Read(p + 1, <<>>)
        ELSE IF ref % 2 = 0 THEN ReadRelationTable(p)
        ELSE IF ref \div 2 < Len(relTables) THEN Read(p + 1, relTables[ref \div 2 + 1])
        ELSE Read(Thrown, x.rels)

ReadStub(x) ==
    LET Stub(tags, rels) ==
            [p |-> IF tags.p = Thrown \/ Dangling(rels.v) THEN Thrown ELSE rels.p,
             flags |-> Token(pos),
             x |-> [x EXCEPT !.tags = tags.v, !.rels = rels.v]]
        WithTags(tags) == Stub(tags, ReadStubRels(x, Token(pos), tags.p))
    IN  WithTags(ReadStubTags(x, Token(pos)))

Current(type) ==
    /\ At("features")
    /\ next < Len(features)
    /\ features[next + 1].changed
    /\ features[next + 1].f[1] = type

Name == features[next + 1].f

\* What every record ends with
Put(x, p, xy) ==
    /\ tile' = [tile EXCEPT !.feats[Name] = x]
    /\ pos' = p
    /\ prevXY' = xy
    /\ next' = next + 1
    /\ UNCHANGED <<data, section, features, firstWay, firstRelation, strings, tagTables,
                   relTables>>

Fail ==
    /\ pos' = Thrown
    /\ UNCHANGED <<data, tile, section, features, firstWay, firstRelation, strings,
                   tagTables, relTables, next, prevXY>>

InBounds(xy) == tile.lo <= xy /\ xy <= tile.hi

ReadNode(s) ==
    LET moves == Has(s.flags, GEOMETRY_CHANGED)
        xy == IF moves THEN prevXY + Unzigzag(Token(s.p)) ELSE s.x.xy
    IN  IF s.p = Thrown \/ (moves /\ ~InBounds(xy)) THEN Fail
        ELSE Put([s.x EXCEPT !.xy = xy,
                     !.waynode = Has(s.flags, NODE_BELONGS_TO_WAY),
                     !.shared = Has(s.flags, HAS_SHARED_LOCATION),
                     !.exc = Has(s.flags, IS_EXCEPTION_NODE)],
                 IF moves THEN s.p + 1 ELSE s.p,
                 IF moves THEN xy ELSE prevXY)

ReadNodeChange == Current(0) /\ ReadNode(ReadStub(tile.feats[Name]))

\* The flag inverted instead of set
FlipGeometryFlags(x, flags) ==
    [x EXCEPT !.area = (x.area # Has(flags, IS_AREA)), !.west = x.box.lo < tile.lo]

\* setGeometryFlags()
SetGeometryFlags(x, flags) ==
    [x EXCEPT !.area = Has(flags, IS_AREA), !.west = x.box.lo < tile.lo]

\* The geometry of a way: [p, x, first, ok]. Node ids are kept if the tile
\* keeps them; they are those of the old body if they did not change, whose
\* number of nodes must then be the same
ReadGeometry(x, flags, p) ==
    LET count == Token(p)
        coords == Sums([i \in 1 .. count |-> Unzigzag(Token(p + i))], prevXY)
        box == Box(ToSet(coords))
        hasIds == Has(flags, NODE_IDS_CHANGED)
        ids == [i \in 1 .. count |-> Unzigzag(Token(p + count + i))]
    IN  IF count = 0 THEN [ok |-> FALSE]
        ELSE [ok |-> /\ hasIds \/ ~tile.ids \/ Len(x.coords) = count
                     /\ box.lo <= tile.hi /\ tile.lo <= box.hi,
              p |-> p + 1 + count + (IF hasIds THEN count ELSE 0),
              first |-> coords[1],
              x |-> [x EXCEPT !.box = box, !.coords = Deltas(coords, box.lo),
                              !.ids = IF ~tile.ids THEN <<>>
                                      ELSE IF hasIds THEN ids ELSE x.ids]]

\* s, g, n: what has been read of the stub, the geometry and the node table
PutWay(s, g, n) ==
    IF ~g.ok \/ Dangling(n.v) THEN Fail
    ELSE Put(SetGeometryFlags([g.x EXCEPT !.nodes = n.v], s.flags), n.p, g.first)
ReadNodeTable(s, g) ==
    PutWay(s, g, IF Has(s.flags, MEMBERS_CHANGED) THEN ReadWayNodes(g.p + 1, Token(g.p))
                 ELSE Read(g.p, g.x.nodes))
ReadWay(s) ==
    IF s.p = Thrown THEN Fail
    ELSE ReadNodeTable(s, IF Has(s.flags, GEOMETRY_CHANGED) THEN ReadGeometry(s.x, s.flags, s.p)
                          ELSE [ok |-> ~Has(s.flags, NODE_IDS_CHANGED), p |-> s.p,
                                x |-> s.x, first |-> prevXY])

ReadWayChange == Current(1) /\ ReadWay(ReadStub(tile.feats[Name]))

ReadBounds(s) ==
    LET lo == prevXY + Unzigzag(Token(s.p))
    IN  IF ~Has(s.flags, BBOX_CHANGED) THEN [p |-> s.p, x |-> s.x, xy |-> prevXY]
        ELSE [p |-> s.p + 2, x |-> [s.x EXCEPT !.box = [lo |-> lo, hi |-> lo + Token(s.p + 1)]],
              xy |-> lo]

\* If neither the members nor the parents changed, the body is left alone:
\* the code returns, before the flags are set
PutRelation(s, b, m) ==
    IF s.p = Thrown \/ Dangling(m.v) THEN Fail
    ELSE IF Has(s.flags, MEMBERS_CHANGED) \/ Has(s.flags, RELATIONS_CHANGED)
    THEN Put(SetGeometryFlags([b.x EXCEPT !.members = m.v], s.flags), m.p, b.xy)
    ELSE Put(b.x, b.p, b.xy)
ReadRelationMembers(s, b) ==
    PutRelation(s, b, IF Has(s.flags, MEMBERS_CHANGED) THEN ReadMembers(b.p + 1, Token(b.p))
                      ELSE Read(b.p, b.x.members))
ReadRelation(s) == ReadRelationMembers(s, ReadBounds(s))

ReadRelationChange == Current(2) /\ ReadRelation(ReadStub(tile.feats[Name]))

\* A feature that is only referred to has no record
SkipFeature ==
    /\ At("features")
    /\ next < Len(features)
    /\ ~features[next + 1].changed
    /\ next' = next + 1
    /\ UNCHANGED <<data, tile, pos, section, features, firstWay, firstRelation, strings,
                   tagTables, relTables, prevXY>>

\* Only their number is read
ReadRemovedCount ==
    /\ At("features")
    /\ next = Len(features)
    /\ pos' = pos + 1
    /\ section' = "exports"
    /\ UNCHANGED <<data, tile, features, firstWay, firstRelation, strings, tagTables,
                   relTables, next, prevXY>>

\* Removed features are read, and stay in the tile (a TODO in the code)
ReadRemovedFeatures ==
    /\ At("features")
    /\ next = Len(features)
    /\ pos' = ReadIndex(pos + 1, Token(pos), 0, 0).p
    /\ section' = "exports"
    /\ UNCHANGED <<data, tile, features, firstWay, firstRelation, strings, tagTables,
                   relTables, next, prevXY>>

ReadExports ==
    /\ At("exports")
    /\ LET count == Token(pos) \div 2
           exports == [i \in 1 .. count |-> GetFeature(Token(pos + i))]
       IN  /\ tile' = IF count = 0 THEN tile ELSE [tile EXCEPT !.exports = exports]
           /\ pos' = IF <<>> \in ToSet(exports) THEN Thrown ELSE pos + 1 + count
    /\ section' = "done"
    /\ UNCHANGED <<data, features, firstWay, firstRelation, strings, tagTables, relTables,
                   next, prevXY>>

\* TesReader(tile), read(stream)
StartReading(t, stream) ==
    /\ data' = stream
    /\ tile' = t
    /\ pos' = 1
    /\ section' = "index"
    /\ features' = <<>>
    /\ firstWay' = 0
    /\ firstRelation' = 0
    /\ strings' = <<>>
    /\ tagTables' = <<>>
    /\ relTables' = <<>>
    /\ next' = 0
    /\ prevXY' = t.lo

ReaderStep ==
    \/ ReadFeatureIndex \/ ReadStrings \/ ReadTagTables \/ ReadRelationTables
    \/ ReadNodeChange \/ ReadWayChange \/ ReadRelationChange \/ SkipFeature
    \/ ReadRemovedFeatures \/ ReadExports
=============================================================================
