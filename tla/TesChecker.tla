----------------------------- MODULE TesChecker -----------------------------
(***************************************************************************)
(* Checks a stream without applying it (src/tile/tes/TesChecker.cpp): it   *)
(* walks the same sections, computes the size of every table from its      *)
(* entries, and notes an error where a number is out of range or a size is *)
(* exceeded, but goes on. Operators return [p, bad]: where they stop, and  *)
(* whether they noted an error.                                            *)
(***************************************************************************)
EXTENDS TileData

VARIABLES
    input,          \* start_ .. end_
    at,             \* p_
    part,           \* the section checked next, or "done"
    index,          \* features_: [f, changed]
    stringCount, tagTableCount, relTableCount,
    current,        \* the number of the feature checked next
    xy,             \* prevXY_
    errors          \* whether an error has been noted

checkerVars == <<input, at, part, index, stringCount, tagTableCount, relTableCount,
                 current, xy, errors>>

MAX_COMMON_KEY == 8191

Word(p) == IF p \in DOMAIN input THEN input[p] ELSE 0
PastEnd(p) == p \notin DOMAIN input
Checked(p, bad) == [p |-> p, bad |-> bad]

FeatureCount(type) == Len(SelectSeq(index, LAMBDA x : x.f[1] = type))

RECURSIVE CheckIndex(_, _, _, _)
CheckIndex(p, count, type, id) ==
    IF count = 0 \/ PastEnd(p) THEN [p |-> p, feats |-> <<>>]
    ELSE IF Word(p) = 0 THEN CheckIndex(p + 1, count, type + 1, 0)
    ELSE LET this == id + Word(p) \div 2
             rest == CheckIndex(p + 1, count - 1, type, this)
         IN  [p |-> rest.p,
              feats |-> <<[f |-> <<type, this>>, changed |-> Word(p) % 2 = 1]>>
                        \o rest.feats]

\* readTagValue()
BadValue(type, value) == type = LOCAL_STRING /\ value >= stringCount

RECURSIVE CheckLocalTags(_, _)
CheckLocalTags(p, size) ==
    IF size <= 0 \/ PastEnd(p) THEN Checked(p, size < 0)
    ELSE LET type == Word(p) % 4
             rest == CheckLocalTags(p + 2, size - TagSize(TRUE, type))
         IN  Checked(rest.p, \/ rest.bad
                             \/ Word(p) \div 4 >= stringCount
                             \/ BadValue(type, Word(p + 1)))

\* The key is tested as if there were none before it: prevGlobalTag is
\* passed by value and stays 0
RECURSIVE CheckGlobalTags(_, _)
CheckGlobalTags(p, size) ==
    IF size <= 0 \/ PastEnd(p) THEN Checked(p, size < 0)
    ELSE LET type == Word(p) % 4
             rest == CheckGlobalTags(p + 2, size - TagSize(FALSE, type))
         IN  Checked(rest.p, \/ rest.bad
                             \/ Word(p) \div 4 > MAX_COMMON_KEY
                             \/ BadValue(type, Word(p + 1)))

CheckTagTable(p) ==
    LET size == 2 * (Word(p) \div 2)
        hasLocals == Word(p) % 2 = 1
        localSize == IF hasLocals THEN 2 * Word(p + 1) ELSE 0
        locals == CheckLocalTags(IF hasLocals THEN p + 2 ELSE p + 1, localSize)
        globals == CheckGlobalTags(locals.p, size - localSize)
    IN  IF size < 4 THEN Checked(p + 1, TRUE)
        ELSE Checked(globals.p, locals.bad \/ globals.bad \/ localSize > size - 4)

RECURSIVE CheckParents(_, _, _)
CheckParents(p, size, foreign) ==
    IF size <= 0 \/ PastEnd(p) THEN Checked(p, size < 0)
    ELSE LET rel == Word(p)
             diff == rel % 2 = 1
             far == foreign \/ diff
             e == IF far THEN Foreign(diff, IF diff THEN Unzigzag(Word(p + 1)) ELSE 0,
                                      Unzigzag(rel \div 2), SameRole)
                  ELSE Local(<<>>, SameRole)
             rest == CheckParents(IF diff THEN p + 2 ELSE p + 1,
                                  size - EntrySize(Parent, e), far)
         IN  Checked(rest.p, \/ rest.bad
                             \/ ~far /\ rel \div 2 >= FeatureCount(2))

\* A numbered table must not be empty
CheckRelationTable(p) ==
    LET r == CheckParents(p + 1, Word(p), FALSE)
    IN  Checked(r.p, r.bad \/ Word(p) = 0)

\* Way nodes: the size is not tested
RECURSIVE CheckWayNodes(_, _)
CheckWayNodes(p, size) ==
    IF size <= 0 \/ PastEnd(p) THEN Checked(p, FALSE)
    ELSE LET node == Word(p)
             diff == node % 2 = 1 /\ Has(node, 2)
             e == IF node % 2 = 0 THEN Local(<<>>, SameRole)
                  ELSE Foreign(diff, IF diff THEN Unzigzag(Word(p + 1)) ELSE 0,
                               Unzigzag(node \div 4), SameRole)
             rest == CheckWayNodes(IF diff THEN p + 2 ELSE p + 1,
                                   size - EntrySize(WayNode, e))
         IN  Checked(rest.p, rest.bad \/ (node % 2 = 0 /\ node \div 2 >= FeatureCount(0)))

RECURSIVE CheckMembers(_, _)
CheckMembers(p, size) ==
    IF size <= 0 \/ PastEnd(p) THEN Checked(p, size < 0)
    ELSE LET member == Word(p)
             far == member % 2 = 1
             diff == far /\ Has(member, 4)
             roleAt == IF diff THEN p + 2 ELSE p + 1
             role == IF Has(member, 2) THEN Word(roleAt) ELSE SameRole
             e == IF far THEN Foreign(diff, IF diff THEN Unzigzag(Word(p + 1)) ELSE 0,
                                      Unzigzag(member \div 8), role)
                  ELSE Local(<<>>, role)
             rest == CheckMembers(IF Has(member, 2) THEN roleAt + 1 ELSE roleAt,
                                  size - EntrySize(Member, e))
         IN  Checked(rest.p, \/ rest.bad
                             \/ ~far /\ member \div 4 >= Len(index)
                             \/ /\ role # SameRole
                                /\ role % 2 = 0
                                /\ role \div 2 >= stringCount)

CheckAll(n, p, Check(_)) ==
    FoldLeft(LAMBDA a, i : LET r == Check(a.p) IN Checked(r.p, a.bad \/ r.bad),
             Checked(p, FALSE), [i \in 1 .. n |-> i])

-----------------------------------------------------------------------------
CheckFeatureIndex ==
    /\ part = "index"
    /\ LET r == CheckIndex(at + 1, Word(at), 0, 0)
       IN  at' = r.p /\ index' = r.feats
    /\ part' = "strings"
    /\ UNCHANGED <<input, stringCount, tagTableCount, relTableCount, current, xy, errors>>

CheckStrings ==
    /\ part = "strings"
    /\ stringCount' = Word(at)
    /\ at' = at + 1 + Word(at)
    /\ part' = "tags"
    /\ UNCHANGED <<input, index, tagTableCount, relTableCount, current, xy, errors>>

CheckTagTables ==
    /\ part = "tags"
    /\ LET r == CheckAll(Word(at), at + 1, CheckTagTable)
       IN  at' = r.p /\ errors' = (errors \/ r.bad)
    /\ tagTableCount' = Word(at)
    /\ part' = "relations"
    /\ UNCHANGED <<input, index, stringCount, relTableCount, current, xy>>

CheckRelationTables ==
    /\ part = "relations"
    /\ LET r == CheckAll(Word(at), at + 1, CheckRelationTable)
       IN  at' = r.p /\ errors' = (errors \/ r.bad)
    /\ relTableCount' = Word(at)
    /\ part' = "features"
    /\ UNCHANGED <<input, index, stringCount, tagTableCount, current, xy>>

\* readFeatureStub()
CheckStubTags ==
    IF ~Has(Word(at), TAGS_CHANGED) THEN Checked(at + 1, FALSE)
    ELSE IF Has(Word(at), SHARED_TAGS) THEN Checked(at + 2, Word(at + 1) >= tagTableCount)
    ELSE CheckTagTable(at + 1)
CheckStubRels(p) ==
    IF ~Has(Word(at), RELATIONS_CHANGED) THEN Checked(p, FALSE)
    ELSE IF Word(p) % 2 = 1 THEN Checked(p + 1, Word(p) \div 2 >= relTableCount)
    ELSE CheckParents(p + 1, Word(p), FALSE)
CheckStub ==
    LET Both(tags, rels) == Checked(rels.p, tags.bad \/ rels.bad)
        AfterTags(tags) == Both(tags, CheckStubRels(tags.p))
    IN  AfterTags(CheckStubTags)

Checking(type) ==
    /\ part = "features"
    /\ current < Len(index)
    /\ index[current + 1].changed
    /\ index[current + 1].f[1] = type

Advance(r, newXY) ==
    /\ at' = r.p
    /\ errors' = (errors \/ r.bad)
    /\ xy' = newXY
    /\ current' = current + 1
    /\ UNCHANGED <<input, part, index, stringCount, tagTableCount, relTableCount>>

\* s: where the stub ends, and whether it is bad
CheckNodeBody(s) ==
    IF Has(Word(at), GEOMETRY_CHANGED)
    THEN Advance(Checked(s.p + 1, s.bad), xy + Unzigzag(Word(s.p)))
    ELSE Advance(s, xy)

CheckNode == Checking(0) /\ CheckNodeBody(CheckStub)

\* The table at the end of a record, if it has one, and what was bad before
Also(bad, r) == Checked(r.p, bad \/ r.bad)
CheckNodeTable(p) ==
    IF Has(Word(at), MEMBERS_CHANGED) THEN CheckWayNodes(p + 1, Word(p)) ELSE Checked(p, FALSE)
CheckMemberTable(p) ==
    IF Has(Word(at), MEMBERS_CHANGED) THEN CheckMembers(p + 1, Word(p)) ELSE Checked(p, FALSE)

CheckWayBody(s) ==
    LET moves == Has(Word(at), GEOMETRY_CHANGED)
        hasIds == Has(Word(at), NODE_IDS_CHANGED)
        count == Word(s.p)
        p == IF ~moves THEN s.p ELSE s.p + 1 + (IF hasIds THEN 2 ELSE 1) * count
    IN  Advance(Also(s.bad \/ IF moves THEN count < 2 ELSE hasIds, CheckNodeTable(p)),
                IF moves /\ count > 0 THEN xy + Unzigzag(Word(s.p + 1)) ELSE xy)

CheckWay == Checking(1) /\ CheckWayBody(CheckStub)

CheckRelationBody(s) ==
    LET moves == Has(Word(at), BBOX_CHANGED)
    IN  Advance(Also(s.bad, CheckMemberTable(IF moves THEN s.p + 2 ELSE s.p)),
                IF moves THEN xy + Unzigzag(Word(s.p)) ELSE xy)

CheckRelation == Checking(2) /\ CheckRelationBody(CheckStub)

CheckNothing ==
    /\ part = "features"
    /\ current < Len(index)
    /\ ~index[current + 1].changed
    /\ current' = current + 1
    /\ UNCHANGED <<input, at, part, index, stringCount, tagTableCount, relTableCount,
                   xy, errors>>

CheckRemovedFeatures ==
    /\ part = "features"
    /\ current = Len(index)
    /\ at' = CheckIndex(at + 1, Word(at), 0, 0).p
    /\ part' = "exports"
    /\ UNCHANGED <<input, index, stringCount, tagTableCount, relTableCount, current, xy,
                   errors>>

\* Only their number is read (a TODO in the code)
CheckExports ==
    /\ part = "exports"
    /\ at' = at + 1
    /\ part' = "done"
    /\ UNCHANGED <<input, index, stringCount, tagTableCount, relTableCount, current, xy,
                   errors>>

\* TesChecker(tile, stream), read()
StartChecking(lo, stream) ==
    /\ input' = stream
    /\ at' = 1
    /\ part' = "index"
    /\ index' = <<>>
    /\ stringCount' = 0
    /\ tagTableCount' = 0
    /\ relTableCount' = 0
    /\ current' = 0
    /\ xy' = lo
    /\ errors' = FALSE

CheckerStep ==
    \/ CheckFeatureIndex \/ CheckStrings \/ CheckTagTables \/ CheckRelationTables
    \/ CheckNode \/ CheckWay \/ CheckRelation \/ CheckNothing
    \/ CheckRemovedFeatures \/ CheckExports
=============================================================================
