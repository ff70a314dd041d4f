---------------------------- MODULE ChangeReader ----------------------------
(***************************************************************************)
(* The changes of a change file (src/change/ChangeReader.cpp). A change is *)
(* a record of the feature, its version, whether it is in a section        *)
(* <delete>, and the elements read: tags, xy, members ([f, role]; for ways *)
(* the nodes, with no role). The parser and its errors are left out.       *)
(***************************************************************************)
EXTENDS ChangeModel

NoRole == "none"
Outer == "outer"
AreaTags == "area"      \* tags that make a closed line an area

\* readMember(): a relation that is a member of itself is passed over
Listed(c) == SelectSeq(c.members, LAMBDA m : m.f # c.f)
\* readNodeRef(), readMember(): all that a change refers to is in the model,
\* even if the change is omitted afterwards
ReadMembers(cm, c) == FoldLeft(LAMBDA m, e : GetFeatureStub(m, e.f), cm, Listed(c))

\* readFeature(): the members that the feature will have, before the last
\* node of an area is left out
MembersOf(c) ==
    IF c.deleted \/ (c.f[1] = 1 /\ Len(c.members) < 2) THEN <<>> ELSE Listed(c)
IsGone(c) == c.deleted \/ (c.f[1] # 0 /\ MembersOf(c) = <<>>)
TagsOf(c) == IF IsGone(c) THEN NoTags ELSE c.tags

PossibleArea(c) ==
    \/ /\ c.f[1] = 1 /\ Len(MembersOf(c)) > 2
       /\ Head(MembersOf(c)).f = Last(MembersOf(c)).f
    \/ c.f[1] = 2 /\ \E m \in ToSet(MembersOf(c)) : m.role = Outer
\* CTagTable::isArea() with the flags that getTagTable() sets
WillBeArea(c) == PossibleArea(c) /\ TagsOf(c) = AreaTags

FlagsRead(c) ==
    IF IsGone(c) THEN {"DELETED"}
    ELSE {"TAGS_CHANGED", "GEOMETRY_CHANGED"}
         \union (CASE c.f[1] = 0 -> {} [] c.f[1] = 1 -> {"WAYNODE_IDS_CHANGED"}
                   [] c.f[1] = 2 -> {"MEMBERS_CHANGED"})
         \union (IF WillBeArea(c) THEN {"WILL_BE_AREA"} ELSE {})

\* What is stored: ids of nodes, or members with roles
Stored(c) ==
    IF c.f[1] = 2 THEN MembersOf(c)
    ELSE [i \in 1..(Len(MembersOf(c)) - IF WillBeArea(c) THEN 1 ELSE 0) |-> MembersOf(c)[i].f]

\* A deletion wins over another change of the same version
IsNewer(c, x) == c.version + (IF c.deleted THEN 1 ELSE 0) > x.version

Update(cm, c) ==
    [cm EXCEPT !.f[c.f].version = c.version, !.f[c.f].flags = FlagsRead(c),
               !.f[c.f].tags = TagsOf(c), !.f[c.f].members = Stored(c),
               !.f[c.f].xy = IF c.f[1] = 0 THEN c.xy ELSE @]

ReadFeature(cm, c) ==
    LET known == GetChanged(ReadMembers(cm, c), c.f)
    IN  IF IsNewer(c, known.f[c.f]) THEN Update(known, c) ELSE known
=============================================================================
