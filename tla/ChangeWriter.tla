---------------------------- MODULE ChangeWriter ----------------------------
(***************************************************************************)
(* The stream the changes of one tile are written as                       *)
(* (src/change/ChangeWriter.cpp, TableEncoder.h), in the sections of       *)
(* TesWriter. Only what changed of a feature is written, everything if it  *)
(* is new to the tile; a feature a changed one refers to is in the index   *)
(* too, without a record.                                                  *)
(*                                                                         *)
(* The change model is a record m:                                         *)
(*   tip, lo    the tile and the lower end of its bounds                   *)
(*   bounds     of every tile, by TIP                                      *)
(*   feats      the features of the model, by name: changed, flags (a set  *)
(*              of ChangeFlags), ref and refSE ([tip, tex]; TIP 0: none),  *)
(*              tags, parents (a set of relations; {}: no relation table), *)
(*              xy, members (<<>> for an omitted member), roles, box       *)
(*   removed    the changed features that left the tile or are deleted     *)
(***************************************************************************)
EXTENDS TileData, FiniteSetsExt

NoTip == 0
NotExported == 0
\* TODO in the code: features without a TEX
DummyTex == 333

\* CFeature
InTile(m, f, tip) ==
    \/ m.feats[f].ref.tip = tip
    \/ f[1] # 0 /\ m.feats[f].refSE.tip = tip
IsDualTile(m, f) == f[1] # 0 /\ m.feats[f].refSE.tip # NoTip

HasActualChanges(x) ==
    x.flags \intersect {"TAGS_CHANGED", "GEOMETRY_CHANGED", "WAYNODE_IDS_CHANGED",
        "AREA_STATUS_CHANGED", "BOUNDS_CHANGED", "ADDED_TO_RELATION", "RELTABLE_CHANGED",
        "REMOVED_FROM_RELATION", "WAYNODE_STATUS_CHANGED",
        "SHARED_LOCATION_STATUS_CHANGED"} # {}

IsNew(m, f) ==
    (IF m.feats[f].ref.tip = m.tip THEN "NEW_TO_NORTHWEST" ELSE "NEW_TO_SOUTHEAST")
        \in m.feats[f].flags

-----------------------------------------------------------------------------
(* gatherFeatures() *)

ChangedIn(m) == {f \in DOMAIN m.feats : m.feats[f].changed /\ InTile(m, f, m.tip)}

\* The changed features whose tags, parents or members may be written
TagsNeeded(m) == {f \in ChangedIn(m) : IsNew(m, f) \/ "TAGS_CHANGED" \in m.feats[f].flags}
RelsNeeded(m) ==
    {f \in ChangedIn(m) : /\ IsNew(m, f) \/ "RELTABLE_CHANGED" \in m.feats[f].flags
                          /\ m.feats[f].parents # {}}
MembersNeeded(m) ==
    {f \in ChangedIn(m) : f[1] # 0 /\ (IsNew(m, f) \/ "MEMBERS_CHANGED" \in m.feats[f].flags)}

\* useTagTable(), useRelationTable(): how many changed features use it
TagUsers(m, tags) == Cardinality({f \in TagsNeeded(m) : m.feats[f].tags = tags})
RelUsers(m, rels) == Cardinality({f \in RelsNeeded(m) : m.feats[f].parents = rels})

GatheredParents(m) ==
    {r \in UNION {m.feats[f].parents : f \in RelsNeeded(m)} : InTile(m, r, m.tip)}
GatheredMembers(m) ==
    {f \in UNION {ToSet(m.feats[p].members) \ {<<>>} : p \in MembersNeeded(m)} :
        InTile(m, f, m.tip)}

\* addChangedFeature() and the gathering of what the changed ones refer to
Gathered(m) == ChangedIn(m) \union GatheredMembers(m) \union GatheredParents(m)
\* prepareFeatures(): the numbers of the features
Inventory(m) == Ordered(Gathered(m))

RoleStrings(m, f) == {r \div 2 : r \in {x \in ToSet(m.feats[f].roles) : x % 2 = 0}}
Strings(m) ==
    SetToSeq(UNION {StringsOfTags(m.feats[f].tags) : f \in TagsNeeded(m)}
             \union UNION {RoleStrings(m, f) : f \in {g \in MembersNeeded(m) : g[1] = 2}})

-----------------------------------------------------------------------------
(* TableEncoder *)

\* The reference an entry for a foreign feature uses
RefOf(m, f) ==
    LET x == m.feats[f]
        ref == IF IsDualTile(m, f) /\ x.ref.tip = NoTip THEN x.refSE ELSE x.ref
    IN  IF ref.tex = NotExported THEN [ref EXCEPT !.tex = DummyTex] ELSE ref

\* TIPs as if each were the first
AddEntryFromStart(m, a, f, role) ==
    LET change == IF role # a.role THEN role ELSE SameRole
        ref == RefOf(m, f)
        diff == ref.tip # a.tip
    IN  IF InTile(m, f, m.tip)
        THEN [a EXCEPT !.table = Append(@, Local(f, change)), !.role = role]
        ELSE [table |-> Append(a.table,
                            Foreign(diff, IF diff THEN ref.tip - START_TIP ELSE 0,
                                    ref.tex - a.tex, change)),
              role |-> role, tip |-> ref.tip, tex |-> ref.tex]

\* add(): a = [table, role, tip, tex], the table so far and what it ends with
AddEntry(m, a, f, role) ==
    LET change == IF role # a.role THEN role ELSE SameRole
        ref == RefOf(m, f)
        diff == ref.tip # a.tip
        tipFrom == IF a.tip = NoTip THEN START_TIP ELSE a.tip
    IN  IF InTile(m, f, m.tip)
        THEN [a EXCEPT !.table = Append(@, Local(f, change)), !.role = role]
        ELSE [table |-> Append(a.table,
                            Foreign(diff, IF diff THEN ref.tip - tipFrom ELSE 0,
                                    ref.tex - a.tex, change)),
              role |-> role, tip |-> ref.tip, tex |-> ref.tex]

\* The table of the features fs with the given roles
Encode(m, kind, fs, roles) ==
    FoldLeft(LAMBDA a, i : AddEntry(m, a, fs[i], roles[i]),
             [table |-> <<>>, role |-> DefaultRole, tip |-> NoTip, tex |-> kind.start],
             [i \in DOMAIN fs |-> i]).table

\* write(): its size, then its entries
WriteTable(m, kind, table, base) ==
    <<SizeOfTable(kind, table)>>
    \o TableTokens(kind, table, Inventory(m), base, Strings(m))

-----------------------------------------------------------------------------
WriteIndex(m) ==
    IndexTokens(Inventory(m),
                {f \in DOMAIN m.feats : m.feats[f].changed /\ HasActualChanges(m.feats[f])})

WriteStringTable(m) == <<Len(Strings(m))>> \o Strings(m)

WriteTags(m, tags) == TagTableTokens(tags, Strings(m))

\* writeRelationTable(): local parents come first, then the foreign ones by
\* tile. A parent in two tiles sorts by its SE tile if that holds this
\* tile's corner, but is encoded by its NW reference
ParentOrder(m, rels) ==
    LET Tip(r) == IF InTile(m, r, m.tip) THEN NoTip
                  ELSE IF /\ IsDualTile(m, r)
                          /\ m.bounds[m.feats[r].refSE.tip].lo <= m.lo
                          /\ m.lo <= m.bounds[m.feats[r].refSE.tip].hi
                  THEN m.feats[r].refSE.tip
                  ELSE m.feats[r].ref.tip
    IN  SetToSortSeq(rels, LAMBDA a, b : Tip(a) < Tip(b) \/ (Tip(a) = Tip(b) /\ a[2] < b[2]))

WriteRels(m, rels) ==
    LET order == ParentOrder(m, rels)
        base == Len(SelectSeq(Inventory(m), LAMBDA f : f[1] # 2))
    IN  WriteTable(m, Parent,
                   Encode(m, Parent, order, [i \in DOMAIN order |-> DefaultRole]), base)

\* writeSharedItems(): the tables used more than once, which are numbered
SharedTagTables(m) ==
    SetToSeq({t \in {m.feats[f].tags : f \in TagsNeeded(m)} : TagUsers(m, t) > 1})
SharedRelTables(m) ==
    SetToSeq({t \in {m.feats[f].parents : f \in RelsNeeded(m)} : RelUsers(m, t) > 1})

WriteShared(m) ==
    <<Len(SharedTagTables(m))>>
    \o Concat(Map(LAMBDA t : WriteTags(m, t), SharedTagTables(m)))
    \o <<Len(SharedRelTables(m))>>
    \o Concat(Map(LAMBDA t : WriteRels(m, t), SharedRelTables(m)))

\* writeStub(): [flags, out], the flags that are in effect and the record's
\* beginning; given are the flags of the caller, and those of a new feature
WriteChangeStub(m, f, flags, flagsIfNew) ==
    LET x == m.feats[f]
        new == IsNew(m, f)
        own == {b \in {TAGS_CHANGED} : "TAGS_CHANGED" \in x.flags \/ new}
               \union {b \in {GEOMETRY_CHANGED} : "GEOMETRY_CHANGED" \in x.flags \/ new}
               \union {b \in {RELATIONS_CHANGED} : \/ "RELTABLE_CHANGED" \in x.flags
                                                   \/ new /\ x.parents # {}}
               \union (IF new THEN flagsIfNew ELSE {})
        tagsShared == TAGS_CHANGED \in own /\ x.tags \in ToSet(SharedTagTables(m))
        all == own \union flags \union {b \in {SHARED_TAGS} : tagsShared}
    IN  [flags |-> all,
         out |-> <<FoldSet(LAMBDA b, n : n + b, 0, all)>>
            \o (IF TAGS_CHANGED \notin all THEN <<>>
                ELSE IF tagsShared THEN <<IndexIn(SharedTagTables(m), x.tags)>>
                ELSE WriteTags(m, x.tags))
            \o (IF RELATIONS_CHANGED \notin all THEN <<>>
                ELSE IF x.parents = {} THEN <<0>>
                ELSE IF x.parents \in ToSet(SharedRelTables(m))
                THEN <<2 * IndexIn(SharedRelTables(m), x.parents) + 1>>
                ELSE WriteRels(m, x.parents))]

\* The record of a feature, after its stub: given is what WriteChangeStub() returns
NodeRecord(m, f, prevXY, stub) ==
    IF GEOMETRY_CHANGED \in stub.flags
    THEN [out |-> stub.out \o <<Zigzag(m.feats[f].xy - prevXY)>>, prevXY |-> m.feats[f].xy]
    ELSE [out |-> stub.out, prevXY |-> prevXY]

WriteChangedNode(m, f, prevXY) ==
    LET own == m.feats[f].flags
    IN  NodeRecord(m, f, prevXY, WriteChangeStub(m, f,
            {b \in {NODE_BELONGS_TO_WAY} : "WILL_HAVE_WAYNODE_FLAG" \in own}
            \union {b \in {HAS_SHARED_LOCATION} : "NODE_WILL_SHARE_LOCATION" \in own}, {}))

WriteNodeTable(m, w) ==
    LET nodes == SelectSeq(m.feats[w].members, LAMBDA n : m.feats[n].ref.tip # NoTip)
    IN  WriteTable(m, WayNode,
                   Encode(m, WayNode, nodes, [i \in DOMAIN nodes |-> DefaultRole]), 0)

WayRecord(m, f, prevXY, stub) ==
    LET members == m.feats[f].members
        coords == Map(LAMBDA n : m.feats[n].xy, members)
        ids == Map(LAMBDA n : n[2], members)
    IN  [out |-> stub.out
            \o (IF GEOMETRY_CHANGED \notin stub.flags THEN <<>>
                ELSE <<Len(coords)>> \o Map(Zigzag, Deltas(coords, prevXY))
                     \o (IF NODE_IDS_CHANGED \notin stub.flags THEN <<>>
                         ELSE Map(Zigzag, Deltas(ids, 0))))
            \o (IF MEMBERS_CHANGED \in stub.flags THEN WriteNodeTable(m, f) ELSE <<>>),
         prevXY |-> IF GEOMETRY_CHANGED \in stub.flags THEN coords[1] ELSE prevXY]

WriteChangedWay(m, f, prevXY) ==
    LET own == m.feats[f].flags
    IN  WayRecord(m, f, prevXY, WriteChangeStub(m, f,
            {b \in {MEMBERS_CHANGED} : "MEMBERS_CHANGED" \in own}
            \union {b \in {NODE_IDS_CHANGED, GEOMETRY_CHANGED} : "WAYNODE_IDS_CHANGED" \in own}
            \union {b \in {IS_AREA} : "WILL_BE_AREA" \in own},
            {NODE_IDS_CHANGED}
            \union {b \in {MEMBERS_CHANGED} : "WAY_WILL_HAVE_FEATURE_NODES" \in own}))

\* Omitted members are left out, with their roles
WriteRelationMembers(m, f) ==
    LET x == m.feats[f]
        kept == SelectSeq([i \in DOMAIN x.members |-> i], LAMBDA i : x.members[i] # <<>>)
    IN  WriteTable(m, Member, Encode(m, Member, Map(LAMBDA i : x.members[i], kept),
                                     Map(LAMBDA i : x.roles[i], kept)), 0)

WriteChangedBounds(box, prevXY) == <<Zigzag(box.lo - prevXY), box.hi - box.lo>>

RelationRecord(m, f, prevXY, stub) ==
    LET box == m.feats[f].box
        bounded == BBOX_CHANGED \in stub.flags
    IN  [out |-> stub.out
            \o (IF bounded THEN WriteChangedBounds(box, prevXY) ELSE <<>>)
            \o (IF MEMBERS_CHANGED \in stub.flags THEN WriteRelationMembers(m, f) ELSE <<>>),
         prevXY |-> IF bounded THEN box.lo ELSE prevXY]

WriteChangedRelation(m, f, prevXY) ==
    LET own == m.feats[f].flags
    IN  RelationRecord(m, f, prevXY, WriteChangeStub(m, f,
            {b \in {MEMBERS_CHANGED} : "MEMBERS_CHANGED" \in own}
            \union {b \in {BBOX_CHANGED} : "BOUNDS_CHANGED" \in own}
            \union {b \in {IS_AREA} : "WILL_BE_AREA" \in own},
            {MEMBERS_CHANGED, BBOX_CHANGED}))

WriteChanged(m, f, prevXY) ==
    CASE f[1] = 0 -> WriteChangedNode(m, f, prevXY)
      [] f[1] = 1 -> WriteChangedWay(m, f, prevXY)
      [] f[1] = 2 -> WriteChangedRelation(m, f, prevXY)

WriteChangedFeatures(m) ==
    LET Add(a, w) == [out |-> a.out \o w.out, prevXY |-> w.prevXY]
        changed == SelectSeq(Inventory(m),
                             LAMBDA f : m.feats[f].changed /\ HasActualChanges(m.feats[f]))
    IN  FoldLeft(LAMBDA a, f : Add(a, WriteChanged(m, f, a.prevXY)),
                 [out |-> <<>>, prevXY |-> m.lo], changed).out

WriteRemovedFeatures(m) ==
    IndexTokens(Ordered(m.removed), {f \in m.removed : "DELETED" \in m.feats[f].flags})

\* ChangeWriter::write; there is no export table yet (a TODO in the code)
WriteChanges(m) ==
    WriteIndex(m) \o WriteStringTable(m) \o WriteShared(m) \o WriteChangedFeatures(m)
    \o WriteRemovedFeatures(m) \o <<0>>
=============================================================================
