---------------------------- MODULE FeatureUpdate ----------------------------
(***************************************************************************)
(* What becomes of a changed feature: Updater::processNode(), processWay() *)
(* and processRelation() in src/change/Updater_analyze.cpp. Each decides   *)
(* which tiles the feature will be in and puts it on their lists.          *)
(*                                                                         *)
(* Relations that are members of relations are in UpdateRelations; here,   *)
(* relations have nodes and ways for members. Features that may lose their *)
(* TEX are left out: no step of the update removes one yet.                *)
(***************************************************************************)
EXTENDS ChangeModel

DeleteFrom(cm, f, tip) == IF tip = NoTip THEN cm ELSE [cm EXCEPT !.tiles[tip].deleted = @ \union {f}]
SetFlags(cm, f, flag, test) == IF test THEN AddFlags(cm, f, {flag}) ELSE cm
Set(cm, f, ref, refSE) == [cm EXCEPT !.f[f].ref = ref, !.f[f].refSE = refSE]

ProcessMembershipChanges(cm, l, f) ==
    LET x == cm.f[f]
        ref == IF ~CanGetFeature(x.ref) /\ f[1] # 0 THEN x.refSE ELSE x.ref
    IN  IF x.changes = <<>> THEN cm ELSE GetRelationTable(cm, l, f, ref, x.changes)

-----------------------------------------------------------------------------
(* A change of bounds is passed on to the relations *)

\* memberBoundsChanged(): unless the member was and will be inside. Nobody
\* pushes a relation that is changed by this alone
MemberBoundsChanged(cm, l, r, f, box) ==
    LET x == cm.f[r]
        past == BoxOf(l, r)
        member == FlatBox(l, f)
    IN  IF x.changed /\ Is(x, "GEOMETRY_CHANGED") THEN cm
        ELSE IF Contains2D(past, box) /\ member.lo # past.lo /\ member.hi # past.hi THEN cm
        ELSE AddFlags([ReplaceStub(cm, r) EXCEPT !.f[r].box = past], r, {"GEOMETRY_CHANGED"})

\* cascadeMemberChange(), of a feature that is in the library
ParentsBoundsChanged(cm, l, f, box, rels) ==
    FoldLeft(LAMBDA c, r : MemberBoundsChanged(c, l, r, f, box), cm, rels)
Cascade(cm, l, f, box) ==
    LET past == SetToSeq(ParentsIn(l, f))
    IN  IF Is(cm.f[f], "RELTABLE_LOADED")
        THEN ParentsBoundsChanged(cm, l, f, box, SetToSeq(cm.f[f].rels))
        ELSE ParentsBoundsChanged(ReadEntries(cm, l, past, cm.f[f].ref.tip), l, f, box, past)

-----------------------------------------------------------------------------
(* Nodes *)

\* A node that is new to a tile is written with all that it has. Its parents
\* are loaded if none are left, too
MoveNode(cm, l, n, past, tip) ==
    LET x == cm.f[n]
        tags == IF past.tip = NoTip THEN NoTags ELSE l[n].tags
        loaded == IF x.rels = {} THEN GetRelationTable(cm, l, n, past, <<>>) ELSE cm
    IN  AddFlags([loaded EXCEPT !.f[n].ref = New(tip),
                                !.f[n].tags = IF @ = NotLoaded THEN tags ELSE @],
                 n, {"NEW_TO_NORTHWEST", "TILES_CHANGED"})

EnterTile(cm, l, n, past, tip) ==
    IF tip \in {NoTip, past.tip} THEN cm ELSE MoveNode(cm, l, n, past, tip)
LeaveTile(cm, n, past, tip) == IF tip = past.tip THEN cm ELSE DeleteFrom(cm, n, past.tip)

\* A node without tags and parents will be in no tile
FutureTip(cm, l, n) ==
    LET x == cm.f[n]
        had == CanGetFeature(x.ref)
        willHaveTags == IF Is(x, "TAGS_CHANGED") THEN x.tags # NoTags
                        ELSE had /\ l[n].tags # NoTags
        willBeMember == IF Is(x, "ADDED_TO_RELATION") \/ Is(x, "REMOVED_FROM_RELATION")
                        THEN x.rels # {} ELSE had /\ ParentsIn(l, n) # {}
    IN  IF willHaveTags \/ willBeMember THEN TileAt(x.xy) ELSE NoTip

CascadeNode(cm, l, n, past) ==
    IF Is(cm.f[n], "GEOMETRY_CHANGED") /\ CanGetFeature(past)
    THEN Cascade(cm, l, n, Expand(EmptyBox, cm.f[n].xy)) ELSE cm
FinishNode(cm, l, n, past, tip) ==
    IF tip = NoTip
    THEN ClearFlags(Set(cm, n, AnonymousNode, Unknown), n, {"TAGS_CHANGED", "GEOMETRY_CHANGED"})
    ELSE CascadeNode([cm EXCEPT !.tiles[tip].nodes = @ \union {n}], l, n, past)

PlaceNode(cm, l, n, past, tip) ==
    FinishNode(EnterTile(LeaveTile(cm, n, past, tip), l, n, past, tip), l, n, past, tip)
LiveNode(cm, l, n) ==
    AddFlags(PlaceNode(cm, l, n, cm.f[n].ref, FutureTip(cm, l, n)), n, {"PROCESSED"})

ProcessNode(cm, l, n) ==
    LET x == cm.f[n]
    IN  IF IsDeleted(x)
        THEN AddFlags(Set(DeleteFrom(cm, n, x.ref.tip), n, Missing, Unknown), n, {"PROCESSED"})
        ELSE IF x.xy = NoXY THEN Set(cm, n, Missing, Unknown)
        ELSE LiveNode(ProcessMembershipChanges(cm, l, n), l, n)

-----------------------------------------------------------------------------
(* Ways and relations *)

ProcessDeleted(cm, f) ==
    LET x == cm.f[f]
    IN  AddFlags(Set(DeleteFrom(DeleteFrom(cm, f, x.ref.tip), f, x.refSE.tip), f, Missing, Missing),
                 f, {"PROCESSED"})

\* The tile of the twin, from the bounds of the feature in the library
DeduceTwinRef(l, f, ref) ==
    IF Southeast(l, f) = NoTip THEN SingleTile
    ELSE Unresolved(IF ref.tip = Northwest(l, f) THEN East ELSE West)

\* Of a feature that was changed implicitly, one reference may be unknown;
\* if both are, it is missing
NormalizeRefs(cm, l, f) ==
    LET x == cm.f[f]
    IN  IF x.ref.tip # NoTip
        THEN IF x.refSE.tip # NoTip THEN cm
             ELSE [cm EXCEPT !.f[f].refSE = DeduceTwinRef(l, f, x.ref)]
        ELSE IF x.refSE.tip = NoTip THEN [cm EXCEPT !.f[f].ref = Missing]
        ELSE [cm EXCEPT !.f[f].ref = DeduceTwinRef(l, f, x.refSE)]
IsMissing(cm, f) == cm.f[f].ref = Missing

\* Slip: a way that leaves its northwest tile is taken to be new in the other
UpdateTilesAlways(cm, l, f, tiles) ==
    LET x == cm.f[f]
        nw == IF West \in tiles THEN West ELSE East
        se == IF tiles = Tiles THEN East ELSE NoTip
        past == IF CanGetFeature(x.ref) THEN x.ref ELSE x.refSE
        loaded == IF Is(x, "RELTABLE_LOADED") THEN cm ELSE GetRelationTable(cm, l, f, past, <<>>)
    IN  IF x.ref.tip = nw /\ x.refSE.tip = se THEN cm
        ELSE AddFlags([loaded EXCEPT !.f[f].ref = New(nw),
                                     !.f[f].refSE = IF se = NoTip THEN SingleTile ELSE New(se),
                                     !.f[f].tags = IF @ = NotLoaded THEN l[f].tags ELSE @],
                      f, {"TILES_CHANGED", "NEW_TO_NORTHWEST", "NEW_TO_SOUTHEAST"})

UpdateTiles(cm, l, f, tiles) ==
    LET x == cm.f[f]
        nw == IF West \in tiles THEN West ELSE East
        se == IF tiles = Tiles THEN East ELSE NoTip
        newNW == nw \notin {x.ref.tip, x.refSE.tip}
        newSE == se \notin {x.ref.tip, x.refSE.tip, NoTip}
        ref == IF nw = x.ref.tip THEN x.ref ELSE IF nw = x.refSE.tip THEN x.refSE ELSE New(nw)
        refSE == IF se = NoTip THEN SingleTile ELSE IF se = x.refSE.tip THEN x.refSE
                 ELSE IF se = x.ref.tip THEN x.ref ELSE New(se)
        source == IF CanGetFeature(x.ref) THEN x.ref ELSE x.refSE
        loads == CanGetFeature(source) /\ x.tags = NotLoaded
        placed == Set(cm, f, ref, refSE)
        flagged == SetFlags(SetFlags(SetFlags(placed, f, "NEW_TO_NORTHWEST", newNW),
                                     f, "NEW_TO_SOUTHEAST", newSE),
                            f, "TILES_CHANGED", nw # x.ref.tip \/ se # x.refSE.tip)
        loaded == IF Is(x, "RELTABLE_LOADED") THEN flagged
                  ELSE GetRelationTable(flagged, l, f, source, <<>>)
    IN  IF ~newNW /\ ~newSE THEN flagged
        ELSE [loaded EXCEPT !.f[f].tags = IF loads THEN l[f].tags ELSE @]

UpdateBounds(cm, l, f, box) ==
    LET x == cm.f[f]
        bounded == AddFlags([cm EXCEPT !.f[f].box = box], f, {"BOUNDS_CHANGED"})
        cascaded == IF CanGetFeature(x.ref) \/ CanGetFeature(x.refSE)
                    THEN Cascade(bounded, l, f, box) ELSE bounded
    IN  IF x.box = box THEN cm ELSE UpdateTiles(cascaded, l, f, TilesIn(box))

Put(cm, f, tip) ==
    IF tip = NoTip THEN cm
    ELSE IF f[1] = 1 THEN [cm EXCEPT !.tiles[tip].ways = @ \union {f}]
    ELSE [cm EXCEPT !.tiles[tip].rels = @ \union {f}]
AssignToTiles(cm, f) == Put(Put(cm, f, cm.f[f].refSE.tip), f, cm.f[f].ref.tip)

\* mayGainTex(), of a feature that will be foreign to another
Gain(cm, f) ==
    LET tips == ({cm.f[f].ref.tip} \union (IF f[1] = 0 THEN {} ELSE {cm.f[f].refSE.tip})) \ {NoTip}
    IN  [cm EXCEPT !.tiles = [t \in tips |-> [cm.tiles[t] EXCEPT !.gain = @ \union {f}]] @@ @]
CheckExport(cm, f, willBeForeign) ==
    LET marked == [cm EXCEPT !.f[f].futureForeign = TRUE]
    IN  IF ~willBeForeign \/ cm.f[f].futureForeign THEN cm
        ELSE IF cm.f[f].ref.status = "exported" THEN marked ELSE Gain(marked, f)

-----------------------------------------------------------------------------
(* processWay() *)

NodesOf(cm, w) == ToSet(cm.f[w].members)
FeatureNodes(cm, w) == SelectSeq(cm.f[w].members, LAMBDA n : cm.f[n].ref.tip # NoTip)
MissingNodes(cm, w) == {n \in NodesOf(cm, w) : IsUnknownOrMissing(cm.f[n].ref)}
IsPending(x) == x.changed /\ ~Is(x, "PROCESSED")
FutureBox(cm, w) ==
    FoldLeft(LAMBDA b, n : IF n \in MissingNodes(cm, w) THEN b ELSE Expand(b, cm.f[n].xy),
             EmptyBox, cm.f[w].members)

\* What the node table had, as far as the way can still be looked up, after
\* its references are set anew
PastNodes(cm, l, w) ==
    IF CanGetFeature(cm.f[w].ref) \/ CanGetFeature(cm.f[w].refSE)
    THEN SelectSeq(l[w].nodes, LAMBDA n : IsFeature(l, n)) ELSE <<>>

TilesChange(cm, f) == cm.f[f].changed /\ Is(cm.f[f], "TILES_CHANGED")

\* Slip: only the tiles of the way are looked at
ExportIfWayMoves(cm, w, n) ==
    IF Is(cm.f[w], "TILES_CHANGED")
    THEN CheckExport(cm, n, cm.f[n].ref.tip # cm.f[w].ref.tip \/ cm.f[w].refSE.tip # NoTip)
    ELSE cm

ExportNode(cm, w, n) ==
    IF Is(cm.f[w], "TILES_CHANGED") \/ Is(cm.f[w], "WAYNODE_IDS_CHANGED") \/ TilesChange(cm, n)
    THEN CheckExport(cm, n, cm.f[n].ref.tip # cm.f[w].ref.tip \/ cm.f[w].refSE.tip # NoTip)
    ELSE cm

FinishWay(cm, l, w) ==
    LET nodes == FeatureNodes(cm, w)
        changes == nodes # <<>>
                   /\ (nodes # PastNodes(cm, l, w) \/ \E n \in ToSet(nodes) : TilesChange(cm, n))
        exported == FoldLeft(LAMBDA c, n : ExportNode(c, w, n), cm, nodes)
    IN  SetFlags(AddFlags(exported, w, {"PROCESSED"}), w, "MEMBERS_CHANGED", changes)

\* Nodes that were never found are missing
LookUpNodes(cm, w) ==
    [cm EXCEPT !.f = [n \in MissingNodes(cm, w) |-> [cm.f[n] EXCEPT !.ref = Missing]] @@ @]
MarkFeatureNodes(cm, w) ==
    SetFlags(cm, w, "WAY_WILL_HAVE_FEATURE_NODES", FeatureNodes(cm, w) # <<>>)
UpdateWay(cm, l, w) ==
    IF Is(cm.f[w], "GEOMETRY_CHANGED") THEN UpdateBounds(cm, l, w, FutureBox(cm, w)) ELSE cm
LiveWay(cm, l, w) ==
    IF \E n \in NodesOf(cm, w) : IsPending(cm.f[n]) THEN [cm EXCEPT !.ways = <<w>> \o @]
    ELSE IF MissingNodes(cm, w) # {} THEN ProcessDeleted(cm, w)
    ELSE FinishWay(AssignToTiles(UpdateWay(ProcessMembershipChanges(cm, l, w), l, w), w), l, w)

ProcessWay(cm, l, w) ==
    LET normal == IF IsExplicit(cm.f[w]) THEN cm ELSE NormalizeRefs(cm, l, w)
    IN  IF IsDeleted(cm.f[w]) THEN ProcessDeleted(cm, w)
        ELSE IF IsMissing(normal, w) THEN normal
        ELSE LiveWay(MarkFeatureNodes(LookUpNodes(normal, w), w), l, w)

-----------------------------------------------------------------------------
(* processRelation() *)

NoMember == [f |-> <<>>, role |-> "none"]   \* a null pointer

\* ensureMembersLoaded()
EnsureMembersLoaded(cm, l, r) ==
    LET x == cm.f[r]
        tile == IF CanGetFeature(x.ref) THEN x.ref.tip ELSE x.refSE.tip
        past == [i \in DOMAIN l[r].members |-> l[r].members[i].f]
    IN  IF x.members # <<>> THEN cm
        ELSE [ReadEntries(cm, l, past, tile) EXCEPT !.f[r].members = l[r].members]

\* The references of a member, and what is left of it
LocateMember(cm, l, f) ==
    LET x == cm.f[f]
    IN  IF IsUnknownOrMissing(x.ref)
        THEN IF f[1] # 0 /\ x.refSE.tip # NoTip
             THEN [cm EXCEPT !.f[f].ref = DeduceTwinRef(l, f, x.refSE)]
             ELSE [cm EXCEPT !.f[f].ref = Missing]
        ELSE IF f[1] # 0 /\ x.refSE = Unknown
             THEN [cm EXCEPT !.f[f].refSE = DeduceTwinRef(l, f, x.ref)] ELSE cm

Kept(cm, r) == SelectSeq(cm.f[r].members, LAMBDA m : m # NoMember)
BoundsOfMember(cm, l, f) ==
    IF f[1] = 0 THEN Expand(EmptyBox, cm.f[f].xy)
    ELSE IF cm.f[f].changed /\ cm.f[f].box # EmptyBox THEN cm.f[f].box ELSE BoxOf(l, f)

ExportMember(cm, r, f) ==
    CheckExport(cm, f, \/ cm.f[f].ref.tip # cm.f[r].ref.tip
                       \/ cm.f[r].refSE # SingleTile /\ f[1] # 0 /\ cm.f[f].refSE # SingleTile)
CheckMemberExports(cm, r) ==
    AddFlags(FoldLeft(LAMBDA c, m : ExportMember(c, r, m.f), cm, Kept(cm, r)), r, {"MEMBERS_CHANGED"})

\* The members are looked at only if they or the bounds may have changed
VisitsMembers(cm, r) == Is(cm.f[r], "MEMBERS_CHANGED") \/ Is(cm.f[r], "GEOMETRY_CHANGED")
MembersBox(cm, l, r) ==
    FoldLeft(LAMBDA b, m : Join(b, BoundsOfMember(cm, l, m.f)), EmptyBox, Kept(cm, r))
MembersTilesChange(cm, r) == \E m \in ToSet(Kept(cm, r)) : TilesChange(cm, m.f)

ExportIf(cm, r, tilesChange) ==
    IF Is(cm.f[r], "MEMBERS_CHANGED") \/ Is(cm.f[r], "TILES_CHANGED") \/ tilesChange
    THEN CheckMemberExports(cm, r) ELSE cm
UpdateRelation(cm, l, r) ==
    IF ~VisitsMembers(cm, r) THEN cm
    ELSE ExportIf(UpdateBounds(cm, l, r, MembersBox(cm, l, r)), r, MembersTilesChange(cm, r))
AssignIfChanged(cm, r) == IF HasActualChanges(cm.f[r]) THEN AssignToTiles(cm, r) ELSE cm
FinishRelation(cm, l, r) ==
    AssignIfChanged(AddFlags(UpdateRelation(ProcessMembershipChanges(cm, l, r), l, r), r,
                             {"PROCESSED"}), r)

CutMissing(cm, r) ==
    LET Cut(m) == IF m # NoMember /\ IsMissing(cm, m.f) THEN NoMember ELSE m
    IN  [cm EXCEPT !.f[r].members = [i \in DOMAIN @ |-> Cut(@[i])]]
LocateMembers(cm, l, r) ==
    IF VisitsMembers(cm, r)
    THEN CutMissing(FoldLeft(LAMBDA c, m : LocateMember(c, l, m.f), cm, Kept(cm, r)), r) ELSE cm
LiveRelation(cm, l, r) ==
    IF VisitsMembers(cm, r) /\ \E m \in ToSet(Kept(cm, r)) : m.f[1] # 0 /\ IsPending(cm.f[m.f])
    THEN AddFlags([cm EXCEPT !.rels = <<r>> \o @], r, {"RELATION_DEFERRED"})
    ELSE IF VisitsMembers(cm, r) /\ Kept(cm, r) = <<>> THEN ProcessDeleted(cm, r)
    ELSE FinishRelation(cm, l, r)

ProcessRelation(cm, l, r) ==
    LET normal == IF IsExplicit(cm.f[r]) THEN cm ELSE NormalizeRefs(cm, l, r)
    IN  IF Is(cm.f[r], "PROCESSED") \/ Is(cm.f[r], "RELATION_DEFERRED") THEN cm
        ELSE IF IsDeleted(cm.f[r]) THEN ProcessDeleted(cm, r)
        ELSE IF IsMissing(normal, r) THEN AddFlags(normal, r, {"PROCESSED"})
        ELSE LiveRelation(LocateMembers(EnsureMembersLoaded(normal, l, r), l, r), l, r)

-----------------------------------------------------------------------------
(* addNewRelationMemberships(): what the search does for the relations that *)
(* it finds, for those that are new                                         *)
AddMember(cm, r, f) ==
    AddFlags([GetChanged(cm, f) EXCEPT !.f[f].changes = <<[added |-> TRUE, rel |-> r]>> \o @],
             f, {"ADDED_TO_RELATION", "RELTABLE_CHANGED"})
AddMembers(cm, r) ==
    IF IsExplicit(cm.f[r]) /\ cm.f[r].ref = Unknown
    THEN FoldLeft(LAMBDA c, f : AddMember(c, r, f), cm,
                  SetToSeq({m.f : m \in ToSet(cm.f[r].members)}))
    ELSE cm
AddNewRelationMemberships(cm) == FoldLeft(AddMembers, cm, cm.rels)
=============================================================================
