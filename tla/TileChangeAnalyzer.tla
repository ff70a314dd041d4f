------------------------- MODULE TileChangeAnalyzer -------------------------
(***************************************************************************)
(* The search of one tile for the features of the change model             *)
(* (src/change/TileChangeAnalyzer.cpp), and the actions that it records,   *)
(* which are applied after all tiles are searched (ChangeAction.cpp).      *)
(*                                                                         *)
(* A search s is a record: cm, the change model; acts, the actions of the  *)
(* thread, the last one first; wrote, the features whose flags or bounds   *)
(* this step has written. Tiles are searched by many threads at once, and  *)
(* nothing but the references, of 8 bytes each, is written atomically.     *)
(***************************************************************************)
EXTENDS ChangeModel

RefOfLocal(l, f, tile) == RefIn(l, f, tile)
RefOfWayNode(l, n) == IF IsFeature(l, n) THEN RefIn(l, n, TileAt(l[n].xy)) ELSE AnonymousNode

Action(kind, f, ref, se) == [kind |-> kind, f |-> f, ref |-> ref, se |-> se, xy |-> NoXY, rel |-> <<>>]
NodeAction(kind, n, ref, xy) == [Action(kind, n, ref, FALSE) EXCEPT !.xy = xy]
MembershipChange(kind, f, ref, se, r) == [Action(kind, f, ref, se) EXCEPT !.rel = r]
AddAction(s, a) == [s EXCEPT !.acts = <<a>> \o @]

SetRef(s, f, ref) == [s EXCEPT !.cm.f[f].ref = ref]
SetRefSE(s, f, ref) == [s EXCEPT !.cm.f[f].refSE = ref]
Clear(s, f, flags) == [s EXCEPT !.cm = ClearFlags(@, f, flags), !.wrote = @ \union {f}]

\* The node and the changed one where it is
Coincide(s, n, xy, ref) ==
    AddAction(AddAction(s, NodeAction("becomes_coincident", n, ref, xy)),
              NodeAction("becomes_coincident", s.cm.locs[xy], Unknown, xy))

\* compareTags()
ClearTags(s, l, f) == IF s.cm.f[f].tags = l[f].tags THEN Clear(s, f, {"TAGS_CHANGED"}) ELSE s

ReadNode(s, l, n, tile) ==
    LET ref == RefOfLocal(l, n, tile)
        xy == l[n].xy
        x == s.cm.f[n]
        found == SetRef(s, n, ref)
        located == [found EXCEPT !.cm.f[n].xy = xy]
        Shared(t) == IF xy \in DOMAIN t.cm.locs THEN Coincide(t, n, xy, ref) ELSE t
    IN  IF ~Peek(s.cm, n) THEN Shared(s)
        ELSE IF x.changed
        THEN ClearTags(IF x.xy = xy THEN Clear(found, n, {"GEOMETRY_CHANGED"}) ELSE found, l, n)
        ELSE IF x.futureWaynode /\ WaysOf(l, n) = {}
        THEN Shared(AddAction(located, Action("becomes_waynode", n, ref, FALSE)))
        ELSE Shared(located)

-----------------------------------------------------------------------------
(* Ways *)

Moves(cm, l, n) == Peek(cm, n) /\ cm.f[n].changed /\ cm.f[n].xy # l[n].xy

CheckWayNode(s, l, n) ==
    LET xy == l[n].xy
        found == IF Peek(s.cm, n) THEN SetRef(s, n, RefOfWayNode(l, n)) ELSE s
        located == IF Peek(s.cm, n) THEN [found EXCEPT !.cm.f[n].xy = xy] ELSE found
    IN  IF Peek(s.cm, n) /\ s.cm.f[n].changed THEN found
        ELSE IF xy \in DOMAIN s.cm.locs /\ ~IsFeature(l, n)
        THEN Coincide(located, n, xy, AnonymousNode) ELSE located

GeometryChanges(s, l, w) == \E n \in ToSet(l[w].nodes) : Moves(s.cm, l, n)

ScanWayNodes(s, l, w, tile) ==
    LET scanned == FoldLeft(LAMBDA t, n : CheckWayNode(t, l, n), s, l[w].nodes)
    IN  IF GeometryChanges(s, l, w)
        THEN AddAction(scanned, Action("implicit_geometry", w, RefOfLocal(l, w, tile),
                                       tile # Northwest(l, w)))
        ELSE scanned

\* A node that no changed way will have is taken out of this one
DropWayNode(s, l, n) ==
    IF Peek(s.cm, n) /\ (s.cm.f[n].futureWaynode \/ (s.cm.f[n].changed /\ IsDeleted(s.cm.f[n])))
    THEN s
    ELSE AddAction(s, NodeAction("removed_from_way", n, RefOfWayNode(l, n), l[n].xy))

\* Slip: the flag of a way whose nodes stay the same is cleared though a
\* node has moved
CompareIdsOnly(s, l, w) ==
    LET checked == FoldLeft(LAMBDA t, n : DropWayNode(CheckWayNode(t, l, n), l, n), s, l[w].nodes)
    IN  IF l[w].nodes = s.cm.f[w].members
        THEN Clear(checked, w, {"WAYNODE_IDS_CHANGED", "GEOMETRY_CHANGED"})
        ELSE Clear(checked, w, {})

CompareWayNodes(s, l, w) ==
    LET checked == FoldLeft(LAMBDA t, n : DropWayNode(CheckWayNode(t, l, n), l, n), s, l[w].nodes)
        idsChanged == l[w].nodes # s.cm.f[w].members
    IN  Clear(checked, w, (IF idsChanged THEN {} ELSE {"WAYNODE_IDS_CHANGED"})
                          \union (IF idsChanged \/ GeometryChanges(s, l, w) THEN {}
                                  ELSE {"GEOMETRY_CHANGED"}))

CompareAreaStatus(s, l, f) ==
    IF l[f].area # Is(s.cm.f[f], "WILL_BE_AREA")
    THEN [s EXCEPT !.cm = AddFlags(@, f, {"AREA_STATUS_CHANGED"})] ELSE s

\* The reference of a way or relation in its northwest tile; one that ends
\* there is in no other
Locate(s, l, f, tile) ==
    LET found == SetRef(s, f, RefOfLocal(l, f, tile))
    IN  IF Southeast(l, f) = NoTip THEN SetRefSE(found, f, SingleTile) ELSE found

LocateWay(s, l, w, tile) ==
    IF tile = Northwest(l, w) THEN Locate(s, l, w, tile) ELSE SetRefSE(s, w, RefOfLocal(l, w, tile))
CompareWay(s, l, w) ==
    IF IsDeleted(s.cm.f[w]) THEN CompareWayNodes(s, l, w)
    ELSE CompareAreaStatus(ClearTags(CompareWayNodes(s, l, w), l, w), l, w)
SetBounds(s, l, f) == [s EXCEPT !.cm.f[f].box = BoxOf(l, f)]

\* Slip: the copy in the southeast is compared as well
ReadBothWays(s, l, w, tile) ==
    IF ~Peek(s.cm, w) THEN ScanWayNodes(s, l, w, tile)
    ELSE IF ~s.cm.f[w].changed THEN ScanWayNodes(LocateWay(s, l, w, tile), l, w, tile)
    ELSE CompareWay(SetBounds(LocateWay(s, l, w, tile), l, w), l, w)

ReadWay(s, l, w, tile) ==
    IF ~Peek(s.cm, w) THEN ScanWayNodes(s, l, w, tile)
    ELSE IF tile # Northwest(l, w) \/ ~s.cm.f[w].changed
    THEN ScanWayNodes(LocateWay(s, l, w, tile), l, w, tile)
    ELSE CompareWay(SetBounds(LocateWay(s, l, w, tile), l, w), l, w)

-----------------------------------------------------------------------------
(* Relations *)

\* A reference that a member table has: to the member in this tile, or in one
\* of its own
FindMember(s, l, f, tile) ==
    LET at == TileOfEntry(l, f, tile)
    IN  IF ~Peek(s.cm, f) THEN s
        ELSE IF at = Northwest(l, f) THEN SetRef(s, f, RefIn(l, f, at))
        ELSE SetRefSE(s, f, RefIn(l, f, at))

Names(members) == {m.f : m \in ToSet(members)}
\* The members that are not among the others, each once
Without(members, others) ==
    LET F == FoldLeft(LAMBDA a, m : IF m.f \in others \union ToSet(a) THEN a ELSE Append(a, m.f),
                      <<>>, members)
    IN  F

CheckMembers(s, l, r, tile) ==
    LET past == l[r].members
        future == s.cm.f[r].members
        located == FoldLeft(LAMBDA t, m : FindMember(t, l, m.f, tile), s, past)
        Removed(t, f) ==
            LET at == TileOfEntry(l, f, tile)
            IN  AddAction(t, MembershipChange("removed", f, RefIn(l, f, at), at # Northwest(l, f), r))
        removed == FoldLeft(Removed, located, Without(past, Names(future)))
        Added(t, f) == AddAction(t, MembershipChange("added", f, Unknown, FALSE, r))
        added == FoldLeft(Added, removed, Without(future, Names(past)))
    IN  Clear(added, r, IF past = future THEN {"MEMBERS_CHANGED"} ELSE {})

ReadRelation(s, l, r, tile) ==
    LET found == SetBounds(Locate(s, l, r, tile), l, r)
    IN  IF ~Peek(s.cm, r) THEN s
        ELSE IF tile # Northwest(l, r) THEN SetRefSE(s, r, RefOfLocal(l, r, tile))
        ELSE IF ~s.cm.f[r].changed THEN Locate(s, l, r, tile)
        ELSE CheckMembers(IF IsDeleted(s.cm.f[r]) THEN found ELSE ClearTags(found, l, r), l, r, tile)

ReadTileFeature(s, l, f, tile) ==
    CASE f[1] = 0 -> ReadNode(s, l, f, tile)
      [] f[1] = 1 -> ReadWay(s, l, f, tile)
      [] f[1] = 2 -> ReadRelation(s, l, f, tile)

-----------------------------------------------------------------------------
(* ChangeAction *)

OfferRef(cm, a) ==
    IF a.ref = Unknown THEN cm
    ELSE IF a.se THEN [cm EXCEPT !.f[a.f].refSE = Offer(@, a.ref)]
    ELSE [cm EXCEPT !.f[a.f].ref = Offer(@, a.ref)]

\* NodeBecomesCoincident, NodeRemovedFromWay
MarkNode(cm, a, flag) ==
    [AddFlags(cm, a.f, {flag}) EXCEPT !.f[a.f].xy = IF @ = NoXY THEN a.xy ELSE @]

\* MembershipChange::Added, Removed
ChangeMembership(cm, a) ==
    [AddFlags(cm, a.f, {"RELTABLE_CHANGED", IF a.kind = "added" THEN "ADDED_TO_RELATION"
                                            ELSE "REMOVED_FROM_RELATION"})
        EXCEPT !.f[a.f].changes = <<[added |-> a.kind = "added", rel |-> a.rel]>> \o @]

\* ImplicitWayGeometryChange
ChangeGeometry(cm, l, a) ==
    LET bounded == [cm EXCEPT !.f[a.f].box = BoxOf(l, a.f)]
        loaded == IF cm.f[a.f].members = <<>> THEN LoadWayNodes(bounded, l, a.f, a.ref.tip)
                  ELSE bounded
    IN  AddFlags(loaded, a.f, {"GEOMETRY_CHANGED"})

Apply(cm, l, a) ==
    LET changed == OfferRef(GetChanged(cm, a.f), a)
    IN  CASE a.kind = "becomes_coincident" -> MarkNode(changed, a, "NODE_WILL_SHARE_LOCATION")
          [] a.kind = "removed_from_way" -> MarkNode(changed, a, "REMOVED_FROM_WAY")
          [] a.kind = "becomes_waynode" -> changed
          [] a.kind \in {"added", "removed"} -> ChangeMembership(changed, a)
          [] a.kind = "implicit_geometry" -> ChangeGeometry(changed, l, a)
ApplyActions(cm, l, acts) == FoldLeft(LAMBDA c, a : Apply(c, l, a), cm, acts)
=============================================================================
