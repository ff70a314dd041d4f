---------------------------- MODULE ChangeAnalysis ----------------------------
(***************************************************************************)
(* The analysis of an update (Updater::update() and processChanges()): the *)
(* changes are read one after the other, threads search the tiles for the  *)
(* features that they are about, and then the changed nodes, ways and      *)
(* relations are processed in turn, from stacks. In the end, the changed   *)
(* tiles list what is to be written about each.                            *)
(*                                                                         *)
(* A case is a library before the update and the changes in the order in   *)
(* which they are read. A change is read in one step, and so is a feature  *)
(* of a tile; steps of different threads interleave.                       *)
(***************************************************************************)
EXTENDS ChangeReader, TileChangeAnalyzer, FeatureUpdate

CONSTANTS Cases,        \* [lib, changes]
          Threads       \* 1..n

VARIABLES case, feed, cm, stage,
          list,         \* the stack that is being processed
          tasks,        \* tiles nobody has taken
          worker,       \* [tile, todo, acts] of each thread
          wrote         \* by which tiles flags or bounds of a feature were written

vars == <<case, feed, cm, stage, list, tasks, worker, wrote>>

lib == case.lib

Idle == [tile |-> NoTip, todo |-> <<>>, acts |-> <<>>]

Init ==
    /\ case \in Cases
    /\ feed = case.changes
    /\ cm = EmptyModel
    /\ stage = "read"
    /\ list = <<>> /\ tasks = <<>>
    /\ worker = [w \in Threads |-> Idle]
    /\ wrote = [f \in DOMAIN case.lib |-> {}]

ReadChange ==
    /\ stage = "read" /\ feed # <<>>
    /\ cm' = ReadFeature(cm, Head(feed))
    /\ feed' = Tail(feed)
    /\ UNCHANGED <<case, stage, list, tasks, worker, wrote>>

Prepare ==
    /\ stage = "read" /\ feed = <<>>
    /\ cm' = PrepareWays(PrepareNodes(cm))
    /\ tasks' = <<West, East>>
    /\ stage' = "search"
    /\ UNCHANGED <<case, feed, list, worker, wrote>>

-----------------------------------------------------------------------------
(* The search. A tile has its nodes before its ways and relations *)

FeaturesIn(l, tile) ==
    SetToSortSeq({f \in DOMAIN l : IsFeature(l, f) /\ tile \in TilesOf(l, f)},
                 LAMBDA f, g : f[1] < g[1] \/ (f[1] = g[1] /\ f[2] < g[2]))

TakeTile(w) ==
    /\ stage = "search" /\ tasks # <<>> /\ worker[w].todo = <<>>
    /\ worker' = [worker EXCEPT ![w].tile = Head(tasks), ![w].todo = FeaturesIn(lib, Head(tasks))]
    /\ tasks' = Tail(tasks)
    /\ UNCHANGED <<case, feed, cm, stage, list, wrote>>

Found(w, s) ==
    /\ cm' = s.cm
    /\ worker' = [worker EXCEPT ![w].todo = Tail(@), ![w].acts = s.acts]
    /\ wrote' = [f \in DOMAIN wrote |->
                    wrote[f] \union IF f \in s.wrote THEN {worker[w].tile} ELSE {}]
    /\ UNCHANGED <<case, feed, stage, list, tasks>>

ReadTile(w) ==
    /\ stage = "search" /\ worker[w].todo # <<>>
    /\ Found(w, ReadTileFeature([cm |-> cm, acts |-> worker[w].acts, wrote |-> {}], lib,
                                Head(worker[w].todo), worker[w].tile))

\* awaitPhaseCompletion(), and the actions of one thread after another
ApplyAll ==
    /\ stage = "search" /\ tasks = <<>>
    /\ \A w \in Threads : worker[w].todo = <<>>
    /\ cm' = FoldLeft(LAMBDA c, w : ApplyActions(c, lib, worker[w].acts), cm,
                      SetToSortSeq(Threads, LAMBDA v, w : v < w))
    /\ worker' = [w \in Threads |-> Idle]
    /\ stage' = "analyzed"
    /\ UNCHANGED <<case, feed, list, tasks, wrote>>

-----------------------------------------------------------------------------
(* Processing. A stack is moved aside before its features are processed:   *)
(* those that are pushed meanwhile wait for another turn                   *)

BeginNodes ==
    LET ready == AddNewRelationMemberships(cm)
    IN  /\ stage = "analyzed"
        /\ cm' = [ready EXCEPT !.nodes = <<>>]
        /\ list' = ready.nodes
        /\ stage' = "nodes"
        /\ UNCHANGED <<case, feed, tasks, worker, wrote>>

NextNode ==
    /\ stage = "nodes" /\ list # <<>>
    /\ cm' = ProcessNode(cm, lib, Head(list))
    /\ list' = Tail(list)
    /\ UNCHANGED <<case, feed, stage, tasks, worker, wrote>>

BeginWays ==
    /\ list = <<>> /\ stage \in {"nodes", "relations"}
    /\ stage' = IF stage = "nodes" THEN "ways" ELSE "deferred_ways"
    /\ list' = cm.ways
    /\ cm' = [cm EXCEPT !.ways = <<>>]
    /\ UNCHANGED <<case, feed, tasks, worker, wrote>>

NextWay ==
    /\ stage \in {"ways", "deferred_ways"} /\ list # <<>>
    /\ cm' = ProcessWay(cm, lib, Head(list))
    /\ list' = Tail(list)
    /\ UNCHANGED <<case, feed, stage, tasks, worker, wrote>>

BeginRelations ==
    /\ list = <<>>
    /\ stage = "ways" \/ (stage \in {"deferred_ways", "more_relations"} /\ cm.rels # <<>>)
    /\ stage' = IF stage = "ways" THEN "relations" ELSE "more_relations"
    /\ list' = cm.rels
    /\ cm' = [cm EXCEPT !.rels = <<>>]
    /\ UNCHANGED <<case, feed, tasks, worker, wrote>>

NextRelation ==
    /\ stage \in {"relations", "more_relations"} /\ list # <<>>
    /\ cm' = ProcessRelation(cm, lib, Head(list))
    /\ list' = Tail(list)
    /\ UNCHANGED <<case, feed, stage, tasks, worker, wrote>>

Finish ==
    /\ stage \in {"deferred_ways", "more_relations"} /\ list = <<>> /\ cm.rels = <<>>
    /\ stage' = "done"
    /\ UNCHANGED <<case, feed, cm, list, tasks, worker, wrote>>

Next ==
    \/ ReadChange \/ Prepare
    \/ \E w \in Threads : TakeTile(w) \/ ReadTile(w)
    \/ ApplyAll
    \/ BeginNodes \/ NextNode
    \/ BeginWays \/ NextWay
    \/ BeginRelations \/ NextRelation
    \/ Finish
    \/ stage = "done" /\ UNCHANGED vars

Spec == Init /\ [][Next]_vars

-----------------------------------------------------------------------------
(* The library that should result: of all changes of a feature the one of  *)
(* the highest version counts, and of a change and a deletion the deletion *)

Changed == {c.f : c \in ToSet(case.changes)}
Rank(c) == 2 * c.version + IF c.deleted THEN 1 ELSE 0
Latest(f) ==
    CHOOSE c \in ToSet(case.changes) :
        c.f = f /\ \A d \in ToSet(case.changes) : d.f = f => Rank(d) <= Rank(c)

After ==
    LET all == DOMAIN lib \union Changed
        given == {f \in all : f \in Changed => ~IsGone(Latest(f))}
        nodes == {f \in given : f[1] = 0}
        NodesAfter(w) == IF w \in Changed THEN Stored(Latest(w)) ELSE lib[w].nodes
        ways == {f \in given : f[1] = 1 /\ ToSet(NodesAfter(f)) \subseteq nodes}
        MembersAfter(r) == SelectSeq(IF r \in Changed THEN Stored(Latest(r)) ELSE lib[r].members,
                                     LAMBDA m : m.f \in nodes \union ways)
        rels == {f \in given : f[1] = 2 /\ MembersAfter(f) # <<>>}
        TagsAfter(f) == IF f \in Changed THEN Latest(f).tags ELSE lib[f].tags
    IN  [f \in nodes \union ways \union rels |->
            CASE f[1] = 0 -> [xy |-> IF f \in Changed THEN Latest(f).xy ELSE lib[f].xy,
                              tags |-> TagsAfter(f)]
              [] f[1] = 1 -> [nodes |-> NodesAfter(f), tags |-> TagsAfter(f),
                              area |-> IF f \in Changed THEN WillBeArea(Latest(f)) ELSE lib[f].area]
              [] f[1] = 2 -> [members |-> MembersAfter(f), tags |-> TagsAfter(f)]]

Features(l) == {f \in DOMAIN l : IsFeature(l, f)}
PastTiles(f) == IF f \in Features(lib) THEN TilesOf(lib, f) ELSE {}
NodeMoves(n) == n \in Changed /\ Latest(n).xy # lib[n].xy

-----------------------------------------------------------------------------
(* Properties of the search *)

\* The flags of a change that was compared with the feature in the library
FlagsOf(f) ==
    LET c == Latest(f)
        was == lib[f]
        Flag(flag, test) == IF test THEN {flag} ELSE {}
    IN  Flag("TAGS_CHANGED", c.tags # was.tags) \union
        CASE f[1] = 0 -> Flag("GEOMETRY_CHANGED", c.xy # was.xy)
          [] f[1] = 1 -> Flag("WAYNODE_IDS_CHANGED", Stored(c) # was.nodes)
                         \union Flag("AREA_STATUS_CHANGED", WillBeArea(c) # was.area)
                         \union Flag("GEOMETRY_CHANGED", \/ Stored(c) # was.nodes
                                                        \/ \E n \in ToSet(was.nodes) : NodeMoves(n))
          [] f[1] = 2 -> Flag("MEMBERS_CHANGED", Stored(c) # was.members)
                         \union {"GEOMETRY_CHANGED"}
Compared == {"TAGS_CHANGED", "GEOMETRY_CHANGED", "WAYNODE_IDS_CHANGED", "AREA_STATUS_CHANGED",
             "MEMBERS_CHANGED"}

Named == Changed \union UNION {{m.f : m \in ToSet(c.members)} : c \in ToSet(case.changes)}
\* Ways that change only because their nodes do
Moved == {w \in DOMAIN lib \ Changed : w[1] = 1 /\ \E n \in ToSet(lib[w].nodes) : NodeMoves(n)}

\* When all tiles are searched, however the threads took turns: the flags of
\* a change say how it differs from the library, a way that was not changed
\* is changed if one of its nodes moves, and features that the changes name are
\* known in all the tiles that they are in
FlagsCurrent ==
    \A f \in Changed \intersect Features(lib) :
        ~IsGone(Latest(f)) => cm.f[f].flags \intersect Compared = FlagsOf(f)
WaysFollowNodes ==
    \A w \in DOMAIN lib \ Changed :
        w[1] = 1 => (w \in DOMAIN cm.f /\ Is(cm.f[w], "GEOMETRY_CHANGED")
                     <=> w \in Moved)
Located ==
    \A f \in DOMAIN cm.f :
        LET tips == {cm.f[f].ref.tip, cm.f[f].refSE.tip} \ {NoTip}
        IN  IF f \in Named THEN tips = PastTiles(f)
            ELSE tips \subseteq PastTiles(f) /\ (PastTiles(f) # {} => tips # {})
Analyzed == stage = "analyzed" => FlagsCurrent /\ WaysFollowNodes /\ Located

\* No two tiles write the flags or the bounds of one feature: they are not
\* atomic, and a feature in two tiles is searched by two threads at once
OneWriter == \A f \in DOMAIN wrote : Cardinality(wrote[f]) <= 1

-----------------------------------------------------------------------------
(* Properties of the result *)

\* Features that will be there, and are taken to be missing. A node that is
\* known only because it is removed from a relation has no location; so it is
\* given up, and with it the ways that it belongs to. What is said of the
\* result holds as long as nothing is lost in this way
Lost(a) == {f \in DOMAIN cm.f \intersect DOMAIN a : cm.f[f].ref = Missing}
Complete(a) == stage = "done" /\ Lost(a) = {}

\* MISSING means that a feature does not exist
MissingAreGone == stage = "done" => Lost(After) = {}

\* A node that leaves its last relation and its tile at once: MoveNode takes
\* that it has no parents to mean that they were not loaded
MovesWithoutParents(a, f) ==
    f[1] = 0 /\ PastTiles(f) # {} /\ TilesOf(a, f) # PastTiles(f) /\ ParentsIn(a, f) = {}

\* The parents that the tiles are told a feature has are those that it will
\* have, and no feature is left with its old ones
ParentsCurrent ==
    LET a == After
    IN  Complete(a) =>
            \A f \in Features(a) :
                /\ f \in DOMAIN cm.f /\ Is(cm.f[f], "RELTABLE_LOADED") /\ ~MovesWithoutParents(a, f)
                        => cm.f[f].rels = ParentsIn(a, f)
                /\ ParentsIn(a, f) # (IF f \in Features(lib) THEN ParentsIn(lib, f) ELSE {})
                        => f \in DOMAIN cm.f /\ Is(cm.f[f], "RELTABLE_LOADED")

ListedIn(t) == cm.tiles[t].nodes \union cm.tiles[t].ways \union cm.tiles[t].rels
NewTo(f, tile) ==
    \/ tile = cm.f[f].ref.tip /\ Is(cm.f[f], "NEW_TO_NORTHWEST")
    \/ tile = cm.f[f].refSE.tip /\ Is(cm.f[f], "NEW_TO_SOUTHEAST")

\* Each tile that a changed feature will be in is told about it, and told
\* that it is new if it is; each tile that loses a node, or that had what is
\* deleted, is told to delete it; no tile is told both
TilesUpdated ==
    LET a == After
    IN  Complete(a) =>
            /\ \A f \in (Changed \union Moved) \intersect Features(a) :
                    /\ \A t \in Tiles : t \in TilesOf(a, f) <=> f \in ListedIn(t)
                    /\ \A t \in TilesOf(a, f) : NewTo(f, t) <=> t \notin PastTiles(f)
            /\ \A f \in Changed, t \in Tiles :
                    IF f \in Features(a) /\ f[1] # 0 THEN f \notin cm.tiles[t].deleted
                    ELSE f \in cm.tiles[t].deleted
                         <=> t \in PastTiles(f) /\ (f \in Features(a) => t \notin TilesOf(a, f))

\* What a tile must have a number for that it has none for yet
NeedsTex(a, p, f) ==
    /\ ~(TilesOf(a, p) \subseteq TilesOf(a, f))
    /\ ~(f \in Features(lib) /\ IsForeign(lib, f) /\ TilesOf(a, f) = PastTiles(f))
GetsTex(a, f) == \A t \in TilesOf(a, f) : f \in cm.tiles[t].gain

\* What a tile needs of another one is exported there: nodes of the ways that
\* change, and members of the relations. Members that are in the first of two
\* tiles of a relation are left out: checkMemberExports() passes over them
Exported ==
    LET a == After
    IN  Complete(a) =>
            \A p \in (Changed \union Moved) \intersect Features(a) :
                \A f \in Features(a) :
                    /\ p \in ParentsIn(a, f) \union WaysOf(a, f) /\ NeedsTex(a, p, f)
                    /\ p[1] = 2 => Northwest(a, p) \notin TilesOf(a, f)
                    => GetsTex(a, f)
=============================================================================
