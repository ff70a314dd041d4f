---------------------------- MODULE MCTileStream ----------------------------
(***************************************************************************)
(* Three tiles side by side and one above them; three nodes (the last one  *)
(* without tags), a way and two relations, of which one may be a member of *)
(* the other.                                                              *)
(***************************************************************************)
EXTENDS TileStream

Top == 32768
West == 32769
East == 60000
Far == 60001
MCTiles == (West :> [lo |-> 10, hi |-> 19]) @@ (East :> [lo |-> 20, hi |-> 29])
           @@ (Far :> [lo |-> 30, hi |-> 39]) @@ (Top :> [lo |-> 10, hi |-> 39])

n1 == <<0, 1>>
n2 == <<0, 2>>
n3 == <<0, 3>>
w1 == <<1, 1>>
r1 == <<2, 1>>
r2 == <<2, 4>>
missing == <<1, 9>>

\* Narrow and wide differences, and a feature without a TEX
MCTex == (<<n1, West>> :> 5) @@ (<<n1, East>> :> 9000) @@
         (<<n2, West>> :> 1030) @@ (<<n2, East>> :> 7) @@ (<<n2, Far>> :> 2) @@
         (<<w1, West>> :> 1024) @@ (<<w1, East>> :> NotExported) @@ (<<w1, Top>> :> 6) @@
         (<<r1, West>> :> 4000) @@ (<<r1, East>> :> 3) @@ (<<r1, Top>> :> 11) @@
         (<<r2, West>> :> 1) @@ (<<r2, East>> :> 9001) @@ (<<r2, Top>> :> 4)

\* Local and global keys; global and local strings, narrow and wide numbers
TagsA == [loc |-> <<[k |-> 7, t |-> 3, v |-> 8], [k |-> 8, t |-> 2, v |-> 99]>>,
          glob |-> <<[k |-> 2, t |-> 1, v |-> 5]>>]
TagsB == [loc |-> <<>>,
          glob |-> <<[k |-> 2, t |-> 3, v |-> 8], [k |-> 6, t |-> 0, v |-> 4]>>]

\* Roles: 1 and 5 are global, 16 and 18 the strings 8 and 9
M(f, role) == [f |-> f, role |-> role]
Members1 == {<<>>, <<M(n1, 1), M(w1, 18), M(n1, 18)>>,
             <<M(w1, 5), M(missing, 16), M(n2, 5), M(n1, 1)>>}
Members2 == {<<>>, <<M(r1, 1), M(w1, 5)>>}

World(x1, x2, t2, nodes, tags, area, m1, m2) ==
    LET Rel(r, m) == IF m = <<>> THEN Nothing
                     ELSE r :> [members |-> m, tags |-> TagsB, area |-> FALSE]
    IN  (n1 :> [xy |-> x1, tags |-> TagsA])
        @@ (IF x2 = 0 THEN Nothing ELSE n2 :> [xy |-> x2, tags |-> t2])
        @@ (n3 :> [xy |-> 17, tags |-> EmptyTags])
        @@ (w1 :> [nodes |-> nodes, tags |-> tags, area |-> area])
        @@ Rel(r1, m1) @@ Rel(r2, m2)

WorldsOf(xs, places, ways, areas) ==
    {w \in {World(x1, p[1], p[2], v[1], v[2], area, m1, m2) :
               x1 \in xs, p \in places, v \in ways, area \in areas,
               m1 \in Members1, m2 \in Members2} :
        /\ ToSet(w[w1].nodes) \subseteq DOMAIN w
        /\ \A r \in DOMAIN w : r[1] = 2 => Extent(w, r) # {}
        /\ r2 \in DOMAIN w => r1 \in DOMAIN w}

Places == {<<0, EmptyTags>>, <<12, TagsB>>, <<37, TagsA>>, <<27, EmptyTags>>}
Ways == {<<<<n1, n3>>, TagsA>>, <<<<n3, n1, n2>>, TagsB>>}

OldWorlds ==
    {World(12, 0, EmptyTags, <<n3, n1>>, TagsA, FALSE, <<>>, <<>>),
     World(12, 37, TagsA, <<n3, n1>>, TagsA, FALSE, <<M(n1, 1), M(w1, 18), M(n2, 18)>>,
           <<M(r1, 1), M(w1, 5)>>),
     World(24, 12, TagsB, <<n3, n1, n2>>, TagsB, TRUE, <<M(w1, 5), M(n1, 16)>>, <<>>)}
NewWorlds == WorldsOf({12, 24}, Places, Ways, {FALSE})
             \union WorldsOf({12}, {<<12, TagsB>>}, Ways, {TRUE})

\* A change of a way's node table is only written with another change of the
\* way, and not at all if the table is empty then; see README
Written(v, w) ==
    NodesOf(v, w1) # NodesOf(w, w1) \/ (\E n \in ToSet(NodesOf(w, w1)) : Moved(v, w, n)) =>
        /\ NodesOf(w, w1) # <<>>
        /\ FlagsOf(v, w, w1) \ {"MEMBERS_CHANGED"} # {}
MCPairs == {p \in OldWorlds \X NewWorlds : Written(p[1], p[2])}
=============================================================================
