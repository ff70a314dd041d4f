-------------------------- MODULE MCChangeAnalysis --------------------------
(* Three nodes and a new one on a line of four places, a way, and a         *)
(* relation; every pair of changes that leaves the data consistent, and     *)
(* several versions of one feature in either order                          *)
EXTENDS ChangeAnalysis

n1 == <<0, 1>>
n2 == <<0, 2>>
n3 == <<0, 3>>
n4 == <<0, 4>>
w1 == <<1, 1>>
r1 == <<2, 1>>

Node(x, tags) == [xy |-> x, tags |-> tags]
Way(nodes) == [nodes |-> nodes, tags |-> "road", area |-> FALSE]
M(f) == [f |-> f, role |-> NoRole]
Rel(members) == [members |-> members, tags |-> "route"]

Lib(tags3, nodes, members) ==
    (n1 :> Node(1, NoTags)) @@ (n2 :> Node(2, "poi")) @@ (n3 :> Node(3, tags3))
    @@ (w1 :> Way(nodes))
    @@ IF members = <<>> THEN <<>> ELSE (r1 :> Rel(members))
\* Every node of a library is a feature or belongs to a way
Libs == {l \in {Lib(t, n, m) : t \in {NoTags, "poi"}, n \in {<<n1, n2>>, <<n1, n3>>, <<n1, n2, n3>>},
                               m \in {<<>>, <<M(n2), M(w1)>>, <<M(n3)>>, <<M(w1), M(n3)>>}} :
             \A n \in {n1, n2, n3} : IsFeature(l, n) \/ WaysOf(l, n) # {}}

Change(f, tags, xy, members) ==
    [deleted |-> FALSE, f |-> f, version |-> 2, xy |-> xy, tags |-> tags, members |-> members]
Deletion(f) == [Change(f, NoTags, NoXY, <<>>) EXCEPT !.deleted = TRUE]
NodeChange(n, xy, tags) == Change(n, tags, xy, <<>>)
WayChange(nodes, tags) == Change(w1, tags, NoXY, [i \in DOMAIN nodes |-> M(nodes[i])])
RelChange(members) == Change(r1, "route", NoXY, members)

Edits ==
    {NodeChange(n1, 3, NoTags), NodeChange(n1, 1, "poi"),
     NodeChange(n2, 4, "poi"), NodeChange(n2, 2, NoTags), NodeChange(n2, 1, "poi"),
     NodeChange(n3, 1, NoTags), NodeChange(n3, 4, "poi"), Deletion(n3),
     NodeChange(n4, 3, NoTags), NodeChange(n4, 1, "poi"),
     WayChange(<<n1, n2>>, "road"), WayChange(<<n1, n2, n3>>, "road"),
     WayChange(<<n3, n4>>, "road"), WayChange(<<n1, n2, n3, n1>>, AreaTags), Deletion(w1),
     RelChange(<<M(n2), M(w1)>>), RelChange(<<M(w1), [f |-> n3, role |-> Outer]>>),
     WayChange(<<n2, n3>>, "path"), RelChange(<<M(n1), M(r1)>>), Deletion(r1)}

Gone(cs) == {c.f : c \in {d \in cs : IsGone(d)}}
Missing4(l, cs) ==
    {c.f : c \in {d \in cs : d.f[1] = 1 /\ n4 \in ToSet(Stored(d)) /\ \A e \in cs : e.f # n4}}
Consistent(l, cs) ==
    LET dead == Gone(cs) \union Missing4(l, cs)
    IN  /\ Gone(cs) \subseteq DOMAIN l
        /\ \A f \in DOMAIN l : f[1] = 1 /\ (\A c \in cs : c.f # f) => ToSet(l[f].nodes) \intersect dead = {}
        /\ \A f \in DOMAIN l : f[1] = 2 /\ (\A c \in cs : c.f # f)
                => {m.f : m \in ToSet(l[f].members)} \intersect dead = {}
        /\ \A c \in cs : c.f[1] = 1 => ToSet(Stored(c)) \intersect Gone(cs) = {}

Pairs == {{c, d} : c, d \in Edits}
Versions(c, d) == <<[c EXCEPT !.version = 3], d>>
MCCases ==
    UNION {{[lib |-> l, changes |-> SetToSeq(p)] :
               p \in {q \in Pairs : /\ \A c, d \in q : c.f = d.f => c = d
                                    /\ Consistent(l, q)}} : l \in Libs}
    \union {[lib |-> l, changes |-> s] :
               l \in {Lib("poi", <<n1, n2>>, <<M(n2), M(w1)>>)},
               s \in {Versions(NodeChange(n2, 4, "poi"), NodeChange(n2, 1, NoTags)),
                      Reverse(Versions(NodeChange(n2, 4, "poi"), NodeChange(n2, 1, NoTags))),
                      Versions(WayChange(<<n1, n3>>, "road"), Deletion(w1)) \o <<RelChange(<<M(w1)>>)>>,
                      <<NodeChange(n3, 4, "poi"), Deletion(n3)>>,
                      <<Deletion(n3), NodeChange(n3, 4, "poi")>>}}
=============================================================================
