--------------------------- MODULE OsmQueryPrinter ---------------------------
(***************************************************************************)
(* The features that a query puts into an OSM file: the results, and what  *)
(* they need (src/gol/query/OsmQueryPrinter.cpp, for PBF, and              *)
(* XmlQueryPrinter.cpp). They are collected in the order in which the      *)
(* results come, and sorted.                                               *)
(*                                                                         *)
(* lib is the library, a function from names <<type, id>> to records of    *)
(* tags and at (nodes), or tags and members; a relation has a kind, the    *)
(* value of its tag "type". A query q is a record: accepted, the features  *)
(* that are in its area; complete, the kinds of relations whose members    *)
(* are all taken, or "all"; format.                                        *)
(***************************************************************************)
EXTENDS Integers, FiniteSets, SequencesExt

\* Names of features; members are in the library, those of ways are nodes
\* without a role
Names == (0..2) \X Int
Members(lib) == [f : DOMAIN lib, role : STRING]
IsLibrary(lib) ==
    /\ IsFiniteSet(DOMAIN lib) /\ DOMAIN lib \subseteq Names
    /\ \A f \in DOMAIN lib :
        /\ lib[f].tags \in Seq(STRING \X STRING)
        /\ f[1] = 0 => lib[f].at \in Int
        /\ f[1] # 0 => lib[f].members \in Seq(Members(lib))
        /\ f[1] = 1 => \A i \in DOMAIN lib[f].members :
                            lib[f].members[i].f[1] = 0 /\ lib[f].members[i].role = ""

\* CompleteRelationSet::contains(): the relations that the query asks to complete
Completes(q, lib, r) == "all" \in q.complete \/ lib[r].kind \in q.complete

\* addRelation(): that of XML does not ask, and takes all members
CompleteRelation(q, lib, r) == q.format = "xml" \/ Completes(q, lib, r)

NodesOfWay(lib, w) == {lib[w].members[i].f : i \in DOMAIN lib[w].members}
AcceptMember(q, f) == f \in q.accepted

\* addFeature(): s are the features that are collected, x is a call for the
\* feature x.f; calls for members that are not taken are not made. A way brings
\* its nodes, a relation its members, but only when they are inserted, since
\* relations may contain each other
Inserted(lib, s, x) ==
    IF ~x.taken THEN s
    ELSE s \union {x.f} \union (IF x.f[1] = 1 /\ x.f \notin s THEN NodesOfWay(lib, x.f) ELSE {})
CallsFor(q, lib, s, x) ==
    IF x.taken /\ x.f[1] = 2 /\ x.f \notin s
    THEN [i \in DOMAIN lib[x.f].members |->
            LET m == lib[x.f].members[i].f
            IN  [f |-> m, taken |-> CompleteRelation(q, lib, x.f) \/ AcceptMember(q, m)]]
    ELSE <<>>
Calls(lib) == [f : DOMAIN lib, taken : BOOLEAN]

\* The calls are made in turn, those for the members of a relation before the
\* rest; p is what is collected and the calls that are left
NextCall(q, lib, p) ==
    <<Inserted(lib, p[1], Head(p[2])), CallsFor(q, lib, p[1], Head(p[2])) \o Tail(p[2])>>
AddFeatures(features, q, lib, calls) ==
    LET added[p \in (SUBSET DOMAIN lib) \X Seq(Calls(lib))] ==
            IF p[2] = <<>> THEN p[1] ELSE added[NextCall(q, lib, p)]
    IN  added[<<features, calls>>]
\* processBatch()
AddResults(features, q, results) ==
    AddFeatures(features, q, q.lib, [i \in DOMAIN results |-> [f |-> results[i], taken |-> TRUE]])

Before(f, g) == f[1] < g[1] \/ (f[1] = g[1] /\ f[2] < g[2])
\* printFeatures(): a type after the other, by id
Sorted(features) ==
    [i \in 1..Cardinality(features) |->
        CHOOSE f \in features : Cardinality({g \in features : Before(g, f)}) = i - 1]
Encoded(lib, f) ==
    IF f[1] = 0 THEN [f |-> f, at |-> lib[f].at, tags |-> lib[f].tags]
    ELSE [f |-> f, tags |-> lib[f].tags, members |-> lib[f].members]
Features(lib, features) ==
    LET s == Sorted(features) IN [i \in DOMAIN s |-> Encoded(lib, s[i])]

\* What an OSM file of the query must have: the least set with the results that
\* has all nodes of its ways and, of its relations, all members if the query asks
\* to complete it, or else those that are accepted. It is the same for each
\* format: "Complete geometries for relation types (pbf and xml only)"
Needs(q, lib, f) ==
    CASE f[1] = 0 -> {}
      [] f[1] = 1 -> NodesOfWay(lib, f)
      [] f[1] = 2 -> {m.f : m \in {n \in ToSet(lib[f].members) :
                                      Completes(q, lib, f) \/ AcceptMember(q, n.f)}}
Wanted(q, lib, results) ==
    LET closed == {s \in SUBSET DOMAIN lib :
                      results \subseteq s /\ \A f \in s : Needs(q, lib, f) \subseteq s}
    IN  CHOOSE s \in closed : \A t \in closed : s \subseteq t
=============================================================================
