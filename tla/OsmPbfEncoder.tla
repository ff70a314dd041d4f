---------------------------- MODULE OsmPbfEncoder ----------------------------
(***************************************************************************)
(* Blocks of an OSM PBF file (src/osm/OsmPbfEncoder.cpp). A block has      *)
(* features of one type, and the strings that they use, each once; where a *)
(* feature refers to a string, it has its number in the block. Of nodes,   *)
(* the ids, latitudes, longitudes and tags are in sections of their own,   *)
(* and each value is the difference to the one before.                     *)
(*                                                                         *)
(* A feature to be encoded is a record of f, its name <<type, id>>; tags,  *)
(* a sequence of <<key, value>>; and at, its place on a line, or members,  *)
(* ([f, role]; nodes of ways have no role). The line stands for both       *)
(* latitudes and longitudes. Places where nodes are stored with ways are   *)
(* left out.                                                               *)
(***************************************************************************)
EXTENDS Integers, FiniteSets, SequencesExt

CONSTANTS StringsSize,  \* bytes for the strings of a block
          SectionSize   \* bytes for a section, a quarter of the features

ASSUME SectionsAssumption == StringsSize \in Nat /\ SectionSize \in Nat

EmptyString == ""
Margin == 2             \* the bytes of the longest varint
Width(x) == IF x \in -8..7 THEN 1 ELSE Margin

\* A block under construction; ids, lats, tags are the bytes used in the
\* sections of nodes, and ids those of all other features
NoBlock == [group |-> -1, strings |-> <<>>, index |-> [s \in {} |-> 0], count |-> 0,
            feats |-> <<>>, prevId |-> 0, prevAt |-> 0, ids |-> 0, lats |-> 0, tags |-> 0]

\* Slip: the strings are counted on from the block before
StartCountingOn(e, group) ==
    [NoBlock EXCEPT !.group = group, !.strings = <<EmptyString>>,
        !.count = IF e.group = -1 THEN 1 ELSE e.count,
        !.index = IF group = 0 THEN @ ELSE [s \in {EmptyString} |-> 0]]

\* start(): number 0 is the empty string, but not in nodes, where it is the end
\* of the tags of a node
Start(e, group) ==
    [NoBlock EXCEPT !.group = group, !.strings = <<EmptyString>>, !.count = 1,
        !.index = IF group = 0 THEN @ ELSE [s \in {EmptyString} |-> 0]]

\* addString(): a string takes two bytes, one of them the tag of its entry
Known(e, s) == s \in DOMAIN e.index /\ e.index[s] >= 0
StringsUsed(e) == 2 * Len(e.strings)
Numbered(index, s, n) == [t \in DOMAIN index \union {s} |-> IF t = s THEN n ELSE index[t]]
GetString(e, s) ==
    IF Known(e, s) THEN e
    ELSE IF StringsUsed(e) + 1 >= StringsSize
    THEN [e EXCEPT !.index = Numbered(@, s, -1)]
    ELSE [e EXCEPT !.strings = Append(@, s), !.index = Numbered(@, s, e.count), !.count = @ + 1]

StringsOf(x) ==
    (IF x.f[1] = 2 THEN [i \in DOMAIN x.members |-> x.members[i].role] ELSE <<>>)
    \o [i \in 1..(2 * Len(x.tags)) |-> x.tags[(i + 1) \div 2][IF i % 2 = 1 THEN 1 ELSE 2]]
Full(e) == \E s \in DOMAIN e.index : e.index[s] < 0
\* The strings up to the first for which there is no room
AddStrings(e, x) ==
    LET strings == StringsOf(x)
        added[i \in 0..Len(strings)] ==
            IF i = 0 THEN e
            ELSE IF Full(added[i - 1]) THEN added[i - 1]
            ELSE GetString(added[i - 1], strings[i])
    IN  added[Len(strings)]

TagCodes(e, x) == [i \in DOMAIN x.tags |-> <<e.index[x.tags[i][1]], e.index[x.tags[i][2]]>>]
TagBytes(x) == 2 * Len(x.tags)

\* addNode(): the sections have a safety margin, which is checked before a
\* value is written; that of the ids is at the end of the latitudes
IdsEnd == 2 * SectionSize - Margin
NodeFits(e, x) ==
    /\ \A i \in DOMAIN x.tags : e.tags + 2 * (i - 1) <= SectionSize - Margin
    /\ e.tags + TagBytes(x) <= SectionSize - Margin
    /\ e.ids <= IdsEnd
    /\ e.lats <= SectionSize - Margin
WriteNode(e, x) ==
    [e EXCEPT !.feats = Append(@, [id |-> x.f[2] - e.prevId, at |-> x.at - e.prevAt,
                                   tags |-> TagCodes(e, x)]),
              !.prevId = x.f[2], !.prevAt = x.at,
              !.ids = @ + Width(x.f[2] - e.prevId), !.lats = @ + Width(x.at - e.prevAt),
              !.tags = @ + TagBytes(x) + 1]

\* addWay(), addRelation(): the numbers of the members are differences, too
Deltas(members) ==
    [i \in DOMAIN members |-> members[i].f[2] - IF i = 1 THEN 0 ELSE members[i - 1].f[2]]
BodySize(x) == 1 + TagBytes(x) + Len(x.members) * (IF x.f[1] = 1 THEN 1 ELSE 3)
BodyFits(e, x) == e.ids + BodySize(x) <= 4 * SectionSize - Margin
WriteBody(e, x) ==
    LET Member(i) == [id |-> Deltas(x.members)[i], type |-> x.members[i].f[1],
                      role |-> IF x.f[1] = 1 THEN 0 ELSE e.index[x.members[i].role]]
    IN  [e EXCEPT !.feats = Append(@, [id |-> x.f[2], tags |-> TagCodes(e, x),
                                       members |-> [i \in DOMAIN x.members |-> Member(i)]]),
                  !.ids = @ + BodySize(x) + 1]

\* What there is no room for is taken back, but for the numbers of its strings
Undo(e, d) == [e EXCEPT !.index = d.index, !.count = d.count]
Fits(e, x) ==
    LET d == AddStrings(e, x)
    IN  ~Full(d) /\ (IF x.f[1] = 0 THEN NodeFits(d, x) ELSE BodyFits(d, x))
Add(e, x) ==
    LET d == AddStrings(e, x)
    IN  IF ~Fits(e, x) THEN Undo(e, d) ELSE IF x.f[1] = 0 THEN WriteNode(d, x) ELSE WriteBody(d, x)

-----------------------------------------------------------------------------
(* What a reader of the file makes of a block *)

StringAt(b, n) == IF n + 1 \in DOMAIN b.strings THEN b.strings[n + 1] ELSE "no such string"
TagsRead(b, x) == [i \in DOMAIN x.tags |-> <<StringAt(b, x.tags[i][1]), StringAt(b, x.tags[i][2])>>]
SumOf(values) ==
    LET sum[i \in 0..Len(values)] == IF i = 0 THEN 0 ELSE sum[i - 1] + values[i]
    IN  sum[Len(values)]

NodeRead(b, i) ==
    [f |-> <<0, SumOf([j \in 1..i |-> b.feats[j].id])>>, at |-> SumOf([j \in 1..i |-> b.feats[j].at]),
     tags |-> TagsRead(b, b.feats[i])]
BodyRead(b, i) ==
    LET x == b.feats[i]
        Id(k) == SumOf([j \in 1..k |-> x.members[j].id])
        Type(k) == IF b.group = 1 THEN 0 ELSE x.members[k].type
    IN  [f |-> <<b.group, x.id>>, tags |-> TagsRead(b, x),
         members |-> [k \in DOMAIN x.members |->
                        [f |-> <<Type(k), Id(k)>>, role |-> StringAt(b, x.members[k].role)]]]
Read(b) ==
    [i \in DOMAIN b.feats |-> IF b.group = 0 THEN NodeRead(b, i) ELSE BodyRead(b, i)]

\* The ids of a block have run into its latitudes
Overrun(b) == b.group = 0 /\ b.ids > SectionSize
=============================================================================
