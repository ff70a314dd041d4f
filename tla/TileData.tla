------------------------------ MODULE TileData ------------------------------
(***************************************************************************)
(* What a tile holds (src/tile/model) and the tables it is encoded with.   *)
(*                                                                         *)
(* A feature is named by <<type, id>> (0 node, 1 way, 2 relation). Strings *)
(* are small numbers. A coordinate is one number: both axes are encoded by *)
(* the same code, and the model keeps one of them. A tile is a record      *)
(*   feats    its features, a function from names to records               *)
(*   lo, hi   its bounds        ids  TRUE if ways store their node ids     *)
(*   exports  the features other tiles refer to by number (TEX)            *)
(* and a feature is a record of tags, its relation table (<<>>: none), and *)
(*   node      xy, waynode, shared, exc (the three node flags)             *)
(*   way       box, coords (the first relative to the box, then deltas),   *)
(*             ids (deltas), nodes (the node table), area, west            *)
(*   relation  box, members (the member table), area, west                 *)
(***************************************************************************)
EXTENDS Integers, Sequences, FiniteSets, SequencesExt

\* Constants of the geodesk library
START_TIP == 32768
TIP_BITS == 15

\* The template parameters of TableEncoder: the foreign and the role flag of
\* an entry, the bits of a narrow TEX delta, and the TEX deltas start from
Member == [foreign |-> 1, role |-> 2, bits |-> 11, start |-> 1024]
WayNode == [foreign |-> 1, role |-> 0, bits |-> 12, start |-> 2048]
Parent == [foreign |-> 0, role |-> 0, bits |-> 12, start |-> 2048]

TAGS_CHANGED == 1
SHARED_TAGS == 2
RELATIONS_CHANGED == 4
GEOMETRY_CHANGED == 8
MEMBERS_CHANGED == 16
NODE_BELONGS_TO_WAY == 16
NODE_IDS_CHANGED == 32
BBOX_CHANGED == 32
HAS_SHARED_LOCATION == 32
IS_AREA == 64
IS_EXCEPTION_NODE == 64

Has(flags, bit) == (flags \div bit) % 2 = 1
Flag(test, bit) == IF test THEN bit ELSE 0
\* flags | bit
Or(flags, bit) == IF Has(flags, bit) THEN flags ELSE flags + bit

Zigzag(n) == IF n >= 0 THEN 2 * n ELSE -2 * n - 1
Unzigzag(u) == IF u % 2 = 0 THEN u \div 2 ELSE -((u + 1) \div 2)
IsWide(delta, bits) == delta < -(2 ^ (bits - 1)) \/ delta >= 2 ^ (bits - 1)

-----------------------------------------------------------------------------
(* Tag tables. A tag has a key (a string if local), a type of its value    *)
(* (Bit 1: wide; 3: a local string) and a value.                           *)

LOCAL_STRING == 3
EmptyTags == [loc |-> <<>>, glob |-> <<[k |-> 0, t |-> 1, v |-> 0]>>]

TagSize(local, type) == (IF local THEN 6 ELSE 4) + 2 * (type \div 2)
SizeOfTags(local, tags) ==
    FoldLeft(LAMBDA n, tag : n + TagSize(local, tag.t), 0, tags)

StringsOfTags(tags) ==
    {tag.k : tag \in ToSet(tags.loc)} \union
    {tag.v : tag \in {x \in ToSet(tags.loc \o tags.glob) : x.t = LOCAL_STRING}}

-----------------------------------------------------------------------------
(* Entries of the tables that refer to features. A local entry names its   *)
(* feature, a foreign one gives the difference of its TEX to that of the   *)
(* foreign entry before it and, if its tile is another one, of its TIP.    *)
(* A role (2 * global + 1, or 2 * string) is given where it changes.       *)

DefaultRole == 1
SameRole == -1

Local(f, role) ==
    [f |-> f, far |-> FALSE, diff |-> FALSE, tip |-> 0, tex |-> 0, role |-> role]
Foreign(diff, tip, tex, role) ==
    [f |-> <<>>, far |-> TRUE, diff |-> diff, tip |-> tip, tex |-> tex, role |-> role]

DeltaSize(wide) == IF wide THEN 4 ELSE 2
EntrySize(kind, e) ==
    (IF e.far THEN DeltaSize(IsWide(e.tex, kind.bits)) ELSE 4)
    + (IF e.diff THEN DeltaSize(IsWide(e.tip, TIP_BITS)) ELSE 0)
    + (IF e.role = SameRole THEN 0 ELSE IF e.role % 2 = 1 THEN 2 ELSE 4)
SizeOfTable(kind, table) ==
    FoldLeft(LAMBDA n, e : n + EntrySize(kind, e), 0, table)

\* TRUE for the pointers that must be adjusted when the table is moved
HasLocals(table) == \E e \in ToSet(table) : ~e.far \/ (e.role # SameRole /\ e.role % 2 = 0)

IndexIn(seq, x) == SelectInSeq(seq, LAMBDA y : y = x) - 1

\* What an entry is written as: a feature by its place in order (less base),
\* a string by its place in strings
EntryTokens(kind, e, order, base, strings) ==
    LET changes == e.role # SameRole
        roleFlag == Flag(changes, kind.role)
        localUnit == IF kind.role > 0 THEN 4 ELSE 2
        foreignUnit == (2 * (1 + kind.foreign)) * (IF kind.role > 0 THEN 2 ELSE 1)
    IN  (IF e.far
         THEN <<Zigzag(e.tex) * foreignUnit + kind.foreign + roleFlag
                + Flag(e.diff, foreignUnit \div 2)>>
              \o (IF e.diff THEN <<Zigzag(e.tip)>> ELSE <<>>)
         ELSE <<(IndexIn(order, e.f) - base) * localUnit + roleFlag>>)
        \o (IF ~changes THEN <<>>
            ELSE <<IF e.role % 2 = 1 THEN e.role ELSE 2 * IndexIn(strings, e.role \div 2)>>)

Concat(seqs) == FoldLeft(LAMBDA a, s : a \o s, <<>>, seqs)
Map(Op(_), s) == [i \in DOMAIN s |-> Op(s[i])]

TableTokens(kind, table, order, base, strings) ==
    LET Entry(e) == EntryTokens(kind, e, order, base, strings)
    IN  Concat(Map(Entry, table))

-----------------------------------------------------------------------------
\* Features in the order of their numbers: by type, then by id
Before(f, g) == f[1] < g[1] \/ (f[1] = g[1] /\ f[2] < g[2])
Insert(f, s) == SelectSeq(s, LAMBDA g : Before(g, f)) \o <<f>> \o SelectSeq(s, LAMBDA g : Before(f, g))
Ordered(fs) == FoldSet(Insert, <<>>, fs)
OfType(order, type) == SelectSeq(order, LAMBDA f : f[1] = type)

\* The index of features: ids as deltas with a bit for "changed"; a zero
\* closes a type, the last type that has features stays open
IndexTokens(order, changed) ==
    LET Ids(i) == FoldLeft(LAMBDA a, f :
                        [prev |-> f[2],
                         out |-> Append(a.out, 2 * (f[2] - a.prev) + Flag(f \in changed, 1))],
                        [prev |-> 0, out |-> <<>>], OfType(order, i)).out
        last == IF order = <<>> THEN 0 ELSE Last(order)[1]
    IN  <<Len(order)>> \o Ids(0)
        \o (IF last > 0 THEN <<0>> \o Ids(1) ELSE <<>>)
        \o (IF last > 1 THEN <<0>> \o Ids(2) ELSE <<>>)

\* A tag table: its size (Bit 0: has local tags), its local tags, then its
\* global ones with their keys as deltas
TagTableTokens(tags, strings) ==
    LET Value(tag) == IF tag.t = LOCAL_STRING THEN IndexIn(strings, tag.v) ELSE tag.v
        locals == SizeOfTags(TRUE, tags.loc)
        LocalTag(tag) == <<4 * IndexIn(strings, tag.k) + tag.t, Value(tag)>>
        Globals == FoldLeft(LAMBDA a, tag :
                        [prev |-> tag.k,
                         out |-> a.out \o <<4 * (tag.k - a.prev) + tag.t, Value(tag)>>],
                        [prev |-> 0, out |-> <<>>], tags.glob).out
    IN  <<locals + SizeOfTags(FALSE, tags.glob) + Flag(tags.loc # <<>>, 1)>>
        \o (IF tags.loc = <<>> THEN <<>>
            ELSE <<locals \div 2>> \o Concat(Map(LocalTag, tags.loc)))
        \o Globals

\* Differences of successive elements, the first to start
Deltas(s, start) ==
    [i \in DOMAIN s |-> s[i] - (IF i = 1 THEN start ELSE s[i - 1])]
\* ... and the elements again
Sums(d, start) ==
    FoldLeft(LAMBDA a, x : Append(a, x + (IF a = <<>> THEN start ELSE Last(a))), <<>>, d)

Box(xs) == [lo |-> Min(xs), hi |-> Max(xs)]

\* The tables more than one feature uses, which the stream numbers; tables
\* is the function from the features to theirs
Shared(tables) ==
    SetToSeq({tables[f] : f \in
                {g \in DOMAIN tables :
                   /\ tables[g] # <<>>
                   /\ \E h \in DOMAIN tables \ {g} : tables[h] = tables[g]}})
=============================================================================
