----------------------- MODULE SuperRelationResolver -----------------------
(***************************************************************************)
(* The order in which the Sorter writes super-relations, relations that    *)
(* have other relations as members (src/build/sort/SuperRelationResolver). *)
(* resolve() descends into the members first, drops members that do not    *)
(* exist, and breaks each reference cycle it meets: the recursion is       *)
(* unwound, one relation of the cycle at a time, to the relation where the *)
(* cycle closes, the relation with the lowest score loses its member, and  *)
(* the descent is tried again.                                             *)
(*                                                                         *)
(* The call stack of resolve() is the variable stack; a frame holds its    *)
(* local variables.  Nodes and ways count only for where a relation lies:  *)
(* whether its tile pair is null, which other members may change.          *)
(***************************************************************************)
EXTENDS Integers, Sequences, FiniteSets

CONSTANTS NRels,              \* number of super-relations, in the order of their list
          Regular,            \* a member that is a relation already in the index
          Missing,            \* a member that is not in the file
          Cleared,            \* a member whose typedId was set to 0
          MaxRelationLevel,   \* MAX_RELATION_LEVEL
          Inputs              \* the possible inputs

Rels == 1..NRels
Refs == Rels \union {Regular, Missing}

ASSUME SizesAssumption == NRels \in Nat /\ MaxRelationLevel \in Nat
ASSUME RefsAssumption == /\ Regular \notin Rels /\ Missing \notin Rels
                         /\ Cleared \notin Refs /\ Regular # Missing

(* refs: the relations among the members.  tiled: some node or way of the  *)
(* relation lies in a tile.  The Sorter drops self-references.             *)
IsInput(in) == /\ in.refs \in [Rels -> Seq(Refs)]
               /\ in.tiled \in [Rels -> BOOLEAN]
               /\ in.score \in [Rels -> Int]
               /\ \A r \in Rels : \A i \in DOMAIN in.refs[r] : in.refs[r][i] # r

ASSUME InputsAssumption == \A in \in Inputs : IsInput(in)

VARIABLES
    input,
    pc,         \* "next": the loop of resolve(); "place": resolve(rel) is back;
                \* in resolve(rel): "member", "use", "failed", "break"
    cursor,     \* the relation the loop of resolve() is at
    stack,      \* the calls of resolve(rel)
    members,    \* members_ of each relation
    resolved,   \* relations with isResolved_
    pending,    \* relations with isPending_
    tiled,      \* relations whose tilePair_ is not null
    level,      \* level_
    removed,    \* removedRefcyleCount_
    missing,    \* missingMemberCount_, relations only
    cyclical,   \* cyclicalRelations_
    levels      \* levels_

relVars == <<members, resolved, pending, tiled, level, removed, missing>>
vars == <<input, pc, cursor, stack, relVars, cyclical, levels>>

Init == /\ input \in Inputs
        /\ pc = "next" /\ cursor = 1
        /\ stack = << >> /\ cyclical = << >>
        /\ members = input.refs
        /\ resolved = {} /\ pending = {}
        /\ tiled = {r \in Rels : input.tiled[r]}
        /\ level = [r \in Rels |-> 0]
        /\ removed = [r \in Rels |-> 0]
        /\ missing = [r \in Rels |-> 0]
        /\ levels = [l \in 0..MaxRelationLevel |-> {}]

-----------------------------------------------------------------------------
(* The call stack *)

Depth == Len(stack)
Top == stack[Depth]
This == Top.rel                              \* rel
Member == members[This][Top.at]              \* member.typedId
AtEnd == Top.at > Len(members[This])

NewFrame(r) == [rel |-> r, at |-> 1, child |-> r, maxChildLevel |-> 0,
                tiled |-> r \in tiled]

Call(r) == /\ stack' = Append(stack, NewFrame(r))
           /\ pending' = pending \union {r}
           /\ pc' = "member"

Return(label) == /\ stack' = SubSeq(stack, 1, Depth - 1)
                 /\ pending' = pending \ {This}
                 /\ pc' = IF Depth = 1 THEN "place" ELSE label

(* The next member, with what the frame learnt from this one               *)
Continue(lvl, t) ==
    /\ stack' = [stack EXCEPT ![Depth] = [rel |-> This, at |-> Top.at + 1,
                    child |-> Top.child, maxChildLevel |-> lvl, tiled |-> t]]
    /\ pc' = "member"

Clear(r, i) == members' = [members EXCEPT ![r][i] = Cleared]

-----------------------------------------------------------------------------
(* resolve(): the loop over all super-relations *)

Finished == pc = "next" /\ cursor > NRels

StartRelation == /\ pc = "next" /\ cursor <= NRels
                 /\ IF cursor \in resolved
                    THEN pc' = "place" /\ UNCHANGED <<stack, pending>>
                    ELSE Call(cursor)
                 /\ UNCHANGED <<input, cursor, members, resolved, tiled, level,
                                removed, missing, cyclical, levels>>

(* Empty and excessively nested relations are omitted. *)
Omitted(r) == r \notin tiled \/ level[r] > MaxRelationLevel

(* Slip: relations that are nested too deeply go to the highest level. *)
PlaceClamped ==
    /\ pc = "place"
    /\ LET l == IF level[cursor] > MaxRelationLevel THEN MaxRelationLevel
                ELSE level[cursor]
       IN  levels' = IF cursor \notin tiled THEN levels
                     ELSE [levels EXCEPT ![l] = @ \union {cursor}]
    /\ cursor' = cursor + 1
    /\ pc' = "next"
    /\ UNCHANGED <<input, stack, relVars, cyclical>>

(* Slip: the loop only goes on from a relation that is not omitted. *)
PlaceNoAdvance == /\ pc = "place"
                  /\ levels' = IF Omitted(cursor) THEN levels
                               ELSE [levels EXCEPT ![level[cursor]] = @ \union {cursor}]
                  /\ cursor' = IF Omitted(cursor) THEN cursor ELSE cursor + 1
                  /\ pc' = "next"
                  /\ UNCHANGED <<input, stack, relVars, cyclical>>

PlaceRelation == /\ pc = "place"
                 /\ levels' = IF Omitted(cursor) THEN levels
                              ELSE [levels EXCEPT ![level[cursor]] = @ \union {cursor}]
                 /\ cursor' = cursor + 1
                 /\ pc' = "next"
                 /\ UNCHANGED <<input, stack, relVars, cyclical>>

-----------------------------------------------------------------------------
(* resolve(rel): the loop over the members *)

AtMember == pc = "member" /\ ~AtEnd

SkipMember == /\ AtMember /\ Member = Cleared
              /\ Continue(Top.maxChildLevel, Top.tiled)
              /\ UNCHANGED <<input, cursor, relVars, cyclical, levels>>

UseRegular == /\ AtMember /\ Member = Regular
              /\ Continue(Top.maxChildLevel, TRUE)
              /\ UNCHANGED <<input, cursor, relVars, cyclical, levels>>

DropMissing == /\ AtMember /\ Member = Missing
               /\ Clear(This, Top.at)
               /\ Continue(Top.maxChildLevel, Top.tiled)
               /\ UNCHANGED <<input, cursor, resolved, pending, tiled, level,
                              removed, missing, cyclical, levels>>

FindResolved == /\ AtMember /\ Member \in resolved
                /\ stack' = [stack EXCEPT ![Depth].child = Member]
                /\ pc' = "use"
                /\ UNCHANGED <<input, cursor, relVars, cyclical, levels>>

(* The child is being resolved further down the stack: a reference cycle.  *)
FindCycle == /\ AtMember /\ Member \in pending \ resolved
             /\ cyclical' = Append(cyclical, <<This, Member>>)
             /\ Return("failed")
             /\ UNCHANGED <<input, cursor, members, resolved, tiled, level,
                            removed, missing, levels>>

Descend == /\ AtMember /\ Member \in Rels \ (resolved \union pending)
           /\ stack' = Append([stack EXCEPT ![Depth].child = Member], NewFrame(Member))
           /\ pending' = pending \union {Member}
           /\ UNCHANGED <<input, pc, cursor, members, resolved, tiled, level,
                          removed, missing, cyclical, levels>>

(* resolve(child) is false: the caller takes part in the cycle, too.       *)
Unwind == /\ pc = "failed"
          /\ cyclical' = Append(cyclical, <<This, Top.child>>)
          /\ IF cyclical'[1][2] = This
             THEN pc' = "break" /\ UNCHANGED <<stack, pending>>
             ELSE Return("failed")
          /\ UNCHANGED <<input, cursor, members, resolved, tiled, level,
                         removed, missing, levels>>

-----------------------------------------------------------------------------
(* breakReferenceCycle(), and another try unless this relation has lost    *)

Losers == {i \in DOMAIN cyclical :
             \A j \in DOMAIN cyclical :
                 input.score[cyclical[i][1]] <= input.score[cyclical[j][1]]}

(* clearMember(): the first occurrence only                                *)
IsFirst(r, c, i) == /\ i \in DOMAIN members[r] /\ members[r][i] = c
                    /\ \A j \in 1..(i - 1) : members[r][j] # c

ClearMember(r, c) == IF \E i \in DOMAIN members[r] : members[r][i] = c
                     THEN \E i \in DOMAIN members[r] : IsFirst(r, c, i) /\ Clear(r, i)
                     ELSE UNCHANGED members

BreakCycle == /\ pc = "break"
              /\ \E i \in Losers :
                    LET loser == cyclical[i][1] IN
                    /\ ClearMember(loser, cyclical[i][2])
                    /\ removed' = [removed EXCEPT ![loser] = @ + 1]
                    /\ IF loser = This
                       THEN pc' = "use" /\ UNCHANGED <<stack, pending>>
                       ELSE Call(Top.child)
              /\ cyclical' = << >>
              /\ UNCHANGED <<input, cursor, resolved, tiled, level, missing, levels>>

-----------------------------------------------------------------------------
(* What resolve(rel) takes over from a child *)

Larger(a, b) == IF a > b THEN a ELSE b

(* Slip: the tile of the relation itself is tested, not its child's. *)
UseChildOwnTile ==
    /\ pc = "use"
    /\ \/ /\ Member = Cleared
          /\ Continue(Top.maxChildLevel, Top.tiled)
          /\ UNCHANGED members
       \/ /\ Member # Cleared /\ This \notin tiled
          /\ Clear(This, Top.at)
          /\ Continue(Top.maxChildLevel, Top.tiled)
       \/ /\ Member # Cleared /\ This \in tiled
          /\ Continue(Larger(Top.maxChildLevel, level[Top.child]), TRUE)
          /\ UNCHANGED members
    /\ UNCHANGED <<input, cursor, resolved, pending, tiled, level,
                   removed, missing, cyclical, levels>>

UseChild == /\ pc = "use"
            /\ \/ /\ Member = Cleared
                  /\ Continue(Top.maxChildLevel, Top.tiled)
                  /\ UNCHANGED members
               \/ /\ Member # Cleared /\ Top.child \notin tiled
                  /\ Clear(This, Top.at)
                  /\ Continue(Top.maxChildLevel, Top.tiled)
               \/ /\ Member # Cleared /\ Top.child \in tiled
                  /\ Continue(Larger(Top.maxChildLevel, level[Top.child]), TRUE)
                  /\ UNCHANGED members
            /\ UNCHANGED <<input, cursor, resolved, pending, tiled, level,
                           removed, missing, cyclical, levels>>

ClearedMembers(r) == {i \in DOMAIN members[r] : members[r][i] = Cleared}

(* Slip: a relation gets the level of its highest child. *)
ResolveSameLevel ==
    /\ pc = "member" /\ AtEnd
    /\ tiled' = IF Top.tiled THEN tiled \union {This} ELSE tiled
    /\ resolved' = resolved \union {This}
    /\ level' = [level EXCEPT ![This] = Top.maxChildLevel]
    /\ missing' = [missing EXCEPT ![This] =
                     @ + Cardinality(ClearedMembers(This)) - removed[This]]
    /\ Return("use")
    /\ UNCHANGED <<input, cursor, members, removed, cyclical, levels>>

(* The relation is resolved; validate() counts the members that are missing *)
(* and recode() leaves out the cleared ones (they stay in members here).    *)
Resolve == /\ pc = "member" /\ AtEnd
           /\ tiled' = IF Top.tiled THEN tiled \union {This} ELSE tiled
           /\ resolved' = resolved \union {This}
           /\ level' = [level EXCEPT ![This] = Top.maxChildLevel + 1]
           /\ missing' = [missing EXCEPT ![This] =
                            @ + Cardinality(ClearedMembers(This)) - removed[This]]
           /\ Return("use")
           /\ UNCHANGED <<input, cursor, members, removed, cyclical, levels>>

-----------------------------------------------------------------------------
Step == \/ StartRelation \/ PlaceRelation
        \/ SkipMember \/ UseRegular \/ DropMissing \/ FindResolved
        \/ FindCycle \/ Descend \/ Unwind \/ BreakCycle \/ UseChild \/ Resolve

(* The levels are handed to resolveSuperRelations(). *)
HandOver == Finished /\ UNCHANGED vars

Next == Step \/ HandOver

Spec == Init /\ [][Next]_vars

(* The resolver is a sequential program that does not wait for anything.   *)
FairSpec == Spec /\ WF_vars(Step)

-----------------------------------------------------------------------------
(* Properties *)

Frames == [rel : Rels, at : Nat \ {0}, child : Rels, maxChildLevel : Nat,
           tiled : BOOLEAN]

(* The call stack and the fields of the relations are well-formed.         *)
TypeOK == /\ input \in Inputs
          /\ pc \in {"next", "place", "member", "use", "failed", "break"}
          /\ cursor \in 1..(NRels + 1)
          /\ stack \in Seq(Frames)
          /\ members \in [Rels -> Seq(Refs \union {Cleared})]
          /\ resolved \subseteq Rels /\ pending \subseteq Rels /\ tiled \subseteq Rels
          /\ level \in [Rels -> Nat]
          /\ removed \in [Rels -> Nat] /\ missing \in [Rels -> Int]
          /\ cyclical \in Seq(Rels \X Rels)
          /\ levels \in [0..MaxRelationLevel -> SUBSET Rels]

(* A resolved relation keeps only members that have a place: relations in  *)
(* the index, and super-relations that are resolved, not empty, and at a   *)
(* lower level.  What is left of the reference graph has no cycle.         *)
ChildrenBelow ==
    \A r \in resolved : \A i \in DOMAIN members[r] :
        \/ members[r][i] \in {Cleared, Regular}
        \/ /\ members[r][i] \in resolved \intersect tiled
           /\ level[members[r][i]] < level[r]

(* Levels are written one after the other: when a relation is written, the *)
(* members it keeps have been written, also where relations are omitted    *)
(* because their level is too high.                                        *)
LevelsAscend ==
    Finished => \A l \in DOMAIN levels : \A r \in levels[l] :
        \A i \in DOMAIN members[r] :
            members[r][i] \in Rels => \E k \in 0..(l - 1) : members[r][i] \in levels[k]

(* The members of a relation in the file, and those of its members, ...    *)
References(S) == {c \in Rels : \E r \in S : \E i \in DOMAIN input.refs[r] :
                                   input.refs[r][i] = c}
Reachable(r) == LET Reach[n \in 0..NRels] ==
                      IF n = 0 THEN References({r})
                      ELSE Reach[n - 1] \union References(Reach[n - 1])
                IN  Reach[NRels]

(* A member that has a place is only given up to break a reference cycle   *)
(* that both belong to: relations that are on no cycle keep all of theirs. *)
OnlyCyclesBroken ==
    \A r \in resolved : \A i \in DOMAIN members[r] :
        LET c == input.refs[r][i] IN
        members[r][i] = Cleared =>
            \/ c = Missing
            \/ c \in resolved \ tiled
            \/ c \in Rels /\ r \in Reachable(c) /\ removed[r] > 0

(* The assertions of resolve() and breakReferenceCycle(), and what resolve *)
(* relies on without one: the outermost call does not fail.                *)
AssertionsHold ==
    /\ pc = "member" => This \notin resolved /\ cyclical = << >>
    /\ pc = "failed" => cyclical # << >>
    /\ pc = "break" => Len(cyclical) >= 2 /\ Top.child \notin resolved
    /\ pc = "place" => cursor \in resolved

(* Every cycle is broken in the end: the descent is tried again only with  *)
(* one reference less.                                                     *)
Termination == <>Finished
=============================================================================
