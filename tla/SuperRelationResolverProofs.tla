-------------------- MODULE SuperRelationResolverProofs --------------------
(***************************************************************************)
(* Proofs about the SuperRelationResolver: for any number of relations and *)
(* any references among them, every call of resolve() that is made from    *)
(* the loop over all relations succeeds, the assertions hold, and parents  *)
(* end up on higher levels than the children they keep.                    *)
(***************************************************************************)
EXTENDS SuperRelationResolver, DataTheorems, TLAPS

(* A member that a call of resolve(rel) has dealt with, lvl being its      *)
(* maxChildLevel                                                           *)
Fits(m, lvl) == \/ m \in {Cleared, Regular}
                \/ m \in resolved \intersect tiled /\ level[m] <= lvl

(* The parts of TypeOK that matter here *)
Types == /\ pc \in {"next", "place", "member", "use", "failed", "break"}
         /\ cursor \in 1..(NRels + 1)
         /\ stack \in Seq(Frames)
         /\ members \in [Rels -> Seq(Refs \union {Cleared})]
         /\ resolved \subseteq Rels /\ tiled \subseteq Rels
         /\ level \in [Rels -> Nat]
         /\ cyclical \in Seq(Rels \X Rels)

NoSelfReference == \A r \in Rels : \A i \in DOMAIN members[r] : members[r][i] # r

(* The pending relations are those on the stack, each once; none of them   *)
(* is resolved.                                                            *)
StackInv == /\ \A r \in Rels : r \in pending <=> \E i \in 1..Len(stack) : stack[i].rel = r
            /\ pending \subseteq Rels
            /\ \A i, j \in 1..Len(stack) : stack[i].rel = stack[j].rel => i = j
            /\ \A i \in 1..Len(stack) : stack[i].rel \notin resolved
            /\ stack = << >> <=> pc \in {"next", "place"}
            /\ stack # << >> => stack[1].rel = cursor

(* The members a call has gone through *)
FrameInv == \A i \in 1..Len(stack) :
    /\ stack[i].at \in 1..(Len(members[stack[i].rel]) + 1)
    /\ \A k \in 1..(stack[i].at - 1) :
          Fits(members[stack[i].rel][k], stack[i].maxChildLevel)

AtChild(f) == f.at \in DOMAIN members[f.rel] /\ members[f.rel][f.at] = f.child

(* Every caller is at the member it has called resolve() for.              *)
CallInv == \A i \in 1..(Len(stack) - 1) :
    AtChild(stack[i]) /\ stack[i].child = stack[i + 1].rel

TopInv == /\ pc \in {"failed", "break"} => /\ AtChild(Top)
                                           /\ Top.child \notin resolved \union pending
          /\ pc = "use" => /\ Top.at \in DOMAIN members[This]
                           /\ \/ Member = Cleared
                              \/ Member = Top.child /\ Top.child \in resolved

(* The relations that were left because of a cycle are no longer pending,  *)
(* but the relation where the cycle closes still is.                       *)
CycleInv == /\ pc \in {"next", "place", "member", "use"} => cyclical = << >>
            /\ pc = "failed" => /\ Len(cyclical) >= 1
                                /\ cyclical[1][2] \in pending
                                /\ \A i \in 1..Len(cyclical) : cyclical[i][1] \notin pending
            /\ pc = "break" => /\ Len(cyclical) >= 2
                               /\ cyclical[Len(cyclical)] = <<This, Top.child>>
                               /\ \A i \in 1..(Len(cyclical) - 1) :
                                     cyclical[i][1] \notin pending

(* The relations before the cursor are placed. *)
PlacedInv == /\ levels \in [0..MaxRelationLevel -> SUBSET Rels]
             /\ \A r \in 1..(cursor - 1) : r \in resolved
             /\ pc = "place" => cursor \in resolved
             /\ pc # "next" => cursor <= NRels
             /\ \A l \in 0..MaxRelationLevel : \A r \in Rels :
                   r \in levels[l] <=> r < cursor /\ r \in tiled /\ level[r] = l

IInv == /\ Types /\ NoSelfReference /\ StackInv /\ FrameInv /\ CallInv
        /\ TopInv /\ CycleInv /\ ChildrenBelow /\ PlacedInv
-----------------------------------------------------------------------------
(* The shape of the stack after each way of changing it *)

LEMMA TopFacts ==
    ASSUME Types, stack # << >>
    PROVE  /\ Depth \in Nat \ {0} /\ Len(stack) = Depth
           /\ Top \in Frames /\ This \in Rels
           /\ members[This] \in Seq(Refs \union {Cleared})
           /\ Len(members[This]) \in Nat
           /\ \A i \in 1..Depth : stack[i] \in Frames
<1>1. Len(stack) \in Nat /\ Len(stack) # 0
  BY DEF Types
<1>2. \A i \in 1..Len(stack) : stack[i] \in Frames
  BY DEF Types
<1>3. Top \in Frames
  BY <1>1, <1>2 DEF Top, Depth
<1>4. This \in Rels
  BY <1>3 DEF Frames, This
<1>5. members[This] \in Seq(Refs \union {Cleared})
  BY <1>4 DEF Types
<1>6. Len(members[This]) \in Nat
  BY <1>5
<1> QED
  BY <1>1, <1>2, <1>3, <1>4, <1>5, <1>6 DEF Depth

LEMMA EmptyStack == ASSUME Types, Len(stack) = 0 PROVE stack = << >>
BY DEF Types

LEMMA ContinueShape ==
    ASSUME Types, stack # << >>, NEW lvl \in Nat, NEW t \in BOOLEAN, Continue(lvl, t)
    PROVE  /\ stack' \in Seq(Frames) /\ Len(stack') = Depth
           /\ \A i \in 1..(Depth - 1) : stack'[i] = stack[i]
           /\ stack'[Depth].rel = This /\ stack'[Depth].at = Top.at + 1
           /\ stack'[Depth].maxChildLevel = lvl
<1>1. Depth \in 1..Len(stack) /\ Top \in Frames /\ Len(stack) = Depth
  BY TopFacts
<1> DEFINE F == [rel |-> This, at |-> Top.at + 1, child |-> Top.child,
                 maxChildLevel |-> lvl, tiled |-> t]
<1>4. /\ Top.rel \in Rels /\ Top.at + 1 \in Nat \ {0} /\ Top.child \in Rels
  BY <1>1 DEF Frames
<1>5. F \in Frames /\ F.rel = This /\ F.at = Top.at + 1 /\ F.maxChildLevel = lvl
  BY <1>4 DEF Frames, This
<1>6. stack' = [stack EXCEPT ![Depth] = F]
  BY DEF Continue
<1> HIDE DEF F
<1> QED
  BY <1>1, <1>5, <1>6 DEF Types

LEMMA ChildShape ==
    ASSUME Types, stack # << >>, NEW c \in Rels
    PROVE  LET S == [stack EXCEPT ![Depth].child = c] IN
           /\ S \in Seq(Frames) /\ Len(S) = Depth
           /\ \A i \in 1..(Depth - 1) : S[i] = stack[i]
           /\ S[Depth].rel = This /\ S[Depth].at = Top.at
           /\ S[Depth].maxChildLevel = Top.maxChildLevel /\ S[Depth].child = c
<1>1. Depth \in 1..Len(stack) /\ Top \in Frames /\ Len(stack) = Depth
  BY TopFacts
<1> DEFINE F == [Top EXCEPT !.child = c]
           S == [stack EXCEPT ![Depth] = F]
<1>2. [stack EXCEPT ![Depth].child = c] = S
  BY <1>1 DEF Top, Types
<1>3. /\ F \in Frames /\ F.rel = This /\ F.at = Top.at
      /\ F.maxChildLevel = Top.maxChildLevel /\ F.child = c
  BY <1>1 DEF Frames, This
<1> HIDE DEF F
<1>4. /\ S \in Seq(Frames) /\ Len(S) = Depth
      /\ \A i \in 1..(Depth - 1) : S[i] = stack[i]
      /\ S[Depth] = F
  BY <1>1, <1>3 DEF Types
<1> HIDE DEF S
<1> QED
  BY <1>2, <1>3, <1>4

LEMMA ReturnShape ==
    ASSUME Types, stack # << >>, NEW label, Return(label)
    PROVE  /\ stack' \in Seq(Frames) /\ Len(stack') = Depth - 1
           /\ \A i \in 1..(Depth - 1) : stack'[i] = stack[i]
BY TopFacts DEF Types, Return

LEMMA AppendShape ==
    ASSUME NEW S \in Seq(Frames), NEW r \in Rels, stack' = Append(S, NewFrame(r))
    PROVE  /\ stack' \in Seq(Frames) /\ Len(stack') = Len(S) + 1
           /\ \A i \in 1..Len(S) : stack'[i] = S[i]
           /\ stack'[Len(S) + 1].rel = r /\ stack'[Len(S) + 1].at = 1
<1>1. NewFrame(r) \in Frames
  BY DEF NewFrame, Frames
<1> QED
  BY <1>1 DEF NewFrame

LEMMA ClearShape ==
    ASSUME Types, NEW r \in Rels, NEW i \in DOMAIN members[r], Clear(r, i)
    PROVE  /\ members' \in [Rels -> Seq(Refs \union {Cleared})]
           /\ \A q \in Rels : /\ DOMAIN members'[q] = DOMAIN members[q]
                             /\ Len(members'[q]) = Len(members[q])
           /\ \A q \in Rels : \A j \in DOMAIN members[q] :
                 members'[q][j] = IF q = r /\ j = i THEN Cleared ELSE members[q][j]
<1>1. members[r] \in Seq(Refs \union {Cleared})
  BY DEF Types
<1>2. [members[r] EXCEPT ![i] = Cleared] \in Seq(Refs \union {Cleared})
  BY <1>1
<1>3. members' = [members EXCEPT ![r] = [members[r] EXCEPT ![i] = Cleared]]
  BY DEF Clear, Types
<1>4. members'[r] = [members[r] EXCEPT ![i] = Cleared]
  BY <1>3 DEF Types
<1>5. \A q \in Rels : q # r => members'[q] = members[q]
  BY <1>3 DEF Types
<1>6. members' \in [Rels -> Seq(Refs \union {Cleared})]
  BY <1>2, <1>3 DEF Types
<1>7. /\ DOMAIN members'[r] = DOMAIN members[r] /\ Len(members'[r]) = Len(members[r])
      /\ \A j \in DOMAIN members[r] : members'[r][j] = IF j = i THEN Cleared
                                                              ELSE members[r][j]
  BY <1>1, <1>4
<1> QED
  BY <1>5, <1>6, <1>7

-----------------------------------------------------------------------------
(* The steps preserve the invariant. *)

(* A call goes on to its next member. *)
LEMMA ContinuePreserves ==
    ASSUME IInv, pc \in {"member", "use"}, Top.at \in DOMAIN members[This],
           NEW lvl \in Nat, NEW t \in BOOLEAN, Continue(lvl, t), lvl >= Top.maxChildLevel,
           \/ members' = members /\ Fits(Member, lvl)
           \/ Clear(This, Top.at),
           UNCHANGED <<cursor, resolved, pending, tiled, level, cyclical, levels>>
    PROVE  IInv'
<1>1. Types /\ stack # << >>
  BY DEF IInv, StackInv
<1>2. /\ stack' \in Seq(Frames) /\ Len(stack') = Depth
      /\ \A i \in 1..(Depth - 1) : stack'[i] = stack[i]
      /\ stack'[Depth].rel = This /\ stack'[Depth].at = Top.at + 1
      /\ stack'[Depth].maxChildLevel = lvl
  BY <1>1, ContinueShape
<1>3. /\ Depth \in Nat \ {0} /\ Len(stack) = Depth /\ Top \in Frames /\ This \in Rels
      /\ \A i \in 1..Depth : stack[i] \in Frames
      /\ members[This] \in Seq(Refs \union {Cleared}) /\ Len(members[This]) \in Nat
  BY <1>1, TopFacts
<1>4. pc' = "member"
  BY DEF Continue
<1>5. /\ members' \in [Rels -> Seq(Refs \union {Cleared})]
      /\ \A q \in Rels : /\ DOMAIN members'[q] = DOMAIN members[q]
                        /\ Len(members'[q]) = Len(members[q])
      /\ \A q \in Rels : \A j \in DOMAIN members[q] :
            \/ members'[q][j] = members[q][j]
            \/ q = This /\ j = Top.at /\ members'[q][j] = Cleared
      /\ Fits(members'[This][Top.at], lvl)
  <2>1. CASE Clear(This, Top.at)
    BY <1>1, <1>3, <2>1, ClearShape DEF Fits
  <2>2. CASE members' = members /\ Fits(Member, lvl)
    BY <1>1, <2>2 DEF Types, Member
  <2> QED
    BY <2>1, <2>2
<1>6. Types'
  BY <1>1, <1>2, <1>4, <1>5 DEF Types
<1>7. NoSelfReference'
  BY <1>5, RefsAssumption DEF IInv, NoSelfReference, Refs
<1>8. \A i \in 1..Depth : stack'[i].rel = stack[i].rel
  BY <1>2, <1>3 DEF This, Top
<1>9. StackInv'
  <2>1. stack' # << >>
    BY <1>2, <1>3
  <2> QED
    BY <1>1, <1>2, <1>3, <1>4, <1>8, <2>1 DEF IInv, StackInv
<1>10. FrameInv'
  <2> SUFFICES ASSUME NEW i \in 1..Depth
               PROVE  /\ stack'[i].at \in 1..(Len(members'[stack'[i].rel]) + 1)
                      /\ \A k \in 1..(stack'[i].at - 1) :
                            Fits(members'[stack'[i].rel][k], stack'[i].maxChildLevel)
    BY <1>2, <1>3 DEF FrameInv, Fits
  <2>1. CASE i = Depth
    <3>1. FrameInv /\ Top.at \in 1..Len(members[This])
      BY <1>3 DEF IInv
    <3>2. \A k \in 1..(Top.at - 1) : Fits(members[This][k], Top.maxChildLevel)
      BY <1>3, <3>1 DEF FrameInv, This, Top
    <3>3. ASSUME NEW k \in 1..(Top.at - 1) PROVE Fits(members'[This][k], lvl)
      <4>1. k \in DOMAIN members[This] /\ k # Top.at
        BY <1>3, <3>1
      <4>2. members'[This][k] = members[This][k]
        BY <1>3, <1>5, <4>1
      <4>3. Top.maxChildLevel \in Nat /\ \A r \in resolved : level[r] \in Nat
        BY <1>1, <1>3 DEF Types, Frames
      <4> QED
        BY <3>2, <4>2, <4>3 DEF Fits
    <3>4. \A k \in 1..Top.at : Fits(members'[This][k], lvl)
      BY <1>3, <1>5, <3>3 DEF Frames
    <3> QED
      BY <1>2, <1>3, <1>5, <2>1, <3>1, <3>4
  <2>2. CASE i # Depth
    <3>1. i \in 1..(Depth - 1) /\ stack'[i] = stack[i] /\ stack[i].rel # This
      BY <1>2, <1>3, <2>2 DEF IInv, StackInv, This, Top
    <3>2. stack[i].rel \in Rels /\ stack[i].at \in Nat
      BY <1>3 DEF Frames
    <3>3. \A j \in DOMAIN members[stack[i].rel] :
             members'[stack[i].rel][j] = members[stack[i].rel][j]
      BY <1>5, <3>1, <3>2
    <3>4. DOMAIN members[stack[i].rel] = 1..Len(members[stack[i].rel])
      BY <1>1, <3>2 DEF Types
    <3>5. /\ stack[i].at \in 1..(Len(members[stack[i].rel]) + 1)
          /\ \A k \in 1..(stack[i].at - 1) :
                Fits(members[stack[i].rel][k], stack[i].maxChildLevel)
      BY <1>3 DEF IInv, FrameInv
    <3>6. Len(members'[stack[i].rel]) = Len(members[stack[i].rel])
      BY <1>5, <3>2
    <3>7. \A k \in 1..(stack[i].at - 1) : k \in DOMAIN members[stack[i].rel]
      <4>1. Len(members[stack[i].rel]) \in Nat
        BY <1>1, <3>2 DEF Types
      <4> QED
        BY <3>4, <3>5, <4>1
    <3>8. \A k \in 1..(stack[i].at - 1) :
             Fits(members'[stack[i].rel][k], stack[i].maxChildLevel)
      BY <3>3, <3>5, <3>7
    <3> QED
      BY <3>1, <3>5, <3>6, <3>8
  <2> QED
    BY <2>1, <2>2
<1>11. CallInv'
  <2> SUFFICES ASSUME NEW i \in 1..(Depth - 1)
               PROVE  AtChild(stack[i])' /\ stack'[i].child = stack'[i + 1].rel
    BY <1>2, <1>3 DEF CallInv, AtChild
  <2>1. stack'[i] = stack[i] /\ stack'[i + 1].rel = stack[i + 1].rel
    BY <1>2, <1>3, <1>8
  <2>2. stack[i].rel # This /\ stack[i].rel \in Rels
    BY <1>3 DEF IInv, StackInv, This, Top, Frames
  <2>3. AtChild(stack[i]) /\ stack[i].child = stack[i + 1].rel
    BY <1>3 DEF IInv, CallInv
  <2> QED
    BY <1>5, <2>1, <2>2, <2>3 DEF AtChild
<1>12. TopInv' /\ CycleInv'
  BY <1>4 DEF IInv, TopInv, CycleInv
<1>13. ChildrenBelow'
  BY <1>1, <1>5 DEF IInv, ChildrenBelow, Types
<1>14. PlacedInv'
  BY <1>1, <1>4 DEF IInv, PlacedInv
<1> QED
  BY <1>6, <1>7, <1>9, <1>10, <1>11, <1>12, <1>13, <1>14 DEF IInv

(* The relations of the callers differ from that of the call on top.       *)
LEMMA OthersBelow ==
    ASSUME Types, StackInv, stack # << >>
    PROVE  \A i \in 1..(Depth - 1) : stack[i].rel # This
<1>1. Depth \in Nat \ {0} /\ Len(stack) = Depth
  BY TopFacts
<1>2. \A i, j \in 1..Len(stack) : stack[i].rel = stack[j].rel => i = j
  BY DEF StackInv
<1>3. This = stack[Depth].rel
  BY DEF This, Top, Depth
<1> HIDE DEF Depth
<1> SUFFICES ASSUME NEW i \in 1..(Depth - 1), stack[i].rel = This PROVE FALSE
  OBVIOUS
<1>4. i \in 1..Len(stack) /\ Depth \in 1..Len(stack) /\ i # Depth
  BY <1>1
<1> QED
  BY <1>2, <1>3, <1>4

(* A call returns: its relation is resolved, or a cycle was found.  What   *)
(* remains to be shown is what the caller finds.                           *)
LEMMA ReturnPreserves ==
    ASSUME IInv, stack # << >>, NEW label \in {"use", "failed"}, Return(label),
           UNCHANGED <<cursor, members, levels>>,
           cyclical' \in Seq(Rels \X Rels),
           resolved' = resolved \/ resolved' = resolved \union {This},
           \A r \in Rels : r # This => (r \in tiled' <=> r \in tiled),
           tiled' \subseteq Rels,
           level' \in [Rels -> Nat],
           \A r \in Rels : r # This => level'[r] = level[r]
    PROVE  /\ Types' /\ NoSelfReference' /\ StackInv' /\ FrameInv' /\ CallInv'
           /\ Len(stack') = Depth - 1
           /\ \A i \in 1..(Depth - 1) : stack'[i] = stack[i]
           /\ \A r \in Rels : r \in pending' <=> r \in pending /\ r # This
           /\ Depth > 1 => /\ pc' = label
                           /\ Top' = stack[Depth - 1] /\ Top'.child = This
                           /\ AtChild(Top)'
                           /\ This' # This /\ Member' = This
           /\ Depth = 1 => pc' = "place" /\ This = cursor
           /\ \A m, l : m # This => (Fits(m, l)' <=> Fits(m, l))
<1>1. Types /\ StackInv
  BY DEF IInv
<1>2. /\ stack' \in Seq(Frames) /\ Len(stack') = Depth - 1
      /\ \A i \in 1..(Depth - 1) : stack'[i] = stack[i]
  BY <1>1, ReturnShape
<1>3. /\ Depth \in Nat \ {0} /\ Len(stack) = Depth /\ Top \in Frames /\ This \in Rels
      /\ \A i \in 1..Depth : stack[i] \in Frames
  BY <1>1, TopFacts
<1>4. \A i \in 1..(Depth - 1) : stack[i].rel # This
  BY <1>1, OthersBelow
<1>5. Types'
  BY <1>1, <1>2, <1>3 DEF Types, Return
<1>6. NoSelfReference'
  BY DEF IInv, NoSelfReference
<1>7. \A r \in Rels : r \in pending' <=> r \in pending /\ r # This
  BY DEF Return
<1>8. /\ Depth = 1 => pc' = "place" /\ stack' = << >>
      /\ Depth > 1 => pc' = label /\ stack' # << >>
  <2>1. pc' = IF Depth = 1 THEN "place" ELSE label
    BY DEF Return
  <2>2. Depth = 1 => stack' = << >>
    BY <1>2
  <2>3. Depth > 1 => stack' # << >>
    BY <1>2, <1>3
  <2>4. Depth > 1 => Depth # 1
    BY <1>3
  <2> QED
    BY <2>1, <2>2, <2>3, <2>4
<1>9. StackInv'
  <2>1. \A r \in Rels : r \in pending' <=> \E i \in 1..(Depth - 1) : stack[i].rel = r
    <3> SUFFICES ASSUME NEW r \in Rels
                 PROVE  r \in pending' <=> \E i \in 1..(Depth - 1) : stack[i].rel = r
      OBVIOUS
    <3>1. CASE r \in pending'
      <4>1. r \in pending /\ r # This
        BY <1>7, <3>1
      <4>2. PICK i \in 1..Depth : stack[i].rel = r
        BY <1>1, <1>3, <4>1 DEF StackInv
      <4>3. i # Depth
        BY <4>1, <4>2 DEF This, Top
      <4> QED
        BY <1>3, <3>1, <4>2, <4>3
    <3>2. CASE r \notin pending'
      <4> SUFFICES ASSUME NEW i \in 1..(Depth - 1), stack[i].rel = r PROVE FALSE
        BY <3>2
      <4>1. r # This
        BY <1>4
      <4>2. r \in pending
        BY <1>1, <1>3 DEF StackInv
      <4> QED
        BY <1>7, <3>2, <4>1, <4>2
    <3> QED
      BY <3>1, <3>2
  <2>2. pending' \subseteq Rels
    BY <1>1 DEF StackInv, Return
  <2>3. \A i, j \in 1..(Depth - 1) : stack[i].rel = stack[j].rel => i = j
    BY <1>1, <1>3 DEF StackInv
  <2>4. \A i \in 1..(Depth - 1) : stack[i].rel \notin resolved'
    BY <1>1, <1>3, <1>4 DEF StackInv
  <2>5. stack' = << >> <=> pc' \in {"next", "place"}
    BY <1>3, <1>8
  <2>6. stack' # << >> => stack'[1].rel = cursor'
    BY <1>1, <1>2, <1>3, <1>8 DEF StackInv
  <2>7. \A i \in 1..(Depth - 1) : stack'[i].rel = stack[i].rel
    BY <1>2
  <2>8. /\ \A r \in Rels : r \in pending' <=> \E i \in 1..Len(stack') : stack'[i].rel = r
        /\ \A i, j \in 1..Len(stack') : stack'[i].rel = stack'[j].rel => i = j
        /\ \A i \in 1..Len(stack') : stack'[i].rel \notin resolved'
    <3>1. 1..Len(stack') = 1..(Depth - 1)
      BY <1>2
    <3>2. \A r \in Rels : r \in pending' <=> \E i \in 1..Len(stack') : stack'[i].rel = r
      BY <2>1, <2>7, <3>1
    <3>3. \A i, j \in 1..Len(stack') : stack'[i].rel = stack'[j].rel => i = j
      BY <2>3, <2>7, <3>1
    <3>4. \A i \in 1..Len(stack') : stack'[i].rel \notin resolved'
      BY <2>4, <2>7, <3>1
    <3> QED
      BY <3>2, <3>3, <3>4
  <2> QED
    BY <2>2, <2>5, <2>6, <2>8 DEF StackInv
<1>10. \A m, l : m # This => (Fits(m, l)' <=> Fits(m, l))
  <2> SUFFICES ASSUME NEW m, NEW l, m # This PROVE Fits(m, l)' <=> Fits(m, l)
    OBVIOUS
  <2>1. m \in resolved' <=> m \in resolved
    OBVIOUS
  <2>2. m \in resolved => m \in Rels
    BY <1>1 DEF Types
  <2>3. m \in resolved => (m \in tiled' <=> m \in tiled) /\ level'[m] = level[m]
    BY <2>2
  <2> QED
    BY <2>1, <2>3 DEF Fits
<1>11. FrameInv'
  <2> SUFFICES ASSUME NEW i \in 1..(Depth - 1), NEW k \in 1..(stack[i].at - 1)
               PROVE  Fits(members[stack[i].rel][k], stack[i].maxChildLevel)'
    BY <1>2, <1>3 DEF IInv, FrameInv
  <2>1. Fits(members[stack[i].rel][k], stack[i].maxChildLevel)
    BY <1>3 DEF IInv, FrameInv
  <2>2. This \notin {Cleared, Regular} /\ This \notin resolved
    BY <1>1, <1>3, RefsAssumption DEF StackInv, This, Top, Refs
  <2>3. members[stack[i].rel][k] # This
    BY <2>1, <2>2 DEF Fits
  <2>4. stack'[i] = stack[i]
    BY <1>2
  <2> QED
    BY <1>10, <2>1, <2>3, <2>4
<1>12. CallInv'
  BY <1>2, <1>3 DEF IInv, CallInv, AtChild
<1>13. ASSUME Depth > 1
       PROVE  /\ Top' = stack[Depth - 1] /\ Top'.child = This /\ AtChild(Top)'
              /\ This' # This /\ Member' = This
  <2>1. Top' = stack[Depth - 1]
    BY <1>2, <1>3, <1>13 DEF Top, Depth
  <2>2. AtChild(stack[Depth - 1]) /\ stack[Depth - 1].child = This
    BY <1>3, <1>13 DEF IInv, CallInv, This, Top
  <2> QED
    BY <1>3, <1>4, <1>13, <2>1, <2>2 DEF AtChild, This, Member
<1>14. Depth = 1 => This = cursor
  BY <1>1, <1>3 DEF StackInv, This, Top
<1> QED
  BY <1>2, <1>5, <1>6, <1>7, <1>8, <1>9, <1>10, <1>11, <1>12, <1>13, <1>14

(* resolve(r) is called: from the loop over all relations, for a member,   *)
(* or again after a cycle was broken, which has cleared some member of a   *)
(* relation that is not pending.                                           *)
LEMMA CallPreserves ==
    ASSUME IInv, NEW r \in Rels, r \notin resolved \union pending,
           NEW S \in Seq(Frames), Len(S) = Len(stack),
           \A i \in 1..Len(S) : /\ S[i].rel = stack[i].rel /\ S[i].at = stack[i].at
                                /\ S[i].maxChildLevel = stack[i].maxChildLevel,
           \A i \in 1..(Len(S) - 1) : S[i].child = stack[i].child,
           stack # << >> => S[Len(S)].child = r /\ AtChild(S[Len(S)]),
           stack = << >> => r = cursor,
           stack' = Append(S, NewFrame(r)), pending' = pending \union {r}, pc' = "member",
           members' \in [Rels -> Seq(Refs \union {Cleared})],
           \A q \in pending \union {r} : Len(members'[q]) \in Nat,
           \A q \in pending : members'[q] = members[q],
           \A q \in Rels : \A j \in DOMAIN members'[q] :
              j \in DOMAIN members[q] /\ members'[q][j] \in {members[q][j], Cleared},
           cyclical' = << >>,
           UNCHANGED <<cursor, resolved, tiled, level, levels>>
    PROVE  IInv'
<1> DEFINE D == Len(S)
<1>1. Types /\ StackInv /\ D \in Nat /\ D = Len(stack) /\ D = Len(S)
  BY DEF IInv
<1>2. /\ stack' \in Seq(Frames) /\ Len(stack') = D + 1
      /\ \A i \in 1..D : stack'[i] = S[i]
      /\ stack'[D + 1].rel = r /\ stack'[D + 1].at = 1
  BY AppendShape
<1> HIDE DEF D
<1>3. \A i \in 1..D : /\ stack[i].rel \in pending /\ stack[i].rel \in Rels
                      /\ stack[i].rel # r
  <2> SUFFICES ASSUME NEW i \in 1..D
               PROVE  /\ stack[i].rel \in pending /\ stack[i].rel \in Rels
                      /\ stack[i].rel # r
    OBVIOUS
  <2>1. stack[i] \in Frames
    BY <1>1 DEF Types
  <2>2. stack[i].rel \in Rels
    BY <2>1 DEF Frames
  <2> QED
    BY <1>1, <2>2 DEF StackInv
<1>4. stack' # << >>
  <2>1. Len(stack') # 0
    BY <1>1, <1>2
  <2> QED
    BY <2>1
<1>5. Types'
  BY <1>1, <1>2 DEF Types
<1>6. NoSelfReference'
  BY RefsAssumption DEF IInv, NoSelfReference, Refs
<1>7. StackInv'
  <2>1. \A i \in 1..D : stack'[i].rel = stack[i].rel
    BY <1>1, <1>2
  <2>2. ASSUME NEW q \in Rels
        PROVE  q \in pending' <=> \E i \in 1..(D + 1) : stack'[i].rel = q
    <3>1. q \in pending <=> \E i \in 1..D : stack[i].rel = q
      BY <1>1 DEF StackInv
    <3>2. q = r <=> stack'[D + 1].rel = q
      BY <1>2
    <3>3. 1..(D + 1) = 1..D \union {D + 1}
      BY <1>1
    <3> QED
      BY <2>1, <3>1, <3>2, <3>3
  <2>3. \A i, j \in 1..(D + 1) : stack'[i].rel = stack'[j].rel => i = j
    <3> SUFFICES ASSUME NEW i \in 1..(D + 1), NEW j \in 1..(D + 1),
                        stack'[i].rel = stack'[j].rel
                 PROVE  i = j
      OBVIOUS
    <3>1. CASE i \in 1..D /\ j \in 1..D
      BY <1>1, <2>1, <3>1 DEF StackInv
    <3>2. CASE i = D + 1 /\ j \in 1..D
      BY <1>2, <1>3, <2>1, <3>2
    <3>3. CASE j = D + 1 /\ i \in 1..D
      BY <1>2, <1>3, <2>1, <3>3
    <3>4. (i \in 1..D \/ i = D + 1) /\ (j \in 1..D \/ j = D + 1)
      BY <1>1
    <3> QED
      BY <3>1, <3>2, <3>3, <3>4
  <2>4. \A i \in 1..(D + 1) : stack'[i].rel \notin resolved'
    <3>1. \A i \in 1..D : stack'[i].rel \notin resolved'
      BY <1>1, <2>1 DEF StackInv
    <3>2. stack'[D + 1].rel \notin resolved'
      BY <1>2
    <3>3. 1..(D + 1) = 1..D \union {D + 1}
      BY <1>1
    <3> QED
      BY <3>1, <3>2, <3>3
  <2>5. pending' \subseteq Rels
    BY <1>1 DEF StackInv
  <2>6. stack'[1].rel = cursor'
    <3>1. CASE D = 0
      <4>1. stack = << >>
        BY <1>1, <3>1, EmptyStack
      <4>2. r = cursor /\ cursor' = cursor
        BY <4>1
      <4>3. D + 1 = 1
        BY <3>1
      <4> QED
        BY <1>2, <4>2, <4>3
    <3>2. CASE D # 0
      <4>1. 1 \in 1..D /\ stack # << >>
        BY <1>1, <3>2
      <4> QED
        BY <1>1, <2>1, <4>1 DEF StackInv
    <3> QED
      BY <3>1, <3>2
  <2> QED
    BY <1>2, <1>4, <2>2, <2>3, <2>4, <2>5, <2>6 DEF StackInv
<1>8. FrameInv'
  <2> SUFFICES ASSUME NEW i \in 1..(D + 1)
               PROVE  /\ stack'[i].at \in 1..(Len(members'[stack'[i].rel]) + 1)
                      /\ \A k \in 1..(stack'[i].at - 1) :
                            Fits(members'[stack'[i].rel][k], stack'[i].maxChildLevel)
    BY <1>2 DEF FrameInv, Fits
  <2>1. CASE i = D + 1
    BY <1>2, <2>1
  <2>2. CASE i # D + 1
    <3>1. i \in 1..D
      BY <1>1, <2>2
    <3>2. /\ stack'[i].rel = stack[i].rel /\ stack'[i].at = stack[i].at
          /\ stack'[i].maxChildLevel = stack[i].maxChildLevel
          /\ members'[stack[i].rel] = members[stack[i].rel]
      BY <1>1, <1>2, <1>3, <3>1
    <3> QED
      BY <1>1, <3>1, <3>2 DEF IInv, FrameInv
  <2> QED
    BY <2>1, <2>2
<1>9. CallInv'
  <2> SUFFICES ASSUME NEW i \in 1..D
               PROVE  AtChild(stack[i])' /\ stack'[i].child = stack'[i + 1].rel
    BY <1>1, <1>2 DEF CallInv
  <2>1. /\ stack'[i] = S[i] /\ S[i].rel = stack[i].rel /\ S[i].at = stack[i].at
        /\ members'[stack[i].rel] = members[stack[i].rel]
    BY <1>1, <1>2, <1>3
  <2>2. CASE i = D
    <3>1. stack # << >>
      BY <1>1, <2>2
    <3> QED
      BY <1>1, <1>2, <2>1, <2>2, <3>1 DEF AtChild
  <2>3. CASE i # D
    <3>1. i \in 1..(D - 1) /\ i + 1 \in 1..D
      BY <1>1, <2>3
    <3>2. AtChild(stack[i]) /\ stack[i].child = stack[i + 1].rel
      BY <1>1, <3>1 DEF IInv, CallInv
    <3>3. S[i].child = stack[i].child /\ stack'[i + 1].rel = stack[i + 1].rel
      BY <1>1, <1>2, <3>1
    <3> QED
      BY <2>1, <3>2, <3>3 DEF AtChild
  <2> QED
    BY <2>2, <2>3
<1>10. TopInv' /\ CycleInv'
  BY DEF TopInv, CycleInv
<1>11. ChildrenBelow'
  BY <1>1 DEF IInv, ChildrenBelow, Types
<1>12. PlacedInv'
  <2>1. cursor <= NRels
    BY <1>1, SizesAssumption DEF IInv, PlacedInv, StackInv, Rels
  <2> QED
    BY <2>1 DEF IInv, PlacedInv
<1> QED
  BY <1>5, <1>6, <1>7, <1>8, <1>9, <1>10, <1>11, <1>12 DEF IInv

LEMMA InitEstablishes == Init => IInv
<1> SUFFICES ASSUME Init PROVE IInv
  OBVIOUS
<1>1. /\ input.refs \in [Rels -> Seq(Refs)]
      /\ \A r \in Rels : \A i \in DOMAIN input.refs[r] : input.refs[r][i] # r
  BY InputsAssumption DEF Init, IsInput
<1>2. members \in [Rels -> Seq(Refs \union {Cleared})]
  <2>1. \A r \in Rels : input.refs[r] \in Seq(Refs \union {Cleared})
    BY <1>1
  <2> QED
    BY <1>1, <2>1 DEF Init
<1>3. cursor \in 1..(NRels + 1)
  BY SizesAssumption DEF Init
<1>4. Types
  BY <1>2, <1>3 DEF Init, Types
<1>5. NoSelfReference
  BY <1>1 DEF Init, NoSelfReference
<1>6. StackInv /\ FrameInv /\ CallInv
  BY DEF Init, StackInv, FrameInv, CallInv
<1>7. TopInv /\ CycleInv /\ ChildrenBelow
  BY DEF Init, TopInv, CycleInv, ChildrenBelow
<1>8. PlacedInv
  BY DEF Init, PlacedInv, Rels
<1> QED
  BY <1>4, <1>5, <1>6, <1>7, <1>8 DEF IInv

LEMMA StartPreserves == ASSUME IInv, StartRelation PROVE IInv'
<1>1. /\ Types /\ stack = << >> /\ cursor \in Rels /\ cyclical = << >>
      /\ pending = {}
  BY DEF IInv, StackInv, StartRelation, Types, CycleInv, Rels
<1>2. CASE cursor \in resolved
  <2>1. /\ pc' = "place" /\ UNCHANGED <<stack, pending, cursor, members, resolved, tiled,
                                        level, cyclical, levels>>
    BY <1>2 DEF StartRelation
  <2>2. Types' /\ NoSelfReference' /\ StackInv'
    BY <1>1, <2>1 DEF IInv, Types, NoSelfReference, StackInv
  <2>3. FrameInv' /\ CallInv' /\ TopInv' /\ CycleInv'
    BY <1>1, <2>1 DEF FrameInv, CallInv, TopInv, CycleInv
  <2>4. ChildrenBelow'
    BY <2>1 DEF IInv, ChildrenBelow
  <2>5. PlacedInv'
    BY <1>1, <1>2, <2>1 DEF IInv, PlacedInv, Rels
  <2> QED
    BY <2>2, <2>3, <2>4, <2>5 DEF IInv
<1>3. CASE cursor \notin resolved
  <2>1. /\ stack' = Append(stack, NewFrame(cursor)) /\ pending' = pending \union {cursor}
        /\ pc' = "member" /\ members' = members /\ cyclical' = << >>
        /\ UNCHANGED <<cursor, resolved, tiled, level, levels>>
    BY <1>1, <1>3 DEF StartRelation, Call
  <2>2. Len(stack) = 0 /\ stack \in Seq(Frames)
    BY <1>1 DEF Types
  <2>3. /\ members' \in [Rels -> Seq(Refs \union {Cleared})]
        /\ \A q \in pending \union {cursor} : Len(members'[q]) \in Nat
        /\ \A q \in Rels : \A j \in DOMAIN members'[q] :
              j \in DOMAIN members[q] /\ members'[q][j] \in {members[q][j], Cleared}
    BY <1>1, <2>1 DEF Types
  <2> QED
    BY <1>1, <1>3, <2>1, <2>2, <2>3, CallPreserves
<1> QED
  BY <1>2, <1>3

LEMMA PlacePreserves == ASSUME IInv, PlaceRelation PROVE IInv'
<1>1. /\ Types /\ stack = << >> /\ cursor \in Rels /\ cursor \in resolved
      /\ cyclical = << >> /\ pending = {} /\ pc' = "next" /\ cursor' = cursor + 1
      /\ UNCHANGED <<stack, pending, members, resolved, tiled, level, cyclical>>
  BY DEF IInv, StackInv, PlaceRelation, Types, CycleInv, PlacedInv, Rels, relVars
<1>2. Types'
  BY <1>1, SizesAssumption DEF Types, Rels
<1>3. NoSelfReference' /\ StackInv'
  BY <1>1 DEF IInv, NoSelfReference, StackInv
<1>4. FrameInv' /\ CallInv' /\ TopInv' /\ CycleInv'
  BY <1>1 DEF FrameInv, CallInv, TopInv, CycleInv
<1>5. ChildrenBelow'
  BY <1>1 DEF IInv, ChildrenBelow
<1>6. PlacedInv'
  <2>1. level[cursor] \in Nat
    BY <1>1 DEF Types
  <2>2. /\ levels' \in [0..MaxRelationLevel -> SUBSET Rels]
        /\ \A l \in 0..MaxRelationLevel :
              levels'[l] = IF cursor \in tiled /\ level[cursor] = l
                           THEN levels[l] \union {cursor} ELSE levels[l]
    <3>1. levels \in [0..MaxRelationLevel -> SUBSET Rels]
      BY DEF IInv, PlacedInv
    <3>2. CASE Omitted(cursor)
      BY <2>1, <3>1, <3>2, SizesAssumption DEF PlaceRelation, Omitted
    <3>3. CASE ~Omitted(cursor)
      BY <1>1, <2>1, <3>1, <3>3, SizesAssumption DEF PlaceRelation, Omitted
    <3> QED
      BY <3>2, <3>3
  <2>3. ASSUME NEW l \in 0..MaxRelationLevel, NEW r \in Rels
        PROVE  r \in levels'[l] <=> r < cursor + 1 /\ r \in tiled /\ level[r] = l
    <3>1. r \in levels[l] <=> r < cursor /\ r \in tiled /\ level[r] = l
      BY DEF IInv, PlacedInv
    <3>2. CASE r = cursor
      BY <1>1, <2>2, <3>1, <3>2 DEF Rels
    <3>3. CASE r # cursor
      BY <1>1, <2>2, <3>1, <3>3 DEF Rels
    <3> QED
      BY <3>2, <3>3
  <2>4. \A r \in 1..cursor : r \in resolved
    BY <1>1 DEF IInv, PlacedInv, Rels
  <2>5. cursor' - 1 = cursor
    BY <1>1 DEF Rels
  <2> QED
    BY <1>1, <2>2, <2>3, <2>4, <2>5 DEF PlacedInv
<1> QED
  BY <1>2, <1>3, <1>4, <1>5, <1>6 DEF IInv

(* A call in the loop over the members is at one of them. *)
LEMMA MemberFacts ==
    ASSUME IInv, stack # << >>, AtMember \/ pc = "use"
    PROVE  /\ Types /\ Top.at \in DOMAIN members[This] /\ Member # This
           /\ Depth \in Nat \ {0} /\ Len(stack) = Depth /\ This \in Rels
           /\ Top.maxChildLevel \in Nat /\ Top.tiled \in BOOLEAN
           /\ Member \in Refs \union {Cleared}
           /\ cursor \in Rels /\ cyclical = << >>
           /\ This \in pending /\ This \notin resolved
<1>1. Types
  BY DEF IInv
<1>2. /\ Depth \in Nat \ {0} /\ Len(stack) = Depth /\ This \in Rels /\ Top \in Frames
      /\ members[This] \in Seq(Refs \union {Cleared}) /\ Len(members[This]) \in Nat
  BY <1>1, TopFacts
<1>3. Top.maxChildLevel \in Nat /\ Top.tiled \in BOOLEAN
  BY <1>2 DEF Frames
<1>4. Top.at \in DOMAIN members[This]
  <2>1. CASE pc = "use"
    BY <2>1 DEF IInv, TopInv
  <2>2. CASE AtMember
    <3>1. Top.at \in 1..(Len(members[This]) + 1)
      BY <1>2 DEF IInv, FrameInv, Top, This
    <3> QED
      BY <1>2, <2>2, <3>1 DEF AtMember, AtEnd
  <2> QED
    BY <2>1, <2>2
<1>5. Member \in Refs \union {Cleared} /\ Member # This
  BY <1>2, <1>4 DEF IInv, NoSelfReference, Member
<1>6. cyclical = << >> /\ cursor \in Rels
  BY <1>1 DEF IInv, CycleInv, PlacedInv, AtMember, Types, Rels
<1>7. This \in pending /\ This \notin resolved
  BY <1>2 DEF IInv, StackInv, This, Top
<1> QED
  BY <1>1, <1>2, <1>3, <1>4, <1>5, <1>6, <1>7

LEMMA AtMemberStack == ASSUME IInv, pc \notin {"next", "place"} PROVE stack # << >>
BY DEF IInv, StackInv

LEMMA SkipPreserves ==
    ASSUME IInv, SkipMember \/ UseRegular \/ DropMissing PROVE IInv'
<1>1. pc = "member" /\ AtMember
  BY DEF SkipMember, UseRegular, DropMissing, AtMember
<1>2. stack # << >>
  BY <1>1, AtMemberStack
<1>3. /\ Top.at \in DOMAIN members[This] /\ This \in Rels
      /\ Top.maxChildLevel \in Nat /\ Top.tiled \in BOOLEAN
  BY <1>1, <1>2, MemberFacts
<1>4. \E t \in BOOLEAN : Continue(Top.maxChildLevel, t)
  BY <1>3 DEF SkipMember, UseRegular, DropMissing
<1>5. \/ members' = members /\ Fits(Member, Top.maxChildLevel)
      \/ Clear(This, Top.at)
  BY DEF SkipMember, UseRegular, DropMissing, Fits, relVars
<1>6. UNCHANGED <<cursor, resolved, pending, tiled, level, cyclical, levels>>
  BY DEF SkipMember, UseRegular, DropMissing, relVars
<1>7. Top.maxChildLevel >= Top.maxChildLevel
  BY <1>3
<1> QED
  BY <1>1, <1>3, <1>4, <1>5, <1>6, <1>7, ContinuePreserves

LEMMA UsePreserves == ASSUME IInv, UseChild PROVE IInv'
<1>1. pc = "use"
  BY DEF UseChild
<1>2. stack # << >>
  BY <1>1, AtMemberStack
<1>3. /\ Top.at \in DOMAIN members[This] /\ This \in Rels /\ Types
      /\ Top.maxChildLevel \in Nat /\ Top.tiled \in BOOLEAN
  BY <1>1, <1>2, MemberFacts
<1>4. UNCHANGED <<cursor, resolved, pending, tiled, level, cyclical, levels>>
  BY DEF UseChild
<1>5. CASE Member = Cleared /\ Continue(Top.maxChildLevel, Top.tiled) /\ members' = members
  <2>1. Fits(Member, Top.maxChildLevel) /\ Top.maxChildLevel >= Top.maxChildLevel
    BY <1>3, <1>5 DEF Fits
  <2> QED
    BY <1>1, <1>3, <1>4, <1>5, <2>1, ContinuePreserves
<1>6. CASE Clear(This, Top.at) /\ Continue(Top.maxChildLevel, Top.tiled)
  <2>1. Top.maxChildLevel >= Top.maxChildLevel
    BY <1>3
  <2> QED
    BY <1>1, <1>3, <1>4, <1>6, <2>1, ContinuePreserves
<1>7. CASE /\ Member # Cleared /\ Top.child \in tiled /\ members' = members
           /\ Continue(Larger(Top.maxChildLevel, level[Top.child]), TRUE)
  <2> DEFINE l == Larger(Top.maxChildLevel, level[Top.child])
  <2>1. Member = Top.child /\ Top.child \in resolved
    BY <1>1, <1>7 DEF IInv, TopInv
  <2>2. level[Top.child] \in Nat
    BY <1>3, <2>1 DEF Types
  <2>3. l \in Nat /\ l >= Top.maxChildLevel /\ l >= level[Top.child]
    BY <1>3, <2>2 DEF Larger
  <2>4. Fits(Member, l)
    BY <1>7, <2>1, <2>2, <2>3 DEF Fits
  <2>5. Continue(l, TRUE)
    BY <1>7
  <2> HIDE DEF l
  <2> QED
    BY <1>1, <1>3, <1>4, <1>7, <2>3, <2>4, <2>5, ContinuePreserves
<1> QED
  BY <1>5, <1>6, <1>7 DEF UseChild

LEMMA DescendPreserves == ASSUME IInv, Descend PROVE IInv'
<1>1. AtMember /\ stack # << >>
  BY AtMemberStack DEF Descend, AtMember
<1>2. /\ Types /\ Top.at \in DOMAIN members[This] /\ Member # This /\ This \in Rels
      /\ Depth \in Nat \ {0} /\ Len(stack) = Depth /\ cyclical = << >>
  BY <1>1, MemberFacts
<1> DEFINE S == [stack EXCEPT ![Depth].child = Member]
<1>3. /\ Member \in Rels /\ Member \notin resolved \union pending /\ pc = "member"
      /\ stack' = Append(S, NewFrame(Member)) /\ pending' = pending \union {Member}
      /\ UNCHANGED <<pc, cursor, members, resolved, tiled, level, cyclical, levels>>
  BY DEF Descend, AtMember
<1>4. /\ S \in Seq(Frames) /\ Len(S) = Depth
      /\ \A i \in 1..(Depth - 1) : S[i] = stack[i]
      /\ S[Depth].rel = This /\ S[Depth].at = Top.at
      /\ S[Depth].maxChildLevel = Top.maxChildLevel /\ S[Depth].child = Member
  BY <1>1, <1>2, <1>3, ChildShape
<1> HIDE DEF S
<1>5. \A i \in 1..Len(S) : /\ S[i].rel = stack[i].rel /\ S[i].at = stack[i].at
                           /\ S[i].maxChildLevel = stack[i].maxChildLevel
  <2> SUFFICES ASSUME NEW i \in 1..Depth
               PROVE  /\ S[i].rel = stack[i].rel /\ S[i].at = stack[i].at
                      /\ S[i].maxChildLevel = stack[i].maxChildLevel
    BY <1>4
  <2>1. CASE i = Depth
    BY <1>4, <2>1 DEF This, Top
  <2>2. CASE i # Depth
    BY <1>2, <1>4, <2>2
  <2> QED
    BY <2>1, <2>2
<1>6. AtChild(S[Depth])
  BY <1>2, <1>4 DEF AtChild, Member
<1>7. /\ members' \in [Rels -> Seq(Refs \union {Cleared})]
      /\ \A q \in pending \union {Member} : Len(members'[q]) \in Nat
      /\ \A q \in pending : members'[q] = members[q]
      /\ \A q \in Rels : \A j \in DOMAIN members'[q] :
            j \in DOMAIN members[q] /\ members'[q][j] \in {members[q][j], Cleared}
  BY <1>2, <1>3 DEF Types, IInv, StackInv
<1>8. /\ Len(S) = Len(stack) /\ S[Len(S)].child = Member /\ AtChild(S[Len(S)])
      /\ \A i \in 1..(Len(S) - 1) : S[i].child = stack[i].child
      /\ pc' = "member" /\ cyclical' = << >>
  BY <1>2, <1>3, <1>4, <1>6
<1> QED
  BY <1>1, <1>3, <1>4, <1>5, <1>7, <1>8, CallPreserves

LEMMA FindResolvedPreserves == ASSUME IInv, FindResolved PROVE IInv'
<1>1. AtMember /\ stack # << >>
  BY AtMemberStack DEF FindResolved, AtMember
<1>2. /\ Types /\ Top.at \in DOMAIN members[This] /\ This \in Rels
      /\ Depth \in Nat \ {0} /\ Len(stack) = Depth /\ cyclical = << >>
  BY <1>1, MemberFacts
<1> DEFINE S == [stack EXCEPT ![Depth].child = Member]
<1>3. /\ Member \in Rels /\ Member \in resolved /\ pc' = "use" /\ stack' = S
      /\ UNCHANGED <<cursor, members, resolved, pending, tiled, level, cyclical, levels>>
  BY <1>2 DEF FindResolved, Types, relVars
<1>4. /\ S \in Seq(Frames) /\ Len(S) = Depth
      /\ \A i \in 1..(Depth - 1) : S[i] = stack[i]
      /\ S[Depth].rel = This /\ S[Depth].at = Top.at
      /\ S[Depth].maxChildLevel = Top.maxChildLevel /\ S[Depth].child = Member
  BY <1>1, <1>2, <1>3, ChildShape
<1> HIDE DEF S
<1>5. \A i \in 1..Depth : /\ stack'[i].rel = stack[i].rel /\ stack'[i].at = stack[i].at
                          /\ stack'[i].maxChildLevel = stack[i].maxChildLevel
  <2> SUFFICES ASSUME NEW i \in 1..Depth
               PROVE  /\ S[i].rel = stack[i].rel /\ S[i].at = stack[i].at
                      /\ S[i].maxChildLevel = stack[i].maxChildLevel
    BY <1>3
  <2>1. CASE i = Depth
    BY <1>4, <2>1 DEF This, Top
  <2>2. CASE i # Depth
    BY <1>2, <1>4, <2>2
  <2> QED
    BY <2>1, <2>2
<1>6. Len(stack') = Depth /\ stack' # << >>
  <2>1. Len(stack') # 0
    BY <1>2, <1>3, <1>4
  <2> QED
    BY <1>3, <1>4, <2>1
<1>7. Types' /\ NoSelfReference'
  BY <1>2, <1>3, <1>4 DEF IInv, Types, NoSelfReference
<1>8. StackInv'
  <2>1. \A r \in Rels : r \in pending' <=> \E i \in 1..Len(stack') : stack'[i].rel = r
    BY <1>2, <1>3, <1>5, <1>6 DEF IInv, StackInv
  <2>2. \A i \in 1..Len(stack') : i \in 1..Len(stack) /\ stack'[i].rel = stack[i].rel
    <3>1. Len(stack') = Depth /\ Len(stack) = Depth
      BY <1>2, <1>6
    <3> QED
      BY <1>5, <3>1
  <2>3. \A i, j \in 1..Len(stack') : stack'[i].rel = stack'[j].rel => i = j
    BY <2>2 DEF IInv, StackInv
  <2>4. \A i \in 1..Len(stack') : stack'[i].rel \notin resolved'
    BY <1>2, <1>3, <1>4, <2>2 DEF IInv, StackInv
  <2>5. /\ pending' \subseteq Rels
        /\ stack' = << >> <=> pc' \in {"next", "place"}
    BY <1>2, <1>3, <1>4, <1>6 DEF IInv, StackInv
  <2>6. stack'[1].rel = cursor'
    <3>1. 1 \in 1..Len(stack')
      BY <1>3, <1>6
    <3> QED
      BY <1>2, <1>3, <1>4, <2>2, <3>1 DEF IInv, StackInv
  <2> QED
    BY <2>1, <2>3, <2>4, <2>5, <2>6 DEF StackInv
<1>9. FrameInv'
  BY <1>2, <1>3, <1>5, <1>6 DEF IInv, FrameInv, Fits
<1>10. CallInv'
  <2>1. \A i \in 1..(Depth - 1) : stack'[i] = stack[i] /\ stack'[i + 1].rel = stack[i + 1].rel
    BY <1>2, <1>3, <1>4, <1>5
  <2> QED
    BY <1>2, <1>3, <1>6, <2>1 DEF IInv, CallInv, AtChild
<1>11. TopInv'
  <2>1. /\ Top' = S[Depth] /\ This' = This /\ Top'.at = Top.at /\ Top'.child = Member
        /\ Member' = Member
    BY <1>3, <1>4 DEF Top, This, Depth, Member
  <2> QED
    BY <1>2, <1>3, <2>1 DEF TopInv
<1>12. CycleInv'
  BY <1>2, <1>3 DEF CycleInv
<1>13. ChildrenBelow' /\ PlacedInv'
  BY <1>3 DEF IInv, ChildrenBelow, PlacedInv, FindResolved, AtMember
<1> QED
  BY <1>7, <1>8, <1>9, <1>10, <1>11, <1>12, <1>13 DEF IInv

LEMMA FindCyclePreserves == ASSUME IInv, FindCycle PROVE IInv'
<1>1. AtMember /\ stack # << >>
  BY AtMemberStack DEF FindCycle, AtMember
<1>2. /\ Types /\ Member # This /\ This \in Rels /\ cyclical = << >>
      /\ Depth \in Nat \ {0} /\ cursor \in Rels /\ This \notin resolved
  BY <1>1, MemberFacts
<1>3. /\ Member \in pending /\ Member \in Rels /\ Return("failed")
      /\ cyclical' = <<<<This, Member>>>>
      /\ UNCHANGED <<cursor, members, resolved, tiled, level, levels>>
  BY <1>2 DEF FindCycle, IInv, StackInv
<1>4. cyclical' \in Seq(Rels \X Rels) /\ tiled' \subseteq Rels /\ level' \in [Rels -> Nat]
  BY <1>2, <1>3 DEF Types
<1>5. /\ Types' /\ NoSelfReference' /\ StackInv' /\ FrameInv' /\ CallInv'
      /\ \A r \in Rels : r \in pending' <=> r \in pending /\ r # This
      /\ Depth > 1 => /\ pc' = "failed" /\ Top'.child = This /\ AtChild(Top)'
      /\ Depth = 1 => pc' = "place"
  BY <1>1, <1>3, <1>4, ReturnPreserves
<1>6. Member \in pending'
  BY <1>2, <1>3, <1>5
<1>7. pc' = "failed" /\ Top'.child = This /\ AtChild(Top)'
  <2>1. stack' # << >>
    <3>1. \E i \in 1..Len(stack') : stack'[i].rel = Member
      BY <1>3, <1>5, <1>6 DEF StackInv
    <3> QED
      BY <3>1
  <2>2. pc' \notin {"next", "place"}
    BY <1>5, <2>1 DEF StackInv
  <2>3. Depth > 1
    BY <1>2, <1>5, <2>2
  <2> QED
    BY <1>5, <2>3
<1>8. TopInv'
  BY <1>2, <1>3, <1>5, <1>7 DEF TopInv
<1>9. CycleInv'
  BY <1>2, <1>3, <1>5, <1>6, <1>7 DEF CycleInv
<1>10. ChildrenBelow' /\ PlacedInv'
  BY <1>2, <1>3, <1>7 DEF IInv, ChildrenBelow, PlacedInv, Rels
<1> QED
  BY <1>5, <1>8, <1>9, <1>10 DEF IInv

LEMMA UnwindPreserves == ASSUME IInv, Unwind PROVE IInv'
<1>1. pc = "failed" /\ stack # << >>
  BY AtMemberStack DEF Unwind
<1>2. /\ Types /\ This \in Rels /\ Depth \in Nat \ {0} /\ Len(stack) = Depth
      /\ Top \in Frames
  BY <1>1, TopFacts DEF IInv
<1>3. /\ Top.child \in Rels /\ cursor \in Rels
      /\ AtChild(Top) /\ Top.child \notin resolved \union pending
      /\ This \in pending /\ This \notin resolved
  BY <1>1, <1>2 DEF Frames, IInv, TopInv, PlacedInv, Types, Rels, StackInv, This, Top
<1>4. /\ Len(cyclical) \in Nat \ {0} /\ cyclical[1][2] \in pending
      /\ \A i \in 1..Len(cyclical) : cyclical[i][1] \notin pending
  BY <1>1, <1>2 DEF IInv, CycleInv, Types
<1>5. /\ cyclical' = Append(cyclical, <<This, Top.child>>)
      /\ UNCHANGED <<cursor, members, resolved, tiled, level, levels>>
  BY DEF Unwind
<1>6. /\ cyclical' \in Seq(Rels \X Rels) /\ Len(cyclical') = Len(cyclical) + 1
      /\ \A i \in 1..Len(cyclical) : cyclical'[i] = cyclical[i]
      /\ cyclical'[Len(cyclical) + 1] = <<This, Top.child>>
  BY <1>2, <1>3, <1>5 DEF Types
<1>7. cyclical'[1] = cyclical[1]
  BY <1>4, <1>6
<1>8. CASE cyclical[1][2] = This
  <2>1. pc' = "break" /\ UNCHANGED <<stack, pending>>
    BY <1>7, <1>8 DEF Unwind
  <2>2. Types' /\ NoSelfReference'
    BY <1>2, <1>5, <1>6, <2>1 DEF IInv, Types, NoSelfReference
  <2>3. StackInv'
    BY <1>1, <1>5, <2>1 DEF IInv, StackInv
  <2>4. FrameInv' /\ CallInv'
    BY <1>5, <2>1 DEF IInv, FrameInv, CallInv, Fits, AtChild
  <2>5. TopInv'
    BY <1>3, <1>5, <2>1 DEF TopInv, Top, Depth, AtChild
  <2>6. CycleInv'
    <3>1. /\ Len(cyclical') >= 2 /\ cyclical'[Len(cyclical')] = <<This, Top.child>>
          /\ \A i \in 1..(Len(cyclical') - 1) : cyclical'[i][1] \notin pending
      BY <1>4, <1>6
    <3>2. This' = This /\ Top' = Top
      BY <2>1 DEF This, Top, Depth
    <3> QED
      BY <2>1, <3>1, <3>2 DEF CycleInv
  <2>7. ChildrenBelow' /\ PlacedInv'
    BY <1>3, <1>5, <2>1 DEF IInv, ChildrenBelow, PlacedInv, Rels
  <2> QED
    BY <2>2, <2>3, <2>4, <2>5, <2>6, <2>7 DEF IInv
<1>9. CASE cyclical[1][2] # This
  <2>1. Return("failed")
    BY <1>7, <1>9 DEF Unwind
  <2>2. tiled' \subseteq Rels /\ level' \in [Rels -> Nat]
    BY <1>2, <1>5 DEF Types
  <2>3. /\ Types' /\ NoSelfReference' /\ StackInv' /\ FrameInv' /\ CallInv'
        /\ \A r \in Rels : r \in pending' <=> r \in pending /\ r # This
        /\ Depth > 1 => /\ pc' = "failed" /\ Top'.child = This /\ AtChild(Top)'
        /\ Depth = 1 => pc' = "place"
    BY <1>1, <1>5, <1>6, <2>1, <2>2, ReturnPreserves
  <2>4. cyclical[1][2] \in Rels
    BY <1>4 DEF IInv, StackInv
  <2>5. cyclical[1][2] \in pending'
    BY <1>4, <1>9, <2>3, <2>4
  <2>6. pc' = "failed" /\ Top'.child = This /\ AtChild(Top)'
    <3>1. \E i \in 1..Len(stack') : stack'[i].rel = cyclical[1][2]
      BY <2>3, <2>4, <2>5 DEF StackInv
    <3>2. stack' # << >>
      BY <3>1
    <3>3. pc' \notin {"next", "place"}
      BY <2>3, <3>2 DEF StackInv
    <3>4. Depth > 1
      BY <1>2, <2>3, <3>3
    <3> QED
      BY <2>3, <3>4
  <2>7. TopInv'
    BY <1>2, <1>3, <1>5, <2>3, <2>6 DEF TopInv
  <2>8. CycleInv'
    <3>1. \A i \in 1..(Len(cyclical) + 1) : cyclical'[i][1] \notin pending'
      <4> SUFFICES ASSUME NEW i \in 1..(Len(cyclical) + 1)
                   PROVE  cyclical'[i][1] \notin pending'
        OBVIOUS
      <4>1. CASE i \in 1..Len(cyclical)
        <5>1. cyclical'[i][1] \notin pending
          BY <1>4, <1>6, <4>1
        <5>2. pending' \subseteq pending
          BY <2>1 DEF Return
        <5> QED
          BY <5>1, <5>2
      <4>2. CASE i = Len(cyclical) + 1
        BY <1>2, <1>6, <2>3, <4>2
      <4> QED
        BY <1>4, <4>1, <4>2
    <3>2. Len(cyclical') >= 1 /\ cyclical'[1][2] \in pending'
      BY <1>4, <1>6, <1>7, <2>5
    <3> QED
      BY <1>6, <2>6, <3>1, <3>2 DEF CycleInv
  <2>9. ChildrenBelow' /\ PlacedInv'
    BY <1>3, <1>5, <2>6 DEF IInv, ChildrenBelow, PlacedInv, Rels
  <2> QED
    BY <2>3, <2>7, <2>8, <2>9 DEF IInv
<1> QED
  BY <1>8, <1>9

LEMMA BreakPreserves == ASSUME IInv, BreakCycle PROVE IInv'
<1>1. pc = "break" /\ stack # << >>
  BY AtMemberStack DEF BreakCycle
<1>2. /\ Types /\ This \in Rels /\ Depth \in Nat \ {0} /\ Len(stack) = Depth
      /\ Top \in Frames /\ members[This] \in Seq(Refs \union {Cleared})
  BY <1>1, TopFacts DEF IInv
<1>3. /\ Top.child \in Rels /\ cursor \in Rels
      /\ AtChild(Top) /\ Top.child \notin resolved \union pending
      /\ This \in pending /\ This \notin resolved
  BY <1>1, <1>2 DEF Frames, IInv, TopInv, PlacedInv, Types, Rels, StackInv, This, Top
<1>4. PICK i \in Losers :
         LET loser == cyclical[i][1] IN
         /\ ClearMember(loser, cyclical[i][2])
         /\ IF loser = This THEN pc' = "use" /\ UNCHANGED <<stack, pending>>
                            ELSE Call(Top.child)
  BY DEF BreakCycle
<1> DEFINE loser == cyclical[i][1]
<1>5. /\ i \in 1..Len(cyclical) /\ Len(cyclical) \in Nat /\ loser \in Rels
      /\ cyclical[Len(cyclical)] = <<This, Top.child>>
      /\ \A j \in 1..(Len(cyclical) - 1) : cyclical[j][1] \notin pending
  <2>1. cyclical \in Seq(Rels \X Rels)
    BY <1>2 DEF Types
  <2>2. Len(cyclical) \in Nat /\ DOMAIN cyclical = 1..Len(cyclical)
    BY <2>1
  <2>3. i \in DOMAIN cyclical
    BY DEF Losers
  <2>4. cyclical[i] \in Rels \X Rels
    BY <2>1, <2>2, <2>3
  <2>5. loser \in Rels
    BY <2>4
  <2>6. /\ cyclical[Len(cyclical)] = <<This, Top.child>>
        /\ \A j \in 1..(Len(cyclical) - 1) : cyclical[j][1] \notin pending
    BY <1>1 DEF IInv, CycleInv
  <2> QED
    BY <2>2, <2>3, <2>5, <2>6
<1>6. cyclical' = << >> /\ UNCHANGED <<cursor, resolved, tiled, level, levels>>
  BY DEF BreakCycle
<1>7. CASE loser = This
  <2>1. pc' = "use" /\ UNCHANGED <<stack, pending>>
    BY <1>4, <1>7
  <2>2. cyclical[i][2] = Top.child
    <3>1. i = Len(cyclical)
      BY <1>3, <1>5, <1>7
    <3> QED
      BY <1>5, <3>1
  <2>3. Top.at \in DOMAIN members[This] /\ members[This][Top.at] = Top.child
    BY <1>3 DEF AtChild, This
  <2>4. PICK j \in DOMAIN members[This] : IsFirst(This, Top.child, j) /\ Clear(This, j)
    BY <1>4, <1>7, <2>2, <2>3 DEF ClearMember
  <2>5. j = Top.at
    <3>1. DOMAIN members[This] = 1..Len(members[This]) /\ Len(members[This]) \in Nat
      BY <1>2
    <3>2. \A k \in 1..(Top.at - 1) : Fits(members[This][k], Top.maxChildLevel)
      BY <1>2 DEF IInv, FrameInv, This, Top
    <3>3. ~Fits(Top.child, Top.maxChildLevel)
      BY <1>3, RefsAssumption DEF Fits, Refs
    <3>4. ~(j < Top.at)
      BY <2>3, <2>4, <3>1, <3>2, <3>3 DEF IsFirst
    <3>5. ~(Top.at < j)
      BY <2>3, <2>4, <3>1 DEF IsFirst
    <3> QED
      BY <2>3, <3>1, <3>4, <3>5
  <2>6. /\ members' \in [Rels -> Seq(Refs \union {Cleared})]
        /\ \A q \in Rels : /\ DOMAIN members'[q] = DOMAIN members[q]
                          /\ Len(members'[q]) = Len(members[q])
        /\ \A q \in Rels : \A k \in DOMAIN members[q] :
              members'[q][k] = IF q = This /\ k = Top.at THEN Cleared ELSE members[q][k]
    BY <1>2, <2>3, <2>4, <2>5, ClearShape
  <2>7. Types' /\ NoSelfReference'
    <3>1. Types'
      BY <1>2, <1>6, <2>1, <2>6 DEF Types
    <3>2. NoSelfReference'
      BY <2>6, RefsAssumption DEF IInv, NoSelfReference, Refs
    <3> QED
      BY <3>1, <3>2
  <2>8. StackInv'
    BY <1>1, <1>6, <2>1 DEF IInv, StackInv
  <2>9. FrameInv'
    <3> SUFFICES ASSUME NEW k \in 1..Depth
                 PROVE  /\ stack[k].at \in 1..(Len(members'[stack[k].rel]) + 1)
                        /\ \A n \in 1..(stack[k].at - 1) :
                              Fits(members'[stack[k].rel][n], stack[k].maxChildLevel)
      BY <1>2, <1>6, <2>1 DEF FrameInv, Fits
    <3>1. stack[k] \in Frames
      BY <1>2 DEF Types
    <3>2. stack[k].rel \in Rels /\ stack[k].at \in Nat
      BY <3>1 DEF Frames
    <3>3. /\ stack[k].at \in 1..(Len(members[stack[k].rel]) + 1)
          /\ \A n \in 1..(stack[k].at - 1) :
                Fits(members[stack[k].rel][n], stack[k].maxChildLevel)
      BY <1>2 DEF IInv, FrameInv
    <3>4. stack[k].rel = This => k = Depth
      BY <1>2 DEF IInv, StackInv, This, Top
    <3>5. DOMAIN members[stack[k].rel] = 1..Len(members[stack[k].rel])
      BY <1>2, <3>2 DEF Types
    <3>6. ASSUME NEW n \in 1..(stack[k].at - 1)
          PROVE  members'[stack[k].rel][n] = members[stack[k].rel][n]
      <4>1. n \in DOMAIN members[stack[k].rel]
        BY <3>2, <3>3, <3>5
      <4>2. ~(stack[k].rel = This /\ n = Top.at)
        BY <3>2, <3>4 DEF Top
      <4> QED
        BY <2>6, <3>2, <4>1, <4>2
    <3> QED
      BY <2>6, <3>2, <3>3, <3>6
  <2>10. CallInv'
    <3> SUFFICES ASSUME NEW k \in 1..(Depth - 1)
                 PROVE  AtChild(stack[k])' /\ stack[k].child = stack[k + 1].rel
      BY <1>2, <2>1 DEF CallInv, AtChild
    <3>1. AtChild(stack[k]) /\ stack[k].child = stack[k + 1].rel
      BY <1>2 DEF IInv, CallInv
    <3>2. stack[k].rel # This
      BY <1>2 DEF IInv, StackInv, This, Top
    <3>3. stack[k].rel \in Rels
      <4>1. stack[k] \in Frames
        BY <1>2 DEF Types
      <4> QED
        BY <4>1 DEF Frames
    <3> QED
      BY <2>1, <2>6, <3>1, <3>2, <3>3 DEF AtChild
  <2>11. TopInv'
    <3>1. This' = This /\ Top' = Top
      BY <2>1 DEF This, Top, Depth
    <3>2. Top.at \in DOMAIN members'[This] /\ members'[This][Top.at] = Cleared
      BY <1>2, <2>3, <2>6
    <3> QED
      BY <2>1, <3>1, <3>2 DEF TopInv, Member
  <2>12. CycleInv'
    BY <1>6, <2>1 DEF CycleInv
  <2>13. ChildrenBelow'
    BY <1>2, <1>6, <2>6 DEF IInv, ChildrenBelow, Types
  <2>14. PlacedInv'
    BY <1>3, <1>6, <2>1 DEF IInv, PlacedInv, Rels
  <2> QED
    BY <2>7, <2>8, <2>9, <2>10, <2>11, <2>12, <2>13, <2>14 DEF IInv
<1>8. CASE loser # This
  <2>1. /\ stack' = Append(stack, NewFrame(Top.child)) /\ pc' = "member"
        /\ pending' = pending \union {Top.child}
    BY <1>4, <1>8 DEF Call
  <2>2. loser \notin pending
    <3>1. i # Len(cyclical)
      BY <1>5, <1>8
    <3> QED
      BY <1>5, <3>1
  <2>3. \/ members' = members
        \/ \E j \in DOMAIN members[loser] : Clear(loser, j)
    BY <1>4 DEF ClearMember
  <2>4. /\ members' \in [Rels -> Seq(Refs \union {Cleared})]
        /\ \A q \in Rels : DOMAIN members'[q] = DOMAIN members[q]
        /\ \A q \in Rels : \A j \in DOMAIN members[q] :
              \/ members'[q][j] = members[q][j]
              \/ q = loser /\ members'[q][j] = Cleared
    <3>1. CASE members' = members
      BY <1>2, <3>1 DEF Types
    <3>2. CASE \E j \in DOMAIN members[loser] : Clear(loser, j)
      BY <1>2, <1>5, <3>2, ClearShape
    <3> QED
      BY <2>3, <3>1, <3>2
  <2>5. \A q \in pending : members'[q] = members[q]
    <3> SUFFICES ASSUME NEW q \in pending PROVE members'[q] = members[q]
      OBVIOUS
    <3>1. q \in Rels /\ q # loser
      BY <2>2 DEF IInv, StackInv
    <3>2. CASE members' = members
      BY <3>2
    <3>3. CASE \E j \in DOMAIN members[loser] : Clear(loser, j)
      BY <1>2, <3>1, <3>3 DEF Clear, Types
    <3> QED
      BY <2>3, <3>2, <3>3
  <2>6. \A q \in pending \union {Top.child} : Len(members'[q]) \in Nat
    BY <1>3, <2>4 DEF IInv, StackInv
  <2>7. \A q \in Rels : \A j \in DOMAIN members'[q] :
           j \in DOMAIN members[q] /\ members'[q][j] \in {members[q][j], Cleared}
    BY <2>4
  <2>8. /\ stack \in Seq(Frames)
        /\ stack[Len(stack)].child = Top.child /\ AtChild(stack[Len(stack)])
    BY <1>2, <1>3 DEF Types, Top
  <2> HIDE DEF loser
  <2> QED
    BY <1>1, <1>3, <1>6, <2>1, <2>4, <2>5, <2>6, <2>7, <2>8, CallPreserves
<1> QED
  BY <1>7, <1>8

LEMMA ResolvePreserves == ASSUME IInv, Resolve PROVE IInv'
<1>1. pc = "member" /\ AtEnd /\ stack # << >>
  BY AtMemberStack DEF Resolve
<1>2. /\ Types /\ This \in Rels /\ Depth \in Nat \ {0} /\ Len(stack) = Depth
      /\ Top \in Frames /\ members[This] \in Seq(Refs \union {Cleared})
      /\ Len(members[This]) \in Nat
  BY <1>1, TopFacts DEF IInv
<1>3. cursor \in Rels /\ This \notin resolved /\ cyclical = << >>
  BY <1>1, <1>2 DEF IInv, PlacedInv, Types, Rels, StackInv, This, Top, CycleInv
<1>4. Top.maxChildLevel \in Nat /\ Top.at \in Nat
  BY <1>2 DEF Frames
<1>5. /\ Return("use") /\ UNCHANGED <<cursor, members, cyclical, levels>>
      /\ resolved' = resolved \union {This}
      /\ level' = [level EXCEPT ![This] = Top.maxChildLevel + 1]
      /\ tiled' = IF Top.tiled THEN tiled \union {This} ELSE tiled
  BY DEF Resolve
<1>6. /\ tiled' \subseteq Rels /\ tiled \subseteq tiled'
      /\ \A r \in Rels : r # This => (r \in tiled' <=> r \in tiled)
  BY <1>2, <1>5 DEF Types
<1>7. /\ level' \in [Rels -> Nat] /\ level'[This] = Top.maxChildLevel + 1
      /\ \A r \in Rels : r # This => level'[r] = level[r]
  BY <1>2, <1>4, <1>5 DEF Types
<1>8. cyclical' \in Seq(Rels \X Rels)
  BY <1>3, <1>5
<1>9. /\ Types' /\ NoSelfReference' /\ StackInv' /\ FrameInv' /\ CallInv'
      /\ Depth > 1 => /\ pc' = "use" /\ Top'.child = This /\ AtChild(Top)'
                      /\ Member' = This
      /\ Depth = 1 => pc' = "place" /\ This = cursor
  BY <1>1, <1>5, <1>6, <1>7, <1>8, ReturnPreserves
<1>10. Depth > 1 \/ Depth = 1
  BY <1>2
<1>11. TopInv'
  <2>1. CASE Depth > 1
    BY <1>5, <1>9, <2>1 DEF TopInv, AtChild, This
  <2>2. CASE Depth = 1
    BY <1>9, <2>2 DEF TopInv
  <2> QED
    BY <1>10, <2>1, <2>2
<1>12. CycleInv'
  BY <1>3, <1>5, <1>9, <1>10 DEF CycleInv
<1>13. ChildrenBelow'
  <2> SUFFICES ASSUME NEW r \in resolved', NEW k \in DOMAIN members[r]
               PROVE  \/ members[r][k] \in {Cleared, Regular}
                      \/ /\ members[r][k] \in resolved' \intersect tiled'
                         /\ level'[members[r][k]] < level'[r]
    BY <1>5 DEF ChildrenBelow
  <2>1. ASSUME NEW m \in resolved \intersect tiled
        PROVE  m \in resolved' \intersect tiled' /\ level'[m] = level[m] /\ level[m] \in Nat
    BY <1>2, <1>3, <1>5, <1>6, <1>7 DEF Types
  <2>2. CASE r = This
    <3>1. k \in 1..(Top.at - 1)
      <4>1. Top.at > Len(members[This])
        BY <1>1 DEF AtEnd
      <4> QED
        BY <1>2, <1>4, <2>2, <4>1
    <3>2. Fits(members[r][k], Top.maxChildLevel)
      BY <1>2, <2>2, <3>1 DEF IInv, FrameInv, This, Top
    <3> QED
      BY <1>4, <1>7, <2>1, <2>2, <3>2 DEF Fits
  <2>3. CASE r # This
    <3>1. r \in resolved /\ r \in Rels
      BY <1>2, <1>5, <2>3 DEF Types
    <3>2. \/ members[r][k] \in {Cleared, Regular}
          \/ /\ members[r][k] \in resolved \intersect tiled
             /\ level[members[r][k]] < level[r]
      BY <3>1 DEF IInv, ChildrenBelow
    <3>3. level'[r] = level[r]
      BY <1>7, <2>3, <3>1
    <3> QED
      BY <2>1, <3>2, <3>3
  <2> QED
    BY <2>2, <2>3
<1>14. PlacedInv'
  <2>1. /\ levels \in [0..MaxRelationLevel -> SUBSET Rels]
        /\ \A r \in 1..(cursor - 1) : r \in resolved
        /\ \A l \in 0..MaxRelationLevel : \A r \in Rels :
              r \in levels[l] <=> r < cursor /\ r \in tiled /\ level[r] = l
    BY DEF IInv, PlacedInv
  <2>2. ~(This < cursor)
    BY <1>2, <1>3, <2>1 DEF Rels
  <2>3. \A l \in 0..MaxRelationLevel : \A r \in Rels :
           r \in levels[l] <=> r < cursor /\ r \in tiled' /\ level'[r] = l
    BY <1>6, <1>7, <2>1, <2>2
  <2>4. pc' = "place" => cursor \in resolved'
    BY <1>5, <1>9, <1>10
  <2> QED
    BY <1>3, <1>5, <2>1, <2>3, <2>4 DEF PlacedInv, Rels
<1> QED
  BY <1>9, <1>11, <1>12, <1>13, <1>14 DEF IInv

-----------------------------------------------------------------------------
(* Reachability: the recursion of Reachable() gets to all members of       *)
(* members, as there are only NRels relations.                             *)

ReachIn(r) == LET Reach[n \in 0..NRels] ==
                    IF n = 0 THEN References({r})
                    ELSE Reach[n - 1] \union References(Reach[n - 1])
              IN  Reach

(* Membership in the members of a set *)
LEMMA ReferenceOf ==
    ASSUME NEW S, NEW c
    PROVE  c \in References(S) <=>
             c \in Rels /\ \E r \in S : \E i \in DOMAIN input.refs[r] : input.refs[r][i] = c
BY DEF References

Onward == [S \in SUBSET Rels |-> References(S)]

(* The recursion: the members of a set are added to it, again and again *)
LEMMA ReachGrows ==
    ASSUME NEW r
    PROVE  ReachIn(r) \in Growing(NRels, References({r}), Onward) /\ Reachable(r) = ReachIn(r)[NRels]
<1> DEFINE base == References({r})
<1>0. NRels \in Nat /\ Rels = 1..NRels
  BY SizesAssumption DEF Rels
<1>1. base \in SUBSET Rels /\ Onward \in [SUBSET Rels -> SUBSET Rels]
  BY DEF References, Onward
<1>2. ASSUME NEW S \in SUBSET Rels PROVE Onward[S] = References(S)
  BY DEF Onward
<1>3. PICK g : g \in Growing(NRels, base, Onward)
  <2> HIDE DEF base
  <2> QED
    BY <1>0, <1>1, GrowingExists
<1>4. g = [n \in 0..NRels |-> IF n = 0 THEN base ELSE g[n - 1] \union References(g[n - 1])]
  <2> HIDE DEF base
  <2>1. g \in [0..NRels -> SUBSET Rels] /\ g[0] = base
    BY <1>0, <1>3 DEF Growing
  <2>2. ASSUME NEW n \in 0..NRels
        PROVE  g[n] = IF n = 0 THEN base ELSE g[n - 1] \union References(g[n - 1])
    <3>1. CASE n = 0
      BY <2>1, <3>1
    <3>2. CASE n \in 1..NRels
      <4>1. n - 1 \in 0..NRels
        BY <1>0, <3>2
      <4>2. g[n] = g[n - 1] \union Onward[g[n - 1]]
        BY <1>3, <3>2 DEF Growing
      <4> QED
        BY <1>2, <2>1, <3>2, <4>1, <4>2
    <3> QED
      BY <1>0, <3>1, <3>2
  <2> QED
    BY <2>1, <2>2
<1>5. ReachIn(r) = [n \in 0..NRels |->
         IF n = 0 THEN base ELSE ReachIn(r)[n - 1] \union References(ReachIn(r)[n - 1])]
  BY <1>4 DEF ReachIn
<1>6. /\ ReachIn(r)[0] = base
      /\ \A n \in 1..NRels :
            ReachIn(r)[n] = ReachIn(r)[n - 1] \union References(ReachIn(r)[n - 1])
  <2> HIDE DEF base
  <2>1. 0 \in 0..NRels /\ \A n \in 1..NRels : n \in 0..NRels /\ n # 0
    BY <1>0
  <2> QED
    BY <1>5, <2>1
<1>7. 0..NRels \subseteq {n \in 0..NRels : ReachIn(r)[n] \in SUBSET Rels}
  <2> DEFINE P == {n \in 0..NRels : ReachIn(r)[n] \in SUBSET Rels}
  <2>1. 0 \in P
    BY <1>0, <1>1, <1>6
  <2>2. ASSUME NEW n \in 1..NRels, n - 1 \in P PROVE n \in P
    <3>1. n \in 0..NRels /\ ReachIn(r)[n - 1] \subseteq Rels
      BY <1>0, <2>2
    <3>2. ReachIn(r)[n] = ReachIn(r)[n - 1] \union References(ReachIn(r)[n - 1])
      BY <1>6
    <3> QED
      BY <3>1, <3>2 DEF References
  <2> HIDE DEF P
  <2>3. 0..NRels \subseteq P
    BY <1>0, <2>1, <2>2, IntervalInduction
  <2> QED
    BY <2>3 DEF P
<1>8. ASSUME NEW n \in 1..NRels PROVE ReachIn(r)[n] = ReachIn(r)[n - 1] \union Onward[ReachIn(r)[n - 1]]
  <2>1. n - 1 \in 0..NRels
    BY <1>0
  <2> QED
    BY <1>2, <1>6, <1>7, <2>1
<1>9. ReachIn(r) \in [0..NRels -> SUBSET (1..NRels)]
  <2> DEFINE f(n) == IF n = 0 THEN base ELSE ReachIn(r)[n - 1] \union References(ReachIn(r)[n - 1])
  <2>1. ReachIn(r) = [n \in 0..NRels |-> f(n)]
    BY <1>5
  <2> HIDE DEF f
  <2> QED
    BY <1>0, <1>7, <2>1
<1>10. Reachable(r) = ReachIn(r)[NRels]
  BY DEF Reachable, ReachIn
<1> HIDE DEF base
<1>11. ReachIn(r) \in Growing(NRels, base, Onward)
  BY <1>6, <1>8, <1>9 DEF Growing
<1> QED
  BY <1>10, <1>11 DEF base

(* What is reached is closed: members of members are in it *)
LEMMA ReachClosed ==
    ASSUME NEW r
    PROVE  References(Reachable(r)) \subseteq Reachable(r)
<1>1. NRels \in Nat /\ Onward \in [SUBSET (1..NRels) -> SUBSET (1..NRels)] /\ Rels = 1..NRels
  BY SizesAssumption DEF References, Onward, Rels
<1>2. PICK g \in Growing(NRels, References({r}), Onward) : Reachable(r) = g[NRels]
  BY ReachGrows
<1>3. Onward[g[NRels]] \subseteq g[NRels]
  BY <1>1, GrowingCloses
<1>4. g[NRels] \in SUBSET Rels
  BY <1>1, GrowingBegins
<1> QED
  BY <1>2, <1>3, <1>4 DEF Onward

(* It has the members of r, ... *)
LEMMA ReachMember ==
    ASSUME NEW r \in Rels, NEW i \in DOMAIN input.refs[r], input.refs[r][i] \in Rels
    PROVE  input.refs[r][i] \in Reachable(r)
<1>1. input.refs[r][i] \in References({r})
  BY ReferenceOf
<1>2. NRels \in Nat
  BY SizesAssumption
<1>3. PICK g \in Growing(NRels, References({r}), Onward) : Reachable(r) = g[NRels]
  BY ReachGrows
<1>4. References({r}) \subseteq g[NRels]
  BY <1>2, GrowingBegins
<1> QED
  BY <1>1, <1>3, <1>4

(* ... and no more than any closed set with these. *)
LEMMA ReachLeast ==
    ASSUME NEW r, NEW T, References({r}) \subseteq T, References(T) \subseteq T
    PROVE  Reachable(r) \subseteq T
<1>1. NRels \in Nat /\ Rels = 1..NRels
  BY SizesAssumption DEF Rels
<1>2. ASSUME NEW S \in SUBSET Rels, S \subseteq T PROVE Onward[S] \subseteq T
  BY <1>2 DEF Onward, References
<1>3. PICK g \in Growing(NRels, References({r}), Onward) : Reachable(r) = g[NRels]
  BY ReachGrows
<1>4. g[NRels] \subseteq T
  BY <1>1, <1>2, GrowingLeast
<1> QED
  BY <1>3, <1>4

LEMMA ReachTransitive ==
    ASSUME NEW a, NEW b \in Reachable(a), NEW c \in Reachable(b)
    PROVE  c \in Reachable(a)
<1>1. References({b}) \subseteq References(Reachable(a))
  BY DEF References
<1> QED
  BY <1>1, ReachClosed, ReachLeast

-----------------------------------------------------------------------------
(* Why members are given up *)

GivenUp(r, c) == \/ c = Missing
                 \/ c \in resolved \ tiled
                 \/ c \in Rels /\ r \in Reachable(c) /\ removed[r] > 0

(* A member is that of the input, or cleared for one of the reasons.       *)
MembersOf(r) == /\ DOMAIN members[r] = DOMAIN input.refs[r]
                /\ \A i \in DOMAIN members[r] :
                      \/ members[r][i] = input.refs[r][i]
                      \/ members[r][i] = Cleared /\ GivenUp(r, input.refs[r][i])

MembersInv == /\ input \in Inputs
              /\ removed \in [Rels -> Nat]
              /\ \A r \in Rels : MembersOf(r)

(* The relations that were unwound because of a cycle lie on it: each of   *)
(* them, and the member it was at, leads to the relation where the cycle   *)
(* closes, and the last one unwound leads to all the others.               *)
Closing == cyclical[1][2]
LastUnwound == cyclical[Len(cyclical)][1]

RingInv == pc \in {"failed", "break"} =>
    /\ \A i \in 1..Len(cyclical) :
          /\ Closing \in Reachable(cyclical[i][1])
          /\ cyclical[i][2] = Closing \/ Closing \in Reachable(cyclical[i][2])
          /\ i = Len(cyclical) \/ cyclical[i][1] \in Reachable(LastUnwound)
    /\ pc = "failed" => Top.child = LastUnwound
    /\ pc = "break" => LastUnwound = Closing

LEMMA ReachKept ==
    ASSUME input' = input, NEW c
    PROVE  Reachable(c)' = Reachable(c)
BY DEF Reachable, References

(* A reason stays valid. *)
LEMMA GivenUpKept ==
    ASSUME input' = input, resolved \ tiled \subseteq resolved' \ tiled',
           NEW r \in Rels, removed[r] \in Nat, removed'[r] \in Nat, removed'[r] >= removed[r],
           NEW c, GivenUp(r, c)
    PROVE  GivenUp(r, c)'
BY ReachKept DEF GivenUp

(* A step that gives up nothing. *)
LEMMA MembersKept ==
    ASSUME MembersInv, UNCHANGED <<input, members, removed>>,
           resolved \ tiled \subseteq resolved' \ tiled'
    PROVE  MembersInv'
<1>1. ASSUME NEW r \in Rels PROVE MembersOf(r)'
  <2>1. MembersOf(r) /\ removed[r] \in Nat
    BY DEF MembersInv
  <2>2. \A c : GivenUp(r, c) => GivenUp(r, c)'
    BY <2>1, GivenUpKept
  <2> QED
    BY <2>1, <2>2 DEF MembersOf
<1> QED
  BY <1>1 DEF MembersInv

(* A step that gives up one member. *)
LEMMA MembersCleared ==
    ASSUME Types, MembersInv, NEW r \in Rels, NEW i \in DOMAIN members[r], Clear(r, i),
           UNCHANGED input, resolved \ tiled \subseteq resolved' \ tiled',
           removed' \in [Rels -> Nat], \A q \in Rels : removed'[q] >= removed[q],
           GivenUp(r, input.refs[r][i])'
    PROVE  MembersInv'
<1>1. /\ \A q \in Rels : DOMAIN members'[q] = DOMAIN members[q]
      /\ \A q \in Rels : \A j \in DOMAIN members[q] :
            members'[q][j] = IF q = r /\ j = i THEN Cleared ELSE members[q][j]
  BY ClearShape
<1>2. ASSUME NEW q \in Rels PROVE MembersOf(q)'
  <2>1. MembersOf(q) /\ removed[q] \in Nat /\ removed'[q] \in Nat /\ removed'[q] >= removed[q]
    BY DEF MembersInv
  <2>2. \A c : GivenUp(q, c) => GivenUp(q, c)'
    BY <2>1, GivenUpKept
  <2>3. DOMAIN members'[q] = DOMAIN input'.refs[q]
    BY <1>1, <2>1 DEF MembersOf
  <2>4. ASSUME NEW j \in DOMAIN members'[q]
        PROVE  \/ members'[q][j] = input'.refs[q][j]
               \/ members'[q][j] = Cleared /\ GivenUp(q, input.refs[q][j])'
    <3>1. j \in DOMAIN members[q]
      BY <1>1
    <3>2. CASE q = r /\ j = i
      BY <1>1, <3>1, <3>2
    <3>3. CASE ~(q = r /\ j = i)
      <4>1. members'[q][j] = members[q][j]
        BY <1>1, <3>1, <3>3
      <4> QED
        BY <2>1, <2>2, <3>1, <4>1 DEF MembersOf
    <3> QED
      BY <3>2, <3>3
  <2> QED
    BY <2>3, <2>4 DEF MembersOf
<1> QED
  BY <1>2 DEF MembersInv

(* A member that is a relation stands in the input. *)
LEMMA MemberLeads ==
    ASSUME MembersInv, NEW r \in Rels, NEW i \in DOMAIN members[r], members[r][i] \in Rels
    PROVE  input.refs[r][i] = members[r][i] /\ members[r][i] \in Reachable(r)
<1>1. members[r][i] = input.refs[r][i] /\ i \in DOMAIN input.refs[r]
  BY RefsAssumption DEF MembersInv, MembersOf, Refs
<1> QED
  BY <1>1, ReachMember

(* The frame below the top is at the call of the top.                      *)
LEMMA BelowTop ==
    ASSUME IInv, stack # << >>, NEW label, Return(label), pc' = "failed"
    PROVE  Top'.child = This
<1>1. Types /\ Depth \in Nat \ {0} /\ Len(stack) = Depth
  BY TopFacts DEF IInv
<1>2. Depth # 1 \/ label = "failed"
  BY DEF Return
<1>3. CASE Depth # 1
  <2>1. /\ Len(stack') = Depth - 1 /\ stack'[Depth - 1] = stack[Depth - 1]
        /\ Depth - 1 \in 1..(Len(stack) - 1) /\ (Depth - 1) + 1 = Depth
    BY <1>1, <1>3, ReturnShape
  <2>2. stack[Depth - 1].child = stack[Depth].rel
    BY <2>1 DEF IInv, CallInv
  <2>3. Top' = stack[Depth - 1]
    BY <2>1 DEF Top, Depth
  <2> QED
    BY <2>2, <2>3 DEF This, Top
<1>4. CASE Depth = 1
  BY <1>4 DEF Return
<1> QED
  BY <1>3, <1>4

LEMMA FindCycleRings ==
    ASSUME IInv, MembersInv, FindCycle
    PROVE  RingInv'
<1>1. Types /\ stack # << >> /\ pc = "member" /\ cyclical = << >> /\ This \in Rels
  BY AtMemberStack, TopFacts DEF FindCycle, AtMember, IInv, CycleInv
<1>2. /\ cyclical' = Append(cyclical, <<This, Member>>)
      /\ Return("failed") /\ input' = input /\ ~AtEnd
      /\ Member \in Rels
  BY DEF FindCycle, AtMember, IInv, StackInv
<1>3. PICK a, b : a = This /\ b = Member
  OBVIOUS
<1>4. b \in Reachable(a)
  <2>1. Top.at \in DOMAIN members[This]
    BY <1>1, <1>2, TopFacts DEF AtEnd, Frames
  <2> QED
    BY <1>1, <1>2, <1>3, <2>1, MemberLeads DEF Member
<1>5. cyclical' = << <<a, b>> >>
  BY <1>1, <1>2, <1>3
<1>6. /\ Len(cyclical') = 1 /\ cyclical'[1] = <<a, b>>
      /\ Closing' = b /\ LastUnwound' = a
  BY <1>5 DEF Closing, LastUnwound
<1>7. pc' \in {"failed", "place"} /\ (pc' = "failed" => Top'.child = a)
  BY <1>1, <1>2, <1>3, BelowTop DEF Return
<1>8. Reachable(a)' = Reachable(a)
  BY <1>2, ReachKept
<1>9. ASSUME NEW i \in 1..Len(cyclical')
      PROVE  i = 1 /\ cyclical'[i][1] = a /\ cyclical'[i][2] = b
  BY <1>6
<1> QED
  BY <1>2, <1>4, <1>6, <1>7, <1>9, ReachKept DEF RingInv

LEMMA UnwindRings ==
    ASSUME IInv, MembersInv, RingInv, Unwind
    PROVE  RingInv'
<1>1. Types /\ stack # << >> /\ pc = "failed" /\ This \in Rels /\ Top \in Frames
  BY AtMemberStack, TopFacts DEF Unwind, IInv
<1>2. /\ cyclical' = Append(cyclical, <<This, Top.child>>) /\ input' = input
      /\ cyclical \in Seq(Rels \X Rels) /\ Len(cyclical) \in Nat /\ Len(cyclical) >= 1
  BY <1>1 DEF Unwind, IInv, Types, CycleInv
<1>3. PICK a, b, m, n : a = This /\ b = Top.child /\ m = Closing /\ n = Len(cyclical)
  OBVIOUS
<1>4. b \in Reachable(a) /\ b \in Rels
  <2>1. Top.at \in DOMAIN members[This] /\ members[This][Top.at] = Top.child
    BY <1>1 DEF IInv, TopInv, AtChild, This
  <2>2. Top.child \in Rels
    BY <1>1 DEF Frames
  <2> QED
    BY <1>1, <1>3, <2>1, <2>2, MemberLeads
<1>5. /\ n \in Nat /\ n >= 1 /\ Len(cyclical') = n + 1
      /\ cyclical'[n + 1][1] = a /\ cyclical'[n + 1][2] = b
      /\ \A i \in 1..n : cyclical'[i] = cyclical[i]
  BY <1>1, <1>2, <1>3 DEF Frames
<1>6. /\ LastUnwound = b
      /\ \A i \in 1..n :
            /\ m \in Reachable(cyclical[i][1])
            /\ cyclical[i][2] = m \/ m \in Reachable(cyclical[i][2])
            /\ i = n \/ cyclical[i][1] \in Reachable(b)
  BY <1>1, <1>3 DEF RingInv
<1>7. cyclical[n][1] = b /\ n \in 1..n
  BY <1>3, <1>5, <1>6 DEF LastUnwound
<1>8. Closing' = m /\ LastUnwound' = a
  <2>1. 1 \in 1..n
    BY <1>5
  <2> QED
    BY <1>3, <1>5, <2>1 DEF Closing, LastUnwound
<1>9. m \in Reachable(b) /\ m \in Reachable(a)
  BY <1>4, <1>6, <1>7, ReachTransitive
<1>10. ASSUME NEW i \in 1..(n + 1)
       PROVE  /\ m \in Reachable(cyclical'[i][1])
              /\ cyclical'[i][2] = m \/ m \in Reachable(cyclical'[i][2])
              /\ i = n + 1 \/ cyclical'[i][1] \in Reachable(a)
  <2>1. CASE i = n + 1
    BY <1>5, <1>9, <2>1
  <2>2. CASE i \in 1..n
    <3>1. cyclical'[i] = cyclical[i]
      BY <1>5, <2>2
    <3>2. cyclical[i][1] \in Reachable(a)
      <4>1. CASE i = n
        BY <1>4, <1>7, <4>1
      <4>2. CASE i # n
        BY <1>4, <1>6, <2>2, <4>2, ReachTransitive
      <4> QED
        BY <4>1, <4>2
    <3> QED
      BY <1>6, <2>2, <3>1, <3>2
  <2> QED
    BY <1>5, <2>1, <2>2
<1>11. pc' = "failed" => Top'.child = a
  <2>1. pc' = "failed" => Return("failed")
    BY DEF Unwind
  <2> QED
    BY <1>1, <1>3, <2>1, BelowTop
<1>12. pc' = "break" => a = m
  <2>1. pc' = "break" => cyclical'[1][2] = This
    BY DEF Unwind, Return
  <2> QED
    BY <1>3, <1>8, <2>1 DEF Closing
<1>13. \A c : Reachable(c)' = Reachable(c)
  BY <1>2, ReachKept
<1>14. \A i \in 1..Len(cyclical') :
          /\ Closing' \in Reachable(cyclical'[i][1])
          /\ cyclical'[i][2] = Closing' \/ Closing' \in Reachable(cyclical'[i][2])
          /\ i = Len(cyclical') \/ cyclical'[i][1] \in Reachable(LastUnwound')
  BY <1>5, <1>8, <1>10
<1> QED
  BY <1>2, <1>8, <1>11, <1>12, <1>14, ReachKept DEF RingInv

(* What the loser of a cycle gives up leads back to it. *)
LEMMA LoserOnCycle ==
    ASSUME IInv, RingInv, pc = "break", NEW i \in DOMAIN cyclical
    PROVE  cyclical[i][1] \in Reachable(cyclical[i][2])
<1>1. cyclical \in Seq(Rels \X Rels) /\ Len(cyclical) \in Nat /\ Len(cyclical) >= 2
  BY DEF IInv, Types, CycleInv
<1>2. PICK m, n, a, b : m = Closing /\ n = Len(cyclical) /\ a = cyclical[i][1] /\ b = cyclical[i][2]
  OBVIOUS
<1>3. i \in 1..n /\ cyclical[n][1] = m
  BY <1>1, <1>2 DEF RingInv, LastUnwound
<1>4. /\ m \in Reachable(a) /\ (b = m \/ m \in Reachable(b))
      /\ i = n \/ a \in Reachable(m)
  BY <1>2, <1>3 DEF RingInv
<1>5. CASE i = n
  BY <1>2, <1>3, <1>4, <1>5
<1>6. CASE i # n
  BY <1>2, <1>4, <1>6, ReachTransitive
<1> QED
  BY <1>5, <1>6

LEMMA BreakKeepsMembers ==
    ASSUME IInv, MembersInv, RingInv, BreakCycle
    PROVE  MembersInv'
<1>1. PICK i \in Losers :
         /\ ClearMember(cyclical[i][1], cyclical[i][2])
         /\ removed' = [removed EXCEPT ![cyclical[i][1]] = @ + 1]
  BY DEF BreakCycle
<1>2. /\ pc = "break" /\ UNCHANGED <<input, resolved, tiled>> /\ Types
      /\ cyclical \in Seq(Rels \X Rels) /\ i \in DOMAIN cyclical
  BY DEF BreakCycle, IInv, Types, Losers
<1>3. PICK a \in Rels, b \in Rels : a = cyclical[i][1] /\ b = cyclical[i][2]
  BY <1>2
<1>4. a \in Reachable(b)
  BY <1>2, <1>3, LoserOnCycle
<1>5. /\ removed \in [Rels -> Nat] /\ removed' = [removed EXCEPT ![a] = @ + 1]
  BY <1>1, <1>3 DEF MembersInv
<1>6. /\ removed' \in [Rels -> Nat] /\ removed'[a] > 0
      /\ \A q \in Rels : removed'[q] >= removed[q]
  BY <1>5
<1>7. GivenUp(a, b)'
  BY <1>2, <1>4, <1>6, ReachKept DEF GivenUp
<1>8. CASE UNCHANGED members
  <2>1. ASSUME NEW r \in Rels PROVE MembersOf(r)'
    <3>1. MembersOf(r) /\ removed[r] \in Nat /\ removed'[r] \in Nat
      BY <1>6 DEF MembersInv
    <3>2. \A c : GivenUp(r, c) => GivenUp(r, c)'
      BY <1>2, <1>6, <3>1, GivenUpKept
    <3> QED
      BY <1>2, <1>8, <3>1, <3>2 DEF MembersOf
  <2> QED
    BY <1>2, <1>6, <2>1 DEF MembersInv
<1>9. ASSUME NEW j \in DOMAIN members[a], members[a][j] = b, Clear(a, j) PROVE MembersInv'
  <2>1. input.refs[a][j] = b
    BY <1>9, MemberLeads
  <2>2. GivenUp(a, input.refs[a][j])'
    BY <1>2, <1>7, <2>1
  <2> QED
    BY <1>2, <1>6, <1>9, <2>2, MembersCleared
<1> QED
  BY <1>1, <1>3, <1>8, <1>9 DEF ClearMember, IsFirst

(* The step of a call of resolve() that gives up a member for another      *)
(* reason                                                                  *)
LEMMA DropKeepsMembers ==
    ASSUME IInv, MembersInv, DropMissing \/ UseChild
    PROVE  MembersInv'
<1>1. /\ Types /\ This \in Rels /\ UNCHANGED <<input, resolved, tiled, removed>>
      /\ stack # << >> /\ Top.at \in DOMAIN members[This]
  <2>1. stack # << >>
    BY AtMemberStack DEF DropMissing, AtMember, UseChild
  <2>2. This \in Rels /\ Top.at \in Nat \ {0} /\ members[This] \in Seq(Refs \union {Cleared})
    BY <2>1, TopFacts DEF IInv, Frames
  <2>3. Top.at \in DOMAIN members[This]
    <3>1. CASE DropMissing
      BY <2>2, <3>1 DEF DropMissing, AtMember, AtEnd
    <3>2. CASE UseChild
      BY <3>2 DEF UseChild, IInv, TopInv
    <3> QED
      BY <3>1, <3>2
  <2> QED
    BY <2>1, <2>2, <2>3 DEF IInv, DropMissing, UseChild
<1>2. CASE UNCHANGED members
  BY <1>1, <1>2, MembersKept
<1>3. CASE Clear(This, Top.at) /\ GivenUp(This, Member) /\ Member # Cleared
  <2>1. input.refs[This][Top.at] = Member
    BY <1>1, <1>3 DEF MembersInv, MembersOf, Member
  <2>2. PICK q, i, c : q = This /\ i = Top.at /\ c = Member
    OBVIOUS
  <2>3. removed[q] \in Nat /\ removed'[q] \in Nat /\ removed'[q] >= removed[q]
    BY <1>1, <2>2 DEF MembersInv
  <2>4. GivenUp(q, c)'
    BY <1>1, <1>3, <2>2, <2>3, GivenUpKept
  <2>5. GivenUp(q, input.refs[q][i])'
    BY <1>1, <2>1, <2>2, <2>4
  <2>6. removed' \in [Rels -> Nat] /\ \A r \in Rels : removed'[r] >= removed[r]
    BY <1>1 DEF MembersInv
  <2> QED
    BY <1>1, <1>3, <2>2, <2>5, <2>6, MembersCleared
<1>4. CASE DropMissing
  BY <1>3, <1>4, RefsAssumption DEF DropMissing, GivenUp, Refs
<1>5. CASE UseChild
  <2>1. Member = Cleared \/ (Member = Top.child /\ Top.child \in resolved)
    BY <1>5 DEF UseChild, IInv, TopInv
  <2> QED
    BY <1>2, <1>3, <1>5, <2>1 DEF UseChild, GivenUp
<1> QED
  BY <1>4, <1>5

(* Steps that are not about a cycle leave none open. *)
LEMMA NoRing ==
    ASSUME IInv, Step, ~FindCycle, ~Unwind
    PROVE  pc' \notin {"failed", "break"}
BY DEF Step, StartRelation, Call, PlaceRelation, SkipMember, UseRegular, DropMissing, AtMember,
       Continue, FindResolved, Descend, BreakCycle, UseChild, Resolve, Return

(* Steps that give nothing up *)
LEMMA OthersKeepMembers ==
    ASSUME IInv, MembersInv, Step, ~DropMissing, ~UseChild, ~BreakCycle
    PROVE  MembersInv'
<1>1. UNCHANGED <<input, members, removed>>
  BY DEF Step, StartRelation, Call, PlaceRelation, SkipMember, UseRegular, relVars,
         FindResolved, FindCycle, Descend, Unwind, Resolve
<1>2. resolved \ tiled \subseteq resolved' \ tiled'
  <2>1. CASE Resolve
    <3>1. This \notin resolved
      <4>1. stack # << >> /\ Types
        BY <2>1, AtMemberStack DEF Resolve, IInv
      <4> QED
        BY <4>1, TopFacts DEF IInv, StackInv, This, Top
    <3> QED
      BY <2>1, <3>1 DEF Resolve
  <2>2. CASE ~Resolve
    <3>1. UNCHANGED <<resolved, tiled>>
      BY <2>2 DEF Step, StartRelation, Call, PlaceRelation, SkipMember, UseRegular, relVars,
         FindResolved, FindCycle, Descend, Unwind
    <3> QED
      BY <3>1
  <2> QED
    BY <2>1, <2>2
<1> QED
  BY <1>1, <1>2, MembersKept

-----------------------------------------------------------------------------
(* The theorems *)

(* The invariant holds in every reachable state. *)
THEOREM IInvHolds == Spec => []IInv
<1>1. Init => IInv
  BY InitEstablishes
<1>2. IInv /\ [Next]_vars => IInv'
  <2> SUFFICES ASSUME IInv, [Next]_vars PROVE IInv'
    OBVIOUS
  <2>1. CASE Step
    BY <2>1, StartPreserves, PlacePreserves, SkipPreserves, FindResolvedPreserves,
       FindCyclePreserves, DescendPreserves, UnwindPreserves, BreakPreserves,
       UsePreserves, ResolvePreserves DEF Step
  <2>2. CASE UNCHANGED vars
    <3>1. Types' /\ NoSelfReference' /\ StackInv' /\ PlacedInv' /\ ChildrenBelow'
      BY <2>2 DEF vars, relVars, IInv, Types, NoSelfReference, StackInv, PlacedInv,
                  ChildrenBelow
    <3>2. FrameInv' /\ CallInv'
      BY <2>2 DEF vars, relVars, IInv, FrameInv, Fits, CallInv, AtChild
    <3>3. TopInv' /\ CycleInv'
      BY <2>2 DEF vars, relVars, IInv, TopInv, CycleInv, AtChild, Top, This, Member, Depth
    <3> QED
      BY <3>1, <3>2, <3>3 DEF IInv
  <2> QED
    BY <2>1, <2>2 DEF Next, HandOver
<1> QED
  BY <1>1, <1>2, PTL DEF Spec

(* A resolved relation only keeps members that have a place on a lower     *)
(* level: what is left of the references among super-relations is acyclic, *)
(* whatever cycles the file contains.                                      *)
THEOREM ChildrenAlwaysBelow == Spec => []ChildrenBelow
<1>1. IInv => ChildrenBelow
  BY DEF IInv
<1> QED
  BY <1>1, IInvHolds, PTL

(* The assertions of resolve() and breakReferenceCycle() hold, and the     *)
(* calls from the loop over all relations always succeed.                  *)
THEOREM AssertionsAlwaysHold == Spec => []AssertionsHold
<1>1. IInv => AssertionsHold
  <2> SUFFICES ASSUME IInv PROVE AssertionsHold
    OBVIOUS
  <2>1. ASSUME pc = "member" PROVE This \notin resolved /\ cyclical = << >>
    <3>1. stack # << >> /\ Types
      BY <2>1, AtMemberStack DEF IInv
    <3> QED
      BY <2>1, <3>1, TopFacts DEF IInv, StackInv, CycleInv, This, Top
  <2>2. pc = "failed" => cyclical # << >>
    BY DEF IInv, CycleInv
  <2>3. pc = "break" => Len(cyclical) >= 2 /\ Top.child \notin resolved
    BY DEF IInv, CycleInv, TopInv
  <2>4. pc = "place" => cursor \in resolved
    BY DEF IInv, PlacedInv
  <2> QED
    BY <2>1, <2>2, <2>3, <2>4 DEF AssertionsHold
<1> QED
  BY <1>1, IInvHolds, PTL

(* Every member that a written relation keeps is written before it, in an  *)
(* earlier level.                                                          *)
THEOREM LevelsAlwaysAscend == Spec => []LevelsAscend
<1>1. IInv => LevelsAscend
  <2> SUFFICES ASSUME IInv, Finished,
                      NEW l \in DOMAIN levels, NEW r \in levels[l],
                      NEW i \in DOMAIN members[r], members[r][i] \in Rels
               PROVE  \E k \in 0..(l - 1) : members[r][i] \in levels[k]
    BY DEF LevelsAscend
  <2> DEFINE c == members[r][i]
  <2>1. /\ l \in 0..MaxRelationLevel /\ r \in Rels
        /\ \A n \in 0..MaxRelationLevel : \A q \in Rels :
              q \in levels[n] <=> q < cursor /\ q \in tiled /\ level[q] = n
    BY DEF IInv, PlacedInv
  <2>2. cursor = NRels + 1 /\ level \in [Rels -> Nat]
    BY SizesAssumption DEF Finished, IInv, Types
  <2>3. r \in resolved /\ level[r] = l
    BY <2>1, <2>2, SizesAssumption DEF IInv, PlacedInv, Rels
  <2>4. c \in resolved \intersect tiled /\ level[c] < level[r]
    BY <2>3, RefsAssumption DEF IInv, ChildrenBelow, Refs
  <2>5. level[c] \in 0..(l - 1) /\ level[c] \in 0..MaxRelationLevel /\ c < cursor
    BY <2>1, <2>2, <2>3, <2>4, SizesAssumption DEF Rels
  <2>6. c \in levels[level[c]]
    BY <2>1, <2>4, <2>5
  <2> QED
    BY <2>5, <2>6
<1> QED
  BY <1>1, IInvHolds, PTL

(* A member that has a place is only given up to break a reference cycle   *)
(* that both the relation and the member belong to, and the relation is    *)
(* charged for it: whatever the input, relations that are on no cycle keep *)
(* all the members that have a place.                                      *)
THEOREM OnlyCyclesAreBroken == Spec => []OnlyCyclesBroken
<1>1. Init => MembersInv /\ RingInv
  <2> SUFFICES ASSUME Init PROVE MembersInv /\ RingInv
    OBVIOUS
  <2>1. input \in Inputs /\ members = input.refs /\ removed = [r \in Rels |-> 0] /\ pc = "next"
    BY DEF Init
  <2> QED
    BY <2>1 DEF MembersInv, MembersOf, RingInv
<1>2. IInv /\ MembersInv /\ RingInv /\ [Next]_vars => (MembersInv /\ RingInv)'
  <2> SUFFICES ASSUME IInv, MembersInv, RingInv, [Next]_vars PROVE MembersInv' /\ RingInv'
    OBVIOUS
  <2>1. CASE Step
    <3>1. MembersInv'
      BY <2>1, DropKeepsMembers, BreakKeepsMembers, OthersKeepMembers
    <3>2. RingInv'
      <4>1. CASE ~FindCycle /\ ~Unwind
        BY <2>1, <4>1, NoRing DEF RingInv
      <4> QED
        BY <4>1, FindCycleRings, UnwindRings
    <3> QED
      BY <3>1, <3>2
  <2>2. CASE UNCHANGED vars
    <3>1. UNCHANGED <<input, members, removed, resolved, tiled, pc, stack, cyclical>>
      BY <2>2 DEF vars, relVars
    <3>2. MembersInv'
      BY <3>1, MembersKept
    <3>3. \A c : Reachable(c)' = Reachable(c)
      BY <3>1, ReachKept
    <3>4. Closing' = Closing /\ LastUnwound' = LastUnwound /\ Top' = Top
      BY <3>1 DEF Closing, LastUnwound, Top, Depth
    <3>5. RingInv'
      BY <3>1, <3>3, <3>4 DEF RingInv
    <3> QED
      BY <3>2, <3>5
  <2> QED
    BY <2>1, <2>2 DEF Next, HandOver
<1>3. IInv /\ MembersInv => OnlyCyclesBroken
  <2> SUFFICES ASSUME IInv, MembersInv, NEW r \in resolved, NEW i \in DOMAIN members[r],
                      members[r][i] = Cleared
               PROVE  GivenUp(r, input.refs[r][i])
    BY DEF OnlyCyclesBroken, GivenUp
  <2>1. r \in Rels /\ MembersOf(r) /\ input.refs \in [Rels -> Seq(Refs)]
    BY InputsAssumption DEF IInv, Types, MembersInv, IsInput
  <2>2. input.refs[r][i] # Cleared
    BY <2>1, RefsAssumption DEF MembersOf
  <2> QED
    BY <2>1, <2>2 DEF MembersOf
<1> QED
  BY <1>1, <1>2, <1>3, IInvHolds, PTL DEF Spec
=============================================================================
