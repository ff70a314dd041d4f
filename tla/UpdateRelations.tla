--------------------------- MODULE UpdateRelations ---------------------------
(***************************************************************************)
(* Processing of the changed relations of an update:                       *)
(* Updater::processChanges() and processRelation() in                      *)
(* src/change/Updater_analyze.cpp, with the part of ChangeModel.cpp that   *)
(* passes a change of bounds on to the parents.                            *)
(*                                                                         *)
(* The nodes and ways have been processed before.  The relations of a      *)
(* round are taken from a stack; each processes its child relations first, *)
(* by recursion, then itself.  One that has an unresolved member is        *)
(* deferred: it goes back to the stack.  A relation whose bounds change    *)
(* marks its parents for the same treatment.                               *)
(*                                                                         *)
(* Assertions are compiled out, as in a release build.  A feature has one  *)
(* reference here, not one per tile; bounds, tags and tiles are left out,  *)
(* so whether the bounds of a relation change is open.  As no relation is  *)
(* tried twice, none is met whose members an earlier attempt has replaced  *)
(* by null: the code for these is not in the model.                        *)
(***************************************************************************)
EXTENDS Integers, FiniteSets, SequencesExt

CONSTANTS
  NRels,    \* relations are numbers
  Way,      \* a member way that is unchanged or processed
  Gone,     \* a member way that is not in the library
  Stuck,    \* a changed member way that could not be processed
  Tables    \* the tables of members that a relation may have

Rels == 1..NRels
Leaves == {Way, Gone, Stuck}

(* What the change files and the tiles say about a relation:               *)
(*   new, edited, deleted  changed by a user (isChangedExplicitly())       *)
(*   member, absent        added to or removed from a relation; an absent  *)
(*                         one is not in the library                       *)
(*   same                  in the library and not changed                  *)
Explicit == {"new", "edited", "deleted"}
Pushed == Explicit \union {"member", "absent"}
InLibrary == {"edited", "deleted", "member", "same"}
Kinds == Pushed \union {"same"}

ASSUME RelsAssumption == NRels \in Nat \ {0}
ASSUME TablesAssumption == Tables \subseteq Seq(Rels \union Leaves) \ {<< >>}
ASSUME LeavesAssumption == Leaves \intersect Rels = {} /\ Cardinality(Leaves) = 3

VARIABLES
  waysDone,   \* whether processWays() has returned
  refs,       \* the members of each relation after the update
  kind,       \* what is known about each relation
  changed,    \* the relations that are a ChangedFeature2D
  geom,       \* flag GEOMETRY_CHANGED
  processed,  \* flag PROCESSED
  deferred,   \* flag RELATION_DEFERRED
  attempted,  \* flag RELATION_ATTEMPTED
  ref,        \* the reference of each relation: known, unknown or missing
  dropped,    \* for each relation, the members that were replaced by null
  stack,      \* changedRelations_, the top first
  list,       \* the rest of relationList
  frames      \* the calls of processRelation() that have not returned

inputVars == <<waysDone, refs, kind>>
flagVars == <<changed, geom, processed, deferred, attempted>>
vars == <<inputVars, flagVars, ref, dropped, stack, list, frames>>

-----------------------------------------------------------------------------
(* Initial states *)

(* addNewRelationMemberships() and the actions of the tiles push relations *)
(* that are changed implicitly on top of those that the change files have; *)
(* either come in the order of the files.                                  *)
OfKind(kinds) == {r \in Rels : kind[r] \in kinds}
InitialStack == \E implicit \in SetToSeqs(OfKind(Pushed \ Explicit)),
                   explicit \in SetToSeqs(OfKind(Explicit)) : stack = implicit \o explicit

Members(r) == Range(refs[r])

(* The change file and the library agree: all that a relation of the       *)
(* library has for members is in the library, and the members of a new one *)
(* are at least changed in their membership.                               *)
IsConsistent ==
  \A r \in Rels :
    /\ kind[r] \in {"deleted", "absent"} => Members(r) = {Way}
    /\ kind[r] \in {"member", "same"} =>
         \A m \in Members(r) : m # Gone /\ (m \in Rels => kind[m] \in InLibrary)
    /\ kind[r] = "new" => \A m \in Members(r) \intersect Rels : kind[m] # "same"

Init ==
  /\ waysDone = FALSE
  /\ kind \in [Rels -> Kinds] /\ refs \in [Rels -> Tables] /\ IsConsistent
  /\ geom = {r \in Rels : kind[r] \in {"new", "edited"}}
  /\ changed = {r \in Rels : kind[r] \in Pushed}
  /\ processed = {} /\ deferred = {} /\ attempted = {}
  /\ ref = [r \in Rels |-> IF kind[r] \in InLibrary THEN "known" ELSE "unknown"]
  /\ dropped = [r \in Rels |-> {}]
  /\ InitialStack /\ list = << >> /\ frames = << >>

-----------------------------------------------------------------------------
(* processRelation() *)

Size(r) == Len(refs[r])
IsSuper(r) == Members(r) \intersect Rels # {}   \* flag WILL_BE_SUPER_RELATION

(* Slip: without changes of its own, a super-relation is not looked into.  *)
VisitsChanged(r) == r \in geom

VisitsMembers(r) == r \in geom \/ IsSuper(r)

NewFrame(r) == [rel |-> r, i |-> IF VisitsMembers(r) THEN 1 ELSE Size(r) + 1,
                unresolved |-> FALSE, omitted |-> 0]

Top == frames[Len(frames)]
Visiting == frames # << >> /\ Top.i <= Size(Top.rel)
Member == refs[Top.rel][Top.i]
SetTop(f) == frames' = [frames EXCEPT ![Len(frames)] = f]

(* Goes on to the next member; this one may be unresolved.                 *)
Proceed(f, unresolved) == [f EXCEPT !.i = @ + 1, !.unresolved = @ \/ unresolved]

IsAbsent(r) == kind[r] \notin Explicit /\ ref[r] # "known"

(* processDeletedFeature()                                                 *)
Delete(r) == ref' = [ref EXCEPT ![r] = "missing"] /\ processed' = processed \union {r}

(* processRelation(r) is called and returns at once.                       *)
CallDeleted(r) ==
  /\ kind[r] = "deleted" /\ Delete(r)
  /\ UNCHANGED <<deferred, attempted, frames>>

(* normalizeRefs() finds no reference.  The caller gets 0: if it is a      *)
(* parent, it has an unresolved member.                                    *)
CallAbsent(r) ==
  /\ kind[r] # "deleted" /\ IsAbsent(r) /\ Delete(r)
  /\ IF frames = << >> THEN UNCHANGED frames ELSE SetTop(Proceed(Top, TRUE))
  /\ UNCHANGED <<deferred, attempted>>

CallLive(r) ==
  /\ kind[r] # "deleted" /\ ~IsAbsent(r)
  /\ attempted' = attempted \union {r}
  /\ frames' = Append(frames, NewFrame(r))
  /\ UNCHANGED <<processed, deferred, ref>>

Call(r) == CallDeleted(r) \/ CallAbsent(r) \/ CallLive(r)

(* A child relation that is not processed yet: it becomes a changed one,   *)
(* and the recursion descends to it.                                       *)
VisitChild ==
  /\ Visiting /\ Member \in Rels
  /\ Member \notin attempted \union deferred \union processed
  /\ changed' = changed \union {Member}
  /\ Call(Member)
  /\ UNCHANGED <<inputVars, geom, dropped, stack, list>>

(* Slip: the reference of a child is used before the child has one.        *)
ResolvedIfReferenced(m) == m \in Rels => ref[m] = "known"

(* A member that the relation keeps.                                       *)
Resolved(m) == IF m \in Rels THEN ref[m] = "known" /\ m \in processed ELSE m = Way

Omit ==
  /\ SetTop([Proceed(Top, FALSE) EXCEPT !.omitted = @ + 1])
  /\ ref' = IF Member \in Rels THEN [ref EXCEPT ![Member] = "missing"] ELSE ref
  /\ dropped' = [dropped EXCEPT ![Top.rel] = @ \union {Top.i}]

(* Slip: isUnknown() instead of isUnknownOrMissing().                      *)
MissingIfUnknown(m) == IF m \in Rels THEN ref[m] = "unknown" ELSE m = Gone

(* A member that does not exist is taken out of the table.                 *)
Missing(m) == IF m \in Rels THEN ref[m] # "known" ELSE m = Gone

(* Every other member.  One that this relation is a descendant of is       *)
(* "attempted"; that is a reference cycle, and only an assertion, which is *)
(* compiled out, takes notice.                                             *)
VisitMember ==
  /\ Visiting
  /\ Member \in Rels => Member \in attempted \union deferred \union processed
  /\ IF Member \in deferred THEN SetTop(Proceed(Top, TRUE)) /\ UNCHANGED <<ref, dropped>>
     ELSE IF Missing(Member) THEN Omit
     ELSE SetTop(Proceed(Top, ~Resolved(Member))) /\ UNCHANGED <<ref, dropped>>
  /\ changed' = changed \union ({Member} \intersect Rels)
  /\ UNCHANGED <<inputVars, geom, processed, deferred, attempted, stack, list>>

(* The end of processRelation(): with 0 the caller has an unresolved       *)
(* member, with 1 it goes on with this one.                                *)
Returned(result) ==
  LET callers == Front(frames)
  IN  IF callers = << >> \/ result = 1
      THEN callers
      ELSE [callers EXCEPT ![Len(callers)] = Proceed(@, TRUE)]

AtEnd == frames # << >> /\ Top.i > Size(Top.rel)

(* Slip: it goes back to the stack as if nothing had happened.             *)
DeferUnmarked ==
  /\ AtEnd /\ Top.unresolved
  /\ attempted' = attempted \ {Top.rel}
  /\ stack' = << Top.rel >> \o stack
  /\ frames' = Returned(0)
  /\ UNCHANGED <<inputVars, changed, geom, processed, deferred, ref, dropped, list>>

Defer ==
  /\ AtEnd /\ Top.unresolved
  /\ deferred' = deferred \union {Top.rel} /\ attempted' = attempted \ {Top.rel}
  /\ stack' = << Top.rel >> \o stack
  /\ frames' = Returned(0)
  /\ UNCHANGED <<inputVars, changed, geom, processed, ref, dropped, list>>

IsEmptied == Top.omitted > 0 /\ Top.omitted = Size(Top.rel)

(* All members are missing: the relation is deleted.                       *)
Empty ==
  /\ AtEnd /\ ~Top.unresolved /\ IsEmptied
  /\ Delete(Top.rel) /\ attempted' = attempted \ {Top.rel}
  /\ frames' = Returned(1)
  /\ UNCHANGED <<inputVars, changed, geom, deferred, dropped, stack, list>>

(* cascadeMemberChange(): the parents of a member, in the library or in    *)
(* its new table of relations.                                             *)
Parents(m) == {p \in Rels : m \in Members(p)}

(* Relations whose bounds may change with those of a member, and that are  *)
(* marked for it.  Nobody puts them on the stack.                          *)
Cascade(parents) ==
  \E affected \in SUBSET (parents \ geom) :
    geom' = geom \union affected /\ changed' = changed \union affected

(* updateBounds(): the bounds of the relation itself may have changed.     *)
Finish ==
  /\ AtEnd /\ ~Top.unresolved /\ ~IsEmptied
  /\ LET r == Top.rel
     IN  /\ Cascade(IF r \in geom /\ kind[r] # "new" THEN Parents(r) ELSE {})
         /\ ref' = [ref EXCEPT ![r] = "known"]
         /\ processed' = processed \union {r}
         /\ attempted' = attempted \ {r} /\ deferred' = deferred \ {r}
  /\ frames' = Returned(1)
  /\ UNCHANGED <<inputVars, dropped, stack, list>>

-----------------------------------------------------------------------------
(* processChanges() and processRelations() *)

Idle == frames = << >> /\ list = << >>

(* processNodes() and processWays(); the coordinates of nodes are changed. *)
ProcessWays ==
  /\ ~waysDone /\ waysDone' = TRUE
  /\ Cascade({p \in Parents(Way) : kind[p] \in InLibrary \ {"deleted"}})
  /\ UNCHANGED <<refs, kind, processed, deferred, attempted, ref, dropped, stack, list, frames>>

BeginRound ==
  /\ waysDone /\ Idle /\ stack # << >>
  /\ list' = stack /\ stack' = << >>
  /\ UNCHANGED <<inputVars, flagVars, ref, dropped, frames>>

NextRelation ==
  /\ frames = << >> /\ list # << >>
  /\ list' = Tail(list)
  /\ \E r \in Rels :
       /\ r = Head(list)
       /\ IF r \in processed \union deferred
          THEN UNCHANGED <<processed, deferred, attempted, ref, frames>>
          ELSE Call(r)
  /\ UNCHANGED <<inputVars, changed, geom, dropped, stack>>

Next == \/ ProcessWays \/ BeginRound \/ NextRelation
        \/ VisitChild \/ VisitMember
        \/ Defer \/ Empty \/ Finish

Spec == Init /\ [][Next]_vars
FairSpec == Spec /\ WF_vars(Next)

-----------------------------------------------------------------------------
(* Properties *)

Done == waysDone /\ Idle /\ stack = << >>

Kept(r) == {refs[r][i] : i \in 1..Size(r) \ dropped[r]}

(* "child relations are always processed before parents": a relation that  *)
(* is written has only member relations that are written or unchanged, and *)
(* that exist, and no member way that is gone or still to be processed.    *)
ChildrenFirst ==
  \A r \in processed :
    ref[r] = "known" /\ (r \in geom \/ IsSuper(r)) =>
      \A m \in Kept(r) : m = Way \/ (m \in processed /\ ref[m] = "known")

(* "but at that point, the parent has already been processed (can't        *)
(* process it twice)": bounds never change below a relation that is done.  *)
NeverTooLate == [][(geom' \ geom) \intersect processed = {}]_vars

(* Descendants of r along refs.                                            *)
SubRelations(r) == Members(r) \intersect Rels

Below(r) ==
  LET Reach[n \in 0..NRels] ==
        IF n = 0 THEN SubRelations(r)
                 ELSE Reach[n - 1] \union UNION {SubRelations(s) : s \in Reach[n - 1]}
  IN  Reach[NRels]

OnCycle(r) == r \in Below(r)
HasStuck(r) == Stuck \in Members(r)
IsBlocked(r) == \E s \in Below(r) \union {r} : OnCycle(s) \/ HasStuck(s)
IsTouched(r) == kind[r] \in Pushed

(* Of the relations that the change files or a membership change, at the   *)
(* end only those are not processed that have a reference cycle, a way     *)
(* that cannot be processed or a relation that is not in the library       *)
(* somewhere below them.                                                   *)
OnlyBlockedLeft ==
  Done => \A r \in Rels :
    IsTouched(r) /\ ~IsBlocked(r) /\ (\A m \in Below(r) : kind[m] # "absent") => r \in processed

(* The loop "while (!model_.changedRelations().isEmpty())" ends.           *)
Termination == <>Done

=============================================================================
