---------------------------- MODULE PhasedSort ----------------------------
(***************************************************************************)
(* What the Sorter (src/build/sort) promises to the passes that follow it, *)
(* whatever the number of its threads: every feature of the planet file is *)
(* settled (its pile is recorded in its feature index, or it is rejected), *)
(* and no feature is settled before all the features of a lower kind are.  *)
(* Resolving the members of a feature therefore never misses one that is   *)
(* still on its way.                                                       *)
(***************************************************************************)
EXTENDS Naturals

CONSTANT Inputs      \* the possible inputs: functions from features to kinds

VARIABLES kind,      \* the input: the kind (0 to 3) of each feature
          settled    \* the features that are indexed or rejected

vars == <<kind, settled>>

Unsettled == DOMAIN kind \ settled

Init == /\ kind \in Inputs
        /\ settled = {}

(***************************************************************************)
(* Settle some of the features of the lowest kind that is not yet settled. *)
(***************************************************************************)
Settle(S) == /\ \A f \in S, g \in Unsettled : kind[f] <= kind[g]
             /\ settled' = settled \union S
             /\ UNCHANGED kind

Next == \E S \in SUBSET Unsettled : S # {} /\ Settle(S)

Spec == Init /\ [][Next]_vars

FairSpec == Spec /\ WF_vars(Next)
============================================================================
