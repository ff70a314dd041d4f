------------------------- MODULE ReplicationClient -------------------------
(***************************************************************************)
(* The search for the replication state at which an update must begin:     *)
(* ReplicationClient::findCurrentState of src/change/ReplicationClient.cpp *)
(*                                                                         *)
(* A replication server publishes revisions, each with the state file that *)
(* tells its timestamp. Old ones may be gone.  The search wants the last   *)
(* revision that is older than the contents of the library, so that every  *)
(* later one is downloaded.  It first probes downward from the latest      *)
(* revision until it meets one that is old enough, and then interpolates   *)
(* between the two.  Each fetch of a state file is one step, since each    *)
(* may fail.                                                               *)
(***************************************************************************)
EXTENDS Integers

CONSTANTS
  LastRevision,   \* revisions are numbered from 0 to this bound
  MaxTime,       \* timestamps, in seconds, go from 0 to this bound
  Servers,       \* the servers that are considered
  MaxLost        \* how many requests at most fail although the file exists

RevisionNumbers == 0..LastRevision

(* What a server has: the revisions whose files it still keeps, the latest *)
(* of them, and the time of each revision (which never goes back).         *)
IsServer(s) ==
  /\ s.available \subseteq RevisionNumbers /\ s.latest \in s.available
  /\ \A r \in s.available : r <= s.latest
  /\ s.time \in [RevisionNumbers -> 0..MaxTime]
  /\ \A q, r \in RevisionNumbers : q <= r => s.time[q] <= s.time[r]

ASSUME SearchBoundsAssumption == LastRevision \in Nat /\ MaxTime \in Nat /\ MaxLost \in Nat
ASSUME ServersAssumption == \A s \in Servers : IsServer(s)

VARIABLES
  server,   \* the server
  wanted,   \* timestamp: that of the library
  pc,       \* start, probe (first loop), split (second loop), found, failed
  lower,    \* the revision of the local variable lower, a State
  upper,    \* the revision of upper; what the caller fetched at first
  probe,    \* revisionLower
  lost,     \* requests that failed although the file exists
  result    \* the revision that is returned

searchVars == <<server, wanted, pc, lower, upper, probe, lost, result>>

Older(r) == server.time[r] < wanted

SearchInit ==
  /\ server \in Servers /\ wanted \in 0..MaxTime
  /\ pc = "start" /\ lower = 0 /\ upper = server.latest /\ probe = 0
  /\ lost = 0 /\ result = 0

Return(r) == pc' = "found" /\ result' = r

(* A library that is newer than the server has nothing to download.        *)
StartAtLatest ==
  /\ pc = "start" /\ Older(upper)
  /\ Return(upper)
  /\ UNCHANGED <<server, wanted, lower, upper, probe, lost>>

StartProbing ==
  /\ pc = "start" /\ ~Older(upper)
  /\ pc' = "probe" /\ probe' = upper \div 2
  /\ UNCHANGED <<server, wanted, lower, upper, lost, result>>

(* fetchState() returns a state only of a file that is there, and throws   *)
(* an exception if it is not, but also if the connection is lost.          *)
Fetched(r) == r \in server.available /\ UNCHANGED lost
FetchFailed(r) ==
  \/ r \notin server.available /\ UNCHANGED lost
  \/ lost < MaxLost /\ lost' = lost + 1

ProbeOlder ==
  /\ pc = "probe" /\ Fetched(probe) /\ Older(probe)
  /\ pc' = "split" /\ lower' = probe
  /\ UNCHANGED <<server, wanted, upper, probe, result>>

ProbeNewer ==
  /\ pc = "probe" /\ Fetched(probe) /\ ~Older(probe)
  /\ upper' = probe /\ probe' = 0
  /\ UNCHANGED <<server, wanted, pc, lower, result>>

(* Any failure counts as a missing revision, and the probe moves up.       *)
ProbeFailed ==
  /\ pc = "probe" /\ FetchFailed(probe)
  /\ LET middle == (probe + upper) \div 2 IN
       IF middle = probe THEN Return(upper) /\ UNCHANGED probe
                         ELSE probe' = middle /\ UNCHANGED <<pc, result>>
  /\ UNCHANGED <<server, wanted, lower, upper>>

(* Slip: integer division, as written for whole numbers.                   *)
FloorOf(a, b) == a \div b

CeilingOf(a, b) == (a + b - 1) \div b

(* Where the wanted time lies between the two, rounded up, but below upper *)
RevisionSplit ==
  LET timeInterval == server.time[upper] - server.time[lower]
      goal         == wanted - server.time[lower]
      split        == lower + CeilingOf(goal * (upper - lower), timeInterval)
  IN  IF split >= upper THEN upper - 1 ELSE split

(* Slip: the newer one of the two revisions is returned.                   *)
NarrowToUpper(l, u) ==
  /\ lower' = l /\ upper' = u
  /\ IF l + 1 >= u THEN Return(u) ELSE UNCHANGED <<pc, result>>

Narrow(l, u) ==
  /\ lower' = l /\ upper' = u
  /\ IF l + 1 >= u THEN Return(l) ELSE UNCHANGED <<pc, result>>

(* Slip: the lower bound is one too high, as in a search for an element.   *)
SplitOlderByOne ==
  /\ pc = "split" /\ Fetched(RevisionSplit) /\ Older(RevisionSplit)
  /\ Narrow(RevisionSplit + 1, upper)
  /\ UNCHANGED <<server, wanted, probe>>

SplitOlder ==
  /\ pc = "split" /\ Fetched(RevisionSplit) /\ Older(RevisionSplit)
  /\ Narrow(RevisionSplit, upper)
  /\ UNCHANGED <<server, wanted, probe>>

SplitNewer ==
  /\ pc = "split" /\ Fetched(RevisionSplit) /\ ~Older(RevisionSplit)
  /\ Narrow(lower, RevisionSplit)
  /\ UNCHANGED <<server, wanted, probe>>

(* In the second loop, an exception ends the search.                       *)
SplitFailed ==
  /\ pc = "split" /\ FetchFailed(RevisionSplit)
  /\ pc' = "failed"
  /\ UNCHANGED <<server, wanted, lower, upper, probe, result>>

SearchNext ==
  \/ StartAtLatest \/ StartProbing
  \/ ProbeOlder \/ ProbeNewer \/ ProbeFailed
  \/ SplitOlder \/ SplitNewer \/ SplitFailed

SearchSpec == SearchInit /\ [][SearchNext]_searchVars

-----------------------------------------------------------------------------
(* Properties *)

SearchTypeOK ==
  /\ IsServer(server) /\ wanted \in 0..MaxTime
  /\ pc \in {"start", "probe", "split", "found", "failed"}
  /\ lower \in RevisionNumbers /\ upper \in server.available
  /\ probe \in RevisionNumbers /\ result \in RevisionNumbers /\ lost \in 0..MaxLost

(* The server has every revision from its first one on.                    *)
Contiguous == \A r \in 0..server.latest :
                 (\E q \in server.available : q <= r) => r \in server.available

(* No change of interest is skipped: the revision where the update begins  *)
(* is older than the library, or nothing older is left on the server.      *)
NothingSkipped ==
  pc = "found" /\ Contiguous /\ lost = 0 =>
     Older(result) \/ \A r \in server.available : r >= result

(* No change is downloaded in vain: the revision after the result is not   *)
(* older than the library.                                                 *)
NothingRepeated ==
  pc = "found" => \A r \in server.available : r > result => ~Older(r)

(* The search returns a revision that the server has.                      *)
ResultAvailable == pc = "found" => result \in server.available

(* Every round of the second loop brings the bounds closer together, and   *)
(* they always enclose the wanted time.                                    *)
BoundsNarrow ==
  [][pc = "split" /\ pc' \in {"split", "found"} =>
       /\ upper' - lower' < upper - lower \/ pc' = "found"
       /\ server.time[lower'] < wanted /\ wanted <= server.time[upper']
       /\ lower <= lower' /\ lower' < upper' /\ upper' <= upper]_searchVars

(* The search ends, unless the very first revision of all is on the server *)
(* and not older than the library: the first loop then fetches it forever. *)
SearchEnds ==
  \/ 0 \in server.available /\ ~Older(0)
  \/ <>(pc \in {"found", "failed"})

=============================================================================
