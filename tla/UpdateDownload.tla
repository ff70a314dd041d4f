--------------------------- MODULE UpdateDownload ---------------------------
(***************************************************************************)
(* The download of an update as a whole: the thread that downloads asks    *)
(* for the latest state, searches for the one at which to begin, and       *)
(* fetches the changes between the two (ChangeIngester::performDownload),  *)
(* while the main thread waits for them from the start.                    *)
(***************************************************************************)
EXTENDS ReplicationClient, ChangeIngester

ASSUME RevisionsAssumption == LastRevision <= MaxRevision

downloadAllVars == <<searchVars, vars>>

DownloadInit == SearchInit /\ Init /\ target = server.latest

(* The call of findCurrentState()                                          *)
Search == dpc = "begin" /\ SearchNext /\ UNCHANGED vars

(* Once it is over, nobody asks for the states of the server again, and    *)
(* the search with its variables can be forgotten.                         *)
Forgotten == [available |-> {}, latest |-> 0, time |-> [r \in RevisionNumbers |-> 0]]
Forget ==
  /\ pc' = "over" /\ server' = Forgotten /\ wanted' = 0
  /\ lower' = 0 /\ upper' = 0 /\ probe' = 0 /\ lost' = 0 /\ result' = 0

(* The revision that was found is the one to begin with.                   *)
BeginFound == pc = "found" /\ (BeginUpdate \/ NoChanges) /\ start' = result /\ Forget

(* There is no latest state to search from, or the search has failed.      *)
NoTarget ==
  /\ pc = "start" /\ BeginFails
  /\ pc' = "failed" /\ UNCHANGED <<server, wanted, lower, upper, probe, lost, result>>
SearchFailed == pc = "failed" /\ BeginFails /\ Forget

DownloadThread ==
  Search \/ BeginFound \/ NoTarget \/ SearchFailed \/ (Downloading /\ UNCHANGED searchVars)
MainThread == Main /\ UNCHANGED searchVars

DownloadNext == DownloadThread \/ MainThread
DownloadSpec == DownloadInit /\ [][DownloadNext]_downloadAllVars

(* Neither thread is starved, and every request ends.                      *)
FairDownload ==
  DownloadSpec /\ WF_downloadAllVars(DownloadThread) /\ WF_downloadAllVars(MainThread)

(* Whatever the server has, and whatever fails on either side of the       *)
(* queue: download() returns or throws (NothingNew and StoppedEarly are    *)
(* the ways in which it never does, EndlessProbing keeps it waiting for a  *)
(* search without an end).                                                 *)
EndlessProbing == 0 \in server.available /\ ~Older(0)
Termination == EndlessProbing \/ <>Ended
=============================================================================
