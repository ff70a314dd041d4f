-------------------------- MODULE MCUpdateDownload --------------------------
(***************************************************************************)
(* Instances of the download for TLC: every way in which up to seven       *)
(* revisions can lie in time, evenly or bunched together, on servers that  *)
(* keep all of them, dropped the first ones, or lack some in the middle;   *)
(* and a queue that is smaller than what is to be downloaded.              *)
(***************************************************************************)
EXTENDS UpdateDownload

Times == {f \in [RevisionNumbers -> 0..MaxTime] :
             \A r \in 1..LastRevision : f[r - 1] <= f[r]}

Suffixes == {f..LastRevision : f \in RevisionNumbers}
WithGaps == {{0, LastRevision}, {1, 2, LastRevision}, {0, 1, 2, 4, LastRevision},
             RevisionNumbers \ {LastRevision - 1}}

ServersWith(sets) ==
  {[available |-> a, latest |-> LastRevision, time |-> t] : a \in sets, t \in Times}

MCServers == ServersWith(Suffixes \union WithGaps)
=============================================================================
