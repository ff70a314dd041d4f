--------------------------- MODULE ChangeIngester ---------------------------
(***************************************************************************)
(* Download of change files: src/change/ChangeIngester.cpp                 *)
(*                                                                         *)
(* An update over the network has two threads.  The one that downloads     *)
(* (performDownload) finds out where to begin and where to end, fetches    *)
(* the change file of each revision and puts it into a bounded queue.  The *)
(* main thread (download) takes the files from the queue and reads them    *)
(* into the change model.  An empty file marks the end.  Either thread may *)
(* meet an error at every file.                                            *)
(*                                                                         *)
(* A file is a number: r is the file of revision r, and the program cannot *)
(* tell -r, an empty file of revision r, from 0, the mark of the end.      *)
(***************************************************************************)
EXTENDS Integers, Sequences

CONSTANTS
  QueueSize,    \* QUEUE_SIZE, which is 8
  MaxRevision   \* the latest revision on a server is at most this

End == 0
IsEmpty(file) == file <= 0

ASSUME BoundsAssumption == QueueSize \in Nat \ {0} /\ MaxRevision \in Nat

VARIABLES
  target,    \* target.revision: the latest revision on the server
  start,     \* current.revision: the revision after which to begin
  dpc,       \* where the thread that downloads is
  seq,       \* its local variable seq
  queue,     \* queue_
  status,    \* status_
  error,     \* whether error_ is set
  mpc,       \* where the main thread is
  data,      \* the file it has taken
  current,   \* currentRevision_
  stop,      \* stopFetching_
  applied    \* the change files that were read into the model, in order

downloadVars == <<start, dpc, seq, status, error>>
mainVars == <<mpc, data, stop, applied>>
vars == <<target, downloadVars, queue, current, mainVars>>

Init ==
  /\ target \in 0..MaxRevision
  /\ start = 0 /\ dpc = "begin" /\ seq = 0 /\ queue = << >>
  /\ status = "NO_UPDATES" /\ error = FALSE
  /\ mpc = "take" /\ data = End /\ current = 0 /\ stop = FALSE
  /\ applied = << >>

-----------------------------------------------------------------------------
(* The thread that downloads *)

(* findCurrentState() returns a revision of the server; ReplicationClient  *)
(* tells which.                                                            *)
CurrentStates == 0..target

(* There are changes to fetch.                                             *)
BeginUpdate ==
  /\ dpc = "begin"
  /\ \E r \in CurrentStates :
       /\ r < target
       /\ start' = r /\ seq' = r /\ current' = r
  /\ status' = "PARTIALLY_FETCHED" /\ dpc' = "check"
  /\ UNCHANGED <<target, error, queue, mainVars>>

(* There are none: the function returns.                                   *)
NoChanges ==
  /\ dpc = "begin"
  /\ \E r \in CurrentStates :
       /\ r >= target
       /\ start' = r /\ seq' = r /\ current' = r
  /\ dpc' = "done"
  /\ UNCHANGED <<target, status, error, queue, mainVars>>

(* The state of the server, or the revision to begin with, is unavailable. *)
BeginFails ==
  /\ dpc = "begin"
  /\ error' = TRUE /\ dpc' = "end"
  /\ UNCHANGED <<target, start, seq, status, queue, current, mainVars>>

(* Slip: no end marker follows.                                            *)
EndLoopUnmarked(failed) ==
  /\ dpc' = "done" /\ error' = failed
  /\ status' = IF failed THEN status ELSE "FULLY_FETCHED"

EndLoop(failed) ==
  /\ dpc' = "end" /\ error' = failed
  /\ status' = IF failed THEN status ELSE "FULLY_FETCHED"

(* The loop looks at stopFetching_ before every fetch.                     *)
CheckStop ==
  /\ dpc = "check"
  /\ IF stop THEN EndLoop(FALSE) /\ UNCHANGED seq
             ELSE dpc' = "fetch" /\ seq' = seq + 1 /\ UNCHANGED <<status, error>>
  /\ UNCHANGED <<target, start, queue, current, mainVars>>

(* What the disabled body of fetch() does.                                 *)
Fetch ==
  /\ dpc = "fetch"
  /\ dpc' = "put"
  /\ UNCHANGED <<target, start, seq, status, error, queue, current, mainVars>>

(* As it is, fetch() leaves the buffer alone.                              *)
FetchEmpty ==
  /\ dpc = "fetch"
  /\ dpc' = "put empty"
  /\ UNCHANGED <<target, start, seq, status, error, queue, current, mainVars>>

(* Slip: the exception is swallowed.                                       *)
FetchFailsUnnoticed ==
  /\ dpc = "fetch"
  /\ EndLoop(FALSE)
  /\ UNCHANGED <<target, start, seq, queue, current, mainVars>>

FetchFails ==
  /\ dpc = "fetch"
  /\ EndLoop(TRUE)
  /\ UNCHANGED <<target, start, seq, queue, current, mainVars>>

Put(file) == Len(queue) < QueueSize /\ queue' = Append(queue, file)

PutData ==
  /\ \/ dpc = "put" /\ Put(seq)
     \/ dpc = "put empty" /\ Put(-seq)
  /\ IF seq < target THEN dpc' = "check" /\ UNCHANGED <<status, error>>
                     ELSE EndLoop(FALSE)
  /\ UNCHANGED <<target, start, seq, current, mainVars>>

PutEnd ==
  /\ dpc = "end" /\ Put(End)
  /\ dpc' = "done"
  /\ UNCHANGED <<target, start, seq, status, error, current, mainVars>>

Beginning == BeginUpdate \/ NoChanges \/ BeginFails
Downloading == CheckStop \/ Fetch \/ FetchEmpty \/ FetchFails \/ PutData \/ PutEnd
Downloader == Beginning \/ Downloading

-----------------------------------------------------------------------------
(* The main thread *)

(* Slip: the file that came last is taken first.                           *)
TakeNewest ==
  /\ mpc = "take" /\ queue # << >>
  /\ data' = queue[Len(queue)] /\ queue' = SubSeq(queue, 1, Len(queue) - 1)
  /\ mpc' = IF IsEmpty(data') THEN "join" ELSE "process"
  /\ UNCHANGED <<target, downloadVars, current, stop, applied>>

Take ==
  /\ mpc = "take" /\ queue # << >>
  /\ data' = Head(queue) /\ queue' = Tail(queue)
  /\ mpc' = IF IsEmpty(data') THEN "join" ELSE "process"
  /\ UNCHANGED <<target, downloadVars, current, stop, applied>>

(* processTask() reads the file into the change model.                     *)
Process ==
  /\ mpc = "process"
  /\ current' = current + 1
  /\ applied' = Append(applied, data)
  /\ mpc' = "take"
  /\ UNCHANGED <<target, downloadVars, queue, data, stop>>

(* The file is faulty.                                                     *)
ProcessFails ==
  /\ mpc = "process"
  /\ current' = current + 1
  /\ mpc' = "stop"
  /\ UNCHANGED <<target, downloadVars, queue, data, stop, applied>>

(* The handler of the exception: it must let a blocked put() go on.        *)
StopFetching ==
  /\ mpc = "stop"
  /\ stop' = TRUE /\ mpc' = "clear"
  /\ UNCHANGED <<target, downloadVars, queue, current, data, applied>>

(* Slip: the queue is left as it is.                                       *)
ClearNothing ==
  /\ mpc = "clear"
  /\ mpc' = "join failed"
  /\ UNCHANGED <<target, downloadVars, queue, current, data, stop, applied>>

ClearQueue ==
  /\ mpc = "clear"
  /\ queue' = << >> /\ mpc' = "join failed"
  /\ UNCHANGED <<target, downloadVars, current, data, stop, applied>>

(* Both ways end with join(); one returns, the other throws again.         *)
Join ==
  /\ mpc \in {"join", "join failed"} /\ dpc = "done"
  /\ mpc' = IF mpc = "join" THEN "returned" ELSE "thrown"
  /\ UNCHANGED <<target, downloadVars, queue, current, data, stop, applied>>

Main == Take \/ Process \/ ProcessFails \/ StopFetching \/ ClearQueue \/ Join

Next == Downloader \/ Main
Spec == Init /\ [][Next]_vars

-----------------------------------------------------------------------------
(* Properties *)

Revisions == 0..MaxRevision
FileNames == -MaxRevision..MaxRevision
Returned == mpc = "returned"

TypeOK ==
  /\ target \in Revisions
  /\ start \in 0..target /\ seq \in start..target
  /\ dpc \in {"begin", "check", "fetch", "put", "put empty", "end", "done"}
  /\ queue \in Seq(FileNames) /\ Len(queue) <= QueueSize
  /\ status \in {"NO_UPDATES", "PARTIALLY_FETCHED", "FULLY_FETCHED"}
  /\ error \in BOOLEAN /\ stop \in BOOLEAN
  /\ mpc \in {"take", "process", "stop", "clear", "join", "join failed",
              "returned", "thrown"}
  /\ data \in FileNames /\ current \in Nat
  /\ applied \in Seq(Revisions)

(* Changes reach the model in the order of their revisions, without a gap  *)
(* and none twice, and each is reported under its own revision: a later    *)
(* change of a feature must overwrite an earlier one.                      *)
IngestedInOrder ==
  /\ \A i \in DOMAIN applied : applied[i] = start + i
  /\ mpc = "process" => data = current + 1

(* What download() leaves behind agrees with the status it leaves: all     *)
(* revisions, or all before the one that could not be fetched.  Only an    *)
(* empty file makes it return too early, right before that file.           *)
AllIngested ==
  /\ Returned /\ data = End =>
       /\ status = "FULLY_FETCHED" => start + Len(applied) = target
       /\ status = "PARTIALLY_FETCHED" => error /\ start + Len(applied) = seq - 1
  /\ Returned /\ data # End => data = -(start + Len(applied) + 1)

(* There was nothing to download, and no error.                            *)
NothingNew == dpc = "done" /\ status = "NO_UPDATES" /\ ~error

(* An empty file was taken for the end, and the files behind it and the    *)
(* mark of the end may not fit into the queue, which nobody empties.       *)
StoppedEarly == mpc = "join" /\ data # End /\ target + data >= QueueSize

(* download() has returned or thrown, or never will.                       *)
Ended == mpc \in {"returned", "thrown"} \/ NothingNew \/ StoppedEarly

=============================================================================
