---------------------------- MODULE TileExchange ----------------------------
(***************************************************************************)
(* Saving and loading together: what TileLoader reads is what TileSaver    *)
(* published, with its chunks in whatever order the workers were done.     *)
(***************************************************************************)
EXTENDS TileSaver, TileLoader

ASSUME SizedAssumption == Tips \subseteq DOMAIN Size

exchangeVars == <<saverVars, loaderVars>>

Init == SaverInit /\ LoaderInit

(* load() opens the file, download() requests it: header and catalog.      *)
OpenBundle ==
  /\ saveStage = "saved" /\ OpenStore([catalog |-> gobFile.catalog, chunks |-> gobFile.chunks])

Save == SaverNext /\ UNCHANGED loaderVars
Load == (OpenBundle \/ LoaderStep \/ Fail) /\ UNCHANGED saverVars

(* Nothing more is done when the load has come to an end.                  *)
Over == stage \in {"committed", "returned", "aborted"}
Stay == Over /\ UNCHANGED exchangeVars

Next == Save \/ Load \/ Stay

(* Threads keep running and requests are answered or fail; neither a crash *)
(* nor a failure has to happen.                                            *)
Fairness ==
  /\ WF_exchangeVars(SaverStep /\ UNCHANGED loaderVars)
  /\ WF_exchangeVars((OpenBundle \/ LoaderStep) /\ UNCHANGED saverVars)

Spec == Init /\ [][Next]_exchangeVars /\ Fairness

(* A bundle is published and loaded in the end, or the load fails: no      *)
(* client waits for a range that nobody takes, and end() waits for no task *)
(* that is lost (TileLoader::awaitDownloadThreads).                        *)
LoadEnds == <>Over
=============================================================================
