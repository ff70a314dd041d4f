------------------------- MODULE ReplicationProofs -------------------------
(***************************************************************************)
(* The two parts of an update over the network: the search for the         *)
(* revision at which it begins, on every server and however many revisions *)
(* there are; and the download, in order and completely, for every number  *)
(* of revisions and every size of the queue. In the end, both together.    *)
(***************************************************************************)
EXTENDS UpdateDownload, TLAPS

-----------------------------------------------------------------------------
(* The search                                                              *)

(* While the search runs, the wanted time lies between its bounds.         *)
BracketInv ==
  /\ pc = "start" => upper = server.latest
  /\ pc = "probe" => ~Older(upper) /\ probe <= upper
  /\ pc = "split" => Older(lower) /\ ~Older(upper) /\ lower \in server.available

SearchInv == SearchTypeOK /\ BracketInv /\ NothingSkipped /\ NothingRepeated /\ ResultAvailable

-----------------------------------------------------------------------------
(* Arithmetic *)

LEMMA PositiveProduct ==
    ASSUME NEW a \in Nat \ {0}, NEW b \in Nat \ {0} PROVE a * b \in Nat \ {0}
<1>1. PICK c \in Nat : a = c + 1
  <2>1. a - 1 \in Nat /\ a = (a - 1) + 1
    OBVIOUS
  <2> QED
    BY <2>1
<1>2. a * b = c * b + b
  BY <1>1
<1>3. c * b \in Nat
  OBVIOUS
<1> QED
  BY <1>2, <1>3

LEMMA PositiveCeiling ==
    ASSUME NEW a \in Nat \ {0}, NEW b \in Nat \ {0} PROVE CeilingOf(a, b) \in Nat \ {0}
<1> DEFINE n == a + b - 1
           q == n \div b
<1>1. n \in Nat /\ n >= b
  OBVIOUS
<1>2. q \in Int /\ n < b * (q + 1)
  BY <1>1
<1>3. q >= 1
  <2>1. SUFFICES ASSUME q <= 0 PROVE FALSE
    BY <1>2
  <2>2. b * (q + 1) <= b
    BY <1>2, <2>1
  <2> QED
    BY <1>1, <1>2, <2>2
<1> QED
  BY <1>2, <1>3 DEF CeilingOf

(* While the bounds enclose the wanted time, the split lies between them,  *)
(* and above the lower one unless they are neighbours.                     *)
LEMMA SplitInside ==
    ASSUME SearchTypeOK, Older(lower), ~Older(upper)
    PROVE  /\ lower < upper
           /\ RevisionSplit \in lower..(upper - 1)
           /\ RevisionSplit = lower => lower + 1 = upper
<1> DEFINE interval == server.time[upper] - server.time[lower]
           goal     == wanted - server.time[lower]
           rise     == CeilingOf(goal * (upper - lower), interval)
<1>1. /\ lower \in Nat /\ upper \in Nat /\ wanted \in Nat
      /\ server.time[lower] \in Nat /\ server.time[upper] \in Nat
      /\ lower \in RevisionNumbers /\ upper \in RevisionNumbers
  BY SearchBoundsAssumption DEF SearchTypeOK, IsServer, RevisionNumbers
<1>2. server.time[lower] < wanted /\ wanted <= server.time[upper]
  BY <1>1 DEF Older
<1>3. lower < upper
  <2>1. upper <= lower => server.time[upper] <= server.time[lower]
    BY <1>1 DEF SearchTypeOK, IsServer
  <2> QED
    BY <1>1, <1>2, <2>1
<1>4. interval \in Nat \ {0} /\ goal \in Nat \ {0} /\ upper - lower \in Nat \ {0}
  BY <1>1, <1>2, <1>3
<1>5. rise \in Nat \ {0}
  BY <1>4, PositiveProduct, PositiveCeiling
<1>6. RevisionSplit = IF lower + rise >= upper THEN upper - 1 ELSE lower + rise
  BY DEF RevisionSplit
<1> HIDE DEF rise
<1> QED
  BY <1>1, <1>3, <1>5, <1>6

-----------------------------------------------------------------------------
(* Every step preserves the invariant. *)

LEMMA InitSearchInv == SearchInit => SearchInv
<1> SUFFICES ASSUME SearchInit PROVE SearchInv
  OBVIOUS
<1>1. SearchTypeOK
  BY ServersAssumption, SearchBoundsAssumption DEF SearchInit, SearchTypeOK, IsServer, RevisionNumbers
<1> QED
  BY <1>1 DEF SearchInit, SearchInv, BracketInv, NothingSkipped, NothingRepeated, ResultAvailable

(* What the search returns is right if it has a time below the wanted one, *)
(* or nothing older exists, and if nothing above it is older.              *)
LEMMA ReturnIsRight ==
    ASSUME SearchInv, NEW r \in server.available, Return(r),
           UNCHANGED <<server, wanted>>, lost' \in 0..MaxLost, lost' >= lost,
           lower' \in RevisionNumbers, upper' \in server.available, probe' \in RevisionNumbers,
           Contiguous /\ lost' = 0 => Older(r) \/ \A q \in server.available : q >= r,
           \A q \in server.available : q > r => ~Older(q)
    PROVE  SearchInv'
<1>1. SearchTypeOK'
  BY DEF SearchInv, SearchTypeOK, Return, IsServer
<1>2. BracketInv'
  BY DEF BracketInv, Return
<1>3. NothingSkipped'
  BY DEF NothingSkipped, Return, Contiguous, Older
<1>4. NothingRepeated'
  BY DEF NothingRepeated, Return, Older
<1>5. ResultAvailable'
  BY DEF ResultAvailable, Return
<1> QED
  BY <1>1, <1>2, <1>3, <1>4, <1>5 DEF SearchInv

(* A step that does not end the search.                                    *)
LEMMA GoesOn ==
    ASSUME SearchInv, pc' \in {"probe", "split", "failed"},
           UNCHANGED <<server, wanted, result>>, lost' \in 0..MaxLost,
           lower' \in RevisionNumbers, upper' \in server.available, probe' \in RevisionNumbers,
           BracketInv'
    PROVE  SearchInv'
<1>1. SearchTypeOK'
  BY DEF SearchInv, SearchTypeOK
<1> QED
  BY <1>1 DEF SearchInv, NothingSkipped, NothingRepeated, ResultAvailable

LEMMA SearchTypeFacts ==
    ASSUME SearchTypeOK
    PROVE  /\ server.available \subseteq RevisionNumbers /\ server.latest \in server.available
           /\ \A r \in server.available : r \in Nat /\ r <= server.latest
           /\ \A q, r \in RevisionNumbers : q <= r => server.time[q] <= server.time[r]
           /\ \A r \in RevisionNumbers : r \in Nat /\ server.time[r] \in Nat
           /\ wanted \in Nat /\ lower \in Nat /\ upper \in Nat /\ probe \in Nat
           /\ upper \in RevisionNumbers /\ lost \in Nat
<1>1. \A r \in RevisionNumbers : r \in Nat
  BY SearchBoundsAssumption DEF RevisionNumbers
<1>2. IsServer(server)
  BY DEF SearchTypeOK
<1>3. \A r \in RevisionNumbers : server.time[r] \in Nat
  BY <1>2, SearchBoundsAssumption DEF IsServer
<1> QED
  BY <1>1, <1>2, <1>3, SearchBoundsAssumption DEF SearchTypeOK, IsServer

(* What is newer than the wanted time remains so above it.                 *)
LEMMA NewerAbove ==
    ASSUME SearchTypeOK, NEW u \in server.available, ~Older(u),
           NEW q \in server.available, q >= u
    PROVE  ~Older(q)
<1>1. server.time[u] <= server.time[q]
  BY SearchTypeFacts
<1> QED
  BY <1>1, SearchTypeFacts DEF Older

LEMMA FetchFacts ==
    ASSUME SearchTypeOK, NEW r, Fetched(r) \/ FetchFailed(r)
    PROVE  lost' \in 0..MaxLost /\ lost' >= lost
BY SearchTypeFacts, SearchBoundsAssumption DEF SearchTypeOK, Fetched, FetchFailed

LEMMA ProbeFailedPreserves == ASSUME SearchInv, ProbeFailed PROVE SearchInv'
<1> DEFINE middle == (probe + upper) \div 2
<1>1. SearchTypeOK /\ ~Older(upper) /\ probe <= upper /\ upper \in server.available
  BY DEF SearchInv, BracketInv, ProbeFailed, SearchTypeOK
<1>2. probe \in Nat /\ upper \in Nat /\ upper \in RevisionNumbers
  BY <1>1, SearchTypeFacts
<1>3. middle \in Nat /\ probe <= middle /\ middle <= upper
      /\ (middle = probe => probe = upper \/ probe = upper - 1)
  BY <1>1, <1>2
<1>4. lost' \in 0..MaxLost /\ lost' >= lost
  BY <1>1, FetchFacts DEF ProbeFailed
<1>5. CASE middle = probe
  <2>1. Return(upper) /\ UNCHANGED <<server, wanted, lower, upper, probe>>
    BY <1>5 DEF ProbeFailed
  <2>2. ASSUME Contiguous, lost' = 0, NEW q \in server.available, q < upper
        PROVE  FALSE
    <3>1. lost = 0 /\ probe \notin server.available
      BY <1>1, <1>4, <2>2, SearchTypeFacts DEF ProbeFailed, FetchFailed
    <3>2. probe = upper - 1
      BY <1>1, <1>3, <1>5, <3>1
    <3>3. q \in Nat /\ upper <= server.latest /\ server.latest \in Nat
      BY <1>1, <2>2, SearchTypeFacts
    <3>4. q <= probe /\ probe \in 0..server.latest
      BY <1>2, <2>2, <3>2, <3>3
    <3> QED
      BY <2>2, <3>1, <3>4 DEF Contiguous
  <2>3. Contiguous /\ lost' = 0 => \A q \in server.available : q >= upper
    <3>1. \A q \in server.available : q \in Nat
      BY <1>1, SearchTypeFacts
    <3> QED
      BY <1>2, <2>2, <3>1
  <2>4. ASSUME NEW q \in server.available, q > upper PROVE ~Older(q)
    <3>1. q \in Nat
      BY <1>1, SearchTypeFacts
    <3>2. q >= upper
      BY <1>2, <2>4, <3>1
    <3> QED
      BY <1>1, <3>2, NewerAbove
  <2>5. lower' \in RevisionNumbers /\ probe' \in RevisionNumbers /\ upper' \in server.available
    BY <1>1, <2>1 DEF SearchTypeOK
  <2> QED
    BY <1>1, <1>4, <2>1, <2>3, <2>4, <2>5, ReturnIsRight
<1>6. CASE middle # probe
  <2>1. probe' = middle /\ UNCHANGED <<server, wanted, lower, upper, pc, result>>
        /\ pc = "probe"
    BY <1>6 DEF ProbeFailed
  <2>2. middle \in RevisionNumbers
    BY <1>2, <1>3, SearchBoundsAssumption DEF RevisionNumbers
  <2>3. lower' \in RevisionNumbers /\ probe' \in RevisionNumbers /\ upper' \in server.available
    BY <1>1, <2>1, <2>2 DEF SearchTypeOK
  <2>4. BracketInv'
    BY <1>1, <1>3, <2>1 DEF BracketInv, Older
  <2> QED
    BY <1>4, <2>1, <2>3, <2>4, GoesOn
<1> QED
  BY <1>5, <1>6

(* One round of the second loop, with the bounds it sets                   *)
LEMMA NarrowPreserves ==
    ASSUME SearchInv, pc = "split", NEW l, NEW u, Narrow(l, u),
           l \in server.available, u \in server.available,
           Older(l), ~Older(u), l < u,
           UNCHANGED <<server, wanted, probe, lost>>
    PROVE  SearchInv'
<1>1. SearchTypeOK /\ l \in RevisionNumbers /\ u \in RevisionNumbers /\ l \in Nat /\ u \in Nat
      /\ probe' \in RevisionNumbers /\ lost' \in 0..MaxLost /\ lost' >= lost
  BY SearchTypeFacts, SearchBoundsAssumption DEF SearchInv, SearchTypeOK
<1>2. lower' = l /\ upper' = u
  BY DEF Narrow
<1>3. CASE l + 1 >= u
  <2>1. Return(l)
    BY <1>3 DEF Narrow
  <2>2. ASSUME NEW q \in server.available, q > l PROVE ~Older(q)
    <3>1. q \in Nat
      BY <1>1, SearchTypeFacts
    <3>2. q >= u
      BY <1>1, <1>3, <2>2, <3>1
    <3> QED
      BY <1>1, <3>2, NewerAbove
  <2> QED
    BY <1>1, <1>2, <2>1, <2>2, ReturnIsRight
<1>4. CASE ~(l + 1 >= u)
  <2>1. UNCHANGED <<pc, result>>
    BY <1>4 DEF Narrow
  <2>2. BracketInv'
    BY <1>2, <2>1 DEF BracketInv, Older
  <2> QED
    BY <1>1, <1>2, <2>1, <2>2, GoesOn
<1> QED
  BY <1>3, <1>4

LEMMA NextPreserves == ASSUME SearchInv, SearchNext PROVE SearchInv'
<1>1. SearchTypeOK /\ BracketInv /\ \A r \in server.available : r \in Nat
  BY SearchTypeFacts DEF SearchInv
<1>2. CASE StartAtLatest
  <2>1. /\ Return(upper) /\ Older(upper) /\ upper = server.latest
        /\ UNCHANGED <<server, wanted, lower, upper, probe, lost>>
    BY <1>1, <1>2 DEF StartAtLatest, BracketInv
  <2>2. /\ lower' \in RevisionNumbers /\ probe' \in RevisionNumbers /\ upper' \in server.available
        /\ lost' \in 0..MaxLost /\ lost' >= lost
    BY <1>1, <2>1, SearchBoundsAssumption DEF SearchTypeOK
  <2>3. \A q \in server.available : ~(q > upper)
    BY <1>1, <2>1, SearchTypeFacts
  <2> QED
    BY <1>1, <2>1, <2>2, <2>3, ReturnIsRight DEF SearchTypeOK
<1>3. CASE StartProbing
  <2>1. /\ pc' = "probe" /\ probe' = upper \div 2 /\ ~Older(upper)
        /\ UNCHANGED <<server, wanted, lower, upper, lost, result>>
    BY <1>3 DEF StartProbing
  <2>2. upper \in Nat /\ upper \in RevisionNumbers
    BY <1>1, SearchTypeFacts
  <2>3. probe' \in RevisionNumbers /\ probe' <= upper
    BY <2>1, <2>2, SearchBoundsAssumption DEF RevisionNumbers
  <2>4. BracketInv'
    BY <2>1, <2>3 DEF BracketInv, Older
  <2> QED
    BY <1>1, <2>1, <2>3, <2>4, GoesOn DEF SearchTypeOK
<1>4. CASE ProbeOlder
  <2>1. /\ pc = "probe" /\ pc' = "split" /\ lower' = probe
        /\ Older(probe) /\ probe \in server.available
        /\ UNCHANGED <<server, wanted, upper, probe, result, lost>>
    BY <1>4 DEF ProbeOlder, Fetched
  <2>2. BracketInv'
    BY <1>1, <2>1 DEF BracketInv, Older
  <2> QED
    BY <1>1, <2>1, <2>2, GoesOn DEF SearchTypeOK
<1>5. CASE ProbeNewer
  <2>1. /\ pc = "probe" /\ upper' = probe /\ probe' = 0
        /\ ~Older(probe) /\ probe \in server.available
        /\ UNCHANGED <<server, wanted, pc, lower, result, lost>>
    BY <1>5 DEF ProbeNewer, Fetched
  <2>2. BracketInv' /\ 0 \in RevisionNumbers
    BY <1>1, <2>1, SearchBoundsAssumption DEF BracketInv, Older, RevisionNumbers
  <2> QED
    BY <1>1, <2>1, <2>2, GoesOn DEF SearchTypeOK
<1>6. CASE ProbeFailed
  BY <1>6, ProbeFailedPreserves
<1>7. ASSUME pc = "split"
      PROVE  /\ lower < RevisionSplit \/ RevisionSplit = lower
             /\ RevisionSplit < upper /\ lower \in server.available
             /\ Older(lower) /\ ~Older(upper) /\ upper \in server.available
             /\ lower < upper
  <2>1. Older(lower) /\ ~Older(upper) /\ lower \in server.available
    BY <1>1, <1>7 DEF BracketInv
  <2>2. lower \in Nat /\ upper \in Nat /\ upper \in server.available
    BY <1>1, SearchTypeFacts DEF SearchTypeOK
  <2>3. lower < upper /\ RevisionSplit \in lower..(upper - 1)
    BY <1>1, <2>1, SplitInside
  <2> QED
    BY <2>1, <2>2, <2>3
<1>8. CASE SplitOlder
  <2>1. /\ pc = "split" /\ Older(RevisionSplit) /\ RevisionSplit \in server.available
        /\ Narrow(RevisionSplit, upper) /\ UNCHANGED <<server, wanted, probe, lost>>
    BY <1>8 DEF SplitOlder, Fetched
  <2> QED
    BY <1>7, <2>1, NarrowPreserves
<1>9. CASE SplitNewer
  <2>1. /\ pc = "split" /\ ~Older(RevisionSplit) /\ RevisionSplit \in server.available
        /\ Narrow(lower, RevisionSplit) /\ UNCHANGED <<server, wanted, probe, lost>>
    BY <1>9 DEF SplitNewer, Fetched
  <2>2. lower < RevisionSplit
    BY <1>7, <2>1
  <2> QED
    BY <1>7, <2>1, <2>2, NarrowPreserves
<1>10. CASE SplitFailed
  <2>1. pc' = "failed" /\ UNCHANGED <<server, wanted, lower, upper, probe, result>>
    BY <1>10 DEF SplitFailed
  <2>2. lost' \in 0..MaxLost
    BY <1>1, <1>10, FetchFacts DEF SplitFailed
  <2>3. BracketInv'
    BY <2>1 DEF BracketInv
  <2> QED
    BY <1>1, <2>1, <2>2, <2>3, GoesOn DEF SearchTypeOK
<1> QED
  BY <1>2, <1>3, <1>4, <1>5, <1>6, <1>8, <1>9, <1>10 DEF SearchNext

-----------------------------------------------------------------------------
(* The theorems *)

(* The invariant holds in every reachable state. *)
THEOREM SearchInvHolds == SearchSpec => []SearchInv
<1>1. SearchInv /\ UNCHANGED searchVars => SearchInv'
  BY DEF SearchInv, searchVars, SearchTypeOK, BracketInv, NothingSkipped, NothingRepeated,
         ResultAvailable, Contiguous, Older
<1>2. SearchInv /\ [SearchNext]_searchVars => SearchInv'
  BY <1>1, NextPreserves
<1> QED
  BY <1>2, InitSearchInv, PTL DEF SearchSpec

(* Whatever the server keeps and however its revisions lie in time, an     *)
(* update never begins at a revision that skips changes, provided that the *)
(* server's revisions have no gap and no request is lost.                  *)
THEOREM NothingEverSkipped == SearchSpec => []NothingSkipped
<1>1. SearchInv => NothingSkipped
  BY DEF SearchInv
<1> QED
  BY <1>1, SearchInvHolds, PTL

(* Nor does it begin earlier than it must, not even with gaps and losses.  *)
THEOREM NothingEverRepeated == SearchSpec => []NothingRepeated
<1>1. SearchInv => NothingRepeated
  BY DEF SearchInv
<1> QED
  BY <1>1, SearchInvHolds, PTL

(* Each round of the interpolation narrows the bounds or ends the search:  *)
(* it takes no more rounds than there are revisions between them.          *)
THEOREM BoundsAlwaysNarrow == SearchSpec => BoundsNarrow
<1> DEFINE Narrows ==
      pc = "split" /\ pc' \in {"split", "found"} =>
        /\ upper' - lower' < upper - lower \/ pc' = "found"
        /\ server.time[lower'] < wanted /\ wanted <= server.time[upper']
        /\ lower <= lower' /\ lower' < upper' /\ upper' <= upper
<1>1. ASSUME SearchInv, [SearchNext]_searchVars PROVE [Narrows]_searchVars
  <2> SUFFICES ASSUME SearchNext, pc = "split", pc' \in {"split", "found"} PROVE Narrows
    BY <1>1
  <2>1. /\ SearchTypeOK /\ Older(lower) /\ ~Older(upper)
        /\ \A r \in RevisionNumbers : server.time[r] \in Nat
        /\ wanted \in Nat /\ lower \in Nat /\ upper \in Nat
        /\ lower \in RevisionNumbers /\ upper \in RevisionNumbers
        /\ server.available \subseteq RevisionNumbers
    BY <1>1, SearchTypeFacts DEF SearchInv, BracketInv, SearchTypeOK
  <2> DEFINE S == RevisionSplit
  <2>2. lower < upper /\ S \in lower..(upper - 1) /\ (S = lower => lower + 1 = upper)
    BY <2>1, SplitInside
  <2>3. S \in server.available
    BY DEF SearchNext, StartAtLatest, StartProbing, ProbeOlder, ProbeNewer, ProbeFailed,
           SplitOlder, SplitNewer, SplitFailed, Fetched
  <2>4. \/ Older(S) /\ Narrow(S, upper)
        \/ ~Older(S) /\ Narrow(lower, S)
    BY DEF SearchNext, StartAtLatest, StartProbing, ProbeOlder, ProbeNewer, ProbeFailed,
           SplitOlder, SplitNewer, SplitFailed
  <2> HIDE DEF S
  <2>5. CASE Older(S) /\ Narrow(S, upper)
    <3>1. lower' = S /\ upper' = upper /\ (S + 1 >= upper => pc' = "found")
      BY <2>5 DEF Narrow, Return
    <3>2. server.time[S] < wanted /\ wanted <= server.time[upper]
      BY <2>1, <2>3, <2>5 DEF Older
    <3> QED
      BY <2>1, <2>2, <3>1, <3>2
  <2>6. CASE ~Older(S) /\ Narrow(lower, S)
    <3>1. lower' = lower /\ upper' = S
      BY <2>6 DEF Narrow
    <3>2. server.time[lower] < wanted /\ wanted <= server.time[S] /\ S # lower
      BY <2>1, <2>2, <2>3, <2>6 DEF Older
    <3> QED
      BY <2>1, <2>2, <3>1, <3>2
  <2> QED
    BY <2>4, <2>5, <2>6
<1>2. SearchSpec => [][Narrows]_searchVars
  BY <1>1, SearchInvHolds, PTL DEF SearchSpec
<1> QED
  BY <1>2 DEF BoundsNarrow

-----------------------------------------------------------------------------
(* The download                                                            *)

Reading == mpc \in {"take", "process"}
InHand == IF mpc = "process" THEN 1 ELSE 0
Behind == current + InHand + Len(queue)     \* the last revision in the queue

(* A file that passes through the queue: revision r, empty or not, or the  *)
(* mark of the end.                                                        *)
Named(r) == {r, -r, End}

(* While the main thread reads, the revisions in its hands and in the      *)
(* queue follow each other, and seq follows them.                          *)
FlowInv ==
  Reading =>
    /\ ~stop /\ current = start + Len(applied)
    /\ mpc = "process" => data = current + 1
    /\ \A i \in 1..Len(queue) : queue[i] \in Named(current + InHand + i)
    /\ dpc = "check" => seq = Behind
    /\ dpc \in {"fetch", "put", "put empty"} => seq = Behind + 1

BeginInv ==
  dpc = "begin" => /\ mpc = "take" /\ queue = << >> /\ applied = << >>
                   /\ start = 0 /\ current = 0 /\ status = "NO_UPDATES" /\ ~error

SeqInv ==
  /\ dpc = "check" => seq < target
  /\ dpc \in {"check", "fetch", "put", "put empty"} =>
        ~error /\ status = "PARTIALLY_FETCHED"

(* The loop has left behind a queue that agrees with the status: n is the  *)
(* last revision that was put into it.                                     *)
Agrees(n) ==
  /\ status = "FULLY_FETCHED" => n = target
  /\ status = "PARTIALLY_FETCHED" => error /\ n = seq - 1

(* The mark of the end is the last thing in the queue, and the main thread *)
(* leaves its loop only after all files or at an empty one.                *)
EndInv ==
  /\ Reading => \A i \in 1..Len(queue) : queue[i] = End => dpc = "done" /\ i = Len(queue)
  /\ Reading /\ dpc = "end" => Agrees(Behind)
  /\ Reading /\ dpc = "done" =>
        \/ status = "NO_UPDATES"
        \/ Len(queue) > 0 /\ queue[Len(queue)] = End /\ Agrees(Behind - 1)
  /\ mpc \in {"join", "returned"} =>
        IF data = End THEN dpc = "done" /\ Agrees(start + Len(applied))
                      ELSE data = -(start + Len(applied) + 1)

OrderInv == \A i \in 1..Len(applied) : applied[i] = start + i

IInv == TypeOK /\ FlowInv /\ BeginInv /\ SeqInv /\ OrderInv /\ EndInv

-----------------------------------------------------------------------------
(* Every step preserves the invariant. *)

LEMMA TypeFacts ==
    ASSUME TypeOK
    PROVE  /\ Len(queue) \in Nat /\ Len(applied) \in Nat /\ target \in Nat /\ start \in Nat
           /\ seq \in Nat /\ QueueSize \in Nat
           /\ InHand \in {0, 1} /\ Behind \in Nat
           /\ DOMAIN queue = 1..Len(queue) /\ DOMAIN applied = 1..Len(applied)
           /\ \A r \in Revisions : r \in Nat
           /\ start <= seq /\ seq <= target /\ current \in Nat
           /\ Len(queue) <= QueueSize
<1>1. /\ Len(queue) \in Nat /\ Len(applied) \in Nat
      /\ DOMAIN queue = 1..Len(queue) /\ DOMAIN applied = 1..Len(applied)
  <2>1. queue \in Seq(FileNames) /\ applied \in Seq(Revisions)
    BY DEF TypeOK
  <2> HIDE DEF Revisions, FileNames
  <2> QED
    BY <2>1
<1>2. target \in Nat /\ start \in Nat /\ seq \in Nat
      /\ start <= seq /\ seq <= target
  <2>1. target \in Nat
    <3>1. target \in Revisions
      BY DEF TypeOK
    <3> QED
      BY <3>1, BoundsAssumption DEF Revisions
  <2>2. start \in 0..target /\ seq \in start..target
    BY DEF TypeOK
  <2> QED
    BY <2>1, <2>2
<1>3. InHand \in {0, 1}
  BY DEF InHand
<1>4. current \in Nat /\ Len(queue) <= QueueSize
  BY DEF TypeOK
<1> QED
  BY <1>1, <1>2, <1>3, <1>4, BoundsAssumption DEF Behind, Revisions

LEMMA InitIInv == Init => IInv
<1> SUFFICES ASSUME Init PROVE IInv
  OBVIOUS
<1>1. TypeOK
  <2>1. queue \in Seq(FileNames) /\ applied \in Seq(Revisions)
    BY DEF Init
  <2>2. /\ target \in Revisions
        /\ start \in 0..target /\ seq \in start..target /\ Len(queue) <= QueueSize
    BY BoundsAssumption DEF Init, Revisions
  <2>3. data \in FileNames
    BY BoundsAssumption DEF Init, End, FileNames
  <2> QED
    BY <2>1, <2>2, <2>3 DEF Init, TypeOK
<1>2. FlowInv /\ BeginInv /\ SeqInv /\ OrderInv /\ EndInv
  BY DEF Init, FlowInv, BeginInv, SeqInv, OrderInv, EndInv, Reading, InHand, Behind
<1> QED
  BY <1>1, <1>2 DEF IInv

LEMMA BeginUpdatePreserves == ASSUME IInv, BeginUpdate PROVE IInv'
<1>1. PICK r \in CurrentStates :
         r < target /\ start' = r /\ seq' = r /\ current' = r
  BY DEF BeginUpdate
<1>2. /\ status' = "PARTIALLY_FETCHED" /\ dpc' = "check" /\ dpc = "begin"
      /\ UNCHANGED <<target, error, queue, mpc, data, stop, applied>>
  BY DEF BeginUpdate, mainVars
<1>3. /\ TypeOK /\ FlowInv /\ mpc = "take" /\ queue = << >> /\ applied = << >>
  BY <1>2 DEF IInv, BeginInv
<1>4. r \in Nat
  BY <1>1 DEF CurrentStates
<1>5. TypeOK'
  BY <1>1, <1>2, <1>3, <1>4, TypeFacts DEF TypeOK
<1>6. FlowInv' /\ BeginInv' /\ OrderInv'
  BY <1>1, <1>2, <1>3, <1>4 DEF FlowInv, BeginInv, OrderInv, Reading, InHand, Behind
<1>7. SeqInv'
  BY <1>1, <1>2 DEF IInv, BeginInv, SeqInv
<1>8. EndInv'
  BY <1>2, <1>3 DEF EndInv, Reading
<1> QED
  BY <1>5, <1>6, <1>7, <1>8 DEF IInv

(* The steps of the other thread that leave the queue alone                *)
LEMMA DownloaderPreserves ==
    ASSUME IInv, NoChanges \/ BeginFails \/ CheckStop \/ Fetch \/ FetchEmpty \/ FetchFails
    PROVE  IInv'
<1>1. TypeOK /\ FlowInv /\ BeginInv /\ SeqInv /\ OrderInv /\ EndInv
  BY DEF IInv
<1>2. CASE NoChanges
  <2>1. PICK r \in CurrentStates :
           r >= target /\ start' = r /\ seq' = r /\ current' = r
    BY <1>2 DEF NoChanges
  <2>2. /\ dpc' = "done" /\ mpc = "take" /\ queue = << >> /\ applied = << >>
        /\ status = "NO_UPDATES"
        /\ UNCHANGED <<target, status, error, queue, mpc, data, stop, applied>>
    BY <1>1, <1>2 DEF NoChanges, BeginInv, mainVars
  <2>3. r \in Nat /\ r \in 0..target
    BY <1>1, <2>1, TypeFacts DEF CurrentStates
  <2>4. TypeOK'
    <3>1. start' \in 0..target /\ seq' \in start'..target /\ current' \in Nat
      BY <2>1, <2>3
    <3> QED
      BY <1>1, <2>2, <3>1 DEF TypeOK
  <2>5. FlowInv'
    <3>1. ~stop
      BY <1>1, <2>2 DEF FlowInv, Reading
    <3>2. current' = start' + Len(applied')
      BY <2>1, <2>2, <2>3
    <3> QED
      BY <2>2, <3>1, <3>2 DEF FlowInv, InHand
  <2>7. BeginInv' /\ OrderInv' /\ SeqInv'
    BY <2>2 DEF BeginInv, OrderInv, SeqInv
  <2>6. EndInv'
    BY <2>2 DEF EndInv, Reading
  <2> QED
    BY <2>4, <2>5, <2>6, <2>7 DEF IInv
<1>3. CASE BeginFails
  <2>1. /\ dpc' = "end" /\ error' = TRUE /\ mpc = "take" /\ queue = << >> /\ applied = << >>
        /\ status = "NO_UPDATES"
        /\ UNCHANGED <<target, start, seq, current, status, queue, mpc, data, stop, applied>>
    BY <1>1, <1>3 DEF BeginFails, BeginInv, mainVars
  <2>2. TypeOK'
    BY <1>1, <2>1 DEF TypeOK
  <2>3. FlowInv' /\ BeginInv' /\ OrderInv' /\ SeqInv'
    BY <1>1, <2>1 DEF FlowInv, BeginInv, OrderInv, SeqInv, Reading, InHand, Behind
  <2>4. EndInv'
    BY <2>1 DEF EndInv, Reading, Agrees
  <2> QED
    BY <2>2, <2>3, <2>4 DEF IInv
<1>4. CASE CheckStop
  <2>1. /\ dpc = "check" /\ seq < target /\ ~error /\ status = "PARTIALLY_FETCHED"
        /\ UNCHANGED <<target, start, queue, current, mpc, data, stop, applied>>
    BY <1>1, <1>4 DEF CheckStop, SeqInv, mainVars
  <2>2. CASE stop
    <3>1. ~Reading /\ dpc' = "end" /\ error' = FALSE /\ status' = "FULLY_FETCHED" /\ seq' = seq
      BY <1>1, <1>4, <2>2 DEF CheckStop, EndLoop, FlowInv
    <3>2. TypeOK'
      BY <1>1, <2>1, <3>1 DEF TypeOK
    <3>3. FlowInv' /\ BeginInv' /\ OrderInv' /\ SeqInv'
      BY <1>1, <2>1, <3>1 DEF FlowInv, BeginInv, OrderInv, SeqInv, Reading
    <3>4. EndInv'
      BY <1>1, <2>1, <3>1 DEF EndInv, Reading
    <3> QED
      BY <3>2, <3>3, <3>4 DEF IInv
  <2>3. CASE ~stop
    <3>1. dpc' = "fetch" /\ seq' = seq + 1 /\ status' = status /\ error' = error
      BY <1>4, <2>3 DEF CheckStop
    <3>2. seq' \in start..target
      BY <1>1, <2>1, <3>1, TypeFacts
    <3>3. TypeOK'
      BY <1>1, <2>1, <3>1, <3>2 DEF TypeOK
    <3>4. FlowInv'
      BY <1>1, <2>1, <3>1, TypeFacts DEF FlowInv, Reading, InHand, Behind
    <3>5. BeginInv' /\ OrderInv' /\ SeqInv'
      BY <1>1, <2>1, <3>1 DEF BeginInv, OrderInv, SeqInv
    <3>6. EndInv'
      BY <1>1, <2>1, <3>1 DEF EndInv, Reading
    <3> QED
      BY <3>3, <3>4, <3>5, <3>6 DEF IInv
  <2> QED
    BY <2>2, <2>3
<1>5. CASE Fetch \/ FetchEmpty
  <2>1. /\ dpc = "fetch"
        /\ \/ dpc' = "put"
           \/ dpc' = "put empty"
        /\ UNCHANGED <<target, start, seq, status, error, queue, current,
                       mpc, data, stop, applied>>
    BY <1>5 DEF Fetch, FetchEmpty, mainVars
  <2>2. TypeOK'
    BY <1>1, <2>1 DEF TypeOK
  <2>3. FlowInv' /\ BeginInv' /\ OrderInv' /\ SeqInv'
    BY <1>1, <2>1 DEF FlowInv, BeginInv, OrderInv, SeqInv, Reading, InHand, Behind
  <2>4. EndInv'
    BY <1>1, <2>1 DEF EndInv, Reading
  <2> QED
    BY <2>2, <2>3, <2>4 DEF IInv
<1>6. CASE FetchFails
  <2>1. /\ dpc = "fetch" /\ dpc' = "end" /\ error' = TRUE /\ status' = status
        /\ UNCHANGED <<target, start, seq, queue, current, mpc, data, stop, applied>>
    BY <1>6 DEF FetchFails, EndLoop, mainVars
  <2>2. TypeOK' /\ status = "PARTIALLY_FETCHED"
    BY <1>1, <2>1 DEF TypeOK, SeqInv
  <2>3. FlowInv' /\ BeginInv' /\ OrderInv' /\ SeqInv'
    BY <1>1, <2>1 DEF FlowInv, BeginInv, OrderInv, SeqInv, Reading, InHand, Behind
  <2>4. Reading' => Agrees(Behind)'
    <3>1. Reading => Behind = seq - 1
      BY <1>1, <2>1, TypeFacts DEF FlowInv
    <3> QED
      BY <2>1, <2>2, <3>1 DEF Agrees, Reading, Behind, InHand
  <2>5. EndInv'
    BY <1>1, <2>1, <2>4 DEF EndInv, Reading
  <2> QED
    BY <2>2, <2>3, <2>5 DEF IInv
<1> QED
  BY <1>2, <1>3, <1>4, <1>5, <1>6

(* The shape of the queue after put() and take()                           *)
LEMMA PutShape ==
    ASSUME TypeOK, NEW file \in FileNames, Put(file)
    PROVE  /\ queue' \in Seq(FileNames) /\ Len(queue') = Len(queue) + 1
           /\ Len(queue') <= QueueSize
           /\ queue'[Len(queue) + 1] = file
           /\ \A i \in 1..Len(queue) : queue'[i] = queue[i]
<1>1. queue \in Seq(FileNames)
  BY DEF TypeOK
<1>2. queue' = Append(queue, file) /\ Len(queue) < QueueSize
  BY DEF Put
<1> HIDE DEF FileNames
<1> QED
  BY <1>1, <1>2, BoundsAssumption

LEMMA TakeShape ==
    ASSUME TypeOK, queue # << >>
    PROVE  /\ Len(queue) > 0 /\ Head(queue) = queue[1]
           /\ Head(queue) \in FileNames
           /\ Tail(queue) \in Seq(FileNames)
           /\ Len(Tail(queue)) = Len(queue) - 1
           /\ \A i \in 1..(Len(queue) - 1) : Tail(queue)[i] = queue[i + 1]
<1>1. queue \in Seq(FileNames)
  BY DEF TypeOK
<1> HIDE DEF FileNames
<1> QED
  BY <1>1

LEMMA PutDataPreserves == ASSUME IInv, PutData PROVE IInv'
<1>1. TypeOK /\ FlowInv /\ BeginInv /\ SeqInv /\ OrderInv /\ EndInv
  BY DEF IInv
<1> DEFINE file == IF dpc = "put" THEN seq ELSE -seq
<1>2. /\ dpc = "put" \/ dpc = "put empty"
      /\ Put(file) /\ ~error /\ status = "PARTIALLY_FETCHED"
      /\ UNCHANGED <<target, start, seq, current, mpc, data, stop, applied>>
  BY <1>1 DEF PutData, SeqInv, mainVars
<1>3. /\ error' \in BOOLEAN /\ ~error'
      /\ \/ seq < target /\ dpc' = "check" /\ status' = status
         \/ seq >= target /\ dpc' = "end" /\ status' = "FULLY_FETCHED"
  <2>1. error \in BOOLEAN
    BY <1>1 DEF TypeOK
  <2>2. CASE seq < target
    <3>1. dpc' = "check" /\ status' = status /\ error' = error
      BY <2>2 DEF PutData
    <3> QED
      BY <1>2, <2>1, <2>2, <3>1
  <2>3. CASE ~(seq < target)
    <3>1. dpc' = "end" /\ status' = "FULLY_FETCHED" /\ error' = FALSE
      BY <2>3 DEF PutData, EndLoop
    <3>2. seq >= target
      BY <1>1, <2>3, TypeFacts
    <3> QED
      BY <3>1, <3>2
  <2> QED
    BY <2>2, <2>3
<1>4. file \in FileNames
  <2>1. seq \in Nat /\ seq <= target /\ target \in Revisions
    BY <1>1, TypeFacts DEF TypeOK
  <2> QED
    BY <2>1, BoundsAssumption DEF Revisions, FileNames
<1>5. /\ queue' \in Seq(FileNames) /\ Len(queue') = Len(queue) + 1
      /\ Len(queue') <= QueueSize
      /\ queue'[Len(queue) + 1] = file
      /\ \A i \in 1..Len(queue) : queue'[i] = queue[i]
  BY <1>1, <1>2, <1>4, PutShape
<1>6. TypeOK'
  BY <1>1, <1>2, <1>3, <1>5 DEF TypeOK
<1>7. Reading' => Reading /\ InHand' = InHand /\ Behind' = Behind + 1 /\ seq = Behind + 1
  <2>1. InHand' = InHand /\ (Reading' <=> Reading)
    BY <1>2 DEF Reading, InHand
  <2>2. Behind' = Behind + 1
    <3>1. current \in Nat /\ InHand \in Nat /\ Len(queue) \in Nat
      BY <1>1, TypeFacts
    <3>2. current' = current /\ Len(queue') = Len(queue) + 1
      BY <1>2, <1>5
    <3> QED
      BY <2>1, <3>1, <3>2 DEF Behind
  <2>3. Reading => seq = Behind + 1
    BY <1>1, <1>2 DEF FlowInv
  <2> QED
    BY <2>1, <2>2, <2>3
<1>8. FlowInv'
  <2> SUFFICES ASSUME Reading' PROVE FlowInv'
    BY DEF FlowInv
  <2>1. \A i \in 1..Len(queue') : queue'[i] \in Named(current + InHand + i)
    <3> SUFFICES ASSUME NEW i \in 1..Len(queue')
                 PROVE  queue'[i] \in Named(current + InHand + i)
      OBVIOUS
    <3>1. CASE i \in 1..Len(queue)
      BY <1>1, <1>5, <1>7, <3>1 DEF FlowInv
    <3>2. CASE i = Len(queue) + 1
      <4>1. Behind + 1 = current + InHand + i
        <5>1. current \in Nat /\ InHand \in Nat /\ Len(queue) \in Nat
          BY <1>1, TypeFacts
        <5> QED
          BY <3>2, <5>1 DEF Behind
      <4>2. file \in Named(seq)
        BY DEF Named
      <4> QED
        BY <1>5, <1>7, <3>2, <4>1, <4>2
    <3> QED
      BY <1>1, <1>5, <3>1, <3>2, TypeFacts
  <2> QED
    BY <1>1, <1>2, <1>3, <1>7, <2>1 DEF FlowInv
<1>9. BeginInv' /\ OrderInv' /\ SeqInv'
  BY <1>1, <1>2, <1>3 DEF BeginInv, OrderInv, SeqInv
<1>10. EndInv'
  <2>1. /\ Reading => file # End
        /\ mpc \in {"join", "returned"} => data # End /\ data = -(start + Len(applied) + 1)
    <3>1. Reading => seq \in Nat /\ seq > 0
      <4>1. Behind \in Nat /\ (Reading => seq = Behind + 1)
        BY <1>1, <1>2, TypeFacts DEF FlowInv
      <4> QED
        BY <4>1
    <3>2. Reading => file # End
      BY <3>1 DEF End
    <3> QED
      BY <1>1, <1>2, <3>2 DEF EndInv
  <2>2. Reading' => \A i \in 1..Len(queue') : queue'[i] # End
    <3> SUFFICES ASSUME Reading, NEW i \in 1..Len(queue') PROVE queue'[i] # End
      BY <1>7
    <3>1. CASE i \in 1..Len(queue)
      BY <1>1, <1>2, <1>5, <3>1 DEF EndInv
    <3>2. CASE i = Len(queue) + 1
      BY <1>5, <2>1, <3>2
    <3> QED
      BY <1>1, <1>5, <3>1, <3>2, TypeFacts
  <2>3. Reading' /\ dpc' = "end" => Agrees(Behind)'
    <3>1. CASE seq >= target
      <4>1. seq = target
        BY <1>1, <3>1, TypeFacts
      <4>2. Reading' /\ dpc' = "end" => Behind' = target /\ status' = "FULLY_FETCHED"
        BY <1>3, <1>7, <4>1
      <4> QED
        BY <1>2, <4>2 DEF Agrees
    <3> QED
      BY <1>1, <1>3, <3>1
  <2> QED
    BY <1>2, <1>3, <2>1, <2>2, <2>3 DEF EndInv
<1> QED
  BY <1>6, <1>8, <1>9, <1>10 DEF IInv

LEMMA PutEndPreserves == ASSUME IInv, PutEnd PROVE IInv'
<1>1. TypeOK /\ FlowInv /\ BeginInv /\ SeqInv /\ OrderInv /\ EndInv
  BY DEF IInv
<1>2. /\ dpc = "end" /\ dpc' = "done" /\ Put(End)
      /\ UNCHANGED <<target, start, seq, status, error, current,
                     mpc, data, stop, applied>>
  BY DEF PutEnd, mainVars
<1>3. /\ queue' \in Seq(FileNames) /\ Len(queue') = Len(queue) + 1
      /\ Len(queue') <= QueueSize
      /\ queue'[Len(queue) + 1] = End
      /\ \A i \in 1..Len(queue) : queue'[i] = queue[i]
  <2>1. End \in FileNames
    BY BoundsAssumption DEF End, FileNames
  <2> QED
    BY <1>1, <1>2, <2>1, PutShape
<1>4. TypeOK'
  BY <1>1, <1>2, <1>3 DEF TypeOK
<1>5. Reading' => Reading /\ InHand' = InHand /\ Behind' = Behind + 1
  <2>1. InHand' = InHand /\ (Reading' <=> Reading)
    BY <1>2 DEF Reading, InHand
  <2>2. Behind' = Behind + 1
    <3>1. current \in Nat /\ InHand \in Nat /\ Len(queue) \in Nat
      BY <1>1, TypeFacts
    <3>2. current' = current /\ Len(queue') = Len(queue) + 1
      BY <1>2, <1>3
    <3> QED
      BY <2>1, <3>1, <3>2 DEF Behind
  <2> QED
    BY <2>1, <2>2
<1>6. FlowInv'
  <2> SUFFICES ASSUME Reading' PROVE FlowInv'
    BY DEF FlowInv
  <2>1. \A i \in 1..Len(queue') : queue'[i] \in Named(current + InHand + i)
    <3> SUFFICES ASSUME NEW i \in 1..Len(queue')
                 PROVE  queue'[i] \in Named(current + InHand + i)
      OBVIOUS
    <3>1. CASE i \in 1..Len(queue)
      BY <1>1, <1>3, <1>5, <3>1 DEF FlowInv
    <3>2. CASE i = Len(queue) + 1
      BY <1>3, <3>2 DEF Named
    <3> QED
      BY <1>1, <1>3, <3>1, <3>2, TypeFacts
  <2> QED
    BY <1>1, <1>2, <1>5, <2>1 DEF FlowInv
<1>7. BeginInv' /\ OrderInv' /\ SeqInv'
  BY <1>1, <1>2 DEF BeginInv, OrderInv, SeqInv
<1>8. EndInv'
  <2>1. mpc \in {"join", "returned"} => data # End /\ data = -(start + Len(applied) + 1)
    BY <1>1, <1>2 DEF EndInv
  <2>2. Reading' => \A i \in 1..Len(queue') : queue'[i] = End => i = Len(queue')
    <3> SUFFICES ASSUME Reading, NEW i \in 1..Len(queue'), queue'[i] = End
                 PROVE  i = Len(queue')
      BY <1>5
    <3>1. i \notin 1..Len(queue)
      BY <1>1, <1>2, <1>3 DEF EndInv
    <3> QED
      BY <1>1, <1>3, <3>1, TypeFacts
  <2>3. Reading' => /\ Len(queue') > 0 /\ queue'[Len(queue')] = End
                    /\ Agrees(Behind - 1)'
    <3>1. Len(queue') > 0 /\ queue'[Len(queue')] = End
      BY <1>1, <1>3, TypeFacts
    <3>2. Reading' => Behind' - 1 = Behind /\ Agrees(Behind)
      BY <1>1, <1>2, <1>5, TypeFacts DEF EndInv
    <3> QED
      BY <1>2, <3>1, <3>2 DEF Agrees
  <2> QED
    BY <1>2, <2>1, <2>2, <2>3 DEF EndInv
<1> QED
  BY <1>4, <1>6, <1>7, <1>8 DEF IInv

(* The main thread takes a file.                                           *)
LEMMA TakePreserves == ASSUME IInv, Take PROVE IInv'
<1>1. TypeOK /\ FlowInv /\ BeginInv /\ SeqInv /\ OrderInv /\ EndInv
  BY DEF IInv
<1>2. /\ mpc = "take" /\ queue # << >> /\ data' = Head(queue) /\ queue' = Tail(queue)
      /\ mpc' = IF IsEmpty(data') THEN "join" ELSE "process"
      /\ UNCHANGED <<target, start, dpc, seq, status, error, current, stop, applied>>
  BY DEF Take, downloadVars
<1>3. /\ Len(queue) > 0 /\ data' = queue[1]
      /\ data' \in FileNames
      /\ queue' \in Seq(FileNames)
      /\ Len(queue') = Len(queue) - 1 /\ Len(queue) \in Nat
      /\ \A i \in 1..(Len(queue) - 1) : queue'[i] = queue[i + 1]
  BY <1>1, <1>2, TakeShape, TypeFacts
<1>4. TypeOK'
  <2>1. Len(queue') <= QueueSize
    BY <1>1, <1>3, TypeFacts
  <2> QED
    BY <1>1, <1>2, <1>3, <2>1 DEF TypeOK
<1>5. BeginInv' /\ SeqInv' /\ OrderInv'
  <2>1. dpc # "begin"
    BY <1>1, <1>2 DEF BeginInv
  <2> QED
    BY <1>1, <1>2, <2>1 DEF BeginInv, SeqInv, OrderInv
<1>6. CASE data' = End
  <2>1. mpc' = "join"
    BY <1>2, <1>6 DEF End, IsEmpty
  <2>2. FlowInv'
    BY <2>1 DEF FlowInv, Reading
  <2>3. EndInv'
    <3>1. dpc = "done" /\ 1 = Len(queue)
      <4>1. 1 \in 1..Len(queue) /\ queue[1] = End /\ Reading
        BY <1>2, <1>3, <1>6 DEF Reading
      <4> QED
        BY <1>1, <4>1 DEF EndInv
    <3>2. Agrees(start + Len(applied))
      <4>1. Behind - 1 = start + Len(applied)
        <5>1. current = start + Len(applied) /\ InHand = 0
          BY <1>1, <1>2 DEF FlowInv, Reading, InHand
        <5>2. current \in Nat
          BY <1>1, TypeFacts
        <5>3. Behind = current + 0 + 1
          BY <3>1, <5>1 DEF Behind
        <5> QED
          BY <5>1, <5>2, <5>3
      <4>2. status = "NO_UPDATES" \/ Agrees(Behind - 1)
        BY <1>1, <1>2, <3>1 DEF EndInv, Reading
      <4> QED
        BY <4>1, <4>2 DEF Agrees
    <3> QED
      BY <1>1, <1>2, <1>6, <2>1, <3>1, <3>2 DEF EndInv, Agrees, Reading
  <2> QED
    BY <1>4, <1>5, <2>2, <2>3 DEF IInv
<1>7. data' \in Named(current + 1) /\ current \in Nat /\ current = start + Len(applied)
  <2>1. 1 \in 1..Len(queue) /\ Reading /\ InHand = 0
    BY <1>2, <1>3 DEF Reading, InHand
  <2>2. queue[1] \in Named(current + 0 + 1) /\ current = start + Len(applied)
    BY <1>1, <2>1 DEF FlowInv
  <2> QED
    BY <1>1, <1>3, <2>2, TypeFacts
<1>8. CASE data' # End /\ IsEmpty(data')
  <2>1. mpc' = "join"
    BY <1>2, <1>8
  <2>2. FlowInv'
    BY <2>1 DEF FlowInv, Reading
  <2>3. data' = -(start + Len(applied) + 1)
    BY <1>7, <1>8 DEF Named, IsEmpty, End
  <2>4. EndInv'
    BY <1>2, <1>8, <2>1, <2>3 DEF EndInv, Reading
  <2> QED
    BY <1>4, <1>5, <2>2, <2>4 DEF IInv
<1>9. CASE data' # End /\ ~IsEmpty(data')
  <2>1. mpc' = "process" /\ InHand' = 1 /\ InHand = 0 /\ Reading
    BY <1>2, <1>9 DEF InHand, Reading
  <2>2. Behind' = Behind
    <3>1. current \in Nat /\ current' = current
      BY <1>1, <1>2, TypeFacts
    <3> QED
      BY <1>3, <2>1, <3>1 DEF Behind
  <2>3. data' = current + 1
    BY <1>7, <1>9 DEF Named, IsEmpty, End
  <2>4. \A i \in 1..Len(queue') : queue'[i] \in Named(current' + 1 + i)
    <3> SUFFICES ASSUME NEW i \in 1..Len(queue')
                 PROVE  queue'[i] \in Named(current' + 1 + i)
      OBVIOUS
    <3>1. i \in 1..(Len(queue) - 1) /\ i + 1 \in 1..Len(queue)
      BY <1>3
    <3>2. queue[i + 1] \in Named(current + 0 + (i + 1))
      BY <1>1, <2>1, <3>1 DEF FlowInv
    <3>3. current + 0 + (i + 1) = current' + 1 + i
      <4>1. current \in Nat /\ current' = current
        BY <1>1, <1>2, TypeFacts
      <4> QED
        BY <3>1, <4>1
    <3> QED
      BY <1>3, <3>1, <3>2, <3>3
  <2>5. FlowInv'
    <3>1. current' = start' + Len(applied') /\ ~stop'
      BY <1>1, <1>2, <2>1 DEF FlowInv
    <3>2. /\ dpc' = "check" => seq' = Behind'
          /\ dpc' \in {"fetch", "put", "put empty"} => seq' = Behind' + 1
      BY <1>1, <1>2, <2>1, <2>2 DEF FlowInv
    <3> QED
      BY <1>2, <2>1, <2>3, <2>4, <3>1, <3>2 DEF FlowInv
  <2>6. EndInv'
    <3>1. \A i \in 1..Len(queue') : queue'[i] = End => dpc' = "done" /\ i = Len(queue')
      <4> SUFFICES ASSUME NEW i \in 1..Len(queue'), queue'[i] = End
                   PROVE  dpc = "done" /\ i = Len(queue')
        BY <1>2
      <4>1. i \in 1..(Len(queue) - 1) /\ i + 1 \in 1..Len(queue) /\ queue[i + 1] = End
        BY <1>3
      <4>2. dpc = "done" /\ i + 1 = Len(queue)
        BY <1>1, <2>1, <4>1 DEF EndInv
      <4> QED
        BY <1>3, <4>1, <4>2
    <3>2. dpc = "done" =>
            \/ status = "NO_UPDATES"
            \/ Len(queue') > 0 /\ queue'[Len(queue')] = End /\ Agrees(Behind - 1)
      <4> SUFFICES ASSUME dpc = "done", status # "NO_UPDATES"
                   PROVE Len(queue') > 0 /\ queue'[Len(queue')] = End /\ Agrees(Behind - 1)
        OBVIOUS
      <4>1. queue[Len(queue)] = End /\ Agrees(Behind - 1)
        BY <1>1, <2>1 DEF EndInv
      <4>2. Len(queue) # 1
        BY <1>3, <1>9, <4>1
      <4> QED
        BY <1>3, <4>1, <4>2
    <3>3. dpc = "end" => Agrees(Behind)
      BY <1>1, <2>1 DEF EndInv
    <3> QED
      BY <1>2, <2>1, <2>2, <3>1, <3>2, <3>3 DEF EndInv, Agrees
  <2> QED
    BY <1>4, <1>5, <2>5, <2>6 DEF IInv
<1> QED
  BY <1>6, <1>8, <1>9

LEMMA ProcessPreserves == ASSUME IInv, Process PROVE IInv'
<1>1. TypeOK /\ FlowInv /\ BeginInv /\ SeqInv /\ OrderInv /\ EndInv
  BY DEF IInv
<1>2. /\ mpc = "process" /\ mpc' = "take" /\ current' = current + 1
      /\ applied' = Append(applied, data)
      /\ UNCHANGED <<target, start, dpc, seq, status, error, queue, data, stop>>
  BY DEF Process, downloadVars
<1>3. /\ Reading /\ InHand = 1 /\ InHand' = 0 /\ current = start + Len(applied)
      /\ data = current + 1 /\ ~stop
  BY <1>1, <1>2 DEF Reading, InHand, FlowInv
<1>4. /\ current \in Nat /\ start \in Nat /\ Len(applied) \in Nat /\ Len(queue) \in Nat
      /\ data \in Revisions
  <2>1. current \in Nat /\ start \in Nat /\ Len(applied) \in Nat /\ Len(queue) \in Nat
    BY <1>1, TypeFacts
  <2>2. data \in FileNames
    BY <1>1 DEF TypeOK
  <2>3. data \in Revisions
    BY <1>3, <2>1, <2>2, BoundsAssumption DEF FileNames, Revisions
  <2> QED
    BY <2>1, <2>3
<1>5. /\ applied' \in Seq(Revisions) /\ Len(applied') = Len(applied) + 1
      /\ applied'[Len(applied) + 1] = data
      /\ \A i \in 1..Len(applied) : applied'[i] = applied[i]
  <2>1. applied \in Seq(Revisions)
    BY <1>1 DEF TypeOK
  <2> HIDE DEF Revisions
  <2> QED
    BY <1>2, <1>4, <2>1
<1>6. TypeOK'
  <2>1. current' \in Nat
    BY <1>2, <1>4
  <2> QED
    BY <1>1, <1>2, <1>5, <2>1 DEF TypeOK
<1>7. Behind' = Behind
  BY <1>2, <1>3, <1>4 DEF Behind
<1>8. OrderInv'
  <2> SUFFICES ASSUME NEW i \in 1..Len(applied') PROVE applied'[i] = start + i
    BY <1>2 DEF OrderInv
  <2>1. CASE i \in 1..Len(applied)
    BY <1>1, <1>5, <2>1 DEF OrderInv
  <2>2. CASE i = Len(applied) + 1
    BY <1>3, <1>4, <1>5, <2>2
  <2> QED
    BY <1>4, <1>5, <2>1, <2>2
<1>9. FlowInv'
  <2>1. \A i \in 1..Len(queue) : queue[i] \in Named(current + 1 + i)
    BY <1>1, <1>3 DEF FlowInv
  <2>2. current' = start + Len(applied')
    BY <1>2, <1>3, <1>4, <1>5
  <2>3. \A i \in 1..Len(queue') : queue'[i] \in Named(current' + 0 + i)
    BY <1>2, <1>4, <2>1
  <2>4. /\ dpc' = "check" => seq' = Behind'
        /\ dpc' \in {"fetch", "put", "put empty"} => seq' = Behind' + 1
    BY <1>1, <1>2, <1>3, <1>7 DEF FlowInv
  <2> QED
    BY <1>2, <1>3, <2>2, <2>3, <2>4 DEF FlowInv
<1>10. BeginInv' /\ SeqInv'
  BY <1>1, <1>2 DEF BeginInv, SeqInv
<1>11. EndInv'
  BY <1>1, <1>2, <1>3, <1>7 DEF EndInv, Agrees, Reading
<1> QED
  BY <1>6, <1>8, <1>9, <1>10, <1>11 DEF IInv

LEMMA FailurePreserves ==
    ASSUME IInv, ProcessFails \/ StopFetching \/ ClearQueue \/ Join PROVE IInv'
<1>1. TypeOK /\ FlowInv /\ BeginInv /\ SeqInv /\ OrderInv /\ EndInv
  BY DEF IInv
<1>2. /\ mpc # "take" /\ mpc' \notin {"take", "process"}
      /\ mpc' \in {"stop", "clear", "join failed", "returned", "thrown"}
      /\ mpc' = "returned" => mpc = "join"
      /\ UNCHANGED <<target, start, dpc, seq, status, error, data, applied>>
  BY DEF ProcessFails, StopFetching, ClearQueue, Join, downloadVars
<1>3. /\ queue' = queue \/ queue' = << >>
      /\ current' = current \/ current' = current + 1
      /\ stop' = stop \/ stop' = TRUE
  BY DEF ProcessFails, StopFetching, ClearQueue, Join
<1>4. TypeOK'
  <2>1. queue' \in Seq(FileNames) /\ Len(queue') <= QueueSize
    <3>1. CASE queue' = queue
      BY <1>1, <3>1 DEF TypeOK
    <3>2. CASE queue' = << >>
      BY <3>2, BoundsAssumption
    <3> QED
      BY <1>3, <3>1, <3>2
  <2>2. current' \in Nat
    BY <1>1, <1>3, TypeFacts
  <2>3. stop' \in BOOLEAN
    BY <1>1, <1>3 DEF TypeOK
  <2> QED
    BY <1>1, <1>2, <2>1, <2>2, <2>3 DEF TypeOK
<1>5. FlowInv' /\ BeginInv' /\ SeqInv' /\ OrderInv'
  BY <1>1, <1>2 DEF FlowInv, BeginInv, SeqInv, OrderInv, Reading
<1>6. EndInv'
  BY <1>1, <1>2 DEF EndInv, Agrees, Reading
<1> QED
  BY <1>4, <1>5, <1>6 DEF IInv

-----------------------------------------------------------------------------
(* The theorems *)

(* The invariant holds in every reachable state. *)
THEOREM IInvHolds == Spec => []IInv
<1>1. IInv /\ Next => IInv'
  BY BeginUpdatePreserves, DownloaderPreserves, PutDataPreserves, PutEndPreserves,
     TakePreserves, ProcessPreserves, FailurePreserves
     DEF Next, Downloader, Beginning, Downloading, Main
<1>2. IInv /\ UNCHANGED vars => IInv'
  <2> SUFFICES ASSUME IInv, UNCHANGED vars PROVE IInv'
    OBVIOUS
  <2> USE DEF vars, downloadVars, mainVars
  <2>1. TypeOK'
    BY DEF IInv, TypeOK
  <2>2. FlowInv'
    BY DEF IInv, FlowInv, Reading, InHand, Behind
  <2>3. BeginInv' /\ SeqInv' /\ OrderInv'
    BY DEF IInv, BeginInv, SeqInv, OrderInv
  <2>4. EndInv'
    BY DEF IInv, EndInv, Agrees, Reading, InHand, Behind
  <2> QED
    BY <2>1, <2>2, <2>3, <2>4 DEF IInv
<1> QED
  BY <1>1, <1>2, InitIInv, PTL DEF Spec

(* Changes are applied in the order of their revisions, without gaps, for  *)
(* every size of the queue and whatever fetch() does.                      *)
THEOREM AlwaysInOrder == Spec => []IngestedInOrder
<1>1. IInv => IngestedInOrder
  <2> SUFFICES ASSUME IInv PROVE IngestedInOrder
    OBVIOUS
  <2>1. DOMAIN applied = 1..Len(applied)
    BY TypeFacts DEF IInv
  <2> QED
    BY <2>1 DEF IInv, OrderInv, FlowInv, Reading, IngestedInOrder
<1> QED
  BY <1>1, IInvHolds, PTL

(* Nothing that was downloaded is left out, and the status tells whether   *)
(* anything is missing, unless an empty file ended the loop.               *)
THEOREM AlwaysComplete == Spec => []AllIngested
<1>1. IInv => AllIngested
  BY DEF IInv, EndInv, Agrees, AllIngested, Returned
<1> QED
  BY <1>1, IInvHolds, PTL
-----------------------------------------------------------------------------
(* The download as a whole                                                 *)

(* The invariant of the search holds until it is forgotten.                *)
LEMMA SearchWithin ==
    ASSUME pc = "over" \/ SearchInv, [DownloadNext]_downloadAllVars
    PROVE  (pc = "over" \/ SearchInv)'
<1>1. CASE UNCHANGED searchVars
  <2>1. SearchInv => SearchInv'
    BY <1>1 DEF SearchInv, searchVars, SearchTypeOK, BracketInv, NothingSkipped, NothingRepeated,
                ResultAvailable, Contiguous, Older
  <2> QED
    BY <1>1, <2>1 DEF searchVars
<1>2. CASE Search
  <2>1. pc # "over"
    BY <1>2 DEF Search, SearchNext, StartAtLatest, StartProbing, ProbeOlder, ProbeNewer, ProbeFailed,
                SplitOlder, SplitNewer, SplitFailed
  <2>2. SearchInv'
    BY <1>2, <2>1, NextPreserves DEF Search
  <2> QED
    BY <2>2
<1>3. CASE BeginFound \/ SearchFailed
  BY <1>3 DEF BeginFound, SearchFailed, Forget
<1>4. CASE NoTarget
  <2>1. /\ pc = "start" /\ pc' = "failed"
        /\ UNCHANGED <<server, wanted, lower, upper, probe, lost, result>>
    BY <1>4 DEF NoTarget
  <2>2. SearchInv
    BY <2>1
  <2>3. SearchTypeOK'
    BY <2>1, <2>2 DEF SearchInv, SearchTypeOK
  <2>4. BracketInv' /\ NothingSkipped' /\ NothingRepeated' /\ ResultAvailable'
    BY <2>1 DEF BracketInv, NothingSkipped, NothingRepeated, ResultAvailable
  <2> QED
    BY <2>3, <2>4 DEF SearchInv
<1> QED
  BY <1>1, <1>2, <1>3, <1>4 DEF DownloadNext, DownloadThread, MainThread, downloadAllVars

(* With the search that precedes it, the download is one that begins at    *)
(* some revision of the server: all that was shown of it holds.            *)
THEOREM DownloadImplements == DownloadSpec => Spec
<1>1. DownloadInit => Init
  BY DEF DownloadInit
<1>2. [DownloadNext]_downloadAllVars => [Next]_vars
  BY DEF DownloadNext, DownloadThread, MainThread, downloadAllVars, Search, BeginFound, NoTarget,
         SearchFailed, Next, Downloader, Beginning
<1> QED
  BY <1>1, <1>2, PTL DEF DownloadSpec, Spec

(* ... and no change of interest is skipped, in whichever order the two    *)
(* threads take their steps: it begins where the search says.              *)
THEOREM DownloadSkipsNothing == DownloadSpec => []NothingSkipped
<1>1. DownloadInit => SearchInv
  BY InitSearchInv DEF DownloadInit
<1>2. pc = "over" \/ SearchInv => NothingSkipped
  BY DEF SearchInv, NothingSkipped
<1> QED
  BY <1>1, <1>2, SearchWithin, PTL DEF DownloadSpec
=============================================================================
