----------------------- MODULE UpdateRelationsProofs -----------------------
(***************************************************************************)
(* Child relations are processed before their parents, and what a change   *)
(* of bounds marks is never a relation that is done already; no relation   *)
(* is left over but those that a cycle, a stuck way or an absent relation  *)
(* blocks: for any number of relations and any graph of members.           *)
(***************************************************************************)
EXTENDS UpdateRelations, DataTheorems

Frame == [rel : Rels, i : Nat \ {0}, unresolved : BOOLEAN, omitted : Nat]

TypeOK ==
  /\ waysDone \in BOOLEAN
  /\ refs \in [Rels -> Tables] /\ kind \in [Rels -> Kinds]
  /\ geom \subseteq Rels /\ processed \subseteq Rels
  /\ ref \in [Rels -> {"known", "unknown", "missing"}]
  /\ dropped \in [Rels -> SUBSET Int]
  /\ frames \in Seq(Frame)

(* A relation that is written has looked into its members.                 *)
Written(r) == r \in geom \/ IsSuper(r)
Settled(m) == m = Way \/ (m \in processed /\ ref[m] = "known")
NotLive == {"deleted", "absent"}

(* Nothing is processed before the ways.                                   *)
Quiet == ~waysDone => processed = {} /\ frames = << >> /\ list = << >>

(* The calls that have not returned are of different relations, none of    *)
(* which is processed.                                                     *)
OnStack ==
  /\ \A n \in DOMAIN frames :
       frames[n].rel \in attempted \ processed /\ kind[frames[n].rel] \notin NotLive
  /\ \A m, n \in DOMAIN frames : frames[m].rel = frames[n].rel => m = n

(* A relation of the library has a reference until it is processed.        *)
Library ==
  \A r \in Rels :
    /\ kind[r] \in InLibrary /\ r \notin processed => ref[r] = "known"
    /\ kind[r] = "absent" => ref[r] # "known"
    /\ kind[r] \in NotLive => Members(r) = {Way}

(* So it is dropped by a parent only after it has been processed.          *)
Dropped ==
  \A r \in Rels : \A j \in dropped[r] \intersect DOMAIN refs[r] :
    refs[r][j] \in Rels => kind[refs[r][j]] \notin InLibrary \/ refs[r][j] \in processed

(* The members that a call has visited.                                    *)
FrameOK(f) ==
  Written(f.rel) /\ ~f.unresolved =>
    \A j \in DOMAIN refs[f.rel] \ dropped[f.rel] : j < f.i => Settled(refs[f.rel][j])
FramesOK == \A n \in DOMAIN frames : FrameOK(frames[n])

(* The members of a relation that was processed.                           *)
MembersDone(r) ==
  /\ kind[r] \notin NotLive /\ Written(r) =>
       \A j \in DOMAIN refs[r] \ dropped[r] : refs[r][j] = Way \/ refs[r][j] \in processed
  /\ ref[r] = "known" /\ Written(r) =>
       \A j \in DOMAIN refs[r] \ dropped[r] : Settled(refs[r][j])
ProcessedOK == \A r \in processed : MembersDone(r)

IInv ==
  /\ TypeOK /\ Quiet /\ OnStack /\ Library
  /\ Dropped /\ FramesOK /\ ProcessedOK

-----------------------------------------------------------------------------
(* What a step other than that of the ways preserves.                      *)
Steady ==
  /\ UNCHANGED inputVars
  /\ processed \subseteq processed'
  /\ \A m : Settled(m) => Settled(m)'
  /\ \A r \in Rels : Written(r)' = Written(r) /\ dropped[r] \subseteq dropped'[r]

(* The tables of members.                                                  *)
LEMMA Tabled == ASSUME TypeOK, NEW r \in Rels
                PROVE  refs[r] \in Seq(Rels \union Leaves) /\ DOMAIN refs[r] = 1..Size(r) /\ Size(r) \in Nat
BY TablesAssumption DEF TypeOK, Size

(* A call that goes on keeps what it knows of the members behind it.       *)
LEMMA FrameStays == ASSUME IInv, Steady, NEW f \in Frame, FrameOK(f) PROVE FrameOK(f)'
<1> SUFFICES ASSUME Written(f.rel)', ~f.unresolved, NEW j \in DOMAIN refs[f.rel] \ dropped'[f.rel], j < f.i
             PROVE  Settled(refs[f.rel][j])'
  BY DEF FrameOK, Steady, inputVars
<1>1. f.rel \in Rels
  BY DEF Frame
<1>2. Written(f.rel) /\ j \in DOMAIN refs[f.rel] \ dropped[f.rel]
  BY <1>1 DEF Steady
<1>3. Settled(refs[f.rel][j])
  BY <1>2 DEF FrameOK
<1> QED BY <1>3 DEF Steady, inputVars, Settled

(* And so does what is done, unless it is given a reference.               *)
LEMMA DoneStays ==
  ASSUME IInv, Steady, NEW r \in processed, ref'[r] = "known" => ref[r] = "known"
  PROVE  MembersDone(r)'
<1>1. r \in Rels /\ MembersDone(r)
  BY DEF IInv, TypeOK, ProcessedOK
<1>2. ASSUME kind[r] \notin NotLive, Written(r), NEW j \in DOMAIN refs[r] \ dropped'[r]
      PROVE  refs[r][j] = Way \/ refs[r][j] \in processed'
  BY <1>1, <1>2 DEF MembersDone, Steady
<1>3. ASSUME ref'[r] = "known", Written(r), NEW j \in DOMAIN refs[r] \ dropped'[r]
      PROVE  Settled(refs[r][j])'
  <2>1. Settled(refs[r][j])
    BY <1>1, <1>3 DEF MembersDone, Steady
  <2> QED BY <2>1 DEF Steady, inputVars, Settled
<1>4. UNCHANGED <<refs, kind>> /\ Written(r)' = Written(r)
  BY <1>1 DEF Steady, inputVars
<1> QED BY <1>2, <1>3, <1>4 DEF MembersDone

(* The next member of a call.                                              *)
LEMMA ProceedIsFrame ==
  ASSUME NEW f \in Frame, NEW u \in BOOLEAN
  PROVE  /\ Proceed(f, u) \in Frame /\ Proceed(f, u).rel = f.rel /\ Proceed(f, u).i = f.i + 1
         /\ Proceed(f, u).unresolved <=> (f.unresolved \/ u)
<1>1. Proceed(f, u) = [f EXCEPT !.i = f.i + 1, !.unresolved = f.unresolved \/ u]
  BY DEF Proceed
<1>2. (f.unresolved \/ u) \in BOOLEAN
  OBVIOUS
<1> DEFINE b == f.unresolved \/ u
<1>3. Proceed(f, u) = [f EXCEPT !.i = f.i + 1, !.unresolved = b] /\ b \in BOOLEAN
  BY <1>1, <1>2, Zenon
<1> HIDE DEF b
<1>4. /\ Proceed(f, u) \in Frame /\ Proceed(f, u).rel = f.rel /\ Proceed(f, u).i = f.i + 1
      /\ Proceed(f, u).unresolved = b
  <2>1. f.i \in Nat /\ f.i + 1 \in Nat \ {0}
    BY DEF Frame
  <2>2. ASSUME NEW x \in Nat \ {0} PROVE [f EXCEPT !.i = x, !.unresolved = b] \in Frame
    BY <1>3 DEF Frame
  <2>3. DOMAIN f = {"rel", "i", "unresolved", "omitted"}
    BY DEF Frame
  <2>4. /\ Proceed(f, u).rel = f.rel /\ Proceed(f, u).i = f.i + 1
        /\ Proceed(f, u).unresolved = b
    BY <1>3, <2>3
  <2> QED BY <1>3, <2>1, <2>2, <2>4
<1> QED BY <1>4, Zenon DEF b

-----------------------------------------------------------------------------
(* Initial states *)

(* Before the ways nothing is attempted, and no call is under way.         *)
LEMMA InitIInv == Init => IInv
<1> SUFFICES ASSUME Init PROVE IInv
  OBVIOUS
<1> USE DEF Init
<1>1. TypeOK
  <2>1. frames \in Seq(Frame)
    BY EmptySeq
  <2>3. waysDone \in BOOLEAN
    OBVIOUS
  <2>2. ref \in [Rels -> {"known", "unknown", "missing"}] /\ dropped \in [Rels -> SUBSET Int]
    OBVIOUS
  <2> QED BY <2>1, <2>2, <2>3 DEF TypeOK
<1>2. Quiet /\ OnStack /\ Dropped /\ FramesOK /\ ProcessedOK
  BY DEF Quiet, OnStack, Dropped, FramesOK, ProcessedOK
<1>3. Library
  BY DEF Library, IsConsistent, InLibrary, NotLive
<1> QED BY <1>1, <1>2, <1>3 DEF IInv

-----------------------------------------------------------------------------
(* Calls *)

(* A relation that is deleted was not settled before.                      *)
LEMMA DeleteSteady ==
  ASSUME IInv, NEW r \in Rels \ processed, Delete(r), UNCHANGED <<inputVars, geom, dropped>>
  PROVE  /\ Steady /\ processed' \subseteq Rels /\ ref'[r] = "missing" /\ r \in processed'
         /\ ref' \in [Rels -> {"known", "unknown", "missing"}]
         /\ \A q \in Rels \ {r} : ref'[q] = ref[q] /\ (q \in processed' => q \in processed)
<1> USE DEF IInv, TypeOK, Delete
<1>1. UNCHANGED inputVars /\ processed \subseteq processed'
  OBVIOUS
<1>2. \A m : Settled(m) => Settled(m)'
  BY DEF Settled
<1>3. \A q \in Rels : Written(q)' = Written(q) /\ dropped[q] \subseteq dropped'[q]
  BY DEF Written, IsSuper, Members, inputVars
<1> QED BY <1>1, <1>2, <1>3 DEF Steady

(* What is deleted keeps the parts of the invariant that are not about     *)
(* calls, if the members of a live relation were visited.                  *)
LEMMA DeleteKeeps ==
  ASSUME IInv, NEW r \in Rels \ processed, Delete(r), UNCHANGED <<inputVars, geom, dropped>>,
         waysDone, kind[r] \in NotLive \/ \A j \in DOMAIN refs[r] \ dropped[r] : Settled(refs[r][j]) \/ ~Written(r)
  PROVE  Quiet' /\ Library' /\ Dropped' /\ ProcessedOK'
<1> USE DeleteSteady
<1>1. Quiet'
  BY DEF Quiet, inputVars
<1>2. Library'
  <2>1. UNCHANGED <<refs, kind>> /\ processed \subseteq processed' /\ Library
    BY DEF IInv, Steady, inputVars
  <2>2. ASSUME NEW q \in Rels PROVE kind[q] \in InLibrary /\ q \notin processed' => ref'[q] = "known"
    BY <2>1 DEF Library
  <2>3. ASSUME NEW q \in Rels PROVE kind[q] = "absent" => ref'[q] # "known"
    BY <2>1 DEF Library
  <2>4. ASSUME NEW q \in Rels PROVE kind[q] \in NotLive => Members(q)' = {Way}
    BY <2>1 DEF Library, Members
  <2> QED BY <2>1, <2>2, <2>3, <2>4 DEF Library
<1>3. Dropped'
  BY DEF IInv, Dropped, inputVars, Steady
<1>4. ASSUME NEW q \in processed' PROVE MembersDone(q)'
  <2>1. CASE q # r
    BY <2>1, DoneStays, <1>4 DEF IInv, TypeOK
  <2>2. CASE q = r
    <3>1. Written(r)' = Written(r) /\ UNCHANGED <<refs, kind, dropped>> /\ ref'[r] # "known"
      BY DEF Steady, inputVars
    <3>2. ASSUME kind[r] \notin NotLive, Written(r), NEW j \in DOMAIN refs[r] \ dropped[r]
          PROVE  refs[r][j] = Way \/ refs[r][j] \in processed'
      BY <3>2 DEF Settled, Steady
    <3> QED BY <2>2, <3>1, <3>2 DEF MembersDone
  <2> QED BY <2>1, <2>2
<1> QED BY <1>1, <1>2, <1>3, <1>4 DEF ProcessedOK

(* The calls that have not returned stay as they are.                      *)
LEMMA FramesStay ==
  ASSUME IInv, Steady, UNCHANGED frames
  PROVE  frames' \in Seq(Frame) /\ FramesOK'
<1>1. \A n \in DOMAIN frames : FrameOK(frames[n]) /\ frames[n] \in Frame
  BY DEF IInv, TypeOK, FramesOK
<1>2. ASSUME NEW n \in DOMAIN frames PROVE FrameOK(frames[n])'
  <2> DEFINE f == frames[n]
  <2>1. f' = f
    OBVIOUS
  <2>2. f \in Frame /\ FrameOK(f)
    BY <1>1
  <2> HIDE DEF f
  <2>3. ASSUME NEW g \in Frame, g = f PROVE FrameOK(g)'
    BY <2>2, <2>3, FrameStays
  <2> QED BY <2>1, <2>2, <2>3 DEF f
<1> QED BY <1>2 DEF IInv, TypeOK, FramesOK

(* The call on top goes on.                                                *)
LEMMA TopReplaced ==
  ASSUME IInv, Steady, frames # << >>, NEW f \in Frame, f.rel = Top.rel, SetTop(f), FrameOK(f)'
  PROVE  /\ frames' \in Seq(Frame) /\ FramesOK' /\ Len(frames') = Len(frames)
         /\ \A n \in DOMAIN frames' : frames'[n].rel = frames[n].rel
<1>1. frames \in Seq(Frame) /\ Len(frames) \in DOMAIN frames /\ DOMAIN frames = 1..Len(frames)
  BY DEF IInv, TypeOK
<1>2. frames' = [frames EXCEPT ![Len(frames)] = f]
  BY DEF SetTop
<1>3. frames' \in Seq(Frame) /\ Len(frames') = Len(frames) /\ DOMAIN frames' = DOMAIN frames
  BY <1>1, <1>2
<1>4. \A n \in DOMAIN frames : frames'[n] = IF n = Len(frames) THEN f ELSE frames[n]
  BY <1>1, <1>2
<1>5. ASSUME NEW n \in DOMAIN frames, NEW g \in Frame, g = frames'[n] PROVE FrameOK(g)'
  <2>1. CASE n = Len(frames)
    BY <1>4, <1>5, <2>1 DEF FrameOK
  <2>2. CASE n # Len(frames)
    BY <1>4, <1>5, <2>2, FrameStays DEF IInv, FramesOK
  <2> QED BY <2>1, <2>2
<1>6. FramesOK'
  BY <1>3, <1>5 DEF FramesOK
<1> QED BY <1>1, <1>3, <1>4, <1>6 DEF Top

(* Calls that go on, or return, are still of relations that are not        *)
(* processed.                                                              *)
LEMMA StackStays ==
  ASSUME IInv, UNCHANGED kind, frames' \in Seq(Frame), Len(frames') \leq Len(frames),
         \A n \in DOMAIN frames' : frames'[n].rel = frames[n].rel /\ frames[n].rel \in attempted' \ processed'
  PROVE  OnStack'
<1>1. frames \in Seq(Frame) /\ DOMAIN frames' \subseteq DOMAIN frames
  BY DEF IInv, TypeOK
<1> QED BY <1>1 DEF IInv, OnStack

(* A call begins with nothing passed, so it owes nothing yet.              *)
LEMMA CallKeeps ==
  ASSUME IInv, waysDone, NEW r \in Rels \ processed, \A n \in DOMAIN frames : frames[n].rel # r,
         Call(r), UNCHANGED <<inputVars, geom, dropped>>
  PROVE  IInv'
<1>0. /\ TypeOK /\ frames \in Seq(Frame) /\ OnStack /\ Library /\ Dropped /\ ProcessedOK
      /\ UNCHANGED <<waysDone, refs, kind, geom, dropped>>
  BY DEF IInv, TypeOK, inputVars
<1>1. CASE CallDeleted(r)
  <2>1. Delete(r) /\ UNCHANGED <<attempted, frames>> /\ kind[r] \in NotLive
    BY <1>1 DEF CallDeleted, NotLive
  <2>2. Quiet' /\ Library' /\ Dropped' /\ ProcessedOK'
    BY <2>1, DeleteKeeps
  <2>3. FramesOK'
    BY <2>1, DeleteSteady, FramesStay
  <2>4. TypeOK'
    BY <1>0, <2>1, DeleteSteady DEF TypeOK
  <2>5. OnStack'
    BY <1>0, <2>1 DEF OnStack, Delete
  <2> QED BY <2>2, <2>3, <2>4, <2>5 DEF IInv
<1>2. CASE CallAbsent(r)
  <2>1. Delete(r) /\ UNCHANGED attempted
    BY <1>2 DEF CallAbsent
  <2>2. kind[r] \in NotLive
    BY <1>0, <1>2 DEF CallAbsent, IsAbsent, Library, TypeOK, NotLive, Kinds, Pushed, InLibrary, Explicit
  <2>3. Quiet' /\ Library' /\ Dropped' /\ ProcessedOK' /\ Steady
    BY <2>1, <2>2, DeleteKeeps, DeleteSteady
  <2>4. /\ frames' \in Seq(Frame) /\ FramesOK' /\ Len(frames') = Len(frames)
        /\ \A n \in DOMAIN frames' : frames'[n].rel = frames[n].rel
    <3>1. CASE frames = << >>
      BY <1>0, <1>2, <2>3, <3>1, FramesStay DEF CallAbsent
    <3>2. CASE frames # << >>
      <4>1. Top \in Frame
        BY <1>0, <3>2 DEF Top
      <4>2. PICK f \in Frame : f = Proceed(Top, TRUE) /\ f.rel = Top.rel /\ f.unresolved
        BY <4>1, ProceedIsFrame
      <4>3. SetTop(f)
        BY <1>2, <3>2, <4>2 DEF CallAbsent, SetTop
      <4>4. FrameOK(f)'
        BY <4>2 DEF FrameOK
      <4> QED BY <3>2, <4>2, <4>3, <4>4, <2>3, TopReplaced
    <3> QED BY <3>1, <3>2
  <2>5. TypeOK'
    BY <1>0, <2>1, <2>4, DeleteSteady DEF TypeOK
  <2>6. \A n \in DOMAIN frames' : frames'[n].rel \in attempted' \ processed'
    <3>1. DOMAIN frames' = DOMAIN frames
      BY <1>0, <2>4
    <3> QED BY <1>0, <2>1, <2>4, <3>1 DEF OnStack, Delete
  <2>7. OnStack'
    BY <1>0, <2>4, <2>6, StackStays
  <2> QED BY <2>3, <2>4, <2>5, <2>7 DEF IInv
<1>3. CASE CallLive(r)
  <2>1. frames' = Append(frames, NewFrame(r)) /\ attempted' = attempted \union {r}
        /\ UNCHANGED <<processed, ref>>
    BY <1>3 DEF CallLive
  <2>2. kind[r] \notin NotLive
    BY <1>0, <1>3 DEF CallLive, IsAbsent, Library, NotLive, Explicit
  <2>3. Steady
    BY <1>0, <2>1 DEF Steady, inputVars, Settled, Written, IsSuper, Members
  <2>4. PICK f \in Frame : f = NewFrame(r) /\ f.rel = r /\ (Written(r) => f.i = 1)
    <3>1. Size(r) + 1 \in Nat \ {0}
      BY <1>0, Tabled
    <3>2. (IF VisitsMembers(r) THEN 1 ELSE Size(r) + 1) \in Nat \ {0}
      BY <3>1
    <3>3. NewFrame(r) \in Frame
      BY <3>2 DEF NewFrame, Frame
    <3>4. NewFrame(r).rel = r /\ (Written(r) => NewFrame(r).i = 1)
      BY DEF NewFrame, VisitsMembers, Written
    <3> QED BY <3>3, <3>4
  <2>5. /\ frames' \in Seq(Frame) /\ Len(frames') = Len(frames) + 1 /\ Len(frames) \in Nat
        /\ DOMAIN frames = 1..Len(frames) /\ DOMAIN frames' = 1..Len(frames) + 1
        /\ frames'[Len(frames) + 1] = f /\ \A n \in DOMAIN frames : frames'[n] = frames[n]
    BY <1>0, <2>1, <2>4
  <2>6. FrameOK(f)'
    <3>1. ASSUME NEW j \in DOMAIN refs[r] PROVE ~(j < 1)
      BY <1>0, Tabled
    <3> QED BY <1>0, <2>3, <2>4, <3>1 DEF FrameOK, Steady
  <2>7. ASSUME NEW n \in DOMAIN frames', NEW g \in Frame, g = frames'[n] PROVE FrameOK(g)'
    <3>1. CASE n = Len(frames) + 1
      BY <2>5, <2>6, <2>7, <3>1
    <3>2. CASE n \in DOMAIN frames
      BY <2>3, <2>5, <2>7, <3>2, FrameStays DEF IInv, FramesOK
    <3> QED BY <2>5, <3>1, <3>2
  <2>8. FramesOK'
    BY <2>5, <2>7 DEF FramesOK
  <2>9. OnStack'
    BY <1>0, <2>1, <2>2, <2>4, <2>5 DEF OnStack
  <2>10. TypeOK' /\ Quiet' /\ Library' /\ Dropped'
    BY <1>0, <2>1, <2>5 DEF TypeOK, Quiet, Library, Dropped, Members
  <2>11. ProcessedOK'
    BY <1>0, <2>1, <2>3, DoneStays DEF ProcessedOK
  <2> QED BY <2>8, <2>9, <2>10, <2>11 DEF IInv
<1> QED BY <1>1, <1>2, <1>3 DEF Call

-----------------------------------------------------------------------------
(* Steps *)

(* The relation on top calls for a member that is not processed yet.       *)
LEMMA VisitChildKeeps == ASSUME IInv, VisitChild PROVE IInv'
<1>1. frames # << >> /\ waysDone
  BY DEF VisitChild, Visiting, IInv, Quiet, TypeOK
<1>2. Member \in Rels \ processed /\ \A n \in DOMAIN frames : frames[n].rel # Member
  BY DEF VisitChild, IInv, OnStack
<1>3. PICK r \in Rels \ processed : r = Member
  BY <1>2
<1> QED BY <1>1, <1>2, <1>3, CallKeeps DEF VisitChild, inputVars

(* The call on top, and the member it visits.                              *)
LEMMA TopIsFrame ==
  ASSUME IInv, frames # << >>
  PROVE  /\ Top \in Frame /\ Top.rel \in Rels /\ Top.i \in Nat \ {0} /\ Top.rel \in attempted \ processed
         /\ kind[Top.rel] \notin NotLive /\ FrameOK(Top) /\ waysDone
         /\ Len(frames) \in DOMAIN frames /\ DOMAIN frames = 1..Len(frames)
<1>1. Len(frames) \in DOMAIN frames /\ frames \in Seq(Frame) /\ DOMAIN frames = 1..Len(frames)
  BY DEF IInv, TypeOK
<1>2. Top \in Frame /\ waysDone
  BY <1>1 DEF Top, IInv, Quiet, TypeOK
<1>3. Top.rel \in Rels /\ Top.i \in Nat \ {0}
  BY <1>2 DEF Frame
<1>4. Top.rel \in attempted \ processed /\ kind[Top.rel] \notin NotLive /\ FrameOK(Top)
  BY <1>1 DEF Top, IInv, OnStack, FramesOK
<1> QED BY <1>1, <1>2, <1>3, <1>4

(* A member is passed when it is settled, or left open.                    *)
LEMMA VisitMemberKeeps == ASSUME IInv, VisitMember PROVE IInv'
<1>1. /\ frames # << >> /\ Visiting
      /\ UNCHANGED <<waysDone, refs, kind, geom, processed, deferred, attempted, list>>
  BY DEF VisitMember, Visiting, inputVars
<1>2. TypeOK /\ OnStack /\ Library /\ Dropped /\ ProcessedOK /\ FramesOK
  BY DEF IInv
<1>3. PICK top \in Frame : top = Top
  BY <1>1, TopIsFrame
<1> DEFINE r == top.rel
           j == top.i
<1>4. r \in Rels /\ j \in DOMAIN refs[r] /\ Member = refs[r][j] /\ r \notin processed /\ j \in Nat
  BY <1>1, <1>2, <1>3, TopIsFrame, Tabled DEF Member, Visiting
<1> HIDE DEF r, j
<1>5. Omit \/ (UNCHANGED <<ref, dropped>> /\ SetTop(Proceed(Top, TRUE)))
      \/ (UNCHANGED <<ref, dropped>> /\ SetTop(Proceed(Top, ~Resolved(Member))))
  BY DEF VisitMember
<1>6. \A q \in Rels : ref'[q] = ref[q] \/ (q = Member /\ ref[q] # "known" /\ ref'[q] = "missing")
  <2>1. CASE Missing(Member) /\ Omit
    BY <1>2, <2>1 DEF Omit, Missing, TypeOK
  <2>2. CASE UNCHANGED ref
    BY <2>2
  <2> QED BY <2>1, <2>2 DEF VisitMember
<1>7. ref' \in [Rels -> {"known", "unknown", "missing"}]
  BY <1>2, <1>5 DEF Omit, TypeOK
<1>8. /\ dropped' \in [Rels -> SUBSET Int] /\ \A q \in Rels : dropped[q] \subseteq dropped'[q]
      /\ \A q \in Rels : \A k \in dropped'[q] : k \in dropped[q] \/ (q = r /\ k = j)
  <2>1. CASE UNCHANGED dropped
    BY <1>2, <2>1 DEF TypeOK
  <2>2. CASE Omit
    <3>1. dropped' = [dropped EXCEPT ![r] = @ \union {j}]
      BY <1>3, <2>2 DEF Omit, r, j
    <3>2. dropped \in [Rels -> SUBSET Int] /\ j \in Int
      BY <1>2, <1>4 DEF TypeOK
    <3> QED BY <1>4, <3>1, <3>2
  <2> QED BY <1>5, <2>1, <2>2
<1>9. Steady
  <2>1. \A m : Settled(m) => Settled(m)'
    BY <1>1, <1>2, <1>6 DEF Settled, TypeOK
  <2> QED BY <1>1, <1>8, <2>1 DEF Steady, inputVars, Written, IsSuper, Members
<1>10. PICK f \in Frame : /\ SetTop(f) /\ f.rel = r /\ f.i = j + 1
                          /\ f.unresolved \/ j \in dropped'[r] \/ (Settled(Member) /\ ~f.unresolved)
                          /\ ~f.unresolved => ~top.unresolved
  <2>1. CASE Omit
    <3>1. PICK g \in Frame : g = Proceed(Top, FALSE) /\ g.rel = r /\ g.i = j + 1 /\ (g.unresolved <=> top.unresolved)
      BY <1>3, ProceedIsFrame DEF r, j
    <3>2. g.omitted + 1 \in Nat
      BY DEF Frame
    <3>3. PICK f \in Frame : f = [g EXCEPT !.omitted = @ + 1]
      BY <3>2 DEF Frame
    <3>4. f.rel = g.rel /\ f.i = g.i /\ f.unresolved = g.unresolved
      BY <3>3 DEF Frame
    <3>5. SetTop(f)
      BY <2>1, <3>1, <3>3 DEF Omit
    <3>6. j \in dropped'[r]
      BY <1>2, <1>3, <1>4, <2>1 DEF Omit, TypeOK, r, j
    <3> QED BY <3>1, <3>4, <3>5, <3>6
  <2>2. CASE SetTop(Proceed(Top, TRUE))
    <3>1. PICK f \in Frame : f = Proceed(Top, TRUE) /\ f.rel = r /\ f.i = j + 1 /\ f.unresolved
      BY <1>3, ProceedIsFrame DEF r, j
    <3> QED BY <2>2, <3>1
  <2>3. CASE SetTop(Proceed(Top, ~Resolved(Member)))
    <3>1. PICK u \in BOOLEAN : u = ~Resolved(Member)
      OBVIOUS
    <3>2. PICK f \in Frame : f = Proceed(top, u) /\ f.rel = r /\ f.i = j + 1 /\ (f.unresolved <=> top.unresolved \/ u)
      BY <1>3, ProceedIsFrame DEF r, j
    <3>3. ~u => Settled(Member)
      BY <3>1 DEF Resolved, Settled
    <3>4. SetTop(f)
      BY <1>3, <2>3, <3>1, <3>2
    <3> QED BY <3>2, <3>3, <3>4
  <2> QED BY <1>5, <2>1, <2>2, <2>3
<1>11. FrameOK(f)'
  <2> SUFFICES ASSUME Written(r), ~f.unresolved, NEW k \in DOMAIN refs[r] \ dropped'[r], k < j + 1
               PROVE  Settled(refs[r][k])'
    BY <1>1, <1>4, <1>9, <1>10 DEF FrameOK, Steady
  <2>1. k \in Nat /\ k \notin dropped[r]
    BY <1>2, <1>4, <1>8, Tabled
  <2>2. CASE k = j
    BY <1>4, <1>9, <1>10, <2>2 DEF Steady, Settled, inputVars
  <2>3. CASE k < j
    <3>1. FrameOK(top) /\ ~top.unresolved
      BY <1>1, <1>3, <1>10, TopIsFrame
    <3>2. Settled(refs[r][k])
      BY <2>1, <2>3, <3>1 DEF FrameOK, r, j
    <3> QED BY <1>9, <3>2 DEF Steady, Settled, inputVars
  <2> QED BY <1>4, <2>1, <2>2, <2>3
<1>12. /\ frames' \in Seq(Frame) /\ FramesOK' /\ Len(frames') = Len(frames)
       /\ \A n \in DOMAIN frames' : frames'[n].rel = frames[n].rel
  BY <1>1, <1>3, <1>9, <1>10, <1>11, TopReplaced DEF r
<1>13. TypeOK'
  BY <1>1, <1>2, <1>7, <1>8, <1>12 DEF TypeOK
<1>14. OnStack'
  <2>1. DOMAIN frames' = DOMAIN frames
    BY <1>2, <1>12 DEF TypeOK
  <2>2. \A n \in DOMAIN frames' : frames[n].rel \in attempted' \ processed'
    BY <1>1, <1>2, <2>1 DEF OnStack
  <2> QED BY <1>1, <1>2, <1>12, <2>2, StackStays DEF TypeOK
<1>15. Quiet'
  BY <1>1, TopIsFrame DEF Quiet
<1>16. Library'
  <2>1. \A q \in Rels : ref[q] = "known" => ref'[q] = "known"
    BY <1>6
  <2>2. \A q \in Rels : ref'[q] = "known" => ref[q] = "known"
    BY <1>6
  <2> QED BY <1>1, <1>2, <2>1, <2>2 DEF Library, Members
<1>17. Dropped'
  <2> SUFFICES ASSUME NEW q \in Rels, NEW k \in dropped'[q] \intersect DOMAIN refs[q], refs[q][k] \in Rels
               PROVE  kind[refs[q][k]] \notin InLibrary \/ refs[q][k] \in processed
    BY <1>1 DEF Dropped
  <2>1. CASE k \in dropped[q]
    BY <1>2, <2>1 DEF Dropped
  <2>2. CASE k \notin dropped[q]
    <3>1. refs[q][k] = Member
      BY <1>4, <1>8, <2>2
    <3>2. Omit /\ Missing(Member)
      BY <2>2 DEF VisitMember
    <3> QED BY <1>2, <3>1, <3>2 DEF Missing, Library
  <2> QED BY <2>1, <2>2
<1>18. ProcessedOK'
  BY <1>1, <1>2, <1>6, <1>9, DoneStays DEF ProcessedOK, TypeOK
<1> QED BY <1>12, <1>13, <1>14, <1>15, <1>16, <1>17, <1>18 DEF IInv

(* When the call on top returns, those below stay, but the caller may have *)
(* an unresolved member.                                                   *)
LEMMA ReturnedFrames ==
  ASSUME IInv, Steady, frames # << >>, NEW result \in {0, 1}, frames' = Returned(result)
  PROVE  /\ frames' \in Seq(Frame) /\ FramesOK' /\ Len(frames') = Len(frames) - 1
         /\ \A n \in DOMAIN frames' : frames'[n].rel = frames[n].rel
<1> DEFINE callers == Front(frames)
           last == Len(callers)
<1>1. /\ frames \in Seq(Frame) /\ Len(frames) \in Nat \ {0} /\ DOMAIN frames = 1..Len(frames)
      /\ \A n \in DOMAIN frames : FrameOK(frames[n])
  BY DEF IInv, TypeOK, FramesOK
<1>2. /\ callers \in Seq(Frame) /\ last = Len(frames) - 1 /\ DOMAIN callers = 1..last
      /\ \A n \in DOMAIN callers : callers[n] = frames[n]
  BY <1>1 DEF Front
<1> HIDE DEF callers, last
<1>3. ASSUME NEW n \in DOMAIN callers, NEW g \in Frame, g = callers[n] PROVE FrameOK(g)'
  BY <1>1, <1>2, <1>3, FrameStays
<1>4. CASE frames' = callers
  <2>1. ASSUME NEW n \in DOMAIN frames', NEW g \in Frame, g = frames'[n] PROVE FrameOK(g)'
    BY <1>3, <1>4, <2>1
  <2>2. FramesOK'
    BY <1>2, <1>4, <2>1 DEF FramesOK
  <2>3. \A n \in DOMAIN frames' : frames'[n].rel = frames[n].rel
    BY <1>2, <1>4
  <2> QED BY <1>2, <1>4, <2>2, <2>3
<1>5. CASE callers # << >> /\ frames' = [callers EXCEPT ![last] = Proceed(@, TRUE)]
  <2>1. last \in DOMAIN callers /\ callers[last] \in Frame
    BY <1>1, <1>2, <1>5
  <2>2. PICK f \in Frame : f = Proceed(callers[last], TRUE) /\ f.rel = callers[last].rel /\ f.unresolved
    BY <2>1, ProceedIsFrame
  <2>3. /\ frames' \in Seq(Frame) /\ Len(frames') = last /\ DOMAIN frames' = DOMAIN callers
        /\ \A n \in DOMAIN callers : frames'[n] = IF n = last THEN f ELSE callers[n]
    <3>1. frames' = [callers EXCEPT ![last] = f]
      BY <1>5, <2>2
    <3> QED BY <1>2, <2>1, <3>1
  <2>4. ASSUME NEW n \in DOMAIN frames', NEW g \in Frame, g = frames'[n] PROVE FrameOK(g)'
    <3>1. CASE n = last
      BY <2>2, <2>3, <2>4, <3>1 DEF FrameOK
    <3>2. CASE n # last
      BY <1>3, <2>3, <2>4, <3>2
    <3> QED BY <3>1, <3>2
  <2>5. FramesOK'
    BY <2>3, <2>4 DEF FramesOK
  <2>6. \A n \in DOMAIN frames' : frames'[n].rel = frames[n].rel
    BY <1>1, <1>2, <2>2, <2>3
  <2> QED BY <1>2, <2>3, <2>5, <2>6
<1> QED BY <1>4, <1>5 DEF Returned, callers, last

(* What is below the call on top is a stack as well.                       *)
LEMMA PoppedStack ==
  ASSUME IInv, UNCHANGED kind, frames # << >>, frames' \in Seq(Frame), Len(frames') = Len(frames) - 1,
         \A n \in DOMAIN frames' : frames'[n].rel = frames[n].rel,
         attempted' = attempted \ {Top.rel}, processed' \subseteq processed \union {Top.rel}
  PROVE  OnStack'
<1>1. /\ frames \in Seq(Frame) /\ Len(frames) \in Nat /\ DOMAIN frames = 1..Len(frames)
      /\ DOMAIN frames' = 1..Len(frames) - 1 /\ Len(frames) \in DOMAIN frames
  BY DEF IInv, TypeOK
<1>2. \A n \in DOMAIN frames' : n \in DOMAIN frames /\ n # Len(frames)
  BY <1>1
<1>3. \A n \in DOMAIN frames' : frames[n].rel \in attempted' \ processed'
  BY <1>1, <1>2 DEF IInv, OnStack, Top
<1>4. Len(frames') \leq Len(frames)
  BY <1>1
<1> QED BY <1>3, <1>4, StackStays

(* A relation that is deferred leaves the stack without being processed.   *)
LEMMA DeferKeeps == ASSUME IInv, Defer PROVE IInv'
<1>1. frames # << >> /\ UNCHANGED <<inputVars, geom, processed, ref, dropped>> /\ frames' = Returned(0)
  BY DEF Defer, AtEnd
<1>2. Steady
  BY <1>1 DEF Steady, inputVars, Settled, Written, IsSuper, Members
<1>3. /\ frames' \in Seq(Frame) /\ FramesOK' /\ Len(frames') = Len(frames) - 1
      /\ \A n \in DOMAIN frames' : frames'[n].rel = frames[n].rel
  BY <1>1, <1>2, ReturnedFrames
<1>4. OnStack'
  BY <1>1, <1>3, PoppedStack DEF Defer, inputVars
<1>5. TypeOK' /\ Library' /\ Dropped'
  BY <1>1, <1>3 DEF IInv, TypeOK, Library, Dropped, Members, inputVars
<1>6. Quiet'
  BY <1>1, TopIsFrame DEF Quiet, inputVars
<1>7. ProcessedOK'
  BY <1>1, <1>2, DoneStays DEF ProcessedOK
<1> QED BY <1>3, <1>4, <1>5, <1>6, <1>7 DEF IInv

(* At the end of a call without an unresolved member, all are settled.     *)
LEMMA AllSettled ==
  ASSUME IInv, AtEnd, ~Top.unresolved
  PROVE  Written(Top.rel) => \A j \in DOMAIN refs[Top.rel] \ dropped[Top.rel] : Settled(refs[Top.rel][j])
<1>1. FrameOK(Top) /\ Top.rel \in Rels /\ Top.i \in Nat
  BY TopIsFrame DEF AtEnd
<1>2. \A j \in DOMAIN refs[Top.rel] : j < Top.i
  BY <1>1, Tabled DEF AtEnd, IInv
<1> QED BY <1>1, <1>2 DEF FrameOK

(* A relation that lost all its members is dropped.                        *)
LEMMA EmptyKeeps == ASSUME IInv, Empty PROVE IInv'
<1>1. frames # << >> /\ UNCHANGED <<inputVars, geom, dropped>> /\ frames' = Returned(1) /\ AtEnd /\ ~Top.unresolved
  BY DEF Empty, AtEnd
<1>2. PICK r \in Rels \ processed : r = Top.rel
  BY <1>1, TopIsFrame
<1>3. Delete(r) /\ waysDone
  BY <1>1, <1>2, TopIsFrame DEF Empty
<1>4. Quiet' /\ Library' /\ Dropped' /\ ProcessedOK'
  BY <1>1, <1>2, <1>3, AllSettled, DeleteKeeps
<1>5. /\ Steady /\ processed' \subseteq Rels /\ ref' \in [Rels -> {"known", "unknown", "missing"}]
  BY <1>1, <1>3, DeleteSteady
<1>6. /\ frames' \in Seq(Frame) /\ FramesOK' /\ Len(frames') = Len(frames) - 1
      /\ \A n \in DOMAIN frames' : frames'[n].rel = frames[n].rel
  BY <1>1, <1>5, ReturnedFrames
<1>7. OnStack'
  BY <1>1, <1>2, <1>3, <1>6, PoppedStack DEF Empty, Delete, inputVars
<1>8. TypeOK'
  BY <1>1, <1>5, <1>6 DEF IInv, TypeOK, inputVars
<1> QED BY <1>4, <1>6, <1>7, <1>8 DEF IInv

(* A change of bounds marks relations that have a relation as a member.    *)
LEMMA FinishSteady ==
  ASSUME IInv, Finish
  PROVE  /\ Steady /\ geom' \subseteq Rels
         /\ processed' = processed \union {Top.rel} /\ ref' = [ref EXCEPT ![Top.rel] = "known"]
<1>1. /\ processed' = processed \union {Top.rel} /\ ref' = [ref EXCEPT ![Top.rel] = "known"]
      /\ UNCHANGED <<inputVars, dropped>>
  BY DEF Finish
<1>2. Top.rel \in Rels /\ TypeOK
  BY TopIsFrame DEF Finish, AtEnd, IInv
<1>3. PICK affected \in SUBSET (Parents(Top.rel) \ geom) : geom' = geom \union affected
  BY DEF Finish, Cascade
<1>4. \A p \in affected : p \in Rels /\ IsSuper(p)
  BY <1>2 DEF Parents, IsSuper
<1>5. \A r \in Rels : IsSuper(r)' = IsSuper(r)
  BY <1>1 DEF IsSuper, Members, inputVars
<1>6. \A r \in Rels : Written(r)' = Written(r)
  BY <1>3, <1>4, <1>5 DEF Written
<1>7. \A m : Settled(m) => Settled(m)'
  BY <1>1, <1>2 DEF Settled, TypeOK
<1> QED BY <1>1, <1>2, <1>3, <1>4, <1>6, <1>7 DEF Steady, TypeOK

(* A relation is processed when its members are settled.                   *)
LEMMA FinishKeeps == ASSUME IInv, Finish PROVE IInv'
<1>1. /\ frames # << >> /\ UNCHANGED <<inputVars, dropped>> /\ frames' = Returned(1)
      /\ AtEnd /\ ~Top.unresolved /\ attempted' = attempted \ {Top.rel}
  BY DEF Finish, AtEnd
<1>2. /\ Top.rel \in Rels \ processed /\ kind[Top.rel] \notin NotLive /\ waysDone
      /\ TypeOK /\ Library /\ Dropped /\ ProcessedOK
  BY <1>1, TopIsFrame DEF IInv
<1>3. /\ Steady /\ geom' \subseteq Rels
      /\ processed' = processed \union {Top.rel} /\ ref' = [ref EXCEPT ![Top.rel] = "known"]
  BY FinishSteady
<1>4. /\ frames' \in Seq(Frame) /\ FramesOK' /\ Len(frames') = Len(frames) - 1
      /\ \A n \in DOMAIN frames' : frames'[n].rel = frames[n].rel
  BY <1>1, <1>3, ReturnedFrames
<1>5. OnStack'
  BY <1>1, <1>3, <1>4, PoppedStack DEF inputVars
<1>6. TypeOK' /\ Quiet'
  BY <1>1, <1>2, <1>3, <1>4 DEF TypeOK, Quiet, inputVars
<1>7. Library'
  <2>1. \A r \in Rels : ref'[r] = IF r = Top.rel THEN "known" ELSE ref[r]
    BY <1>2, <1>3 DEF TypeOK
  <2> QED BY <1>1, <1>2, <1>3, <2>1 DEF Library, Members, inputVars, NotLive
<1>8. Dropped'
  BY <1>1, <1>2, <1>3 DEF Dropped, inputVars
<1>9. ASSUME NEW r \in processed' PROVE MembersDone(r)'
  <2>1. CASE r # Top.rel
    BY <1>2, <1>3, <1>9, <2>1, DoneStays DEF TypeOK
  <2>2. CASE r = Top.rel
    <3>1. Written(r)' = Written(r) /\ UNCHANGED <<refs, dropped>>
      BY <1>1, <1>2, <1>3, <2>2 DEF Steady, inputVars
    <3>2. ASSUME Written(r), NEW j \in DOMAIN refs[r] \ dropped[r] PROVE Settled(refs[r][j])'
      BY <1>1, <1>3, <2>2, <3>2, AllSettled DEF Steady, Settled, inputVars
    <3> QED BY <3>1, <3>2 DEF MembersDone, Settled
  <2> QED BY <2>1, <2>2
<1> QED BY <1>4, <1>5, <1>6, <1>7, <1>8, <1>9 DEF IInv, ProcessedOK

(* Before the ways, nothing depends on which relations are marked.         *)
LEMMA ProcessWaysKeeps == ASSUME IInv, ProcessWays PROVE IInv'
<1>1. /\ UNCHANGED <<refs, kind, processed, attempted, ref, dropped, list, frames>>
      /\ processed = {} /\ frames = << >> /\ waysDone' = TRUE
  BY DEF IInv, Quiet, ProcessWays
<1>2. geom' \subseteq Rels
  BY DEF ProcessWays, Cascade, Parents, IInv, TypeOK
<1>3. TypeOK' /\ Quiet' /\ OnStack' /\ Library' /\ Dropped'
  BY <1>1, <1>2 DEF IInv, TypeOK, Quiet, OnStack, Library, Dropped, Members
<1>4. FramesOK' /\ ProcessedOK'
  BY <1>1 DEF FramesOK, ProcessedOK
<1> QED BY <1>3, <1>4 DEF IInv

(* Steps that touch nothing but the stack and the list.                    *)
LEMMA StackMoves ==
  ASSUME IInv, waysDone, UNCHANGED <<inputVars, geom, processed, attempted, ref, dropped, frames>>
  PROVE  IInv'
<1>1. Steady
  BY DEF Steady, inputVars, Settled, Written, IsSuper, Members
<1>2. TypeOK' /\ Quiet' /\ OnStack' /\ Library' /\ Dropped'
  BY DEF IInv, TypeOK, Quiet, OnStack, Library, Dropped, Members, inputVars
<1>3. FramesOK'
  BY <1>1, FramesStay
<1>4. ProcessedOK'
  BY <1>1, DoneStays DEF ProcessedOK
<1> QED BY <1>2, <1>3, <1>4 DEF IInv

(* The loop over the changed relations calls with an empty stack.          *)
LEMMA NextRelationKeeps == ASSUME IInv, NextRelation PROVE IInv'
<1>1. waysDone /\ frames = << >> /\ UNCHANGED <<inputVars, geom, dropped>>
  BY DEF NextRelation, IInv, Quiet, TypeOK
<1>2. CASE UNCHANGED <<processed, deferred, attempted, ref, frames>>
  BY <1>1, <1>2, StackMoves
<1>3. ASSUME NEW r \in Rels, r \notin processed, Call(r) PROVE IInv'
  BY <1>1, <1>3, CallKeeps
<1> QED BY <1>2, <1>3 DEF NextRelation

(* Every step keeps the invariant.                                         *)
LEMMA NextKeeps == ASSUME IInv, [Next]_vars PROVE IInv'
<1>1. CASE UNCHANGED vars
  <2>1. UNCHANGED <<inputVars, flagVars, ref, dropped, stack, list, frames>>
    BY <1>1 DEF vars
  <2>2. CASE waysDone
    BY <2>1, <2>2, StackMoves DEF flagVars
  <2>3. CASE ~waysDone
    <3>1. processed = {} /\ frames = << >> /\ processed' = {} /\ frames' = << >>
      BY <2>1, <2>3 DEF IInv, Quiet, flagVars
    <3>2. TypeOK' /\ Quiet' /\ OnStack' /\ Library' /\ Dropped'
      BY <2>1 DEF IInv, TypeOK, Quiet, OnStack, Library, Dropped, Members, inputVars, flagVars
    <3> QED BY <3>1, <3>2 DEF IInv, FramesOK, ProcessedOK
  <2> QED BY <2>2, <2>3
<1>2. CASE BeginRound
  BY <1>2, StackMoves DEF BeginRound, inputVars, flagVars
<1> QED BY <1>1, <1>2, ProcessWaysKeeps, NextRelationKeeps, VisitChildKeeps, VisitMemberKeeps,
           DeferKeeps, EmptyKeeps, FinishKeeps DEF Next

-----------------------------------------------------------------------------
(* The relations on the stack of calls are different ones and know what    *)
(* became of the members behind them.                                      *)
THEOREM IInvHolds == Spec => []IInv
<1>1. Init => IInv
  BY InitIInv
<1>2. IInv /\ [Next]_vars => IInv'
  BY NextKeeps
<1> QED BY <1>1, <1>2, PTL DEF Spec

(* "child relations are always processed before parents": of whatever      *)
(* graph, with cycles, deferred and missing members.                       *)
THEOREM ChildrenAlwaysFirst == Spec => []ChildrenFirst
<1>1. IInv => ChildrenFirst
  <2> SUFFICES ASSUME IInv, NEW r \in processed, ref[r] = "known", Written(r), NEW m \in Kept(r)
               PROVE  m = Way \/ (m \in processed /\ ref[m] = "known")
    BY DEF ChildrenFirst, Written
  <2>1. r \in Rels /\ MembersDone(r)
    BY DEF IInv, TypeOK, ProcessedOK
  <2>2. PICK j \in DOMAIN refs[r] \ dropped[r] : m = refs[r][j]
    BY <2>1, Tabled DEF Kept, IInv
  <2> QED BY <2>1, <2>2 DEF MembersDone, Settled
<1> QED BY <1>1, IInvHolds, PTL

(* No change of bounds comes too late: a relation that it marks has not    *)
(* been processed, as it would have waited for the member that changes.    *)
LEMMA FinishInTime == ASSUME IInv, Finish, NEW p \in geom' \ geom PROVE p \notin processed
<1> SUFFICES ASSUME p \in processed PROVE FALSE
  OBVIOUS
<1> DEFINE r == Top.rel
<1>1. r \in Rels /\ r \notin processed /\ kind[r] \notin NotLive /\ TypeOK /\ Library /\ Dropped /\ ProcessedOK
  BY TopIsFrame DEF Finish, AtEnd, IInv
<1>2. p \in Rels /\ r \in Members(p) /\ kind[r] # "new"
  BY DEF Finish, Cascade, Parents
<1> HIDE DEF r
<1>3. Way \notin Rels
  BY LeavesAssumption DEF Leaves
<1>4. kind[p] \notin NotLive /\ Written(p)
  BY <1>1, <1>2, <1>3 DEF Library, Written, IsSuper
<1>5. PICK j \in DOMAIN refs[p] : refs[p][j] = r
  BY <1>2 DEF Members, Range
<1>6. j \in dropped[p]
  BY <1>1, <1>3, <1>4, <1>5 DEF ProcessedOK, MembersDone
<1>7. kind[r] \in InLibrary
  BY <1>1, <1>2 DEF TypeOK, Kinds, Pushed, Explicit, InLibrary, NotLive
<1> QED BY <1>1, <1>2, <1>5, <1>6, <1>7 DEF Dropped

(* "at that point, the parent has already been processed (can't process it *)
(* twice)" never happens.                                                  *)
THEOREM NeverEverTooLate == Spec => NeverTooLate
<1>1. ASSUME IInv, [Next]_vars PROVE [(geom' \ geom) \intersect processed = {}]_vars
  <2>1. CASE ProcessWays
    BY <1>1, <2>1 DEF IInv, Quiet, ProcessWays
  <2>2. CASE Finish
    BY <1>1, <2>2, FinishInTime
  <2>3. CASE UNCHANGED geom
    BY <2>3
  <2> QED BY <1>1, <2>1, <2>2, <2>3
          DEF Next, BeginRound, NextRelation, VisitChild, VisitMember, Defer, Empty, flagVars, inputVars
<1> QED BY <1>1, IInvHolds, PTL DEF Spec, NeverTooLate
-----------------------------------------------------------------------------
(* Descendants: the recursion of Below() gets to all members of members,   *)
(* as there are only NRels relations.                                      *)

UnderSet(S) == UNION {SubRelations(s) : s \in S}
Under == [S \in SUBSET Rels |-> UnderSet(S)]
BelowIn(r) ==
  LET Reach[n \in 0..NRels] ==
        IF n = 0 THEN SubRelations(r)
                 ELSE Reach[n - 1] \union UNION {SubRelations(s) : s \in Reach[n - 1]}
  IN  Reach

LEMMA SubRelationsType == ASSUME NEW S PROVE UnderSet(S) \in SUBSET Rels
BY DEF UnderSet, SubRelations

LEMMA BelowGrows ==
  ASSUME NEW r
  PROVE  BelowIn(r) \in Growing(NRels, SubRelations(r), Under) /\ Below(r) = BelowIn(r)[NRels]
<1> DEFINE base == SubRelations(r)
           B == BelowIn(r)
<1>0. NRels \in Nat /\ Rels = 1..NRels
  BY RelsAssumption DEF Rels
<1>1. base \in SUBSET Rels /\ Under \in [SUBSET Rels -> SUBSET Rels]
  BY SubRelationsType DEF SubRelations, Under
<1>2. ASSUME NEW S \in SUBSET Rels PROVE Under[S] = UnderSet(S)
  BY DEF Under
<1>3. PICK g : g \in Growing(NRels, base, Under)
  <2> HIDE DEF base
  <2> QED BY <1>0, <1>1, GrowingExists
<1>4. g = [n \in 0..NRels |-> IF n = 0 THEN base ELSE g[n - 1] \union UnderSet(g[n - 1])]
  <2> HIDE DEF base
  <2>1. g \in [0..NRels -> SUBSET Rels] /\ g[0] = base
    BY <1>0, <1>3 DEF Growing
  <2>2. ASSUME NEW n \in 0..NRels
        PROVE  g[n] = IF n = 0 THEN base ELSE g[n - 1] \union UnderSet(g[n - 1])
    <3>1. CASE n = 0
      BY <2>1, <3>1
    <3>2. CASE n \in 1..NRels
      <4>1. n - 1 \in 0..NRels
        BY <1>0, <3>2
      <4>2. g[n] = g[n - 1] \union Under[g[n - 1]]
        BY <1>3, <3>2 DEF Growing
      <4> QED BY <1>2, <2>1, <3>2, <4>1, <4>2
    <3> QED BY <1>0, <3>1, <3>2
  <2> QED BY <2>1, <2>2
<1>5. B = [n \in 0..NRels |-> IF n = 0 THEN base ELSE B[n - 1] \union UnderSet(B[n - 1])]
  BY <1>4 DEF BelowIn, UnderSet
<1> HIDE DEF B
<1>6. B[0] = base /\ \A n \in 1..NRels : B[n] = B[n - 1] \union UnderSet(B[n - 1])
  <2> HIDE DEF base
  <2>1. 0 \in 0..NRels /\ \A n \in 1..NRels : n \in 0..NRels /\ n # 0
    BY <1>0
  <2> QED BY <1>5, <2>1
<1>7. 0..NRels \subseteq {n \in 0..NRels : B[n] \in SUBSET Rels}
  <2> DEFINE P == {n \in 0..NRels : B[n] \in SUBSET Rels}
  <2>1. 0 \in P
    BY <1>0, <1>1, <1>6
  <2>2. ASSUME NEW n \in 1..NRels, n - 1 \in P PROVE n \in P
    <3>1. n \in 0..NRels /\ B[n - 1] \subseteq Rels
      BY <1>0, <2>2
    <3>2. B[n] = B[n - 1] \union UnderSet(B[n - 1])
      BY <1>6
    <3> QED BY <3>1, <3>2, SubRelationsType
  <2> HIDE DEF P
  <2>3. 0..NRels \subseteq P
    BY <1>0, <2>1, <2>2, IntervalInduction
  <2> QED BY <2>3 DEF P
<1>8. ASSUME NEW n \in 1..NRels PROVE B[n] = B[n - 1] \union Under[B[n - 1]]
  <2>1. n - 1 \in 0..NRels
    BY <1>0
  <2> QED BY <1>2, <1>6, <1>7, <2>1
<1>9. B \in [0..NRels -> SUBSET (1..NRels)]
  <2> DEFINE f(n) == IF n = 0 THEN base ELSE B[n - 1] \union UnderSet(B[n - 1])
  <2>1. B = [n \in 0..NRels |-> f(n)]
    BY <1>5
  <2> HIDE DEF f
  <2> QED BY <1>0, <1>7, <2>1
<1>10. Below(r) = B[NRels]
  BY DEF Below, BelowIn, B
<1> HIDE DEF base
<1>11. B \in Growing(NRels, base, Under)
  BY <1>6, <1>8, <1>9 DEF Growing
<1> QED BY <1>10, <1>11 DEF base, B

(* The members are below a relation, ...                                   *)
LEMMA MembersBelow == ASSUME NEW r PROVE SubRelations(r) \subseteq Below(r) /\ Below(r) \in SUBSET Rels
<1>1. NRels \in Nat /\ Rels = 1..NRels
  BY RelsAssumption DEF Rels
<1>2. PICK g \in Growing(NRels, SubRelations(r), Under) : Below(r) = g[NRels]
  BY BelowGrows
<1>3. SubRelations(r) \subseteq g[NRels] /\ g[NRels] \in SUBSET Rels
  BY <1>1, GrowingBegins
<1> QED BY <1>2, <1>3

(* ... and so are their members, ...                                       *)
LEMMA BelowClosed == ASSUME NEW r, NEW b \in Below(r) PROVE SubRelations(b) \subseteq Below(r)
<1>1. NRels \in Nat /\ Rels = 1..NRels /\ Under \in [SUBSET (1..NRels) -> SUBSET (1..NRels)]
  BY RelsAssumption, SubRelationsType DEF Rels, Under
<1>2. PICK g \in Growing(NRels, SubRelations(r), Under) : Below(r) = g[NRels]
  BY BelowGrows
<1>3. Under[g[NRels]] \subseteq g[NRels]
  BY <1>1, GrowingCloses
<1>4. g[NRels] \in SUBSET Rels
  BY <1>1, GrowingBegins
<1>5. UnderSet(Below(r)) \subseteq Below(r)
  BY <1>2, <1>3, <1>4 DEF Under
<1> QED BY <1>5 DEF UnderSet

(* ... with all that is below them.                                        *)
LEMMA BelowTransitive == ASSUME NEW r, NEW b \in Below(r) PROVE Below(b) \subseteq Below(r)
<1>1. NRels \in Nat /\ Rels = 1..NRels
  BY RelsAssumption DEF Rels
<1>2. PICK g \in Growing(NRels, SubRelations(b), Under) : Below(b) = g[NRels]
  BY BelowGrows
<1>3. SubRelations(b) \subseteq Below(r)
  BY BelowClosed
<1>4. ASSUME NEW S \in SUBSET Rels, S \subseteq Below(r) PROVE Under[S] \subseteq Below(r)
  <2>1. UnderSet(S) \subseteq Below(r)
    BY <1>4, BelowClosed DEF UnderSet
  <2> QED BY <2>1 DEF Under
<1>5. g[NRels] \subseteq Below(r)
  BY <1>1, <1>3, <1>4, GrowingLeast
<1> QED BY <1>2, <1>5

-----------------------------------------------------------------------------
(* Why a relation is left: all that is deferred has something below it     *)
(* that is never processed.                                                *)

IsHopeless(r) == IsBlocked(r) \/ \E m \in Below(r) : kind[m] = "absent"
Hopeless == {r \in Rels : IsHopeless(r)}
Lower == [r \in Rels |-> Below(r)]

Queues == stack \in Seq(Rels) /\ list \in Seq(Rels) /\ deferred \subseteq Rels
Attempts == attempted \subseteq {frames[n].rel : n \in DOMAIN frames}

(* Each call is for a relation below those of the calls that wait for it.  *)
Descent == \A m, n \in DOMAIN frames : m < n => frames[n].rel \in Lower[frames[m].rel]
FramesLeft == \A n \in DOMAIN frames : frames[n].unresolved => frames[n].rel \in Hopeless
DeferredLeft == deferred \subseteq Hopeless

(* No relation that was pushed is lost before it has been processed.       *)
Pending == processed \union deferred \union attempted \union Range(stack) \union Range(list)
Waiting == \A r \in Rels : IsTouched(r) => r \in Pending

LeftInv == Queues /\ Attempts /\ Descent /\ FramesLeft /\ DeferredLeft /\ Waiting

(* What is hopeless stays so, for the members do not change.               *)
LEMMA HopelessStays ==
  ASSUME UNCHANGED <<refs, kind>>
  PROVE  Lower' = Lower /\ Hopeless' = Hopeless
<1>1. \A q : Members(q)' = Members(q) /\ SubRelations(q)' = SubRelations(q)
  BY DEF Members, SubRelations
<1>2. ASSUME NEW q PROVE Below(q)' = Below(q)
  BY DEF Below, SubRelations, Members
<1>3. ASSUME NEW q PROVE IsHopeless(q)' = IsHopeless(q)
  BY <1>1, <1>2 DEF IsHopeless, IsBlocked, OnCycle, HasStuck
<1> QED BY <1>2, <1>3 DEF Lower, Hopeless

(* A relation is as hopeless as those below it, ...                        *)
LEMMA HopelessBelow == ASSUME NEW r, NEW m \in Below(r), IsHopeless(m) PROVE IsHopeless(r)
<1>1. Below(m) \union {m} \subseteq Below(r)
  BY BelowTransitive
<1> QED BY <1>1 DEF IsHopeless, IsBlocked

(* ... and if it has a member that is never resolved.                      *)
LEMMA HopelessMember ==
  ASSUME NEW r, NEW m \in Members(r),
         m = Stuck \/ (m \in Rels /\ (kind[m] = "absent" \/ OnCycle(m) \/ IsHopeless(m)))
  PROVE  IsHopeless(r)
<1>1. CASE m = Stuck
  BY <1>1 DEF IsHopeless, IsBlocked, HasStuck
<1>2. CASE m \in Rels
  <2>1. m \in Below(r)
    BY <1>2, MembersBelow DEF SubRelations
  <2>2. CASE kind[m] = "absent" \/ OnCycle(m)
    BY <2>1, <2>2 DEF IsHopeless, IsBlocked
  <2>3. CASE IsHopeless(m)
    BY <2>1, <2>3, HopelessBelow
  <2> QED BY <1>2, <2>2, <2>3, LeavesAssumption DEF Leaves
<1> QED BY <1>1, <1>2

(* Calls that go on, or return.                                            *)
LEMMA FramesLeftStay ==
  ASSUME LeftInv, UNCHANGED <<refs, kind>>, DOMAIN frames' \subseteq DOMAIN frames,
         \A n \in DOMAIN frames' :
           /\ frames'[n].rel = frames[n].rel
           /\ frames'[n].unresolved => frames[n].unresolved \/ frames[n].rel \in Hopeless
  PROVE  Descent' /\ FramesLeft'
<1>1. UNCHANGED <<Lower, Hopeless>>
  BY HopelessStays
<1> QED BY <1>1 DEF LeftInv, Descent, FramesLeft

LEMMA DeferredStay ==
  ASSUME LeftInv, UNCHANGED <<refs, kind>>, deferred' \subseteq deferred \union Hopeless
  PROVE  DeferredLeft'
BY HopelessStays DEF LeftInv, DeferredLeft

LEMMA WaitingStays ==
  ASSUME LeftInv, UNCHANGED kind, Pending \intersect Rels \subseteq Pending'
  PROVE  Waiting'
BY DEF LeftInv, Waiting, IsTouched

-----------------------------------------------------------------------------
(* Initial states *)

LEMMA AllInSequence ==
  ASSUME NEW S, IsFiniteSet(S), NEW s \in SetToSeqs(S)
  PROVE  s \in Seq(S) /\ Range(s) = S
<1> DEFINE n == Cardinality(S)
<1>1. n \in Nat /\ s \in [1..n -> S] /\ \A i, j \in 1..n : i # j => s[i] # s[j]
  BY FS_CardinalityType DEF SetToSeqs
<1>2. s \in Injection(1..n, S)
  BY <1>1 DEF Injection, IsInjective
<1>3. IsFiniteSet(1..n) /\ Cardinality(1..n) = n
  <2>1. 1 \in Int /\ n \in Int /\ (IF 1 > n THEN 0 ELSE n - 1 + 1) = n
    BY <1>1
  <2> QED BY <2>1, FS_Interval
<1>4. s \in Surjection(1..n, S)
  <2>1. n = Cardinality(S)
    OBVIOUS
  <2> HIDE DEF n
  <2> QED BY <1>2, <1>3, <2>1, FS_Injection
<1> QED BY <1>1, <1>4 DEF Surjection, Range

LEMMA InitLeft == Init => LeftInv
<1> SUFFICES ASSUME Init PROVE LeftInv
  OBVIOUS
<1>1. PICK s \in SetToSeqs(OfKind(Pushed \ Explicit)), t \in SetToSeqs(OfKind(Explicit)) : stack = s \o t
  <2>1. InitialStack
    BY DEF Init
  <2> QED BY <2>1 DEF InitialStack
<1>2. IsFiniteSet(Rels) /\ OfKind(Pushed \ Explicit) \subseteq Rels /\ OfKind(Explicit) \subseteq Rels
  <2>1. 1 \in Int /\ NRels \in Int
    BY RelsAssumption
  <2> QED BY <2>1, FS_Interval DEF Rels, OfKind
<1>3. /\ s \in Seq(Rels) /\ Range(s) = OfKind(Pushed \ Explicit)
      /\ t \in Seq(Rels) /\ Range(t) = OfKind(Explicit)
  <2>1. IsFiniteSet(OfKind(Pushed \ Explicit)) /\ IsFiniteSet(OfKind(Explicit))
    BY <1>2, FS_Subset
  <2>2. /\ s \in Seq(OfKind(Pushed \ Explicit)) /\ Range(s) = OfKind(Pushed \ Explicit)
        /\ t \in Seq(OfKind(Explicit)) /\ Range(t) = OfKind(Explicit)
    BY <2>1, AllInSequence
  <2>3. s \in Seq(Rels) /\ t \in Seq(Rels)
    <3>1. ASSUME NEW A, A \subseteq Rels, NEW u \in Seq(A) PROVE u \in Seq(Rels)
      <4>1. Len(u) \in Nat /\ u \in [1..Len(u) -> A]
        OBVIOUS
      <4>2. u \in [1..Len(u) -> Rels]
        BY <3>1, <4>1
      <4> QED BY <4>1, <4>2, SeqDef
    <3> QED BY <1>2, <2>2, <3>1
  <2> QED BY <2>2, <2>3
<1>4. stack \in Seq(Rels) /\ Range(stack) = Range(s) \union Range(t)
  <2>1. stack \in Seq(Rels)
    BY <1>1, <1>3
  <2>2. Range(s) \subseteq Range(stack)
    BY <1>1, <1>3 DEF Range
  <2>3. ASSUME NEW j \in DOMAIN t PROVE t[j] \in Range(stack)
    <3>1. Len(s) + j \in DOMAIN stack /\ stack[Len(s) + j] = t[j]
      BY <1>1, <1>3
    <3> QED BY <3>1 DEF Range
  <2>4. Range(stack) \subseteq Range(s) \union Range(t)
    BY <1>1, <1>3 DEF Range
  <2>5. Range(t) \subseteq Range(stack)
    BY <2>3 DEF Range
  <2> QED BY <2>1, <2>2, <2>4, <2>5
<1>5. Waiting
  BY <1>3, <1>4 DEF Waiting, IsTouched, Pending, OfKind
<1>6. Queues /\ Attempts /\ Descent /\ FramesLeft /\ DeferredLeft
  BY <1>4 DEF Init, Queues, Attempts, Descent, FramesLeft, DeferredLeft
<1> QED BY <1>5, <1>6 DEF LeftInv

-----------------------------------------------------------------------------
(* Steps *)

(* The member that the call on top visits is below it.                     *)
LEMMA MemberBelow ==
  ASSUME IInv, Visiting
  PROVE  /\ Member \in Members(Top.rel)
         /\ Member \in Rels => Member \in Below(Top.rel)
<1>1. Top.rel \in Rels /\ Top.i \in DOMAIN refs[Top.rel]
  BY TopIsFrame, Tabled DEF Visiting, IInv
<1>2. Member \in Members(Top.rel)
  BY <1>1 DEF Member, Members, Range
<1> QED BY <1>2, MembersBelow DEF SubRelations

(* A call waits for its relation, or is done with it.                      *)
LEMMA CallLeft ==
  ASSUME IInv, LeftInv, NEW r \in Rels \ processed, Call(r), UNCHANGED <<refs, kind, dropped>>,
         frames # << >> => r \in Members(Top.rel)
  PROVE  /\ Attempts' /\ Descent' /\ FramesLeft' /\ UNCHANGED deferred
         /\ processed \subseteq processed' /\ attempted \subseteq attempted'
         /\ r \in processed' \union attempted'
<1>1. /\ frames \in Seq(Frame) /\ Len(frames) \in Nat /\ DOMAIN frames = 1..Len(frames)
      /\ Attempts /\ Descent /\ FramesLeft /\ Library
  BY DEF IInv, TypeOK, LeftInv
<1>2. CASE CallDeleted(r)
  <2>1. UNCHANGED <<frames, deferred, attempted>> /\ processed' = processed \union {r}
    BY <1>2 DEF CallDeleted, Delete
  <2>2. Descent' /\ FramesLeft'
    BY <2>1, FramesLeftStay
  <2> QED BY <1>1, <2>1, <2>2 DEF Attempts
<1>3. CASE CallAbsent(r)
  <2>1. UNCHANGED <<deferred, attempted>> /\ processed' = processed \union {r}
    BY <1>3 DEF CallAbsent, Delete
  <2>2. CASE frames = << >>
    <3>1. UNCHANGED frames
      BY <1>3, <2>2 DEF CallAbsent
    <3>2. Descent' /\ FramesLeft'
      BY <3>1, FramesLeftStay
    <3> QED BY <1>1, <2>1, <3>1, <3>2 DEF Attempts
  <2>3. CASE frames # << >>
    <3>1. kind[r] = "absent"
      BY <1>1, <1>3 DEF CallAbsent, IsAbsent, Library, IInv, TypeOK, Kinds, Pushed, InLibrary, Explicit
    <3>2. Top.rel \in Hopeless
      BY <2>3, <3>1, TopIsFrame, HopelessMember DEF Hopeless
    <3>3. PICK f \in Frame : f = Proceed(Top, TRUE) /\ f.rel = Top.rel
      BY <2>3, TopIsFrame, ProceedIsFrame
    <3>4. frames' = [frames EXCEPT ![Len(frames)] = f]
      BY <1>3, <2>3, <3>3 DEF CallAbsent, SetTop
    <3>5. DOMAIN frames' = DOMAIN frames /\ \A n \in DOMAIN frames : frames'[n] = IF n = Len(frames) THEN f ELSE frames[n]
      BY <1>1, <3>4
    <3>6. ASSUME NEW n \in DOMAIN frames'
          PROVE  /\ frames'[n].rel = frames[n].rel
                 /\ frames'[n].unresolved => frames[n].unresolved \/ frames[n].rel \in Hopeless
      BY <3>2, <3>3, <3>5 DEF Top
    <3>7. Descent' /\ FramesLeft'
      BY <3>5, <3>6, FramesLeftStay
    <3>8. Attempts'
      BY <1>1, <2>1, <3>5, <3>6 DEF Attempts
    <3> QED BY <2>1, <3>7, <3>8
  <2> QED BY <2>2, <2>3
<1>4. CASE CallLive(r)
  <2>1. /\ frames' = Append(frames, NewFrame(r)) /\ attempted' = attempted \union {r}
        /\ UNCHANGED <<processed, deferred>>
    BY <1>4 DEF CallLive
  <2> DEFINE f == NewFrame(r)
  <2>2. f.rel = r /\ f.unresolved = FALSE
    BY DEF NewFrame
  <2> HIDE DEF f
  <2>3. /\ DOMAIN frames' = 1..Len(frames) + 1 /\ frames'[Len(frames) + 1] = f
        /\ \A n \in DOMAIN frames : frames'[n] = frames[n]
    BY <1>1, <2>1, <2>2 DEF f
  <2>4. UNCHANGED <<Lower, Hopeless>>
    BY HopelessStays
  <2>5. ASSUME NEW n \in DOMAIN frames PROVE r \in Lower[frames[n].rel]
    <3>1. frames # << >> /\ n <= Len(frames) /\ Top = frames[Len(frames)]
      BY <1>1, <2>5 DEF Top
    <3>2. r \in Below(Top.rel) /\ Top.rel \in Rels /\ r \in SubRelations(Top.rel)
      BY <3>1, MembersBelow, TopIsFrame DEF SubRelations
    <3>3. CASE n = Len(frames)
      BY <3>1, <3>2, <3>3 DEF Lower
    <3>4. CASE n < Len(frames)
      <4>1. PICK q \in Rels : q = frames[n].rel
        <5>1. frames[n] \in Frame
          BY <1>1
        <5> QED BY <5>1 DEF Frame
      <4>2. Top.rel \in Below(q)
        <5>1. Top.rel \in Lower[q]
          BY <1>1, <3>1, <3>4, <4>1 DEF Descent
        <5> QED BY <5>1 DEF Lower
      <4>3. r \in Below(q)
        BY <3>2, <4>2, BelowClosed
      <4> QED BY <4>1, <4>3 DEF Lower
    <3> QED BY <1>1, <3>1, <3>3, <3>4
  <2>6. Descent'
    <3> SUFFICES ASSUME NEW m \in DOMAIN frames', NEW n \in DOMAIN frames', m < n
                 PROVE  frames'[n].rel \in Lower[frames'[m].rel]
      BY <2>4 DEF Descent
    <3>1. m \in DOMAIN frames /\ (n \in DOMAIN frames \/ n = Len(frames) + 1)
      BY <1>1, <2>3
    <3>2. CASE n \in DOMAIN frames
      BY <1>1, <2>3, <3>1, <3>2 DEF Descent
    <3>3. CASE n = Len(frames) + 1
      BY <2>2, <2>3, <2>5, <3>1, <3>3
    <3> QED BY <3>1, <3>2, <3>3
  <2>7. FramesLeft'
    <3> SUFFICES ASSUME NEW n \in DOMAIN frames', frames'[n].unresolved PROVE frames'[n].rel \in Hopeless
      BY <2>4 DEF FramesLeft
    <3>1. n \in DOMAIN frames
      BY <1>1, <2>2, <2>3
    <3> QED BY <1>1, <2>3, <3>1 DEF FramesLeft
  <2>8. Attempts'
    <3>1. ASSUME NEW q \in attempted' PROVE \E n \in DOMAIN frames' : q = frames'[n].rel
      <4>1. CASE q = r
        BY <1>1, <2>2, <2>3, <4>1
      <4>2. CASE q \in attempted
        <5>1. PICK n \in DOMAIN frames : q = frames[n].rel
          BY <1>1, <4>2 DEF Attempts
        <5> QED BY <1>1, <2>3, <5>1
      <4> QED BY <2>1, <4>1, <4>2
    <3> QED BY <3>1 DEF Attempts
  <2> QED BY <2>1, <2>6, <2>7, <2>8
<1> QED BY <1>2, <1>3, <1>4 DEF Call

LEMMA VisitChildLeft == ASSUME IInv, LeftInv, VisitChild PROVE LeftInv'
<1>1. frames # << >> /\ UNCHANGED <<refs, kind, dropped, stack, list>> /\ Visiting
  BY DEF VisitChild, Visiting, inputVars
<1>2. PICK r \in Rels \ processed : r = Member /\ Call(r) /\ r \in Members(Top.rel)
  BY <1>1, MemberBelow DEF VisitChild
<1>3. /\ Attempts' /\ Descent' /\ FramesLeft' /\ UNCHANGED deferred
      /\ processed \subseteq processed' /\ attempted \subseteq attempted'
  BY <1>1, <1>2, CallLeft
<1>4. DeferredLeft' /\ Waiting'
  BY <1>1, <1>3, DeferredStay, WaitingStays DEF Pending
<1> QED BY <1>1, <1>3, <1>4 DEF LeftInv, Queues

(* What a relation leaves open will stay open: a deferred relation, a way, *)
(* or a relation that is above it as well as below.                        *)
LEMMA OpenMember ==
  ASSUME IInv, LeftInv, Visiting,
         Member \in Rels => Member \in attempted \union deferred \union processed,
         Member \in deferred \/ (~Missing(Member) /\ ~Resolved(Member))
  PROVE  Top.rel \in Hopeless
<1>1. /\ frames # << >> /\ Member \in Members(Top.rel) /\ Top.rel \in Rels
      /\ frames \in Seq(Frame) /\ DOMAIN frames = 1..Len(frames) /\ Len(frames) \in DOMAIN frames
  BY MemberBelow, TopIsFrame DEF Visiting, IInv, TypeOK
<1>2. CASE Member \in deferred
  <2>1. Member \in Hopeless
    BY <1>2 DEF LeftInv, DeferredLeft
  <2> QED BY <1>1, <2>1, HopelessMember DEF Hopeless
<1>3. CASE Member \notin Rels
  <2>1. Member \in Rels \union Leaves
    <3>1. Top.i \in DOMAIN refs[Top.rel] /\ refs[Top.rel] \in Seq(Rels \union Leaves)
      BY <1>1, TopIsFrame, Tabled DEF Visiting, IInv
    <3> QED BY <3>1 DEF Member
  <2>2. Member = Stuck
    <3>1. Member \notin deferred
      BY <1>3 DEF LeftInv, Queues
    <3> QED BY <1>3, <2>1, <3>1 DEF Missing, Resolved, Leaves
  <2> QED BY <1>1, <2>2, HopelessMember DEF Hopeless
<1>4. CASE Member \in Rels /\ Member \notin deferred
  <2>1. ref[Member] = "known" /\ Member \in attempted
    BY <1>4 DEF Missing, Resolved
  <2>2. PICK n \in DOMAIN frames : frames[n].rel = Member
    BY <2>1 DEF LeftInv, Attempts
  <2>3. OnCycle(Member)
    <3>1. CASE n = Len(frames)
      BY <1>1, <1>4, <2>2, <3>1, MemberBelow DEF OnCycle, Top
    <3>2. CASE n < Len(frames)
      <4>1. Top.rel \in Below(Member)
        BY <1>1, <1>4, <2>2, <3>2 DEF LeftInv, Descent, Lower, Top
      <4>2. Member \in SubRelations(Top.rel)
        BY <1>1, <1>4 DEF SubRelations
      <4> QED BY <4>1, <4>2, BelowClosed DEF OnCycle
    <3> QED BY <1>1, <3>1, <3>2
  <2> QED BY <1>1, <1>4, <2>3, HopelessMember DEF Hopeless
<1> QED BY <1>2, <1>3, <1>4

LEMMA VisitMemberLeft == ASSUME IInv, LeftInv, VisitMember PROVE LeftInv'
<1>1. /\ frames # << >> /\ Visiting
      /\ UNCHANGED <<refs, kind, processed, deferred, attempted, stack, list>>
  BY DEF VisitMember, Visiting, inputVars
<1>2. /\ frames \in Seq(Frame) /\ DOMAIN frames = 1..Len(frames) /\ Len(frames) \in DOMAIN frames
      /\ Top \in Frame
  BY <1>1, TopIsFrame DEF IInv, TypeOK
<1>3. PICK f \in Frame : /\ SetTop(f) /\ f.rel = Top.rel
                         /\ f.unresolved => Top.unresolved \/ Top.rel \in Hopeless
  <2>1. CASE Omit
    <3>1. PICK g \in Frame : g = Proceed(Top, FALSE) /\ g.rel = Top.rel /\ (g.unresolved <=> Top.unresolved)
      BY <1>2, ProceedIsFrame
    <3>2. g.omitted + 1 \in Nat
      BY DEF Frame
    <3>3. PICK f \in Frame : f = [g EXCEPT !.omitted = @ + 1]
      BY <3>2 DEF Frame
    <3>4. f.rel = g.rel /\ f.unresolved = g.unresolved
      BY <3>3 DEF Frame
    <3>5. SetTop(f)
      BY <2>1, <3>1, <3>3 DEF Omit
    <3> QED BY <3>1, <3>4, <3>5
  <2>2. CASE Member \in deferred /\ SetTop(Proceed(Top, TRUE))
    <3>1. PICK f \in Frame : f = Proceed(Top, TRUE) /\ f.rel = Top.rel
      BY <1>2, ProceedIsFrame
    <3>2. Top.rel \in Hopeless
      BY <1>1, <2>2, OpenMember DEF VisitMember
    <3> QED BY <2>2, <3>1, <3>2
  <2>3. CASE ~Missing(Member) /\ SetTop(Proceed(Top, ~Resolved(Member)))
    <3>1. PICK u \in BOOLEAN : u = ~Resolved(Member)
      OBVIOUS
    <3>2. PICK f \in Frame : f = Proceed(Top, u) /\ f.rel = Top.rel /\ (f.unresolved <=> Top.unresolved \/ u)
      BY <1>2, ProceedIsFrame
    <3>3. u => Top.rel \in Hopeless
      BY <1>1, <2>3, <3>1, OpenMember DEF VisitMember
    <3>4. SetTop(f)
      BY <2>3, <3>1, <3>2
    <3> QED BY <3>2, <3>3, <3>4
  <2> QED BY <2>1, <2>2, <2>3 DEF VisitMember
<1>4. DOMAIN frames' = DOMAIN frames /\ \A n \in DOMAIN frames : frames'[n] = IF n = Len(frames) THEN f ELSE frames[n]
  BY <1>2, <1>3 DEF SetTop
<1>5. ASSUME NEW n \in DOMAIN frames'
      PROVE  /\ frames'[n].rel = frames[n].rel
             /\ frames'[n].unresolved => frames[n].unresolved \/ frames[n].rel \in Hopeless
  BY <1>3, <1>4 DEF Top
<1>6. Descent' /\ FramesLeft'
  BY <1>1, <1>4, <1>5, FramesLeftStay
<1>7. Attempts'
  BY <1>1, <1>4, <1>5 DEF LeftInv, Attempts
<1>8. DeferredLeft' /\ Waiting'
  BY <1>1, DeferredStay, WaitingStays DEF Pending
<1> QED BY <1>1, <1>6, <1>7, <1>8 DEF LeftInv, Queues

(* What a call returns: with 0 the caller is as hopeless as the relation.  *)
LEMMA ReturnedLeft ==
  ASSUME IInv, LeftInv, frames # << >>, NEW result \in {0, 1}, frames' = Returned(result),
         UNCHANGED <<refs, kind>>, attempted' = attempted \ {Top.rel}, result = 0 => Top.unresolved
  PROVE  Attempts' /\ Descent' /\ FramesLeft'
<1> DEFINE callers == Front(frames)
           last == Len(callers)
<1>1. /\ frames \in Seq(Frame) /\ Len(frames) \in Nat \ {0} /\ DOMAIN frames = 1..Len(frames)
      /\ Len(frames) \in DOMAIN frames /\ Top.rel \in Rels
  BY TopIsFrame DEF IInv, TypeOK
<1>2. /\ callers \in Seq(Frame) /\ last = Len(frames) - 1 /\ DOMAIN callers = 1..last
      /\ \A n \in DOMAIN callers : callers[n] = frames[n]
  BY <1>1 DEF Front
<1> HIDE DEF callers, last
<1>3. /\ DOMAIN frames' = DOMAIN callers
      /\ \A n \in DOMAIN frames' :
           /\ frames'[n].rel = frames[n].rel
           /\ frames'[n].unresolved => frames[n].unresolved \/ frames[n].rel \in Hopeless
  <2>1. CASE frames' = callers
    BY <1>2, <2>1
  <2>2. CASE result = 0 /\ callers # << >> /\ frames' = [callers EXCEPT ![last] = Proceed(@, TRUE)]
    <3>1. last \in DOMAIN callers /\ callers[last] \in Frame /\ callers[last] = frames[last] /\ last < Len(frames)
      BY <1>1, <1>2, <2>2
    <3>2. PICK f \in Frame : f = Proceed(callers[last], TRUE) /\ f.rel = frames[last].rel
      BY <3>1, ProceedIsFrame
    <3>3. PICK q \in Rels : q = frames[last].rel
      <4>1. frames[last] \in Frame
        BY <3>1
      <4> QED BY <4>1 DEF Frame
    <3>4. Top.unresolved /\ Top.rel \in Hopeless
      BY <1>1, <2>2 DEF LeftInv, FramesLeft, Top
    <3>5. Top.rel \in Below(q)
      <4>1. last \in DOMAIN frames
        BY <1>1, <1>2, <3>1
      <4>2. Top.rel \in Lower[q]
        BY <1>1, <3>1, <3>3, <4>1 DEF LeftInv, Descent, Top
      <4> QED BY <4>2 DEF Lower
    <3>6. q \in Hopeless
      BY <3>4, <3>5, HopelessBelow DEF Hopeless
    <3>7. /\ DOMAIN frames' = DOMAIN callers
          /\ \A n \in DOMAIN callers : frames'[n] = IF n = last THEN f ELSE callers[n]
      BY <1>2, <2>2, <3>1, <3>2
    <3> QED BY <1>2, <3>2, <3>3, <3>6, <3>7
  <2> QED BY <2>1, <2>2 DEF Returned, callers, last
<1>4. DOMAIN frames' \subseteq DOMAIN frames
  BY <1>1, <1>2, <1>3
<1>5. Descent' /\ FramesLeft'
  BY <1>3, <1>4, FramesLeftStay
<1>6. Attempts'
  <2>1. ASSUME NEW q \in attempted' PROVE \E n \in DOMAIN frames' : q = frames'[n].rel
    <3>1. PICK n \in DOMAIN frames : q = frames[n].rel
      BY DEF LeftInv, Attempts
    <3>2. n # Len(frames)
      BY <3>1 DEF Top
    <3>3. n \in DOMAIN frames'
      BY <1>1, <1>2, <1>3, <3>2
    <3> QED BY <1>3, <3>1, <3>3
  <2> QED BY <2>1 DEF Attempts
<1> QED BY <1>5, <1>6

(* A relation that is deferred is hopeless, and back on the stack.         *)
LEMMA DeferLeft == ASSUME IInv, LeftInv, Defer PROVE LeftInv'
<1>1. /\ frames # << >> /\ UNCHANGED <<refs, kind, processed, list>> /\ frames' = Returned(0)
      /\ attempted' = attempted \ {Top.rel} /\ deferred' = deferred \union {Top.rel}
      /\ stack' = << Top.rel >> \o stack /\ Top.unresolved
  BY DEF Defer, AtEnd, inputVars
<1>2. Attempts' /\ Descent' /\ FramesLeft'
  BY <1>1, ReturnedLeft
<1>3. Top.rel \in Hopeless /\ Top.rel \in Rels
  BY <1>1, TopIsFrame DEF LeftInv, FramesLeft, Top
<1>4. DeferredLeft'
  BY <1>1, <1>3, DeferredStay
<1>5. stack \in Seq(Rels) /\ deferred \subseteq Rels /\ list \in Seq(Rels)
  BY DEF LeftInv, Queues
<1>6. PICK r \in Rels : r = Top.rel
  BY <1>3
<1>7. stack' = << r >> \o stack
  BY <1>1, <1>6
<1>8. Queues'
  BY <1>1, <1>5, <1>6, <1>7 DEF Queues
<1>9. Range(stack) \subseteq Range(stack')
  <2>1. ASSUME NEW n \in DOMAIN stack PROVE stack[n] \in Range(stack')
    <3>1. n + 1 \in DOMAIN stack' /\ stack'[n + 1] = stack[n]
      BY <1>5, <1>7
    <3> QED BY <3>1 DEF Range
  <2> QED BY <2>1 DEF Range
<1>10. Waiting'
  BY <1>1, <1>9, WaitingStays DEF Pending
<1> QED BY <1>2, <1>4, <1>8, <1>10 DEF LeftInv

(* One that is processed is not deferred.                                  *)
LEMMA ReturnLeft ==
  ASSUME IInv, LeftInv, AtEnd, UNCHANGED <<refs, kind, stack, list>>, frames' = Returned(1),
         attempted' = attempted \ {Top.rel}, processed' = processed \union {Top.rel},
         deferred' \in {deferred, deferred \ {Top.rel}}
  PROVE  LeftInv'
<1>1. frames # << >>
  BY DEF AtEnd
<1>2. Attempts' /\ Descent' /\ FramesLeft'
  BY <1>1, ReturnedLeft
<1>3. DeferredLeft' /\ Waiting' /\ Queues'
  BY DeferredStay, WaitingStays DEF Pending, LeftInv, Queues
<1> QED BY <1>2, <1>3 DEF LeftInv

(* The loops over the relations                                            *)
LEMMA BeginRoundLeft == ASSUME IInv, LeftInv, BeginRound PROVE LeftInv'
<1>1. /\ UNCHANGED <<refs, kind, processed, deferred, attempted, frames>>
      /\ list = << >> /\ list' = stack /\ stack' = << >>
  BY DEF BeginRound, Idle, inputVars, flagVars
<1>2. Range(list) = {}
  BY <1>1 DEF Range
<1>3. Descent' /\ FramesLeft'
  BY <1>1, FramesLeftStay
<1>4. DeferredLeft' /\ Waiting'
  BY <1>1, <1>2, DeferredStay, WaitingStays DEF Pending
<1>5. Queues' /\ Attempts'
  BY <1>1 DEF LeftInv, Queues, Attempts
<1> QED BY <1>3, <1>4, <1>5 DEF LeftInv

LEMMA NextRelationLeft == ASSUME IInv, LeftInv, NextRelation PROVE LeftInv'
<1>1. /\ UNCHANGED <<refs, kind, dropped, stack>> /\ frames = << >> /\ list # << >> /\ list' = Tail(list)
  BY DEF NextRelation, inputVars
<1>2. PICK r \in Rels :
        /\ r = Head(list)
        /\ IF r \in processed \union deferred
           THEN UNCHANGED <<processed, deferred, attempted, ref, frames>>
           ELSE Call(r)
  BY DEF NextRelation
<1>3. /\ list \in Seq(Rels) /\ list' \in Seq(Rels) /\ Range(list) \subseteq Range(list') \union {r}
  <2>1. list \in Seq(Rels)
    BY DEF LeftInv, Queues
  <2>2. /\ Tail(list) \in Seq(Rels) /\ Len(Tail(list)) = Len(list) - 1 /\ Head(list) = list[1]
        /\ \A n \in 1..Len(list) - 1 : Tail(list)[n] = list[n + 1]
    BY <1>1, <2>1, HeadTailProperties
  <2>3. ASSUME NEW n \in DOMAIN list PROVE list[n] \in Range(list') \union {r}
    <3>1. n = 1 \/ (n - 1 \in DOMAIN list' /\ list'[n - 1] = list[n])
      BY <1>1, <2>1, <2>2
    <3> QED BY <1>2, <2>2, <3>1 DEF Range
  <2> QED BY <1>1, <2>1, <2>2, <2>3 DEF Range
<1>4. /\ Attempts' /\ Descent' /\ FramesLeft' /\ UNCHANGED deferred
      /\ processed \subseteq processed' /\ attempted \subseteq attempted'
      /\ r \in processed' \union attempted' \union deferred
  <2>1. CASE r \in processed \union deferred
    <3>1. UNCHANGED <<processed, deferred, attempted, frames>>
      BY <1>2, <2>1
    <3> QED BY <1>1, <2>1, <3>1, FramesLeftStay DEF LeftInv, Attempts
  <2>2. CASE r \notin processed \union deferred
    BY <1>1, <1>2, <2>2, CallLeft
  <2> QED BY <2>1, <2>2
<1>5. DeferredLeft' /\ Waiting'
  BY <1>1, <1>3, <1>4, DeferredStay, WaitingStays DEF Pending
<1>6. Queues'
  BY <1>1, <1>3, <1>4 DEF LeftInv, Queues
<1> QED BY <1>4, <1>5, <1>6 DEF LeftInv

LEMMA NextLeft == ASSUME IInv, LeftInv, [Next]_vars PROVE LeftInv'
<1>1. CASE ProcessWays \/ UNCHANGED vars
  <2>1. UNCHANGED <<refs, kind, processed, deferred, attempted, stack, list, frames>>
    <3>1. CASE ProcessWays
      BY <3>1 DEF ProcessWays, Cascade
    <3>2. CASE UNCHANGED vars
      BY <3>2 DEF vars, inputVars, flagVars
    <3> QED BY <1>1, <3>1, <3>2
  <2>2. Descent' /\ FramesLeft' /\ DeferredLeft' /\ Waiting'
    BY <2>1, FramesLeftStay, DeferredStay, WaitingStays DEF Pending
  <2> QED BY <2>1, <2>2 DEF LeftInv, Queues, Attempts
<1>2. CASE Empty
  BY <1>2, ReturnLeft DEF Empty, Delete, inputVars
<1>3. CASE Finish
  BY <1>3, ReturnLeft DEF Finish, inputVars
<1> QED BY <1>1, <1>2, <1>3, BeginRoundLeft, NextRelationLeft, VisitChildLeft, VisitMemberLeft, DeferLeft DEF Next

(* At the end every relation that was pushed is processed, but for those   *)
(* that have a reference cycle, a way that cannot be processed or a        *)
(* relation that is not in the library below them: none is forgotten when  *)
(* a round skips what is deferred.                                         *)
THEOREM OnlyBlockedEverLeft == Spec => []OnlyBlockedLeft
<1>1. Init => IInv /\ LeftInv
  BY InitIInv, InitLeft
<1>2. IInv /\ LeftInv /\ [Next]_vars => (IInv /\ LeftInv)'
  BY NextKeeps, NextLeft
<1>3. IInv /\ LeftInv => OnlyBlockedLeft
  <2> SUFFICES ASSUME LeftInv, Done, NEW r \in Rels, IsTouched(r), ~IsHopeless(r)
               PROVE  r \in processed
    BY DEF OnlyBlockedLeft, IsHopeless
  <2>1. frames = << >> /\ list = << >> /\ stack = << >>
    BY DEF Done, Idle
  <2>2. Range(<< >>) = {} /\ attempted = {}
    BY <2>1 DEF Range, LeftInv, Attempts
  <2>3. r \notin deferred
    BY DEF LeftInv, DeferredLeft, Hopeless
  <2> QED BY <2>1, <2>2, <2>3 DEF LeftInv, Waiting, Pending
<1> QED BY <1>1, <1>2, <1>3, PTL DEF Spec
=============================================================================
