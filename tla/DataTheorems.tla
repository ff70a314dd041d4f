---------------------------- MODULE DataTheorems ----------------------------
(***************************************************************************)
(* What the proofs need to know of numbers, of functions that are defined  *)
(* by recursion, of sets that grow until they are closed, of queues that   *)
(* hold nothing twice, of sequences and their concatenation, of ledgers    *)
(* (lists of lots that are dealt with in turn), and of computations that   *)
(* come to an end.                                                         *)
(*                                                                         *)
(* Induction is stated for sets: a set that contains 0, and the successor  *)
(* of each of its numbers, contains all of them.  Were n missing, then     *)
(* k |-> k + 1 would be an injection of the members up to n into those of  *)
(* them that are not 0.                                                    *)
(***************************************************************************)
EXTENDS Integers, SequencesExt, FiniteSetTheorems, SequenceTheorems, TLAPS

(* Induction over the natural numbers.                                     *)
LEMMA NatSetInduction ==
  ASSUME NEW P, 0 \in P, \A n \in Nat : n \in P => n + 1 \in P
  PROVE  Nat \subseteq P
<1> SUFFICES ASSUME NEW n \in Nat, n \notin P PROVE FALSE
  OBVIOUS
<1> DEFINE A == {k \in 0..n : k \in P}
           B == A \ {0}
           f == [k \in A |-> k + 1]
<1>1. IsFiniteSet(A)
  <2>1. 0 \in Int /\ n \in Int /\ IsFiniteSet(0..n)
    BY FS_Interval
  <2>2. A \subseteq 0..n
    OBVIOUS
  <2> HIDE DEF A
  <2> QED BY <2>1, <2>2, FS_Subset
<1>2. IsFiniteSet(B) /\ Cardinality(B) < Cardinality(A)
  <2>1. 0 \in A
    OBVIOUS
  <2>2. Cardinality(B) = Cardinality(A) - 1 /\ IsFiniteSet(B) /\ Cardinality(A) \in Nat
    BY <1>1, <2>1, FS_RemoveElement, FS_CardinalityType
  <2> QED BY <2>2
<1>3. f \in [A -> B]
  OBVIOUS
<1>4. PICK x, y \in A : x # y /\ f[x] = f[y]
  <2> HIDE DEF A, B, f
  <2> QED BY <1>1, <1>2, <1>3, FS_PigeonHole
<1> QED BY <1>4

(* Induction up to a number.                                               *)
LEMMA IntervalInduction ==
  ASSUME NEW n \in Nat, NEW P, 0 \in P, \A k \in 1..n : k - 1 \in P => k \in P
  PROVE  0..n \subseteq P
<1> DEFINE Q == {k \in Nat : k <= n => k \in P}
<1>1. 0 \in Q
  OBVIOUS
<1>2. ASSUME NEW k \in Nat, k \in Q PROVE k + 1 \in Q
  <2> SUFFICES ASSUME k + 1 <= n PROVE k + 1 \in P
    OBVIOUS
  <2>1. k + 1 \in 1..n /\ (k + 1) - 1 \in P
    BY <1>2
  <2> QED BY <2>1
<1>3. Nat \subseteq Q
  <2> HIDE DEF Q
  <2> QED BY <1>1, <1>2, NatSetInduction
<1> QED BY <1>3

(* What a recursive function computes step by step exists.                 *)
Iterations(n, S, base, step) ==
  {g \in [0..n -> S] : g[0] = base /\ \A k \in 1..n : g[k] = step[<<g[k - 1], k>>]}

LEMMA IterationExists ==
  ASSUME NEW n \in Nat, NEW S, NEW base \in S, NEW step \in [S \X (1..n) -> S]
  PROVE  Iterations(n, S, base, step) # {}
<1> DEFINE P == {m \in 0..n : \E g \in [0..m -> S] :
                    g[0] = base /\ \A k \in 1..m : g[k] = step[<<g[k - 1], k>>]}
<1>1. 0 \in P
  <2> DEFINE h == [k \in 0..0 |-> base]
  <2>1. h \in [0..0 -> S] /\ h[0] = base /\ 1..0 = {}
    OBVIOUS
  <2> HIDE DEF h
  <2>2. \A k \in 1..0 : h[k] = step[<<h[k - 1], k>>]
    BY <2>1
  <2> QED BY <2>1, <2>2
<1>2. ASSUME NEW m \in 1..n, m - 1 \in P PROVE m \in P
  <2>1. PICK g \in [0..(m - 1) -> S] : g[0] = base /\ \A k \in 1..(m - 1) : g[k] = step[<<g[k - 1], k>>]
    BY <1>2
  <2> DEFINE last == step[<<g[m - 1], m>>]
             h == [k \in 0..m |-> IF k = m THEN last ELSE g[k]]
  <2>2. last \in S
    <3>1. <<g[m - 1], m>> \in S \X (1..n)
      OBVIOUS
    <3> QED BY <3>1
  <2>3. h \in [0..m -> S] /\ h[m] = last /\ \A k \in 0..(m - 1) : h[k] = g[k]
    <3> HIDE DEF last
    <3> QED BY <2>2
  <2> HIDE DEF h
  <2>4. h[0] = base
    BY <2>1, <2>3
  <2>5. \A k \in 1..m : h[k] = step[<<h[k - 1], k>>]
    <3> SUFFICES ASSUME NEW k \in 1..m PROVE h[k] = step[<<h[k - 1], k>>]
      OBVIOUS
    <3>1. h[k - 1] = g[k - 1]
      BY <2>3
    <3>2. CASE k = m
      <4>1. h[k] = last /\ last = step[<<g[k - 1], k>>]
        BY <2>3, <3>2
      <4> QED BY <3>1, <4>1, Zenon
    <3>3. CASE k # m
      <4>1. k \in 1..(m - 1) /\ h[k] = g[k]
        BY <2>3, <3>3
      <4>2. g[k] = step[<<g[k - 1], k>>]
        BY <2>1, <4>1
      <4> QED BY <3>1, <4>1, <4>2, Zenon
    <3> QED BY <3>2, <3>3
  <2>6. m \in 0..n
    OBVIOUS
  <2> QED BY <2>3, <2>4, <2>5, <2>6
<1>3. n \in P
  <2> HIDE DEF P
  <2> QED BY <1>1, <1>2, IntervalInduction
<1> QED BY <1>3 DEF Iterations

(* Sets of numbers up to n that grow by what is next to them: the members  *)
(* of members and the like.                                                *)
Growing(n, base, next) ==
  {g \in [0..n -> SUBSET (1..n)] :
     g[0] = base /\ \A k \in 1..n : g[k] = g[k - 1] \union next[g[k - 1]]}

LEMMA GrowingExists ==
  ASSUME NEW n \in Nat, NEW base \in SUBSET (1..n), NEW next \in [SUBSET (1..n) -> SUBSET (1..n)]
  PROVE  Growing(n, base, next) # {}
<1> DEFINE S == SUBSET (1..n)
           step == [p \in S \X (1..n) |-> p[1] \union next[p[1]]]
<1>1. step \in [S \X (1..n) -> S]
  OBVIOUS
<1>2. ASSUME NEW X \in S, NEW k \in 1..n PROVE step[<<X, k>>] = X \union next[X]
  <2>1. <<X, k>> \in S \X (1..n) /\ <<X, k>>[1] = X
    OBVIOUS
  <2> QED BY <2>1
<1>3. PICK g \in [0..n -> S] : g[0] = base /\ \A k \in 1..n : g[k] = step[<<g[k - 1], k>>]
  <2>1. base \in S
    OBVIOUS
  <2> HIDE DEF S, step
  <2>2. Iterations(n, S, base, step) # {}
    BY <1>1, <2>1, IterationExists
  <2> QED BY <2>2 DEF Iterations
<1>4. ASSUME NEW k \in 1..n PROVE g[k] = g[k - 1] \union next[g[k - 1]]
  <2>1. k - 1 \in 0..n
    OBVIOUS
  <2>2. g[k - 1] \in S
    BY <1>3, <2>1
  <2> HIDE DEF step, S
  <2> QED BY <1>2, <1>3, <2>2
<1>5. g \in [0..n -> SUBSET (1..n)] /\ g[0] = base
  <2> HIDE DEF step
  <2> QED BY <1>3
<1> HIDE DEF step, S
<1> QED BY <1>4, <1>5 DEF Growing

(* They hold what they began with, ...                                     *)
LEMMA GrowingBegins ==
  ASSUME NEW n \in Nat, NEW base, NEW next, NEW g \in Growing(n, base, next)
  PROVE  base \subseteq g[n] /\ g[n] \in SUBSET (1..n)
<1> DEFINE P == {k \in 0..n : base \subseteq g[k]}
<1>1. 0 \in P
  BY DEF Growing
<1>2. ASSUME NEW k \in 1..n, k - 1 \in P PROVE k \in P
  <2>1. k \in 0..n /\ base \subseteq g[k - 1] /\ g[k] = g[k - 1] \union next[g[k - 1]]
    BY <1>2 DEF Growing
  <2> QED BY <2>1
<1>3. n \in P
  <2> HIDE DEF P
  <2> QED BY <1>1, <1>2, IntervalInduction
<1> QED BY <1>3 DEF Growing

(* ... are closed after n steps, as a set that is not closed grows with    *)
(* each of them, ...                                                       *)
LEMMA GrowingCloses ==
  ASSUME NEW n \in Nat, NEW base, NEW next \in [SUBSET (1..n) -> SUBSET (1..n)],
         NEW g \in Growing(n, base, next)
  PROVE  next[g[n]] \subseteq g[n]
<1> DEFINE P == {k \in 0..n : next[g[k]] \subseteq g[k] \/ Cardinality(g[k]) >= k}
<1>0. IsFiniteSet(1..n) /\ Cardinality(1..n) = n
  <2>1. 1 \in Int /\ n \in Int /\ (IF 1 > n THEN 0 ELSE n - 1 + 1) = n
    OBVIOUS
  <2> QED BY <2>1, FS_Interval
<1>1. ASSUME NEW k \in 0..n
      PROVE  g[k] \in SUBSET (1..n) /\ IsFiniteSet(g[k]) /\ Cardinality(g[k]) \in Nat
  <2>1. g[k] \in SUBSET (1..n)
    BY DEF Growing
  <2> QED BY <1>0, <2>1, FS_Subset, FS_CardinalityType
<1>2. 0 \in P
  <2>1. Cardinality(g[0]) \in Nat
    BY <1>1
  <2> QED BY <2>1
<1>3. ASSUME NEW k \in 1..n, k - 1 \in P PROVE k \in P
  <2>0. k - 1 \in 0..n /\ k \in 0..n
    OBVIOUS
  <2>1. g[k] = g[k - 1] \union next[g[k - 1]]
    BY DEF Growing
  <2>2. CASE next[g[k - 1]] \subseteq g[k - 1]
    <3>1. g[k] = g[k - 1]
      BY <2>1, <2>2
    <3> QED BY <2>0, <2>2, <3>1, Zenon
  <2>3. CASE ~(next[g[k - 1]] \subseteq g[k - 1])
    <3>1. Cardinality(g[k - 1]) >= k - 1
      BY <1>3, <2>3
    <3>2. g[k - 1] \in SUBSET g[k] /\ g[k - 1] # g[k]
      BY <2>1, <2>3
    <3>3. IsFiniteSet(g[k]) /\ Cardinality(g[k]) \in Nat /\ Cardinality(g[k - 1]) \in Nat
      BY <1>1, <2>0
    <3>4. /\ Cardinality(g[k - 1]) <= Cardinality(g[k])
          /\ Cardinality(g[k]) = Cardinality(g[k - 1]) => g[k] = g[k - 1]
      BY <3>2, <3>3, FS_Subset
    <3>5. Cardinality(g[k]) >= k
      BY <3>1, <3>2, <3>3, <3>4
    <3> QED BY <2>0, <3>5
  <2> QED BY <2>2, <2>3
<1>4. n \in P
  <2> HIDE DEF P
  <2> QED BY <1>2, <1>3, IntervalInduction
<1>5. CASE Cardinality(g[n]) >= n
  <2>1. g[n] \in SUBSET (1..n) /\ Cardinality(g[n]) \in Nat
    BY <1>1
  <2>2. Cardinality(g[n]) <= Cardinality(1..n) /\ (Cardinality(1..n) = Cardinality(g[n]) => g[n] = 1..n)
    BY <1>0, <2>1, FS_Subset
  <2>3. g[n] = 1..n
    BY <1>0, <1>5, <2>1, <2>2
  <2> QED BY <2>1, <2>3
<1> QED BY <1>4, <1>5

(* ... and are within every closed set that holds what they began with.    *)
LEMMA GrowingLeast ==
  ASSUME NEW n \in Nat, NEW base, NEW next, NEW g \in Growing(n, base, next),
         NEW T, base \subseteq T, \A S \in SUBSET (1..n) : S \subseteq T => next[S] \subseteq T
  PROVE  g[n] \subseteq T
<1> DEFINE P == {k \in 0..n : g[k] \subseteq T}
<1>1. 0 \in P
  BY DEF Growing
<1>2. ASSUME NEW k \in 1..n, k - 1 \in P PROVE k \in P
  <2>1. /\ k \in 0..n /\ g[k - 1] \subseteq T /\ g[k - 1] \in SUBSET (1..n)
        /\ g[k] = g[k - 1] \union next[g[k - 1]]
    BY <1>2 DEF Growing
  <2> QED BY <2>1
<1>3. n \in P
  <2> HIDE DEF P
  <2> QED BY <1>1, <1>2, IntervalInduction
<1> QED BY <1>3

Distinct(s) == \A i, j \in DOMAIN s : s[i] = s[j] => i = j
Elems(s) == {s[i] : i \in DOMAIN s}

(* A queue that holds nothing twice is as long as the set of its elements. *)
LEMMA DistinctLength ==
  ASSUME NEW S, NEW u \in Seq(S), Distinct(u)
  PROVE  IsFiniteSet(Elems(u)) /\ Cardinality(Elems(u)) = Len(u)
<1>1. DOMAIN u = 1..Len(u) /\ Len(u) \in Nat /\ u = [i \in DOMAIN u |-> u[i]]
  OBVIOUS
<1>2. u \in Bijection(1..Len(u), Elems(u))
  BY <1>1 DEF Bijection, Injection, Surjection, IsInjective, Distinct, Elems
<1>3. IsFiniteSet(1..Len(u)) /\ Cardinality(1..Len(u)) = Len(u)
  <2>1. 1 \in Int /\ Len(u) \in Int /\ (IF 1 > Len(u) THEN 0 ELSE Len(u) - 1 + 1) = Len(u)
    BY <1>1
  <2> QED BY <2>1, FS_Interval
<1> QED BY <1>2, <1>3, FS_Bijection DEF ExistsBijection

(* Sequences with the same elements, none of them twice, are as long.      *)
LEMMA SameLength ==
  ASSUME NEW S, NEW s \in Seq(S), NEW t \in Seq(S), Distinct(s), Distinct(t), Elems(s) = Elems(t)
  PROVE  Len(s) = Len(t)
BY DistinctLength

(* A sequence without repetition is its head and a tail that lacks it.     *)
LEMMA HeadTail ==
  ASSUME NEW S, NEW s \in Seq(S), s # << >>, Distinct(s)
  PROVE  /\ Head(s) \in S /\ Tail(s) \in Seq(S) /\ Distinct(Tail(s))
         /\ Elems(s) = Elems(Tail(s)) \union {Head(s)}
         /\ Head(s) \notin Elems(Tail(s))
<1>1. /\ Head(s) = s[1] /\ Tail(s) \in Seq(S) /\ Len(s) \in Nat \ {0} /\ Len(Tail(s)) = Len(s) - 1
      /\ \A i \in 1..Len(s) - 1 : Tail(s)[i] = s[i + 1]
      /\ DOMAIN s = 1..Len(s) /\ DOMAIN Tail(s) = 1..Len(s) - 1 /\ s[1] \in S
  <2>1. Len(s) \in Nat /\ DOMAIN s = 1..Len(s) /\ Len(s) # 0
    OBVIOUS
  <2>2. Tail(s) \in Seq(S) /\ Len(Tail(s)) = Len(s) - 1
    BY <2>1, HeadTailProperties
  <2>3. DOMAIN Tail(s) = 1..Len(s) - 1
    BY <2>2
  <2>4. \A i \in 1..Len(s) - 1 : Tail(s)[i] = s[i + 1]
    BY <2>2, HeadTailProperties
  <2>5. Head(s) = s[1] /\ s[1] \in S
    BY <2>1
  <2> QED BY <2>1, <2>2, <2>3, <2>4, <2>5
<1>2. Distinct(Tail(s))
  BY <1>1 DEF Distinct
<1>3. Head(s) \notin Elems(Tail(s))
  BY <1>1 DEF Distinct, Elems
<1>4. \A i \in 1..Len(s) : i = 1 \/ (i - 1 \in 1..Len(s) - 1 /\ s[i] = Tail(s)[i - 1])
  BY <1>1
<1>5. Elems(s) \subseteq Elems(Tail(s)) \union {Head(s)}
  <2> SUFFICES ASSUME NEW i \in 1..Len(s) PROVE s[i] \in Elems(Tail(s)) \union {Head(s)}
    BY <1>1 DEF Elems
  <2>1. CASE i = 1
    BY <2>1, <1>1
  <2>2. CASE i - 1 \in 1..Len(s) - 1 /\ s[i] = Tail(s)[i - 1]
    BY <2>2, <1>1 DEF Elems
  <2> QED BY <2>1, <2>2, <1>4
<1>6. Elems(Tail(s)) \subseteq Elems(s) /\ Head(s) \in Elems(s)
  BY <1>1 DEF Elems
<1> QED BY <1>1, <1>2, <1>3, <1>5, <1>6

(* A new element can be appended to a sequence without repetition.         *)
LEMMA Appended ==
  ASSUME NEW S, NEW s \in Seq(S), NEW e \in S, Distinct(s), e \notin Elems(s)
  PROVE  /\ Append(s, e) \in Seq(S) /\ Distinct(Append(s, e))
         /\ Elems(Append(s, e)) = Elems(s) \union {e}
<1>1. /\ Append(s, e) \in Seq(S) /\ Len(Append(s, e)) = Len(s) + 1 /\ Len(s) \in Nat
      /\ DOMAIN s = 1..Len(s) /\ DOMAIN Append(s, e) = 1..Len(s) + 1
      /\ Append(s, e)[Len(s) + 1] = e
      /\ \A i \in 1..Len(s) : Append(s, e)[i] = s[i]
  OBVIOUS
<1>2. \A i \in DOMAIN s : s[i] # e
  BY DEF Elems
<1>3. Distinct(Append(s, e))
  BY <1>1, <1>2 DEF Distinct
<1>4. Elems(Append(s, e)) = Elems(s) \union {e}
  BY <1>1 DEF Elems
<1> QED BY <1>1, <1>3, <1>4

-----------------------------------------------------------------------------
(* Sequences                                                               *)

(* Induction over sequences.                                               *)
LEMMA SeqSetInduction ==
  ASSUME NEW S, NEW P, <<>> \in P, \A s \in Seq(S), e \in S : s \in P => Append(s, e) \in P
  PROVE  Seq(S) \subseteq P
<1> DEFINE Q == {n \in Nat : \A s \in Seq(S) : Len(s) = n => s \in P}
<1>1. 0 \in Q
  <2> SUFFICES ASSUME NEW s \in Seq(S), Len(s) = 0 PROVE s \in P
    OBVIOUS
  <2>1. s = <<>>
    BY EmptySeq
  <2> QED BY <2>1
<1>2. ASSUME NEW n \in Nat, n \in Q PROVE n + 1 \in Q
  <2> SUFFICES ASSUME NEW s \in Seq(S), Len(s) = n + 1 PROVE s \in P
    OBVIOUS
  <2>1. s # <<>>
    BY EmptySeq
  <2>2. PICK t \in Seq(S), e \in S : s = Append(t, e)
    BY <2>1, SequenceEmptyOrAppend
  <2>3. Len(t) = n
    BY <2>2, AppendProperties, LenProperties
  <2> QED BY <1>2, <2>2, <2>3
<1>3. Nat \subseteq Q
  <2> HIDE DEF Q
  <2> QED BY <1>1, <1>2, NatSetInduction
<1> SUFFICES ASSUME NEW s \in Seq(S) PROVE s \in P
  OBVIOUS
<1>4. Len(s) \in Q
  <2> HIDE DEF Q
  <2> QED BY <1>3, LenProperties
<1> QED BY <1>4

(* What FlattenSeq computes, element by element.                           *)
Partials(S, ss) ==
  {g \in [0..Len(ss) -> Seq(S)] : g[0] = <<>> /\ \A k \in 1..Len(ss) : g[k] = g[k - 1] \o ss[k]}

(* A sequence of sequences can be put together one after the other.        *)
LEMMA PartialsExist ==
  ASSUME NEW S, NEW ss \in Seq(Seq(S))
  PROVE  \E g \in Partials(S, ss) : TRUE
<1> DEFINE n == Len(ss)
           step == [p \in Seq(S) \X (1..n) |-> p[1] \o ss[p[2]]]
<1>1. n \in Nat /\ <<>> \in Seq(S)
  BY LenProperties, EmptySeq
<1>2. step \in [Seq(S) \X (1..n) -> Seq(S)]
  <2> SUFFICES ASSUME NEW p \in Seq(S) \X (1..n) PROVE p[1] \o ss[p[2]] \in Seq(S)
    OBVIOUS
  <2>1. p[1] \in Seq(S) /\ ss[p[2]] \in Seq(S)
    BY ElementOfSeq
  <2> QED BY <2>1, ConcatProperties
<1>3. Iterations(n, Seq(S), <<>>, step) # {}
  <2> HIDE DEF n, step
  <2> QED BY <1>1, <1>2, IterationExists
<1>4. PICK g \in Iterations(n, Seq(S), <<>>, step) : TRUE
  BY <1>3
<1>5. ASSUME NEW k \in 1..n PROVE g[k] = g[k - 1] \o ss[k]
  <2>0. k - 1 \in 0..n
    BY <1>1
  <2>1. g[k - 1] \in Seq(S) /\ g[k] = step[<<g[k - 1], k>>]
    <3> HIDE DEF step, n
    <3> QED BY <1>4, <2>0 DEF Iterations
  <2>2. <<g[k - 1], k>> \in Seq(S) \X (1..n)
    BY <2>1
  <2>3. step[<<g[k - 1], k>>] = g[k - 1] \o ss[k]
    BY <2>2
  <2> QED BY <2>1, <2>3
<1> QED BY <1>4, <1>5 DEF Partials, Iterations

(* That is what FlattenSeq does.                                           *)
LEMMA FlattenIs ==
  ASSUME NEW S, NEW ss \in Seq(Seq(S)), NEW g \in Partials(S, ss)
  PROVE  FlattenSeq(ss) = g[Len(ss)] /\ FlattenSeq(ss) \in Seq(S)
<1> DEFINE n == Len(ss)
<1>0. /\ n \in Nat /\ g \in [0..n -> Seq(S)] /\ g[0] = <<>>
      /\ \A k \in 1..n : g[k] = g[k - 1] \o ss[k]
  BY LenProperties DEF Partials
<1>1. CASE n = 0
  <2>1. ss = <<>>
    BY <1>1, EmptySeq
  <2> QED BY <1>0, <1>1, <2>1 DEF FlattenSeq
<1>2. CASE n # 0
  <2> DEFINE Step(f) == [i \in 1..n |-> IF i = 1 THEN ss[i] ELSE f[i - 1] \o ss[i]]
             F == CHOOSE f : f = Step(f)
             h == [i \in 1..n |-> g[i]]
  <2>1. FlattenSeq(ss) = F[n]
    BY <1>0, <1>2 DEF FlattenSeq
  <2>2. h = Step(h)
    <3> SUFFICES ASSUME NEW i \in 1..n PROVE h[i] = IF i = 1 THEN ss[i] ELSE h[i - 1] \o ss[i]
      OBVIOUS
    <3>1. CASE i = 1
      <4>0. ss[i] \in Seq(S)
        BY ElementOfSeq
      <4>1. i - 1 = 0
        BY <3>1
      <4>2. h[i] = g[0] \o ss[i]
        BY <1>0, <4>1
      <4>3. g[0] \o ss[i] = ss[i]
        BY <1>0, <4>0, ConcatEmptySeq
      <4>4. h[i] = ss[i]
        BY <4>2, <4>3, Zenon
      <4> QED BY <3>1, <4>4
    <3>2. CASE i # 1
      <4>1. i - 1 \in 1..n
        BY <1>0, <3>2
      <4> QED BY <1>0, <3>2, <4>1
    <3> QED BY <3>1, <3>2
  <2>3. F = Step(F)
    <3> HIDE DEF h, Step
    <3> QED BY <2>2
  <2> HIDE DEF F
  <2> DEFINE P == {i \in 0..n : i = 0 \/ F[i] = g[i]}
  <2>4. 0 \in P
    BY <1>0
  <2>5. ASSUME NEW k \in 1..n, k - 1 \in P PROVE k \in P
    <3>1. F[k] = IF k = 1 THEN ss[k] ELSE F[k - 1] \o ss[k]
      BY <2>3
    <3>2. h[k] = IF k = 1 THEN ss[k] ELSE h[k - 1] \o ss[k]
      BY <2>2
    <3>3. CASE k = 1
      BY <3>1, <3>2, <3>3
    <3>4. CASE k # 1
      <4>1. k - 1 \in 1..n /\ F[k - 1] = g[k - 1]
        BY <1>0, <2>5, <3>4
      <4>2. F[k] = F[k - 1] \o ss[k] /\ g[k] = g[k - 1] \o ss[k]
        BY <1>0, <3>1, <3>4
      <4>3. F[k] = g[k]
        BY <4>1, <4>2, Zenon
      <4> QED BY <1>0, <4>3
    <3> QED BY <3>3, <3>4
  <2>6. n \in P
    <3> HIDE DEF P
    <3>1. 0..n \subseteq P
      BY <1>0, <2>4, <2>5, IntervalInduction
    <3> QED BY <1>0, <3>1
  <2>7. F[n] = g[n] /\ g[n] \in Seq(S)
    BY <1>0, <1>2, <2>6
  <2> QED BY <2>1, <2>7
<1> QED BY <1>1, <1>2

(* Of no sequences, ...                                                    *)
LEMMA FlattenEmpty == FlattenSeq(<<>>) = <<>>
BY DEF FlattenSeq

(* ... its elements, ...                                                   *)
LEMMA FlattenType ==
  ASSUME NEW S, NEW ss \in Seq(Seq(S))
  PROVE  FlattenSeq(ss) \in Seq(S)
BY PartialsExist, FlattenIs

(* ... of one sequence more, ...                                           *)
LEMMA FlattenAppend ==
  ASSUME NEW S, NEW ss \in Seq(Seq(S)), NEW t \in Seq(S)
  PROVE  FlattenSeq(Append(ss, t)) = FlattenSeq(ss) \o t
<1> DEFINE tt == Append(ss, t)
<1>1. /\ tt \in Seq(Seq(S)) /\ Len(ss) \in Nat /\ Len(tt) = Len(ss) + 1
      /\ tt[Len(ss) + 1] = t /\ \A i \in 1..Len(ss) : tt[i] = ss[i]
  BY AppendProperties, LenProperties
<1> HIDE DEF tt
<1>2. PICK g \in Partials(S, tt) : TRUE
  BY <1>1, PartialsExist
<1> DEFINE h == [k \in 0..Len(ss) |-> g[k]]
<1>3. g \in [0..(Len(ss) + 1) -> Seq(S)] /\ g[0] = <<>> /\ \A k \in 1..(Len(ss) + 1) : g[k] = g[k - 1] \o tt[k]
  BY <1>1, <1>2 DEF Partials
<1>4. h \in Partials(S, ss)
  <2>1. h \in [0..Len(ss) -> Seq(S)] /\ h[0] = <<>>
    BY <1>1, <1>3
  <2>2. ASSUME NEW k \in 1..Len(ss) PROVE h[k] = h[k - 1] \o ss[k]
    <3>1. k \in 1..(Len(ss) + 1) /\ k \in 0..Len(ss) /\ k - 1 \in 0..Len(ss)
      BY <1>1
    <3>2. h[k] = g[k] /\ h[k - 1] = g[k - 1] /\ tt[k] = ss[k]
      BY <1>1, <3>1
    <3>3. g[k] = g[k - 1] \o tt[k]
      BY <1>3, <3>1
    <3> HIDE DEF h
    <3> QED BY <3>2, <3>3, Zenon
  <2> QED BY <2>1, <2>2 DEF Partials
<1>5. FlattenSeq(tt) = g[Len(ss) + 1] /\ FlattenSeq(ss) = h[Len(ss)]
  <2> HIDE DEF h
  <2> QED BY <1>1, <1>2, <1>4, FlattenIs
<1>6. g[Len(ss) + 1] = g[Len(ss)] \o t /\ h[Len(ss)] = g[Len(ss)]
  <2>1. Len(ss) + 1 \in 1..(Len(ss) + 1) /\ (Len(ss) + 1) - 1 = Len(ss) /\ Len(ss) \in 0..Len(ss)
    BY <1>1
  <2>2. g[Len(ss) + 1] = g[(Len(ss) + 1) - 1] \o tt[Len(ss) + 1]
    BY <1>3, <2>1
  <2>3. h[Len(ss)] = g[Len(ss)]
    BY <2>1
  <2> QED BY <1>1, <2>1, <2>2, <2>3
<1> QED BY <1>5, <1>6 DEF tt

(* ... of a single one, ...                                                *)
LEMMA FlattenOne ==
  ASSUME NEW S, NEW t \in Seq(S)
  PROVE  FlattenSeq(<<t>>) = t
<1>1. <<>> \in Seq(Seq(S)) /\ Append(<<>>, t) = <<t>>
  BY EmptySeq
<1>2. FlattenSeq(<<t>>) = FlattenSeq(<<>>) \o t
  BY <1>1, FlattenAppend
<1> QED BY <1>2, FlattenEmpty, ConcatEmptySeq

(* ... and of two lists of sequences.                                      *)
LEMMA FlattenConcat ==
  ASSUME NEW S, NEW ss \in Seq(Seq(S)), NEW tt \in Seq(Seq(S))
  PROVE  FlattenSeq(ss \o tt) = FlattenSeq(ss) \o FlattenSeq(tt)
<1> DEFINE P == {uu \in Seq(Seq(S)) : FlattenSeq(ss \o uu) = FlattenSeq(ss) \o FlattenSeq(uu)}
<1>1. <<>> \in P
  <2>1. ss \o <<>> = ss /\ <<>> \in Seq(Seq(S))
    BY ConcatEmptySeq, EmptySeq
  <2>2. FlattenSeq(ss) \o <<>> = FlattenSeq(ss)
    BY FlattenType, ConcatEmptySeq
  <2> QED BY <2>1, <2>2, FlattenEmpty
<1>2. ASSUME NEW uu \in Seq(Seq(S)), NEW t \in Seq(S), uu \in P PROVE Append(uu, t) \in P
  <2>1. ss \o uu \in Seq(Seq(S)) /\ Append(uu, t) \in Seq(Seq(S))
    BY ConcatProperties, AppendProperties
  <2>2. ss \o Append(uu, t) = Append(ss \o uu, t)
    <3>1. <<t>> \in Seq(Seq(S)) /\ Append(uu, t) = uu \o <<t>> /\ Append(ss \o uu, t) = (ss \o uu) \o <<t>>
      <4>1. <<t>> \in Seq(Seq(S))
        OBVIOUS
      <4>2. Append(uu, t) = uu \o <<t>> /\ Append(ss \o uu, t) = (ss \o uu) \o <<t>>
        BY <2>1, AppendIsConcat
      <4> QED BY <4>1, <4>2
    <3> QED BY <3>1, ConcatAssociative
  <2>3. FlattenSeq(Append(ss \o uu, t)) = FlattenSeq(ss \o uu) \o t
    BY <2>1, FlattenAppend
  <2>4. FlattenSeq(Append(uu, t)) = FlattenSeq(uu) \o t
    BY FlattenAppend
  <2>5. (FlattenSeq(ss) \o FlattenSeq(uu)) \o t = FlattenSeq(ss) \o (FlattenSeq(uu) \o t)
    <3>1. FlattenSeq(ss) \in Seq(S) /\ FlattenSeq(uu) \in Seq(S)
      BY FlattenType
    <3> QED BY <3>1, ConcatAssociative
  <2>6. FlattenSeq(ss \o uu) = FlattenSeq(ss) \o FlattenSeq(uu)
    BY <1>2
  <2>7. FlattenSeq(ss \o Append(uu, t)) = FlattenSeq(ss) \o FlattenSeq(Append(uu, t))
    BY <2>2, <2>3, <2>4, <2>5, <2>6
  <2> QED BY <2>1, <2>7
<1>3. tt \in P
  <2> HIDE DEF P
  <2> QED BY <1>1, <1>2, SeqSetInduction
<1> QED BY <1>3

(* A sequence ends with its last element.                                  *)
LEMMA FrontLast ==
  ASSUME NEW S, NEW c \in Seq(S), c # <<>>
  PROVE  /\ Front(c) \in Seq(S) /\ Last(c) \in S /\ c = Append(Front(c), Last(c))
         /\ Len(Front(c)) = Len(c) - 1 /\ Len(c) \in Nat \ {0}
         /\ \A i \in 1..Len(c) - 1 : Front(c)[i] = c[i]
<1>1. PICK s \in Seq(S), e \in S : c = Append(s, e)
  BY SequenceEmptyOrAppend
<1>2. /\ Len(c) = Len(s) + 1 /\ Len(s) \in Nat /\ c[Len(s) + 1] = e
      /\ \A i \in 1..Len(s) : c[i] = s[i]
  BY <1>1, AppendProperties, LenProperties
<1>3. Len(c) - 1 = Len(s)
  BY <1>2
<1>4. Last(c) = e
  BY <1>2, Zenon DEF Last
<1>5. Front(c) = s
  <2>1. Front(c) = SubSeq(c, 1, Len(s))
    BY <1>3, Zenon DEF Front
  <2>2. 1 \in Int /\ Len(s) \in Int /\ (\A i \in 1..Len(s) : c[i] \in S)
    BY <1>2, ElementOfSeq
  <2>3. /\ SubSeq(c, 1, Len(s)) \in Seq(S)
        /\ Len(SubSeq(c, 1, Len(s))) = IF 1 <= Len(s) THEN Len(s) - 1 + 1 ELSE 0
        /\ \A i \in 1..Len(s) - 1 + 1 : SubSeq(c, 1, Len(s))[i] = c[1 + i - 1]
    BY <2>2, SubSeqProperties
  <2>4. \A n \in Nat : (IF 1 <= n THEN n - 1 + 1 ELSE 0) = n
    OBVIOUS
  <2>5. Len(SubSeq(c, 1, Len(s))) = Len(s)
    BY <1>2, <2>3, <2>4
  <2>6. ASSUME NEW i \in 1..Len(s) PROVE SubSeq(c, 1, Len(s))[i] = s[i]
    <3>1. i \in 1..Len(s) - 1 + 1 /\ 1 + i - 1 = i
      BY <1>2
    <3> QED BY <1>2, <2>3, <3>1
  <2> QED BY <2>1, <2>3, <2>5, <2>6, SeqEqual
<1> QED BY <1>1, <1>2, <1>3, <1>4, <1>5

(* The text of chunks ends with the last of them.                          *)
LEMMA FlattenFront ==
  ASSUME NEW S, NEW c \in Seq(Seq(S)), c # <<>>
  PROVE  FlattenSeq(c) = FlattenSeq(Front(c)) \o Last(c) /\ Front(c) \in Seq(Seq(S)) /\ Last(c) \in Seq(S)
<1>1. Front(c) \in Seq(Seq(S)) /\ Last(c) \in Seq(S) /\ c = Append(Front(c), Last(c))
  BY FrontLast
<1>2. FlattenSeq(Append(Front(c), Last(c))) = FlattenSeq(Front(c)) \o Last(c)
  BY <1>1, FlattenAppend
<1> QED BY <1>1, <1>2

(* The elements of two sequences, ...                                      *)
LEMMA ConcatElems ==
  ASSUME NEW S, NEW s \in Seq(S), NEW t \in Seq(S)
  PROVE  s \o t \in Seq(S) /\ Elems(s \o t) = Elems(s) \union Elems(t)
<1>1. /\ s \o t \in Seq(S) /\ Len(s \o t) = Len(s) + Len(t) /\ Len(s) \in Nat /\ Len(t) \in Nat
      /\ \A i \in 1..Len(s) + Len(t) : (s \o t)[i] = IF i <= Len(s) THEN s[i] ELSE t[i - Len(s)]
      /\ DOMAIN s = 1..Len(s) /\ DOMAIN t = 1..Len(t) /\ DOMAIN (s \o t) = 1..Len(s) + Len(t)
  <2>1. s \o t \in Seq(S) /\ Len(s \o t) = Len(s) + Len(t)
    BY ConcatProperties
  <2>2. DOMAIN (s \o t) = 1..Len(s \o t)
    BY <2>1, LenProperties
  <2> QED BY <2>1, <2>2, ConcatProperties, LenProperties
<1> PICK u : u = s \o t
  OBVIOUS
<1>2. ASSUME NEW e \in Elems(u) PROVE e \in Elems(s) \union Elems(t)
  <2>1. PICK i \in 1..Len(s) + Len(t) : e = u[i]
    BY <1>1 DEF Elems
  <2>2. CASE i <= Len(s)
    BY <1>1, <2>1, <2>2 DEF Elems
  <2>3. CASE ~(i <= Len(s))
    <3>1. e = t[i - Len(s)] /\ i - Len(s) \in 1..Len(t)
      BY <1>1, <2>1, <2>3
    <3> QED BY <1>1, <3>1 DEF Elems
  <2> QED BY <2>2, <2>3
<1>3. ASSUME NEW e \in Elems(s) PROVE e \in Elems(u)
  <2>1. PICK i \in 1..Len(s) : e = s[i]
    BY <1>1 DEF Elems
  <2>2. e = u[i] /\ i \in 1..Len(s) + Len(t)
    BY <1>1, <2>1
  <2> QED BY <1>1, <2>2 DEF Elems
<1>4. ASSUME NEW e \in Elems(t) PROVE e \in Elems(u)
  <2>1. PICK i \in 1..Len(t) : e = t[i]
    BY <1>1 DEF Elems
  <2> PICK j : j = Len(s) + i
    OBVIOUS
  <2>2. j \in 1..Len(s) + Len(t) /\ ~(j <= Len(s)) /\ j - Len(s) = i
    BY <1>1
  <2>3. e = u[j]
    BY <1>1, <2>1, <2>2
  <2> QED BY <1>1, <2>2, <2>3 DEF Elems
<1> QED BY <1>1, <1>2, <1>3, <1>4

(* ... whether they are distinct, ...                                      *)
LEMMA ConcatDistinct ==
  ASSUME NEW S, NEW s \in Seq(S), NEW t \in Seq(S)
  PROVE  Distinct(s \o t) <=> Distinct(s) /\ Distinct(t) /\ Elems(s) \intersect Elems(t) = {}
<1>1. /\ s \o t \in Seq(S) /\ Len(s) \in Nat /\ Len(t) \in Nat
      /\ \A i \in 1..Len(s) + Len(t) : (s \o t)[i] = IF i <= Len(s) THEN s[i] ELSE t[i - Len(s)]
      /\ DOMAIN s = 1..Len(s) /\ DOMAIN t = 1..Len(t) /\ DOMAIN (s \o t) = 1..Len(s) + Len(t)
  <2>1. s \o t \in Seq(S) /\ Len(s \o t) = Len(s) + Len(t)
    BY ConcatProperties
  <2>2. DOMAIN (s \o t) = 1..Len(s \o t)
    BY <2>1, LenProperties
  <2> QED BY <2>1, <2>2, ConcatProperties, LenProperties
<1> PICK u : u = s \o t
  OBVIOUS
<1>2. /\ \A i \in 1..Len(s) : i \in 1..Len(s) + Len(t) /\ u[i] = s[i]
      /\ \A i \in 1..Len(t) : Len(s) + i \in 1..Len(s) + Len(t) /\ u[Len(s) + i] = t[i]
  <2>1. ASSUME NEW i \in 1..Len(s) PROVE i \in 1..Len(s) + Len(t) /\ u[i] = s[i]
    BY <1>1
  <2>2. ASSUME NEW i \in 1..Len(t) PROVE Len(s) + i \in 1..Len(s) + Len(t) /\ u[Len(s) + i] = t[i]
    <3>1. Len(s) + i \in 1..Len(s) + Len(t) /\ ~(Len(s) + i <= Len(s)) /\ (Len(s) + i) - Len(s) = i
      BY <1>1
    <3> QED BY <1>1, <3>1
  <2> QED BY <2>1, <2>2
<1>3. ASSUME Distinct(u) PROVE Distinct(s) /\ Distinct(t) /\ Elems(s) \intersect Elems(t) = {}
  <2>0. \A i, j \in 1..Len(s) + Len(t) : u[i] = u[j] => i = j
    BY <1>1, <1>3 DEF Distinct
  <2>1. ASSUME NEW i \in 1..Len(s), NEW j \in 1..Len(s), s[i] = s[j] PROVE i = j
    BY <1>2, <2>0, <2>1
  <2>2. ASSUME NEW i \in 1..Len(t), NEW j \in 1..Len(t), t[i] = t[j] PROVE i = j
    <3> PICK a \in 1..Len(s) + Len(t), b \in 1..Len(s) + Len(t) : a = Len(s) + i /\ b = Len(s) + j
      BY <1>2
    <3>0. u[a] = t[i] /\ u[b] = t[j]
      BY <1>2
    <3>1. a = b
      BY <2>0, <2>2, <3>0
    <3> QED BY <1>1, <3>1
  <2>3. ASSUME NEW i \in 1..Len(s), NEW j \in 1..Len(t), s[i] = t[j] PROVE FALSE
    <3>1. i = Len(s) + j
      BY <1>2, <2>0, <2>3, SMTT(30)
    <3> QED BY <1>1, <3>1
  <2> QED BY <1>1, <2>1, <2>2, <2>3 DEF Distinct, Elems
<1>4. ASSUME Distinct(s), Distinct(t), Elems(s) \intersect Elems(t) = {} PROVE Distinct(u)
  <2>1. ASSUME NEW i \in 1..Len(s) + Len(t), NEW j \in 1..Len(s) + Len(t), u[i] = u[j], i <= Len(s)
        PROVE  i = j
    <3>1. i \in 1..Len(s) /\ u[i] = s[i]
      BY <1>1, <2>1
    <3>2. CASE j <= Len(s)
      <4>1. j \in 1..Len(s) /\ u[j] = s[j]
        BY <1>1, <3>2
      <4> QED BY <1>1, <1>4, <2>1, <3>1, <4>1 DEF Distinct
    <3>3. CASE ~(j <= Len(s))
      <4>1. j - Len(s) \in 1..Len(t) /\ u[j] = t[j - Len(s)]
        BY <1>1, <3>3
      <4>2. u[i] \in Elems(s) /\ u[j] \in Elems(t)
        BY <1>1, <3>1, <4>1 DEF Elems
      <4> QED BY <1>4, <2>1, <4>2
    <3> QED BY <3>2, <3>3
  <2>2. ASSUME NEW i \in 1..Len(s) + Len(t), NEW j \in 1..Len(s) + Len(t), u[i] = u[j],
               ~(i <= Len(s)), ~(j <= Len(s))
        PROVE  i = j
    <3>1. i - Len(s) \in 1..Len(t) /\ u[i] = t[i - Len(s)] /\ j - Len(s) \in 1..Len(t) /\ u[j] = t[j - Len(s)]
      BY <1>1, <2>2
    <3>2. i - Len(s) = j - Len(s)
      BY <1>1, <1>4, <2>2, <3>1 DEF Distinct
    <3> QED BY <1>1, <3>2
  <2>3. ASSUME NEW i \in 1..Len(s) + Len(t), NEW j \in 1..Len(s) + Len(t), u[i] = u[j]
        PROVE  i = j
    BY <2>1, <2>2, <2>3
  <2> QED BY <1>1, <2>3 DEF Distinct
<1> QED BY <1>3, <1>4

(* A name for a term, which a step expands only if it needs to.           *)
Is(x, y) == x = y

(* ... of three sequences, ...                                             *)
LEMMA Assoc == \A S : \A s, t, u \in Seq(S) : s \o (t \o u) = (s \o t) \o u
BY ConcatAssociative

(* ... in the form that is cited below.                                    *)
LEMMA Concatenated ==
  \A S : \A s, t \in Seq(S) :
    /\ s \o t \in Seq(S)
    /\ Elems(s \o t) = Elems(s) \union Elems(t)
    /\ Distinct(s \o t) <=> Distinct(s) /\ Distinct(t) /\ Elems(s) \intersect Elems(t) = {}
BY ConcatElems, ConcatDistinct

(* The first of several sequences, and the others.                         *)
LEMMA FlattenHead ==
  ASSUME NEW S, NEW ss \in Seq(Seq(S)), ss # <<>>
  PROVE  /\ Head(ss) \in Seq(S) /\ Tail(ss) \in Seq(Seq(S)) /\ Len(Tail(ss)) = Len(ss) - 1 /\ Len(ss) \in Nat \ {0}
         /\ \A i \in 1..Len(ss) - 1 : Tail(ss)[i] = ss[i + 1]
         /\ Head(ss) = ss[1]
         /\ FlattenSeq(ss) = Head(ss) \o FlattenSeq(Tail(ss))
         /\ \A m \in 0..Len(ss) - 1 :
                FlattenSeq(SubSeq(ss, 1, m + 1)) = Head(ss) \o FlattenSeq(SubSeq(Tail(ss), 1, m))
<1>1. Len(ss) \in Nat \ {0} /\ 1 \in 1..Len(ss) /\ Head(ss) = ss[1]
  BY EmptySeq
<1>2. /\ Head(ss) \in Seq(S) /\ Tail(ss) \in Seq(Seq(S)) /\ Len(Tail(ss)) = Len(ss) - 1
      /\ \A i \in 1..Len(Tail(ss)) : Tail(ss)[i] = ss[i + 1]
  BY HeadTailProperties
<1> PICK h \in Seq(S) : h = Head(ss)
  BY <1>2
<1> PICK t \in Seq(Seq(S)) : t = Tail(ss)
  BY <1>2
<1>3. <<h>> \in Seq(Seq(S)) /\ FlattenSeq(<<h>>) = h
  <2>1. FlattenSeq(<<h>>) = h
    BY FlattenOne
  <2> QED BY <2>1
<1>4. ASSUME NEW m \in 0..Len(ss) - 1
      PROVE  FlattenSeq(SubSeq(ss, 1, m + 1)) = h \o FlattenSeq(SubSeq(t, 1, m))
  <2>0. m \in Int /\ m + 1 \in 1..Len(ss)
    BY <1>1
  <2>1. SubSeq(ss, 1, m + 1) = <<ss[1]>> \o SubSeq(ss, 1 + 1, m + 1)
    BY <1>1, <2>0, SubSeqRecursiveFirst
  <2>2. SubSeq(t, 1, m) \in Seq(Seq(S)) /\ Len(SubSeq(t, 1, m)) = m /\ \A i \in 1..m : SubSeq(t, 1, m)[i] = t[i]
    <3>1. \A i \in 1..m : i \in 1..Len(t)
      BY <1>1, <1>2
    <3>2. 1 \in Int /\ m \in Int /\ \A i \in 1..m : t[i] \in Seq(S)
      BY <2>0, <3>1, ElementOfSeq
    <3>3. /\ SubSeq(t, 1, m) \in Seq(Seq(S))
          /\ Len(SubSeq(t, 1, m)) = IF 1 <= m THEN m - 1 + 1 ELSE 0
          /\ \A i \in 1..m - 1 + 1 : SubSeq(t, 1, m)[i] = t[1 + i - 1]
      BY <3>2, SubSeqProperties
    <3>4. (IF 1 <= m THEN m - 1 + 1 ELSE 0) = m
      OBVIOUS
    <3>5. \A i \in 1..m : i \in 1..m - 1 + 1 /\ 1 + i - 1 = i
      OBVIOUS
    <3> QED BY <3>3, <3>4, <3>5
  <2>3. /\ SubSeq(ss, 2, m + 1) \in Seq(Seq(S)) /\ Len(SubSeq(ss, 2, m + 1)) = m
        /\ \A i \in 1..m : SubSeq(ss, 2, m + 1)[i] = ss[i + 1]
    <3>1. \A i \in 2..m + 1 : i \in 1..Len(ss)
      BY <1>1
    <3>2. 2 \in Int /\ m + 1 \in Int /\ \A i \in 2..m + 1 : ss[i] \in Seq(S)
      BY <2>0, <3>1, ElementOfSeq
    <3>3. /\ SubSeq(ss, 2, m + 1) \in Seq(Seq(S))
          /\ Len(SubSeq(ss, 2, m + 1)) = IF 2 <= m + 1 THEN (m + 1) - 2 + 1 ELSE 0
          /\ \A i \in 1..(m + 1) - 2 + 1 : SubSeq(ss, 2, m + 1)[i] = ss[2 + i - 1]
      BY <3>2, SubSeqProperties
    <3>4. (IF 2 <= m + 1 THEN (m + 1) - 2 + 1 ELSE 0) = m
      OBVIOUS
    <3>5. \A i \in 1..m : i \in 1..(m + 1) - 2 + 1 /\ 2 + i - 1 = i + 1
      OBVIOUS
    <3> QED BY <3>3, <3>4, <3>5
  <2>4. SubSeq(ss, 2, m + 1) = SubSeq(t, 1, m)
    <3>1. \A i \in 1..m : t[i] = ss[i + 1]
      BY <1>1, <1>2
    <3> QED BY <2>2, <2>3, <3>1, SeqEqual
  <2>5. SubSeq(ss, 1, m + 1) = <<h>> \o SubSeq(t, 1, m)
    BY <1>1, <2>1, <2>4
  <2>6. FlattenSeq(<<h>> \o SubSeq(t, 1, m)) = FlattenSeq(<<h>>) \o FlattenSeq(SubSeq(t, 1, m))
    BY <1>3, <2>2, FlattenConcat
  <2> QED BY <1>3, <2>5, <2>6
<1>5. FlattenSeq(ss) = h \o FlattenSeq(t)
  <2>1. Len(ss) - 1 \in 0..Len(ss) - 1 /\ (Len(ss) - 1) + 1 = Len(ss) /\ Len(t) = Len(ss) - 1
    BY <1>1, <1>2
  <2>2. SubSeq(ss, 1, Len(ss)) = ss /\ SubSeq(t, 1, Len(t)) = t
    BY SubSeqFull
  <2>3. FlattenSeq(SubSeq(ss, 1, (Len(ss) - 1) + 1)) = h \o FlattenSeq(SubSeq(t, 1, Len(ss) - 1))
    BY <1>4, <2>1
  <2> QED BY <2>1, <2>2, <2>3
<1> QED BY <1>1, <1>2, <1>4, <1>5

-----------------------------------------------------------------------------
(* Sequences and their parts                                               *)

(* Functions on an interval are sequences.                                 *)
LEMMA FunctionSeq == \A T : \A n \in Nat : \A f \in [1..n -> T] : f \in Seq(T) /\ Len(f) = n
OBVIOUS

(* The elements of two sequences in order.                                 *)
LEMMA ConcatAt ==
  \A S : \A s, t \in Seq(S) :
    /\ s \o t \in Seq(S) /\ Len(s \o t) = Len(s) + Len(t)
    /\ \A i \in 1..Len(s) + Len(t) : (s \o t)[i] = IF i <= Len(s) THEN s[i] ELSE t[i - Len(s)]
BY ConcatProperties

(* One sequence more of those at the front.                                *)
LEMMA FlattenPrefix ==
  ASSUME NEW S, NEW ss \in Seq(Seq(S)), NEW j \in 1..Len(ss)
  PROVE  /\ SubSeq(ss, 1, j) \in Seq(Seq(S)) /\ SubSeq(ss, 1, j - 1) \in Seq(Seq(S)) /\ ss[j] \in Seq(S)
         /\ FlattenSeq(SubSeq(ss, 1, j)) = FlattenSeq(SubSeq(ss, 1, j - 1)) \o ss[j]
<1>1. Len(ss) \in Nat /\ j \in Int /\ j - 1 \in Int /\ 1 \in 1..Len(ss) /\ j \in 1..Len(ss)
  BY LenProperties
<1>2. /\ \A i \in 1..j : ss[i] \in Seq(S)
      /\ \A i \in 1..j - 1 : ss[i] \in Seq(S)
  BY <1>1, ElementOfSeq
<1>3. SubSeq(ss, 1, j) \in Seq(Seq(S)) /\ SubSeq(ss, 1, j - 1) \in Seq(Seq(S)) /\ ss[j] \in Seq(S)
  BY <1>1, <1>2, SubSeqProperties, ElementOfSeq
<1>4. SubSeq(ss, 1, j) = SubSeq(ss, 1, j - 1) \o <<ss[j]>>
  <2>1. j \in 1..Len(ss)
    OBVIOUS
  <2> QED BY <1>1, SubSeqRecursiveSecond
<1>5. <<ss[j]>> \in Seq(Seq(S))
  BY <1>3
<1>6. FlattenSeq(SubSeq(ss, 1, j - 1) \o <<ss[j]>>) = FlattenSeq(SubSeq(ss, 1, j - 1)) \o FlattenSeq(<<ss[j]>>)
  BY <1>3, <1>5, FlattenConcat
<1>7. FlattenSeq(<<ss[j]>>) = ss[j]
  BY <1>3, FlattenOne
<1> QED BY <1>3, <1>4, <1>6, <1>7

(* A part of a sequence.                                                   *)
LEMMA SliceIs ==
  ASSUME NEW S, NEW s \in Seq(S), NEW m \in Nat, NEW n \in Nat, m <= n, n <= Len(s)
  PROVE  /\ SubSeq(s, m + 1, n) \in Seq(S) /\ Len(SubSeq(s, m + 1, n)) = n - m
         /\ \A j \in 1..(n - m) : SubSeq(s, m + 1, n)[j] = s[m + j]
<1>1. \A i \in (m + 1)..n : s[i] \in S
  OBVIOUS
<1>2. m + 1 \in Int /\ n \in Int /\ n - (m + 1) + 1 = n - m /\ (m + 1 <= n \/ n - m = 0)
  OBVIOUS
<1>3. \A j \in 1..(n - m) : m + 1 + j - 1 = m + j
  OBVIOUS
<1>4. /\ SubSeq(s, m + 1, n) \in Seq(S)
      /\ Len(SubSeq(s, m + 1, n)) = IF m + 1 <= n THEN n - (m + 1) + 1 ELSE 0
      /\ \A j \in 1..n - (m + 1) + 1 : SubSeq(s, m + 1, n)[j] = s[m + 1 + j - 1]
  BY <1>1, <1>2, SubSeqProperties
<1> QED BY <1>2, <1>3, <1>4

(* What is left of a sequence.                                             *)
LEMMA Rest ==
  ASSUME NEW X, NEW s \in Seq(X), NEW n \in 0..Len(s), NEW t, Is(t, SubSeq(s, n + 1, Len(s)))
  PROVE  /\ t \in Seq(X) /\ Len(t) = Len(s) - n
         /\ t = <<>> => n = Len(s)
         /\ t # <<>> => n + 1 \in 1..Len(s) /\ Head(t) = s[n + 1] /\ Tail(t) = SubSeq(s, n + 2, Len(s))
<1>1. Len(s) \in Nat /\ n \in Nat /\ n <= Len(s)
  BY LenProperties
<1>2. /\ t \in Seq(X) /\ Len(t) = Len(s) - n
      /\ \A j \in 1..(Len(s) - n) : t[j] = s[n + j]
  <2>1. /\ SubSeq(s, n + 1, Len(s)) \in Seq(X) /\ Len(SubSeq(s, n + 1, Len(s))) = Len(s) - n
        /\ \A j \in 1..(Len(s) - n) : SubSeq(s, n + 1, Len(s))[j] = s[n + j]
    BY <1>1, SliceIs
  <2> QED BY <2>1, Zenon DEF Is
<1>3. t = <<>> => n = Len(s)
  BY <1>1, <1>2
<1>4. ASSUME t # <<>> PROVE n + 1 \in 1..Len(s) /\ Head(t) = s[n + 1] /\ Tail(t) = SubSeq(s, n + 2, Len(s))
  <2>1. Len(t) \in Nat \ {0} /\ Head(t) = t[1] /\ Tail(t) \in Seq(X) /\ Len(Tail(t)) = Len(t) - 1
        /\ \A j \in 1..Len(t) - 1 : Tail(t)[j] = t[j + 1]
    BY <1>2, <1>4, HeadTailProperties, EmptySeq, LenProperties
  <2>2. n + 1 \in 1..Len(s) /\ 1 \in 1..(Len(s) - n)
    BY <1>1, <1>2, <2>1
  <2>3. Head(t) = s[n + 1]
    BY <1>2, <2>1, <2>2
  <2>4. /\ SubSeq(s, (n + 1) + 1, Len(s)) \in Seq(X) /\ Len(SubSeq(s, (n + 1) + 1, Len(s))) = Len(s) - (n + 1)
        /\ \A j \in 1..(Len(s) - (n + 1)) : SubSeq(s, (n + 1) + 1, Len(s))[j] = s[(n + 1) + j]
    BY <1>1, <2>2, SliceIs
  <2>5. PICK u : Is(u, SubSeq(s, n + 2, Len(s)))
    BY DEF Is
  <2>6. (n + 1) + 1 = n + 2
    BY <1>1
  <2>7. u \in Seq(X) /\ Len(u) = Len(s) - (n + 1) /\ \A j \in 1..(Len(s) - (n + 1)) : u[j] = s[(n + 1) + j]
    BY <2>4, <2>5, <2>6, Zenon DEF Is
  <2>8. Len(u) = Len(Tail(t))
    BY <1>1, <1>2, <2>1, <2>7
  <2>9. \A j \in 1..Len(u) : u[j] = Tail(t)[j]
    BY <1>1, <1>2, <2>1, <2>7
  <2>10. u = Tail(t)
    BY <2>1, <2>7, <2>8, <2>9, SeqEqual
  <2> QED BY <2>2, <2>3, <2>5, <2>10, Zenon DEF Is
<1> QED BY <1>2, <1>3, <1>4

(* A sequence and one value more.                                          *)
LEMMA AppendIs ==
  ASSUME NEW l \in Nat, NEW s, NEW A, s = [i \in 1..l |-> A[i]], NEW x
  PROVE  Append(s, x) = [i \in 1..(l + 1) |-> IF i = l + 1 THEN x ELSE A[i]]
<1> PICK S : S = {s[i] : i \in 1..l} \union {x}
  OBVIOUS
<1>1. s \in [1..l -> S]
  OBVIOUS
<1>2. s \in Seq(S) /\ Len(s) = l
  BY <1>1, SeqDef, LenProperties
<1>3. Append(s, x) \in Seq(S) /\ Len(Append(s, x)) = l + 1 /\ Append(s, x)[l + 1] = x
      /\ \A i \in 1..l : Append(s, x)[i] = s[i]
  BY <1>2, AppendProperties
<1>4. DOMAIN Append(s, x) = 1..(l + 1) /\ Append(s, x) = [i \in 1..(l + 1) |-> Append(s, x)[i]]
  BY <1>3, LenProperties
<1>5. \A i \in 1..(l + 1) : Append(s, x)[i] = IF i = l + 1 THEN x ELSE A[i]
  BY <1>3
<1> QED BY <1>4, <1>5

(* A sequence is its first element and the others.                         *)
LEMMA Beheaded ==
  ASSUME NEW X, NEW s \in Seq(X), s # <<>>
  PROVE  Head(s) \in X /\ Tail(s) \in Seq(X) /\ <<Head(s)>> \in Seq(X) /\ s = <<Head(s)>> \o Tail(s)
<1> PICK x, t : Is(x, Head(s)) /\ Is(t, Tail(s))
  BY DEF Is
<1>1. x \in X /\ t \in Seq(X) /\ x = s[1]
  BY HeadTailProperties DEF Is
<1>2. /\ Len(t) = Len(s) - 1 /\ Len(s) \in Nat /\ Len(s) # 0
      /\ \A i \in 1..Len(s) - 1 : t[i] = s[i + 1]
  BY HeadTailProperties, LenProperties, EmptySeq DEF Is
<1> PICK o : Is(o, <<x>>)
  BY DEF Is
<1>3. o \in Seq(X) /\ Len(o) = 1 /\ o[1] = x
  <2>1. o \in [1..1 -> X] /\ o[1] = x
    BY <1>1 DEF Is
  <2>2. o \in Seq(X)
    <3>1. 1 \in Nat
      OBVIOUS
    <3>2. o \in UNION {[1..n -> X] : n \in Nat}
      BY <2>1, <3>1
    <3> QED BY <3>2, SeqDef
  <2>3. DOMAIN o = 1..1 /\ DOMAIN o = 1..Len(o) /\ Len(o) \in Nat
    BY <2>1, <2>2, LenProperties
  <2> QED BY <2>1, <2>2, <2>3
<1> PICK u : Is(u, o \o t)
  BY DEF Is
<1>4. u \in Seq(X) /\ Len(u) = 1 + Len(t) /\ \A i \in 1..1 + Len(t) : u[i] = IF i <= 1 THEN o[i] ELSE t[i - 1]
  BY <1>1, <1>3, ConcatProperties DEF Is
<1>5. Len(u) = Len(s)
  BY <1>2, <1>4
<1>6. ASSUME NEW i \in 1..Len(s) PROVE u[i] = s[i]
  <2>1. CASE i = 1
    BY <1>1, <1>2, <1>3, <1>4, <2>1
  <2>2. CASE i # 1
    <3>1. i - 1 \in 1..Len(s) - 1 /\ (i - 1) + 1 = i
      BY <1>2, <2>2
    <3>2. t[i - 1] = s[i]
      BY <1>2, <3>1
    <3>3. u[i] = t[i - 1]
      BY <1>2, <1>4, <2>2
    <3> QED BY <3>2, <3>3
  <2> QED BY <2>1, <2>2
<1>7. u = s
  BY <1>4, <1>5, <1>6, LenProperties
<1> QED BY <1>1, <1>3, <1>7, Zenon DEF Is

(* Two elements more.                                                      *)
LEMMA TwoMore ==
  ASSUME NEW T, NEW a \in Seq(T), NEW c \in T, NEW x \in T, NEW b \in Seq(T), Len(b) = Len(a) + 2,
         \A i \in 1..Len(a) : b[i] = a[i], b[Len(a) + 1] = c, b[Len(a) + 2] = x
  PROVE  b = Append(Append(a, c), x)
<1>0. Len(a) \in Nat
  BY LenProperties
<1>1. /\ Append(a, c) \in Seq(T) /\ Len(Append(a, c)) = Len(a) + 1 /\ Append(a, c)[Len(a) + 1] = c
      /\ \A i \in 1..Len(a) : Append(a, c)[i] = a[i]
  BY AppendProperties
<1> PICK d \in Seq(T) : Is(d, Append(a, c))
  BY <1>1 DEF Is
<1>2. Len(d) = Len(a) + 1 /\ d[Len(a) + 1] = c /\ \A i \in 1..Len(a) : d[i] = a[i]
  BY <1>1 DEF Is
<1>3. /\ Append(d, x) \in Seq(T) /\ Len(Append(d, x)) = Len(d) + 1 /\ Append(d, x)[Len(d) + 1] = x
      /\ \A i \in 1..Len(d) : Append(d, x)[i] = d[i]
  BY AppendProperties
<1> PICK e \in Seq(T) : Is(e, Append(d, x))
  BY <1>3 DEF Is
<1>4. Len(e) = Len(a) + 2 /\ e[Len(a) + 2] = x /\ \A i \in 1..Len(a) + 1 : e[i] = d[i]
  <2>1. Len(e) = Len(d) + 1 /\ e[Len(d) + 1] = x /\ \A i \in 1..Len(d) : e[i] = d[i]
    BY <1>3 DEF Is
  <2>2. Len(d) + 1 = Len(a) + 2
    BY <1>0, <1>2
  <2> QED BY <1>2, <2>1, <2>2
<1>5. ASSUME NEW i \in 1..Len(b) PROVE b[i] = e[i]
  <2>1. i \in 1..Len(a) \/ i = Len(a) + 1 \/ i = Len(a) + 2
    BY <1>0
  <2>2. i \in 1..Len(a) => i \in 1..Len(a) + 1
    BY <1>0
  <2>3. Len(a) + 1 \in 1..Len(a) + 1
    BY <1>0
  <2> QED BY <1>2, <1>4, <2>1, <2>2, <2>3
<1>6. b = e
  BY <1>4, <1>5, SeqEqual
<1> QED BY <1>6 DEF Is

-----------------------------------------------------------------------------
(* Concatenation under a name of its own                                   *)

(* Concatenation, where its properties are used and its definition is not. *)
Cat(s, t) == s \o t

(* What it does to empty sequences, and its type.                          *)
LEMMA CatFacts ==
  /\ \A S : \A s, t \in Seq(S) :
        Cat(s, t) \in Seq(S) /\ Len(Cat(s, t)) = Len(s) + Len(t) /\ Elems(Cat(s, t)) = Elems(s) \union Elems(t)
  /\ \A S : \A s, t, u \in Seq(S) : Cat(s, Cat(t, u)) = Cat(Cat(s, t), u)
  /\ \A S : \A s \in Seq(S) : Cat(s, <<>>) = s /\ Cat(<<>>, s) = s
  /\ \A S : \A s \in Seq(S) : \A e \in S : Append(s, e) = Cat(s, <<e>>) /\ <<e>> \in Seq(S)
  /\ \A S : \A s, t \in Seq(S) : s # <<>> => Cat(s, t) # <<>>
<1>1. \A S : \A s, t \in Seq(S) :
        Cat(s, t) \in Seq(S) /\ Len(Cat(s, t)) = Len(s) + Len(t) /\ Elems(Cat(s, t)) = Elems(s) \union Elems(t)
  BY ConcatProperties, ConcatElems DEF Cat
<1>2. \A S : \A s, t, u \in Seq(S) : Cat(s, Cat(t, u)) = Cat(Cat(s, t), u)
  BY Assoc DEF Cat
<1>3. \A S : \A s \in Seq(S) : Cat(s, <<>>) = s /\ Cat(<<>>, s) = s
  BY ConcatEmptySeq DEF Cat
<1>4. \A S : \A s \in Seq(S) : \A e \in S : Append(s, e) = Cat(s, <<e>>) /\ <<e>> \in Seq(S)
  <2>1. \A S : \A e \in S : <<e>> \in Seq(S)
    OBVIOUS
  <2> QED BY <2>1, AppendIsConcat DEF Cat
<1>5. \A S : \A s, t \in Seq(S) : s # <<>> => Cat(s, t) # <<>>
  BY ConcatEqualIffEmpty DEF Cat
<1> QED BY <1>1, <1>2, <1>3, <1>4, <1>5

(* Concatenation: its type, ...                                            *)
LEMMA CatType ==
  ASSUME NEW S, NEW s, s \in Seq(S), NEW t, t \in Seq(S)
  PROVE  Cat(s, t) \in Seq(S) /\ Len(Cat(s, t)) = Len(s) + Len(t)
BY ConcatProperties DEF Cat

(* ... that brackets do not matter, ...                                    *)
LEMMA CatAssoc ==
  ASSUME NEW S, NEW s, s \in Seq(S), NEW t, t \in Seq(S), NEW u, u \in Seq(S)
  PROVE  Cat(s, Cat(t, u)) = Cat(Cat(s, t), u)
BY ConcatAssociative DEF Cat

(* ... not of four sequences either, ...                                   *)
LEMMA Regrouped ==
  ASSUME NEW S, NEW p, p \in Seq(S), NEW r, r \in Seq(S), NEW o, o \in Seq(S), NEW t, t \in Seq(S)
  PROVE  Cat(Cat(p, Cat(r, o)), t) = Cat(Cat(p, r), Cat(o, t))
<1>1. Cat(p, r) \in Seq(S)
  BY CatType
<1>2. Cat(p, Cat(r, o)) = Cat(Cat(p, r), o)
  BY CatAssoc
<1>3. Cat(Cat(p, r), Cat(o, t)) = Cat(Cat(Cat(p, r), o), t)
  BY <1>1, CatAssoc
<1> QED BY <1>2, <1>3, Zenon

(* ... nor empty sequences, ...                                            *)
LEMMA CatEmpty ==
  ASSUME NEW S, NEW s, s \in Seq(S)
  PROVE  Cat(s, <<>>) = s /\ Cat(<<>>, s) = s
BY ConcatEmptySeq DEF Cat

(* ... and one element more.                                               *)
LEMMA CatAppend ==
  ASSUME NEW S, NEW s, s \in Seq(S), NEW e, e \in S
  PROVE  Append(s, e) = Cat(s, <<e>>) /\ <<e>> \in Seq(S) /\ Append(s, e) \in Seq(S)
<1>1. Append(s, e) = s \o <<e>>
  BY AppendIsConcat
<1>2. <<e>> \in Seq(S) /\ Append(s, e) \in Seq(S)
  BY AppendProperties
<1> QED BY <1>1, <1>2 DEF Cat

(* Two sequences more.                                                     *)
Plus(p, c, x) == Append(Append(p, c), x)

(* What they are concatenated to.                                          *)
LEMMA FlattenTwo ==
  ASSUME NEW S, NEW p, p \in Seq(Seq(S)), NEW c, c \in Seq(S), NEW x, x \in Seq(S)
  PROVE  FlattenSeq(Plus(p, c, x)) = Cat(FlattenSeq(p), Cat(c, x))
<1>1. Append(p, c) \in Seq(Seq(S)) /\ FlattenSeq(p) \in Seq(S)
  BY AppendProperties, FlattenType
<1>2. FlattenSeq(Append(Append(p, c), x)) = FlattenSeq(Append(p, c)) \o x
  BY <1>1, FlattenAppend
<1>3. FlattenSeq(Append(p, c)) = FlattenSeq(p) \o c
  BY FlattenAppend
<1>4. FlattenSeq(p) \o (c \o x) = (FlattenSeq(p) \o c) \o x
  BY <1>1, Assoc
<1> QED BY <1>2, <1>3, <1>4, Zenon DEF Cat, Plus

-----------------------------------------------------------------------------
(* Sequences without their first element                                   *)

(* What is left of a sequence without its first element.                   *)
Body(t) == SubSeq(t, 2, Len(t))

(* What is left of one, if more follows.                                   *)
LEMMA BodyConcat ==
  ASSUME NEW S, NEW t \in Seq(S), NEW u \in Seq(S), t # <<>>
  PROVE  Body(t) \o u = Body(t \o u) /\ Body(t) \in Seq(S)
<1>1. /\ t \o u \in Seq(S) /\ Len(t \o u) = Len(t) + Len(u) /\ Len(t) \in Nat \ {0} /\ Len(u) \in Nat
      /\ \A i \in 1..Len(t) + Len(u) : (t \o u)[i] = IF i <= Len(t) THEN t[i] ELSE u[i - Len(t)]
  BY ConcatProperties, EmptySeq, LenProperties
<1>2. /\ Body(t) \in Seq(S) /\ Len(Body(t)) = Len(t) - 1
      /\ \A i \in 1..Len(t) - 1 : Body(t)[i] = t[i + 1]
  <2>1. /\ 2 \in Int /\ Len(t) \in Int /\ (\A i \in 2..Len(t) : t[i] \in S)
    BY <1>1, ElementOfSeq
  <2>2. /\ SubSeq(t, 2, Len(t)) \in Seq(S)
        /\ Len(SubSeq(t, 2, Len(t))) = IF 2 <= Len(t) THEN Len(t) - 2 + 1 ELSE 0
        /\ \A i \in 1..Len(t) - 2 + 1 : SubSeq(t, 2, Len(t))[i] = t[2 + i - 1]
    BY <2>1, SubSeqProperties
  <2> DEFINE v == SubSeq(t, 2, Len(t))
  <2>3. v = Body(t)
    BY DEF Body
  <2> HIDE DEF v
  <2>4. Len(v) = Len(t) - 1
    <3>1. Len(v) = IF 2 <= Len(t) THEN Len(t) - 2 + 1 ELSE 0
      BY <2>2, Zenon DEF v
    <3>2. Len(t) \in Nat \ {0}
      BY <1>1
    <3>3. \A n \in Nat \ {0} : (IF 2 <= n THEN n - 2 + 1 ELSE 0) = n - 1
      OBVIOUS
    <3> QED BY <3>1, <3>2, <3>3
  <2>5. ASSUME NEW i \in 1..Len(t) - 1 PROVE v[i] = t[i + 1]
    <3>1. i \in 1..Len(t) - 2 + 1 /\ 2 + i - 1 = i + 1
      BY <1>1
    <3> QED BY <2>2, <3>1 DEF v
  <2> QED BY <2>2, <2>3, <2>4, <2>5 DEF v
<1>3. /\ Body(t \o u) \in Seq(S) /\ Len(Body(t \o u)) = Len(t) + Len(u) - 1
      /\ \A i \in 1..Len(t) + Len(u) - 1 : Body(t \o u)[i] = (t \o u)[i + 1]
  <2>1. /\ 2 \in Int /\ Len(t \o u) \in Int /\ (\A i \in 2..Len(t \o u) : (t \o u)[i] \in S)
    BY <1>1, ElementOfSeq
  <2>2. /\ SubSeq(t \o u, 2, Len(t \o u)) \in Seq(S)
        /\ Len(SubSeq(t \o u, 2, Len(t \o u))) = IF 2 <= Len(t \o u) THEN Len(t \o u) - 2 + 1 ELSE 0
        /\ \A i \in 1..Len(t \o u) - 2 + 1 : SubSeq(t \o u, 2, Len(t \o u))[i] = (t \o u)[2 + i - 1]
    BY <2>1, SubSeqProperties
  <2> DEFINE v == SubSeq(t \o u, 2, Len(t \o u))
  <2>3. v = Body(t \o u)
    BY DEF Body
  <2> HIDE DEF v
  <2>4. Len(v) = Len(t) + Len(u) - 1
    BY <1>1, <2>2 DEF v
  <2>5. ASSUME NEW i \in 1..Len(t) + Len(u) - 1 PROVE v[i] = (t \o u)[i + 1]
    <3>1. i \in 1..Len(t \o u) - 2 + 1 /\ 2 + i - 1 = i + 1
      BY <1>1
    <3> QED BY <2>2, <3>1 DEF v
  <2> QED BY <2>2, <2>3, <2>4, <2>5 DEF v
<1>4. /\ Body(t) \o u \in Seq(S) /\ Len(Body(t) \o u) = Len(t) - 1 + Len(u)
      /\ \A i \in 1..(Len(t) - 1) + Len(u) :
            (Body(t) \o u)[i] = IF i <= Len(t) - 1 THEN Body(t)[i] ELSE u[i - (Len(t) - 1)]
  <2>1. /\ Body(t) \o u \in Seq(S) /\ Len(Body(t) \o u) = Len(Body(t)) + Len(u)
        /\ \A i \in 1..Len(Body(t)) + Len(u) :
             (Body(t) \o u)[i] = IF i <= Len(Body(t)) THEN Body(t)[i] ELSE u[i - Len(Body(t))]
    BY <1>2, ConcatProperties
  <2> QED BY <1>2, <2>1
<1>5. ASSUME NEW i \in 1..Len(Body(t) \o u) PROVE (Body(t) \o u)[i] = Body(t \o u)[i]
  <2>1. i \in 1..(Len(t) - 1) + Len(u) /\ i + 1 \in 1..Len(t) + Len(u)
    BY <1>1, <1>4
  <2>2. Body(t \o u)[i] = IF i + 1 <= Len(t) THEN t[i + 1] ELSE u[i + 1 - Len(t)]
    BY <1>1, <1>3, <2>1
  <2>3. CASE i <= Len(t) - 1
    BY <1>1, <1>2, <1>4, <2>1, <2>2, <2>3
  <2>4. CASE ~(i <= Len(t) - 1)
    <3>1. (Body(t) \o u)[i] = u[i - (Len(t) - 1)]
      BY <1>4, <2>1, <2>4
    <3>2. Body(t \o u)[i] = u[i + 1 - Len(t)]
      BY <1>1, <2>1, <2>2, <2>4
    <3>3. i - (Len(t) - 1) = i + 1 - Len(t)
      BY <1>1
    <3> QED BY <3>1, <3>2, <3>3
  <2> QED BY <2>3, <2>4
<1>6. Len(Body(t) \o u) = Len(Body(t \o u))
  BY <1>1, <1>3, <1>4
<1> QED BY <1>2, <1>3, <1>4, <1>5, <1>6, SeqEqual

(* Empty and short sequences.                                              *)
LEMMA EmptyFacts ==
  /\ \A s : Len(s) # 0 => s # <<>>
  /\ \A f : Append(<<>>, f) = <<f>>
  /\ \A s : Len(s) = 1 => Body(s) = <<>> /\ s # <<>>
  /\ \A s : Len(s) \in Nat /\ Len(s) >= 2 => s # <<>>
<1>1. Len(<<>>) = 0
  OBVIOUS
<1>2. \A s : Len(s) # 0 => s # <<>>
  BY <1>1, Zenon
<1>3. \A f : Append(<<>>, f) = <<f>>
  OBVIOUS
<1>4. ASSUME NEW s, Len(s) = 1 PROVE Body(s) = <<>>
  <2>1. SubSeq(s, 2, 1) = <<>>
    BY SubSeqEmpty
  <2> QED BY <1>4, <2>1, Zenon DEF Body
<1>5. ASSUME NEW s, Len(s) = 1 PROVE s # <<>>
  <2>1. 1 # 0
    OBVIOUS
  <2> QED BY <1>2, <1>5, <2>1, Zenon
<1>6. ASSUME NEW s, Len(s) \in Nat, Len(s) >= 2 PROVE s # <<>>
  <2>1. \A n \in Nat : n >= 2 => n # 0
    OBVIOUS
  <2> QED BY <1>2, <1>6, <2>1, Zenon
<1> QED BY <1>2, <1>3, <1>4, <1>5, <1>6, Zenon

(* A sequence after others: the first element of the first is cut off.     *)
LEMMA BodyMore ==
  \A T : \A b, x, t \in Seq(T) :
    /\ x # <<>> => Cat(Cat(Cat(b, Body(x)), <<>>), t) = Cat(b, Body(Cat(x, t)))
    /\ Cat(Cat(Cat(b, Body(<<>>)), <<>>), Body(t)) = Cat(b, Body(t))
    /\ Cat(Cat(Cat(b, x), <<>>), t) = Cat(b, Cat(x, t))
    /\ Cat(Cat(<<>>, b), Body(t)) = Cat(b, Body(t))
    /\ Cat(Cat(<<>>, <<>>), Body(t)) = Body(t)
<1> SUFFICES ASSUME NEW T, NEW b \in Seq(T), NEW x \in Seq(T), NEW t \in Seq(T)
             PROVE  /\ x # <<>> => Cat(Cat(Cat(b, Body(x)), <<>>), t) = Cat(b, Body(Cat(x, t)))
                    /\ Cat(Cat(Cat(b, Body(<<>>)), <<>>), Body(t)) = Cat(b, Body(t))
                    /\ Cat(Cat(Cat(b, x), <<>>), t) = Cat(b, Cat(x, t))
                    /\ Cat(Cat(<<>>, b), Body(t)) = Cat(b, Body(t))
                    /\ Cat(Cat(<<>>, <<>>), Body(t)) = Body(t)
  OBVIOUS
<1>0. /\ <<>> \in Seq(T) /\ \A s \in Seq(T) : Cat(s, <<>>) = s /\ Cat(<<>>, s) = s
      /\ \A s, u \in Seq(T) : Cat(s, u) \in Seq(T)
      /\ \A s, u, w \in Seq(T) : Cat(s, Cat(u, w)) = Cat(Cat(s, u), w)
      /\ Cat(<<>>, <<>>) = <<>>
  <2>1. <<>> \in Seq(T)
    BY EmptySeq
  <2>2. \A s \in Seq(T) : Cat(s, <<>>) = s /\ Cat(<<>>, s) = s
    BY CatFacts
  <2>3. \A s, u \in Seq(T) : Cat(s, u) \in Seq(T)
    BY CatFacts
  <2>4. \A s, u, w \in Seq(T) : Cat(s, Cat(u, w)) = Cat(Cat(s, u), w)
    BY CatFacts
  <2> QED BY <2>1, <2>2, <2>3, <2>4
<1>1. ASSUME x # <<>> PROVE Cat(Cat(Cat(b, Body(x)), <<>>), t) = Cat(b, Body(Cat(x, t)))
  <2>1. Body(x) \in Seq(T) /\ Cat(Body(x), t) = Body(Cat(x, t))
    BY <1>1, BodyConcat DEF Cat
  <2> QED BY <1>0, <2>1
<1>2. Body(<<>>) = <<>>
  BY SubSeqEmpty DEF Body
<1>3. Body(t) \in Seq(T)
  <2>1. CASE t = <<>>
    BY <1>0, <1>2, <2>1, Zenon
  <2>2. CASE t # <<>>
    BY <2>2, BodyConcat
  <2> QED BY <2>1, <2>2
<1>4. Cat(Cat(Cat(b, Body(<<>>)), <<>>), Body(t)) = Cat(b, Body(t))
  <2>1. Cat(b, <<>>) = b
    BY <1>0, Zenon
  <2> QED BY <1>2, <2>1, Zenon
<1>5. Cat(Cat(Cat(b, x), <<>>), t) = Cat(b, Cat(x, t))
  <2>1. Cat(Cat(b, x), <<>>) = Cat(b, x)
    BY <1>0, Zenon
  <2>2. Cat(b, Cat(x, t)) = Cat(Cat(b, x), t)
    BY <1>0
  <2> QED BY <2>1, <2>2, Zenon
<1>6. Cat(Cat(<<>>, b), Body(t)) = Cat(b, Body(t)) /\ Cat(Cat(<<>>, <<>>), Body(t)) = Body(t)
  BY <1>0, <1>3, Zenon
<1> QED BY <1>1, <1>4, <1>5, <1>6, Zenon

-----------------------------------------------------------------------------
(* Division                                                                *)

(* Integer division, ...                                                   *)
LEMMA DivFacts ==
  ASSUME NEW n \in Nat, NEW C \in Nat \ {0}
  PROVE  n \div C \in Nat /\ (n \div C) * C <= n /\ n < (n \div C) * C + C
OBVIOUS

(* ... and products.                                                       *)
LEMMA Multiples ==
  ASSUME NEW C \in Nat, NEW i \in Nat, NEW j \in Nat, i <= j
  PROVE  i * C \in Nat /\ j * C \in Nat /\ i * C <= j * C /\ (i + 1) * C = i * C + C
<1>1. j * C = i * C + (j - i) * C /\ (j - i) * C \in Nat
  OBVIOUS
<1> QED BY <1>1

(* Odd and even numbers.                                                   *)
LEMMA Odd == \A n \in Nat : (2 * n + 1) % 2 = 1 /\ ((2 * n + 1) + 1) \div 2 = n + 1 /\ (2 * n) % 2 = 0
OBVIOUS

(* Half of an odd number.                                                  *)
LEMMA Half ==
  \A n \in Nat : \A i \in 1..(2 * n - 1) : (i % 2 = 1 => (i + 1) \div 2 \in 1..n) /\ (i % 2 = 0 \/ i % 2 = 1)
OBVIOUS

-----------------------------------------------------------------------------
(* Ledgers                                                                 *)

(* Items of X in the order in which they are dealt with: those of P have   *)
(* been, and each of lots has several of the others.                       *)
Ledger(F, X, P, lots) ==
  /\ P \in Seq(F) /\ lots \in Seq(Seq(F))
  /\ Distinct(P \o FlattenSeq(lots)) /\ Elems(P \o FlattenSeq(lots)) = X

(* A lot of new elements is entered at the end.                            *)
LEMMA LedgerAppend ==
  ASSUME NEW F, NEW X, NEW P, NEW lots, Ledger(F, X, P, lots),
         NEW t \in Seq(F), Distinct(t), Elems(t) \intersect X = {}
  PROVE  Ledger(F, X \union Elems(t), P, Append(lots, t))
<1> PICK f : Is(f, FlattenSeq(lots))
  BY DEF Is
<1>1. P \in Seq(F) /\ lots \in Seq(Seq(F)) /\ Distinct(P \o f) /\ Elems(P \o f) = X
  BY DEF Ledger, Is
<1>2. f \in Seq(F) /\ FlattenSeq(Append(lots, t)) = f \o t /\ Append(lots, t) \in Seq(Seq(F))
  <2>1. f \in Seq(F) /\ FlattenSeq(Append(lots, t)) = f \o t
    BY <1>1, FlattenType, FlattenAppend DEF Is
  <2>2. Append(lots, t) \in Seq(Seq(F))
    BY <1>1, AppendProperties
  <2> QED BY <2>1, <2>2
<1>3. P \o (f \o t) = (P \o f) \o t /\ P \o f \in Seq(F)
  BY <1>1, <1>2, ConcatAssociative, ConcatProperties, SMTT(30)
<1> PICK z \in Seq(F) : Is(z, P \o f)
  BY <1>3 DEF Is
<1>a. Distinct(z) /\ Elems(z) = X
  BY <1>1 DEF Is
<1>4. Distinct(z \o t) /\ Elems(z \o t) = X \union Elems(t)
  BY <1>a, Concatenated
<1>5. P \o FlattenSeq(Append(lots, t)) = z \o t
  BY <1>2, <1>3 DEF Is
<1> QED BY <1>1, <1>2, <1>4, <1>5 DEF Ledger

(* The first lot leaves, to what was processed.                            *)
LEMMA LedgerHead ==
  ASSUME NEW F, NEW X, NEW P, NEW lots, Ledger(F, X, P, lots), lots # <<>>
  PROVE  /\ Ledger(F, X, P \o Head(lots), Tail(lots)) /\ Head(lots) \in Seq(F)
         /\ Len(P \o Head(lots)) = Len(P) + Len(Head(lots))
<1> PICK h, t : Is(h, Head(lots)) /\ Is(t, Tail(lots))
  BY DEF Is
<1>1. P \in Seq(F) /\ lots \in Seq(Seq(F)) /\ Distinct(P \o FlattenSeq(lots)) /\ Elems(P \o FlattenSeq(lots)) = X
  BY DEF Ledger
<1>2. h \in Seq(F) /\ t \in Seq(Seq(F)) /\ FlattenSeq(lots) = h \o FlattenSeq(t)
  BY <1>1, FlattenHead DEF Is
<1>3. FlattenSeq(t) \in Seq(F)
  BY <1>2, FlattenType
<1>4. P \o (h \o FlattenSeq(t)) = (P \o h) \o FlattenSeq(t)
  <2>1. P \in Seq(F) /\ h \in Seq(F)
    BY <1>1, <1>2
  <2>2. \A u \in Seq(F) : P \o (h \o u) = (P \o h) \o u
    BY <2>1, ConcatAssociative, SMTT(30)
  <2> QED BY <2>2, <1>3
<1>5. P \o h \in Seq(F) /\ Len(P \o h) = Len(P) + Len(h)
  BY <1>1, <1>2, ConcatProperties
<1> QED BY <1>1, <1>2, <1>4, <1>5 DEF Ledger, Is

(* No more is processed than there is; when as much is, everything is.     *)
LEMMA LedgerSize ==
  ASSUME NEW F, NEW X, NEW P, NEW lots, Ledger(F, X, P, lots)
  PROVE  /\ IsFiniteSet(X) /\ Cardinality(X) \in Nat /\ Len(P) \in Nat /\ Len(P) <= Cardinality(X)
         /\ Distinct(P) /\ X \subseteq F
         /\ Len(P) = Cardinality(X) => Elems(P) = X /\ FlattenSeq(lots) = <<>>
<1> PICK f : f = FlattenSeq(lots)
  OBVIOUS
<1>1. P \in Seq(F) /\ lots \in Seq(Seq(F)) /\ Distinct(P \o f) /\ Elems(P \o f) = X
  BY DEF Ledger
<1>2. f \in Seq(F)
  BY <1>1, FlattenType
<1>3. /\ P \o f \in Seq(F) /\ Len(P \o f) = Len(P) + Len(f) /\ Len(P) \in Nat /\ Len(f) \in Nat
      /\ Distinct(P) /\ Elems(P \o f) = Elems(P) \union Elems(f)
  BY <1>1, <1>2, ConcatProperties, LenProperties, ConcatElems, ConcatDistinct
<1> PICK z \in Seq(F) : z = P \o f
  BY <1>3
<1>4. IsFiniteSet(X) /\ Cardinality(X) = Len(z)
  BY <1>1, DistinctLength
<1>5. X \subseteq F
  BY <1>1, ElementOfSeq, LenProperties, SMTT(30) DEF Elems
<1>6. ASSUME Len(P) = Cardinality(X) PROVE Elems(P) = X /\ f = <<>>
  <2>1. Len(f) = 0
    BY <1>3, <1>4, <1>6
  <2>2. f = <<>>
    BY <1>2, <2>1, EmptySeq
  <2>3. Elems(f) = {}
    BY <2>2 DEF Elems
  <2> QED BY <1>1, <1>3, <2>2, <2>3
<1> QED BY <1>3, <1>4, <1>5, <1>6

(* What two ledgers deal with at a time: the second is never behind.       *)
Upto(P, lots, m) == Elems(P \o FlattenSeq(SubSeq(lots, 1, m)))
Ahead(P, lots, Q, marks) == \A m \in 0..Len(lots) : Upto(P, lots, m) \subseteq Upto(Q, marks, m)

(* The elements of three sequences.                                        *)
LEMMA ElemsThree ==
  \A F : \A s, t, u \in Seq(F) : Elems(s \o (t \o u)) = Elems(s \o t) \union Elems(u)
<1> SUFFICES ASSUME NEW F, NEW s \in Seq(F), NEW t \in Seq(F), NEW u \in Seq(F)
             PROVE  Elems(s \o (t \o u)) = Elems(s \o t) \union Elems(u)
  OBVIOUS
<1>1. Elems(t \o u) = Elems(t) \union Elems(u) /\ t \o u \in Seq(F)
  BY Concatenated
<1>2. Elems(s \o (t \o u)) = Elems(s) \union Elems(t \o u)
  BY <1>1, Concatenated
<1>3. Elems(s \o t) = Elems(s) \union Elems(t)
  BY Concatenated
<1> QED BY <1>1, <1>2, <1>3

(* A new lot changes nothing of what comes before it.                      *)
LEMMA UptoAppend ==
  ASSUME NEW F, NEW X, NEW P, NEW lots, Ledger(F, X, P, lots), NEW t \in Seq(F)
  PROVE  /\ \A m \in 0..Len(lots) : Upto(P, Append(lots, t), m) = Upto(P, lots, m)
         /\ Upto(P, Append(lots, t), Len(lots) + 1) = X \union Elems(t)
<1>1. P \in Seq(F) /\ lots \in Seq(Seq(F)) /\ Elems(P \o FlattenSeq(lots)) = X /\ Len(lots) \in Nat
  BY LenProperties DEF Ledger
<1> PICK u : u = Append(lots, t)
  OBVIOUS
<1>2. /\ u \in Seq(Seq(F)) /\ Len(u) = Len(lots) + 1 /\ \A i \in 1..Len(lots) : u[i] = lots[i]
  BY <1>1, AppendProperties
<1>3. ASSUME NEW m \in 0..Len(lots) PROVE SubSeq(u, 1, m) = SubSeq(lots, 1, m)
  <2>1. CASE m = 0
    BY <2>1, SubSeqEmpty
  <2>2. CASE m # 0
    <3>1. 1 \in 1..Len(lots) /\ m \in 1..Len(lots) /\ <<t>> \in Seq(Seq(F))
      BY <1>1, <2>2
    <3>2. u = lots \o <<t>>
      BY <1>1, AppendIsConcat
    <3> QED BY <1>1, <3>1, <3>2, SubSeqOfConcat1
  <2> QED BY <2>1, <2>2
<1>4. Upto(P, u, Len(lots) + 1) = X \union Elems(t)
  <2>1. SubSeq(u, 1, Len(lots) + 1) = u
    BY <1>2, SubSeqFull
  <2>2. FlattenSeq(u) = FlattenSeq(lots) \o t /\ FlattenSeq(lots) \in Seq(F)
    BY <1>1, FlattenAppend, FlattenType
  <2> PICK f \in Seq(F) : Is(f, FlattenSeq(lots))
    BY <2>2 DEF Is
  <2>3. Elems(P \o (f \o t)) = Elems(P \o f) \union Elems(t)
    BY <1>1, ElemsThree
  <2> QED BY <1>1, <2>1, <2>2, <2>3 DEF Upto, Is
<1> QED BY <1>3, <1>4 DEF Upto

(* It may be entered if the second has it, now or before.                  *)
LEMMA AheadAppend ==
  ASSUME NEW F, NEW X, NEW P, NEW lots, Ledger(F, X, P, lots), NEW t \in Seq(F),
         NEW Y, NEW Q, NEW marks, Ledger(F, Y, Q, marks), NEW s \in Seq(F),
         Len(marks) = Len(lots), Ahead(P, lots, Q, marks), X \union Elems(t) \subseteq Y \union Elems(s)
  PROVE  Ahead(P, Append(lots, t), Q, Append(marks, s))
<1>1. Len(lots) \in Nat /\ Len(Append(lots, t)) = Len(lots) + 1
  BY LenProperties, AppendProperties DEF Ledger
<1> SUFFICES ASSUME NEW m \in 0..Len(Append(lots, t))
             PROVE  Upto(P, Append(lots, t), m) \subseteq Upto(Q, Append(marks, s), m)
  BY DEF Ahead
<1>2. CASE m \in 0..Len(lots)
  <2>1. Upto(P, Append(lots, t), m) = Upto(P, lots, m)
    BY <1>2, UptoAppend
  <2>2. Upto(Q, Append(marks, s), m) = Upto(Q, marks, m)
    BY <1>2, UptoAppend
  <2> QED BY <1>2, <2>1, <2>2 DEF Ahead
<1>3. CASE m = Len(lots) + 1
  <2>1. Upto(P, Append(lots, t), m) = X \union Elems(t)
    BY <1>3, UptoAppend
  <2>2. Upto(Q, Append(marks, s), m) = Y \union Elems(s)
    BY <1>3, UptoAppend
  <2> QED BY <2>1, <2>2
<1> QED BY <1>1, <1>2, <1>3

(* Concatenation as a relation.                                            *)
JoinedTo(s, t, u) == u = s \o t
(* Whether the first lot counts as processed makes no difference, ...      *)
LEMMA UptoSplit ==
  ASSUME NEW F, NEW P, NEW h, NEW f, P \in Seq(F), h \in Seq(F), f \in Seq(F), NEW l, NEW t, NEW m, NEW n,
         JoinedTo(h, f, FlattenSeq(SubSeq(l, 1, n))), Is(f, FlattenSeq(SubSeq(t, 1, m)))
  PROVE  Upto(P \o h, t, m) = Upto(P, l, n)
<1>1. P \o (h \o f) = (P \o h) \o f
  BY Assoc
<1>2. FlattenSeq(SubSeq(l, 1, n)) = h \o f /\ FlattenSeq(SubSeq(t, 1, m)) = f
  BY Zenon DEF JoinedTo, Is
<1> QED BY <1>1, <1>2, Zenon DEF Upto

(* ... so that it may leave, ...                                           *)
LEMMA UptoHead ==
  ASSUME NEW F, NEW X, NEW P, NEW lots, Ledger(F, X, P, lots), lots # <<>>, NEW m \in 0..Len(lots) - 1
  PROVE  Upto(P \o Head(lots), Tail(lots), m) = Upto(P, lots, m + 1)
<1> PICK h, t : Is(h, Head(lots)) /\ Is(t, Tail(lots))
  BY DEF Is
<1>1. P \in Seq(F) /\ lots \in Seq(Seq(F))
  BY DEF Ledger
<1>2. /\ h \in Seq(F) /\ t \in Seq(Seq(F)) /\ Len(t) = Len(lots) - 1 /\ Len(lots) \in Nat \ {0}
      /\ FlattenSeq(SubSeq(lots, 1, m + 1)) = h \o FlattenSeq(SubSeq(t, 1, m))
  BY <1>1, FlattenHead DEF Is
<1>3. FlattenSeq(SubSeq(t, 1, m)) \in Seq(F)
  <2>1. \A i \in 1..m : i \in 1..Len(t)
    BY <1>2
  <2>2. 1 \in Int /\ m \in Int /\ \A i \in 1..m : t[i] \in Seq(F)
    BY <1>2, <2>1, ElementOfSeq
  <2>3. SubSeq(t, 1, m) \in Seq(Seq(F))
    BY <2>2, SubSeqProperties
  <2> QED BY <2>3, FlattenType
<1>4. Upto(P \o h, t, m) = Upto(P, lots, m + 1)
  <2> PICK f \in Seq(F) : Is(f, FlattenSeq(SubSeq(t, 1, m)))
    BY <1>3 DEF Is
  <2>1. h \in Seq(F) /\ P \in Seq(F)
    BY <1>1, <1>2
  <2>2. JoinedTo(h, f, FlattenSeq(SubSeq(lots, 1, m + 1)))
    <3>1. FlattenSeq(SubSeq(t, 1, m)) = f
      BY DEF Is
    <3>2. FlattenSeq(SubSeq(lots, 1, m + 1)) = h \o FlattenSeq(SubSeq(t, 1, m))
      BY <1>2
    <3> QED BY <3>1, <3>2, Zenon DEF JoinedTo
  <2> QED BY <2>1, <2>2, UptoSplit
<1> QED BY <1>4 DEF Is

(* ... from both ledgers.                                                  *)
LEMMA AheadHead ==
  ASSUME NEW F, NEW X, NEW P, NEW lots, Ledger(F, X, P, lots), lots # <<>>,
         NEW Y, NEW Q, NEW marks, Ledger(F, Y, Q, marks),
         Len(marks) = Len(lots), Ahead(P, lots, Q, marks)
  PROVE  Ahead(P \o Head(lots), Tail(lots), Q \o Head(marks), Tail(marks))
<1>1. Len(lots) \in Nat \ {0} /\ Len(Tail(lots)) = Len(lots) - 1 /\ marks # <<>>
  <2>1. lots \in Seq(Seq(F)) /\ marks \in Seq(Seq(F))
    BY DEF Ledger
  <2>2. Len(lots) \in Nat \ {0} /\ Len(Tail(lots)) = Len(lots) - 1
    BY <2>1, FlattenHead
  <2> QED BY <2>1, <2>2, EmptySeq
<1> SUFFICES ASSUME NEW m \in 0..Len(lots) - 1
             PROVE  Upto(P \o Head(lots), Tail(lots), m) \subseteq Upto(Q \o Head(marks), Tail(marks), m)
  BY <1>1 DEF Ahead
<1>2. Upto(P \o Head(lots), Tail(lots), m) = Upto(P, lots, m + 1)
  BY UptoHead
<1>3. Upto(Q \o Head(marks), Tail(marks), m) = Upto(Q, marks, m + 1)
  BY <1>1, UptoHead
<1>4. m + 1 \in 0..Len(lots)
  BY <1>1
<1> QED BY <1>2, <1>3, <1>4 DEF Ahead

(* The second has dealt with at least as much.                             *)
LEMMA AheadLength ==
  ASSUME NEW F, NEW X, NEW P, NEW lots, Ledger(F, X, P, lots),
         NEW Y, NEW Q, NEW marks, Ledger(F, Y, Q, marks), Ahead(P, lots, Q, marks)
  PROVE  Len(P) <= Len(Q)
<1>1. P \in Seq(F) /\ Q \in Seq(F) /\ Len(lots) \in Nat
  BY LenProperties DEF Ledger
<1>2. Distinct(P) /\ Distinct(Q)
  BY LedgerSize
<1>3. Upto(P, lots, 0) = Elems(P) /\ Upto(Q, marks, 0) = Elems(Q)
  <2>1. SubSeq(lots, 1, 0) = <<>> /\ SubSeq(marks, 1, 0) = <<>>
    BY SubSeqEmpty
  <2>2. P \o <<>> = P /\ Q \o <<>> = Q
    BY <1>1, ConcatEmptySeq
  <2> QED BY <2>1, <2>2, FlattenEmpty DEF Upto
<1>4. 0 \in 0..Len(lots)
  BY <1>1
<1>5. Elems(P) \subseteq Elems(Q)
  BY <1>3, <1>4 DEF Ahead
<1>6. IsFiniteSet(Elems(Q)) /\ Cardinality(Elems(P)) = Len(P) /\ Cardinality(Elems(Q)) = Len(Q)
  BY <1>1, <1>2, DistinctLength
<1> QED BY <1>5, <1>6, FS_Subset

-----------------------------------------------------------------------------
(* Pages, whose first entry has the number of all that are on it           *)

(* Entries, page by page.                                                  *)
EntriesOf(D) == [f : D, count : Nat]
PageEntries(pg) == [i \in DOMAIN pg |-> [f |-> pg[i], count |-> IF i = 1 THEN Len(pg) ELSE 0]]
PerPage(pages) == [p \in DOMAIN pages |-> PageEntries(pages[p])]

(* How many are accounted for with each entry: at least those that have    *)
(* come, for a page is counted at its first.                               *)
Cover(es, c) ==
  /\ c \in [0..Len(es) -> Nat] /\ c[0] = 0 /\ c[Len(es)] = Len(es)
  /\ \A n \in 1..Len(es) : c[n] = c[n - 1] + es[n].count
  /\ \A n \in 0..Len(es) : n <= c[n] /\ c[n] <= Len(es)

(* The first entry of a page has the number of all.                        *)
LEMMA PageEntriesAre ==
  ASSUME NEW D, NEW pg \in Seq(D)
  PROVE  /\ PageEntries(pg) \in Seq(EntriesOf(D)) /\ Len(PageEntries(pg)) = Len(pg) /\ Len(pg) \in Nat
         /\ \A i \in 1..Len(pg) : /\ PageEntries(pg)[i].f = pg[i]
                                  /\ PageEntries(pg)[i].count = IF i = 1 THEN Len(pg) ELSE 0
<1>1. DOMAIN pg = 1..Len(pg) /\ Len(pg) \in Nat
  BY LenProperties
<1>2. \A i \in 1..Len(pg) : [f |-> pg[i], count |-> IF i = 1 THEN Len(pg) ELSE 0] \in EntriesOf(D)
  BY <1>1 DEF EntriesOf
<1>3. PageEntries(pg) = [i \in 1..Len(pg) |-> [f |-> pg[i], count |-> IF i = 1 THEN Len(pg) ELSE 0]]
  BY <1>1 DEF PageEntries
<1>4. PageEntries(pg) \in [1..Len(pg) -> EntriesOf(D)]
  BY <1>2, <1>3
<1>5. \A i \in 1..Len(pg) : /\ PageEntries(pg)[i].f = pg[i]
                            /\ PageEntries(pg)[i].count = IF i = 1 THEN Len(pg) ELSE 0
  BY <1>3
<1>6. PageEntries(pg) \in Seq(EntriesOf(D)) /\ Len(PageEntries(pg)) = Len(pg)
  BY <1>1, <1>4
<1> QED BY <1>1, <1>5, <1>6

(* One page more.                                                          *)
LEMMA PerPageAppend ==
  ASSUME NEW D, NEW pages \in Seq(Seq(D)), NEW pg \in Seq(D)
  PROVE  /\ PerPage(pages) \in Seq(Seq(EntriesOf(D)))
         /\ PerPage(Append(pages, pg)) = Append(PerPage(pages), PageEntries(pg))
<1> DEFINE T == Seq(EntriesOf(D))
<1>1. ASSUME NEW ps \in Seq(Seq(D))
      PROVE  PerPage(ps) \in Seq(T) /\ Len(PerPage(ps)) = Len(ps) /\ \A i \in 1..Len(ps) : PerPage(ps)[i] = PageEntries(ps[i])
  <2>1. DOMAIN ps = 1..Len(ps) /\ Len(ps) \in Nat
    BY LenProperties
  <2>2. \A i \in 1..Len(ps) : PageEntries(ps[i]) \in T
    BY PageEntriesAre
  <2> HIDE DEF T
  <2>3. PerPage(ps) = [i \in 1..Len(ps) |-> PageEntries(ps[i])]
    BY <2>1 DEF PerPage
  <2>4. PerPage(ps) \in [1..Len(ps) -> T]
    BY <2>2, <2>3
  <2>5. \A i \in 1..Len(ps) : PerPage(ps)[i] = PageEntries(ps[i])
    BY <2>3
  <2>6. PerPage(ps) \in Seq(T) /\ Len(PerPage(ps)) = Len(ps)
    BY <2>1, <2>4, FunctionSeq, Zenon
  <2> QED BY <2>5, <2>6
<1>2. PageEntries(pg) \in T
  BY PageEntriesAre
<1> HIDE DEF T
<1>3. /\ Append(pages, pg) \in Seq(Seq(D)) /\ Len(Append(pages, pg)) = Len(pages) + 1 /\ Len(pages) \in Nat
      /\ \A i \in 1..Len(pages) : Append(pages, pg)[i] = pages[i]
      /\ Append(pages, pg)[Len(pages) + 1] = pg
  BY AppendProperties, LenProperties
<1> PICK a : Is(a, PerPage(pages))
  BY DEF Is
<1> PICK b : Is(b, PerPage(Append(pages, pg)))
  BY DEF Is
<1> PICK e : Is(e, PageEntries(pg))
  BY DEF Is
<1> PICK n \in Nat : Is(n, Len(pages))
  BY <1>3 DEF Is
<1>4. a \in Seq(T) /\ Len(a) = n /\ \A i \in 1..n : a[i] = PageEntries(pages[i])
  BY <1>1 DEF Is
<1>5. b \in Seq(T) /\ Len(b) = n + 1 /\ \A i \in 1..n : b[i] = PageEntries(pages[i])
  <2>1. /\ PerPage(Append(pages, pg)) \in Seq(T) /\ Len(PerPage(Append(pages, pg))) = Len(Append(pages, pg))
        /\ \A i \in 1..Len(Append(pages, pg)) : PerPage(Append(pages, pg))[i] = PageEntries(Append(pages, pg)[i])
    BY <1>1, <1>3
  <2>2. Len(Append(pages, pg)) = n + 1 /\ \A i \in 1..n : i \in 1..n + 1 /\ Append(pages, pg)[i] = pages[i]
    BY <1>3 DEF Is
  <2>3. b \in Seq(T) /\ Len(b) = n + 1 /\ \A i \in 1..n + 1 : b[i] = PageEntries(Append(pages, pg)[i])
    BY <2>1, <2>2, Zenon DEF Is
  <2> QED BY <2>2, <2>3, Zenon
<1>6. b[n + 1] = e
  <2>1. n + 1 \in 1..Len(Append(pages, pg)) /\ Append(pages, pg)[n + 1] = pg
    BY <1>3 DEF Is
  <2>2. PerPage(Append(pages, pg))[n + 1] = PageEntries(Append(pages, pg)[n + 1])
    BY <1>1, <1>3, <2>1
  <2> QED BY <2>1, <2>2, Zenon DEF Is
<1>7. e \in T
  BY <1>2 DEF Is
<1>8. /\ Append(a, e) \in Seq(T) /\ Len(Append(a, e)) = n + 1
      /\ \A i \in 1..n : Append(a, e)[i] = a[i]
      /\ Append(a, e)[n + 1] = e
  BY <1>4, <1>7, AppendProperties
<1>9. \A i \in 1..n + 1 : i \in 1..n \/ i = n + 1
  OBVIOUS
<1>10. ASSUME NEW i \in 1..Len(b) PROVE b[i] = Append(a, e)[i]
  <2>1. i \in 1..n \/ i = n + 1
    BY <1>5, <1>9
  <2>2. CASE i \in 1..n
    BY <1>4, <1>5, <1>8, <2>2, Zenon
  <2>3. CASE i = n + 1
    BY <1>6, <1>8, <2>3, Zenon
  <2> QED BY <2>1, <2>2, <2>3
<1>11. b = Append(a, e)
  BY <1>5, <1>8, <1>10, SeqEqual
<1>12. a \in Seq(Seq(EntriesOf(D)))
  BY <1>4 DEF T
<1> QED BY <1>11, <1>12, Zenon DEF Is

(* The entries of one page more are covered.                               *)
LEMMA CoverMore ==
  ASSUME NEW D, NEW es \in Seq(EntriesOf(D)), NEW c, Cover(es, c),
         NEW e \in Seq(EntriesOf(D)),
         \A i \in 1..Len(e) : e[i].count = IF i = 1 THEN Len(e) ELSE 0
  PROVE  \E d : Cover(es \o e, d)
<1> PICK u : Is(u, es \o e)
  BY DEF Is
<1> PICK N \in Nat : Is(N, Len(es))
  BY LenProperties DEF Is
<1> PICK L \in Nat : Is(L, Len(e))
  BY LenProperties DEF Is
<1>1. /\ u \in Seq(EntriesOf(D)) /\ Len(u) = N + L
      /\ \A i \in 1..N + L : u[i] = IF i <= N THEN es[i] ELSE e[i - N]
  <2>1. /\ es \o e \in Seq(EntriesOf(D)) /\ Len(es \o e) = Len(es) + Len(e)
        /\ \A i \in 1..Len(es) + Len(e) : (es \o e)[i] = IF i <= Len(es) THEN es[i] ELSE e[i - Len(es)]
    BY ConcatProperties
  <2> QED BY <2>1, Zenon DEF Is
<1>2. /\ c \in [0..N -> Nat] /\ c[0] = 0 /\ c[N] = N
      /\ \A n \in 1..N : c[n] = c[n - 1] + es[n].count
      /\ \A n \in 0..N : n <= c[n] /\ c[n] <= N
  BY Zenon DEF Cover, Is
<1>3. \A i \in 1..L : e[i].count = IF i = 1 THEN L ELSE 0
  BY Zenon DEF Is
<1> DEFINE d == [n \in 0..N + L |-> IF n <= N THEN c[n] ELSE N + L]
<1>4. d \in [0..N + L -> Nat] /\ d[0] = 0 /\ d[N + L] = N + L
  <2>1. CASE L = 0
    BY <1>2, <2>1
  <2>2. CASE L # 0
    BY <1>2, <2>2
  <2> QED BY <2>1, <2>2
<1>5. \A n \in 0..N : d[n] = c[n]
  OBVIOUS
<1>6. \A n \in N + 1..N + L : d[n] = N + L
  OBVIOUS
<1> HIDE DEF d
<1>7. ASSUME NEW n \in 1..N + L PROVE d[n] = d[n - 1] + u[n].count
  <2>1. CASE n <= N
    <3>1. n \in 1..N /\ n \in 0..N /\ n - 1 \in 0..N
      BY <2>1
    <3>2. u[n] = es[n]
      BY <1>1, <2>1
    <3> QED BY <1>2, <1>5, <3>1, <3>2
  <2>2. CASE n = N + 1
    <3>1. n \in N + 1..N + L /\ n - 1 = N /\ N \in 0..N /\ n - N = 1 /\ 1 \in 1..L /\ ~(n <= N)
      BY <2>2
    <3>2. u[n] = e[1]
      BY <1>1, <3>1
    <3>3. e[1].count = L
      BY <1>3, <3>1
    <3>4. d[n] = N + L /\ d[n - 1] = N
      BY <1>2, <1>5, <1>6, <3>1
    <3> QED BY <3>2, <3>3, <3>4
  <2>3. CASE n > N + 1
    <3>1. n \in N + 1..N + L /\ n - 1 \in N + 1..N + L /\ n - N # 1 /\ n - N \in 1..L /\ ~(n <= N)
      BY <2>3
    <3>2. u[n] = e[n - N]
      BY <1>1, <3>1
    <3>3. e[n - N].count = 0
      BY <1>3, <3>1
    <3> QED BY <1>6, <3>1, <3>2, <3>3
  <2> QED BY <2>1, <2>2, <2>3
<1>8. ASSUME NEW n \in 0..N + L PROVE n <= d[n] /\ d[n] <= N + L
  <2>1. n \in 0..N \/ n \in N + 1..N + L
    OBVIOUS
  <2>2. CASE n \in 0..N
    <3>1. d[n] = c[n] /\ n <= c[n] /\ c[n] <= N /\ c[n] \in Nat
      BY <1>2, <1>5, <2>2
    <3> QED BY <3>1
  <2> QED BY <1>6, <2>1, <2>2
<1>9. Cover(u, d)
  BY <1>1, <1>4, <1>7, <1>8 DEF Cover
<1> QED BY <1>9 DEF Is

-----------------------------------------------------------------------------
(* Computations that come to an end                                        *)

(* Where a computation may end that goes on from x by step.                *)
Path(X, step, n, x, z) ==
  \E g \in [0..n -> X] : g[0] = x /\ g[n] = z /\ \A i \in 1..n : g[i] = step[g[i - 1]]
Ends(X, step, T, x) == {z \in T : \E n \in Nat : Path(X, step, n, x, z)}

(* A computation that has ended stays where it is.                         *)
LEMMA PathOfEnd ==
  ASSUME NEW X, NEW step \in [X -> X], NEW x \in X, step[x] = x
  PROVE  Path(X, step, 0, x, x) /\ \A n \in Nat, z \in X : Path(X, step, n, x, z) => z = x
<1>1. Path(X, step, 0, x, x)
  <2> DEFINE g == [i \in 0..0 |-> x]
  <2>1. g \in [0..0 -> X] /\ g[0] = x /\ 1..0 = {}
    OBVIOUS
  <2> QED BY <2>1 DEF Path
<1>2. ASSUME NEW n \in Nat, NEW z \in X, Path(X, step, n, x, z) PROVE z = x
  <2>1. PICK g \in [0..n -> X] : g[0] = x /\ g[n] = z /\ \A i \in 1..n : g[i] = step[g[i - 1]]
    BY <1>2 DEF Path
  <2> DEFINE P == {i \in 0..n : g[i] = x}
  <2>2. 0 \in P
    BY <2>1
  <2>3. ASSUME NEW i \in 0..n - 1, i \in P PROVE i + 1 \in P
    <3>1. i + 1 \in 1..n /\ (i + 1) - 1 = i
      OBVIOUS
    <3> QED BY <2>1, <2>3, <3>1
  <2>4. \A i \in 0..n : i \in P
    <3> HIDE DEF P
    <3> QED BY <2>2, <2>3, IntervalInduction
  <2> QED BY <2>1, <2>4
<1> QED BY <1>1, <1>2

(* The ends are those of what comes step.                                  *)
LEMMA EndsOfNext ==
  ASSUME NEW X, NEW step \in [X -> X], NEW T \in SUBSET X, NEW x \in X, x \notin T
  PROVE  Ends(X, step, T, x) = Ends(X, step, T, step[x])
<1>1. ASSUME NEW n \in Nat, NEW z \in T, Path(X, step, n, x, z) PROVE \E m \in Nat : Path(X, step, m, step[x], z)
  <2>1. PICK g \in [0..n -> X] : g[0] = x /\ g[n] = z /\ \A i \in 1..n : g[i] = step[g[i - 1]]
    BY <1>1 DEF Path
  <2>2. n # 0
    BY <2>1
  <2> DEFINE h == [i \in 0..n - 1 |-> g[i + 1]]
  <2>3. h \in [0..n - 1 -> X] /\ h[0] = step[x] /\ h[n - 1] = z
    BY <2>1, <2>2
  <2>4. ASSUME NEW i \in 1..n - 1 PROVE h[i] = step[h[i - 1]]
    <3>1. i + 1 \in 1..n /\ (i + 1) - 1 = i /\ (i - 1) + 1 = i /\ i - 1 \in 0..n - 1 /\ i \in 0..n - 1
      OBVIOUS
    <3> QED BY <2>1, <3>1
  <2>5. Path(X, step, n - 1, step[x], z)
    <3> HIDE DEF h
    <3> QED BY <2>3, <2>4 DEF Path
  <2> QED BY <2>2, <2>5
<1>2. ASSUME NEW n \in Nat, NEW z \in T, Path(X, step, n, step[x], z) PROVE \E m \in Nat : Path(X, step, m, x, z)
  <2>1. PICK h \in [0..n -> X] : h[0] = step[x] /\ h[n] = z /\ \A i \in 1..n : h[i] = step[h[i - 1]]
    BY <1>2 DEF Path
  <2> DEFINE g == [i \in 0..n + 1 |-> IF i = 0 THEN x ELSE h[i - 1]]
  <2>3. g \in [0..n + 1 -> X] /\ g[0] = x /\ g[n + 1] = z
    BY <2>1
  <2>4. ASSUME NEW i \in 1..n + 1 PROVE g[i] = step[g[i - 1]]
    <3>1. CASE i = 1
      BY <2>1, <3>1
    <3>2. CASE i # 1
      <4>1. i - 1 \in 1..n /\ i - 1 \in 0..n + 1 /\ i - 1 # 0 /\ i # 0 /\ i \in 0..n + 1
        BY <3>2
      <4>2. g[i] = h[i - 1] /\ g[i - 1] = h[(i - 1) - 1]
        BY <4>1
      <4> QED BY <2>1, <4>1, <4>2
    <3> QED BY <3>1, <3>2
  <2>5. Path(X, step, n + 1, x, z)
    <3> HIDE DEF g
    <3>1. n + 1 \in Nat
      OBVIOUS
    <3> QED BY <2>3, <2>4 DEF Path
  <2> QED BY <2>5
<1> QED BY <1>1, <1>2 DEF Ends

(* A function that goes on until it has come to an end exists.             *)
Continuing(X, step, T, Y, out) ==
  step \in [X -> X] /\ T \in SUBSET X /\ (\A x \in T : step[x] = x) /\ out \in [X -> Y] /\ Y # {}
Outcomes(X, step, T, Y, out) == {F \in [X -> Y] : \A x \in X : F[x] = IF x \in T THEN out[x] ELSE F[step[x]]}

(* There is one.                                                           *)
LEMMA OutcomesExist ==
  ASSUME NEW X, NEW step, NEW T, NEW Y, NEW out, Continuing(X, step, T, Y, out)
  PROVE  Outcomes(X, step, T, Y, out) # {}
<1>0. step \in [X -> X] /\ T \in SUBSET X /\ (\A x \in T : step[x] = x) /\ out \in [X -> Y] /\ Y # {}
  BY DEF Continuing
<1> PICK y \in Y : TRUE
  BY <1>0
<1> DEFINE End(x) == Ends(X, step, T, x)
           F == [x \in X |-> IF End(x) = {} THEN y ELSE out[CHOOSE z \in End(x) : TRUE]]
<1>1. \A x \in X : End(x) \subseteq X
  BY <1>0 DEF Ends
<1>2. F \in [X -> Y]
  <2> HIDE DEF End
  <2>1. ASSUME NEW x \in X, End(x) # {} PROVE (CHOOSE z \in End(x) : TRUE) \in X
    BY <1>1, <2>1
  <2> QED BY <1>0, <2>1
<1>3. ASSUME NEW x \in T PROVE F[x] = out[x]
  <2>1. Ends(X, step, T, x) = {x}
    BY <1>0, PathOfEnd DEF Ends
  <2> QED BY <1>0, <2>1
<1>4. ASSUME NEW x \in X, x \notin T PROVE F[x] = F[step[x]]
  <2>1. End(x) = End(step[x])
    BY <1>0, <1>4, EndsOfNext
  <2> HIDE DEF End
  <2> QED BY <1>0, <2>1
<1> HIDE DEF F
<1> QED BY <1>2, <1>3, <1>4 DEF Outcomes
=============================================================================
